---------------------------- MODULE MCTaskPipeline ----------------------------
(* Small instances of TaskPipeline. *)
EXTENDS TaskPipeline, TLC

OneDoc  == [l \in Layers |-> "doc"]
MCBlank == [style |-> "flat", form |-> "small"]

Drawn(id, form, locked) ==
    [id |-> id, style |-> "flat", form |-> form, kind |-> "path", in |-> {},
     layer |-> "L1", locked |-> locked]
Start(a, b) ==
    [art |-> <<a, b>>, born |-> 2, layers |-> "L1" :> [locked |-> FALSE, visible |-> TRUE],
     active |-> "doc" :> "L1", used |-> {a.id, b.id} \ {NoId}]
(* An item with an id, and one without or with the same, locked or a guide. *)
TaggedAndOther ==
    {Start(Drawn(1, "small", FALSE), Drawn(id, form, locked)) :
        id \in {1, NoId}, form \in {"small", "guide"}, locked \in BOOLEAN}

Plainly == {[type |-> "id", ids |-> {1}, pre |-> AnyForm], [type |-> "id", ids |-> {2}, pre |-> AnyForm],
            [type |-> "selection"], [type |-> "layer", layer |-> "L1"], [type |-> "near", id |-> 1]}
Either  == [type |-> "compound", anyOf |-> <<[type |-> "selection"], [type |-> "all"]>>]
AllOf   == [type |-> "compound", anyOf |-> <<[type |-> "id", ids |-> {1}, pre |-> AnyForm], [type |-> "grid"]>>]
AnyTarget == Plainly \cup {NoTarget, Either, AllOf, [type |-> "grid"],
                           [type |-> "uuid", doc |-> "doc", items |-> {2}]}
Retries == {{"collect"}, {"collect", "compute"}, {"collect", "compute", "apply"}}

WithFunctions ==
    [target: AnyTarget, flaws: {{}}, exclude: {{}, {"locked", "guide"}}, creation: {FALSE}, batch: {FALSE},
     dryRun: BOOLEAN, policy: Policies, stages: Retries, attempts: {2}, open: {TRUE}]
Creations ==
    [target: {NoTarget}, flaws: {{}}, exclude: {{}}, creation: {TRUE}, batch: BOOLEAN,
     dryRun: BOOLEAN, policy: {"none"}, stages: Retries, attempts: {1, 3}, open: {TRUE}]
Batches ==
    [target: Plainly, flaws: {{}}, exclude: {{}}, creation: {FALSE}, batch: {TRUE},
     dryRun: BOOLEAN, policy: {"none", "opt_in"}, stages: Retries, attempts: {2}, open: {TRUE}]
Flawed ==
    [target: Plainly \cup {NoTarget, Either},
     flaws: {{"task"}, {"version"}, {"timeout"}, {"missing"}, {"mistyped"}, {"misvalued"}},
     exclude: {{}}, creation: {FALSE}, batch: {FALSE}, dryRun: {FALSE}, policy: {"none"},
     stages: {{"validate", "collect"}}, attempts: {3}, open: BOOLEAN]
Untyped == {[p EXCEPT !.flaws = {"untyped"}] : p \in {p \in Flawed : p.target # NoTarget}}
MCPayloads == WithFunctions \cup Creations \cup Batches \cup Flawed \cup Untyped
=============================================================================
