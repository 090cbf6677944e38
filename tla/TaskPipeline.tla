----------------------------- MODULE TaskPipeline -----------------------------
(* task_pipeline.jsx: one task of illustrator_execute_task, or of a script of *)
(* its own, goes through validate, collect, compute and apply, and again when *)
(* executeTaskWithRetrySafe finds the failure retryable.  The pipeline is the *)
(* code; what the caller's compute and apply functions may do is the          *)
(* environment.  The artwork, its ids and the index are those of Targets.     *)
EXTENDS Targets, Sequences

CONSTANTS Payloads,     \* the tasks that may be submitted
          FirstDoms,    \* the artwork at the start
          Doc,          \* the document that is active, if one is
          MaxAttempts,  \* bound: attempts a retry policy may ask for
          NoTarget      \* a payload without targets

VARIABLES dom,          \* the artwork
          heap,         \* $.global.mcpHeap, no transaction open
          selected,     \* app.selection
          task,         \* payload, attempt, stage and report
          seen          \* history: what the task has done so far

vars == <<dom, heap, selected, task, seen>>

Policies == {"none", "preserve", "opt_in", "always", "assignIds"}
Stages   == {"validate", "collect", "compute", "apply"}
Things   == Items \cup {NoItem}        \* NoItem: an item to be made
Counts   == [Things -> 0..2]
None     == [x \in Things |-> 0]
Held(c)  == {x \in Items : c[x] > 0}

RETRYABLE_CODES == {"R_COLLECT_FAILED", "R_COMPUTE_FAILED"}
Codes == RETRYABLE_CODES \cup
    {"R_APPLY_FAILED", "R_ITEM_OPERATION_FAILED", "R_ELEMENT_NOT_FOUND", "SP_REF_NOT_FOUND",
     "V_INVALID_PAYLOAD", "V_SCHEMA_MISMATCH", "V_INVALID_TARGETS", "V_UNKNOWN_TARGET_TYPE",
     "V_MISSING_REQUIRED_PARAM", "V_INVALID_PARAM_TYPE", "V_INVALID_PARAM_VALUE", "V_NO_DOCUMENT"}
makeTaskError(code, stage) == [code |-> code, stage |-> stage]
TaskError == [code: Codes, stage: Stages]

(* target: a selector, two under anyOf, or none.  batch: no compute and apply *)
(* functions, the operations of params run in the compute stage.  flaws: what *)
(* is wrong with the payload.  open: there is an active document.             *)
TaskSelectors == IdSelectors \cup UuidSelector \cup CachedSelectors \cup [type: {"selection", "grid"}]
TaskTargets   == {NoTarget} \cup TaskSelectors
                   \cup [type: {"compound"}, anyOf: TaskSelectors \X TaskSelectors]
IsPayload(p) ==
    /\ DOMAIN p = {"target", "flaws", "exclude", "creation", "batch", "dryRun", "policy",
                   "stages", "attempts", "open"}
    /\ p.target \in TaskTargets
    /\ p.flaws \subseteq {"task", "version", "timeout", "untyped", "missing", "mistyped", "misvalued"}
    /\ p.exclude \subseteq {"locked"} \cup Forms
    /\ {p.creation, p.batch, p.dryRun, p.open} \subseteq BOOLEAN
    /\ p.policy \in Policies /\ p.stages \subseteq Stages /\ p.attempts \in 1..MaxAttempts

ASSUME TaskAssumption ==
    /\ Doc \in Docs /\ MaxAttempts \in Nat \ {0}
    /\ \A d \in FirstDoms : IsDom(d)
    /\ \A p \in Payloads : IsPayload(p)

TaskTypeOK ==
    /\ IsDom(dom) /\ IsHeap(heap) /\ heap.txn = NoTxn
    /\ selected \subseteq Items
    /\ DOMAIN task = {"stage", "payload", "attempt", "count", "todo", "ok", "errors", "skipped"}
    /\ task.stage \in Stages \cup {"idle", "returned", "over"}
    /\ task.stage # "idle" => IsPayload(task.payload)
    /\ task.attempt \in 0..MaxAttempts
    /\ {task.count, task.todo, task.skipped} \subseteq Counts
    /\ task.ok \in BOOLEAN /\ task.errors \subseteq TaskError
    /\ DOMAIN seen = {"start", "found", "first", "entered", "applied"}
    /\ seen.found \subseteq Items /\ seen.entered \in 0..MaxAttempts
    /\ seen.applied \in Counts

Init ==
    /\ dom \in FirstDoms
    /\ heap \in {EmptyHeap} \cup       \* an earlier batch may have indexed an item
         {HeapOf([u \in {dom.art[i].id} |-> FreshEntry(i)], NoTxn) : i \in Managed(dom, Doc)}
    /\ selected \in SUBSET Live(dom, Doc)
    /\ task = [stage |-> "idle", payload |-> <<>>, attempt |-> 0, count |-> None, todo |-> None,
               ok |-> TRUE, errors |-> {}, skipped |-> None]
    /\ seen = [start |-> dom, found |-> {}, first |-> <<>>, entered |-> 0, applied |-> None]

(* The report of an attempt that ends in this stage, by an exception or an    *)
(* early return.                                                              *)
Returns == [task EXCEPT !.stage = "returned"]
Fails(code, stage) ==
    [Returns EXCEPT !.ok = FALSE, !.errors = @ \cup {makeTaskError(code, stage)}]

Submit ==
    /\ task.stage = "idle"
    /\ \E p \in Payloads : task' = [task EXCEPT !.stage = "validate", !.payload = p, !.attempt = 1]
    /\ UNCHANGED <<dom, heap, selected, seen>>

-----------------------------------------------------------------------------
(* Validate *)

(* The types known at the top of a payload; "grid" is not, though             *)
(* collectTargets takes it.  A near selector is of the type "spatial", whose   *)
(* coord has two values.  An "untyped" target has no type at all.             *)
Demanding == {"layer", "compound", "uuid", "id", "near"}    \* parameters required
Typed     == {"uuid", "id", "near"}                         \* and their types looked at
TargetCodes(p) ==
    IF p.target = NoTarget THEN {}
    ELSE IF "untyped" \in p.flaws THEN {"V_INVALID_TARGETS"}
    ELSE LET type == p.target.type IN
         {c \in {"V_UNKNOWN_TARGET_TYPE"} : type = "grid"}
         \cup {c \in {"V_MISSING_REQUIRED_PARAM"} : type \in Demanding /\ "missing" \in p.flaws}
         \cup {c \in {"V_INVALID_PARAM_TYPE"} : type \in Typed /\ "mistyped" \in p.flaws}
         \cup {c \in {"V_INVALID_PARAM_VALUE"} : type = "near" /\ "misvalued" \in p.flaws}

validatePayload(p) ==
    {c \in {"V_INVALID_PAYLOAD"} : "task" \in p.flaws}
    \cup {c \in {"V_SCHEMA_MISMATCH"} : "version" \in p.flaws}
    \cup {c \in {"V_INVALID_PARAM_TYPE"} : "timeout" \in p.flaws}
    \cup TargetCodes(p)

(* An attempt starts with a report of its own. *)
Fresher == [task EXCEPT !.count = None, !.todo = None, !.ok = TRUE, !.errors = {}, !.skipped = None]
Validate ==
    LET p == task.payload
        codes == validatePayload(p)
    IN /\ task.stage = "validate"
       /\ task' = IF codes # {}
                  THEN [Fresher EXCEPT !.stage = "returned", !.ok = FALSE,
                          !.errors = {makeTaskError(c, "validate") : c \in codes}]
                  ELSE IF ~p.open
                  THEN [Fresher EXCEPT !.stage = "returned", !.ok = FALSE,
                          !.errors = {makeTaskError("V_NO_DOCUMENT", "collect")}]
                  ELSE [Fresher EXCEPT !.stage = IF p.creation THEN "compute" ELSE "collect"]
       /\ UNCHANGED <<dom, heap, selected, seen>>

-----------------------------------------------------------------------------
(* Collect *)

(* One selector: what it finds, or the codes it may fail with.  A selection   *)
(* may hold items that are gone; a grid cell any item on a visible layer.     *)
CollectOne(h, s) ==
    CASE s.type = "selection" -> {Found(h, selected \cap DOMAIN dom.art)}
      [] s.type = "grid" -> {Found(h, S) : S \in SUBSET {i \in Live(dom, Doc) : Visible(dom, i)}}
      [] OTHER -> collectTargets(dom, h, Doc, s)
FailCodes(s) ==
    CASE s.type = "id" ->
           {c \in {"R_ELEMENT_NOT_FOUND"} : \E id \in s.ids : Tagged(dom, Doc, id) = {}}
           \cup {c \in {"R_COLLECT_FAILED"} :
                   \E id \in s.ids : Tagged(dom, Doc, id) # {} /\ ~Grounds(dom, Doc, id, s.pre)}
      [] s.type = "uuid" ->
           IF s.doc = Doc /\ ~(s.items \subseteq Live(dom, Doc)) THEN {"R_ELEMENT_NOT_FOUND"}
           ELSE {"R_COLLECT_FAILED"}
      [] s.type = "near" -> {"SP_REF_NOT_FOUND"}
      [] OTHER -> {"R_COLLECT_FAILED"}

(* What a target finds, item by item: two selectors under anyOf count an item *)
(* both of them find twice.  No target is the selection.                      *)
Selectors(t) == IF t = NoTarget THEN <<[type |-> "selection"]>>
                ELSE IF t.type = "compound" THEN t.anyOf ELSE <<t>>
Collected(t) ==
    LET s == Selectors(t)
        once(S) == [x \in Things |-> IF x \in S THEN 1 ELSE 0]
        first == CollectOne(heap, s[1])
        both(r, q) == [heap |-> q.heap, ok |-> q.ok, by |-> 2,
                       count |-> [x \in Things |-> once(r.items)[x] + once(q.items)[x]]]
    IN UNION {IF ~r.ok \/ Len(s) = 1
              THEN {[heap |-> r.heap, ok |-> r.ok, by |-> 1, count |-> once(r.items)]}
              ELSE {both(r, q) : q \in CollectOne(r.heap, s[2])} : r \in first}

(* exclude: locked items, and guides, which are told by their form. *)
filterItems(c, exclude) ==
    [x \in Things |-> IF x = NoItem THEN c[x]
                      ELSE IF c[x] = 0 THEN 0
                      ELSE IF dom.art[x].locked /\ "locked" \in exclude THEN 0
                      ELSE IF dom.art[x].form \in exclude THEN 0 ELSE c[x]]

(* Mutant: an id is written over under "opt_in", too. *)
GetsIdAnyway(i, policy) ==
    policy \in {"always", "assignIds", "opt_in"} /\ Editable(dom, i)

(* assignItemIdV2 and assignItemId give these items an id; a note that cannot *)
(* be written stays as it is.                                                 *)
GetsId(i, policy) ==
    /\ \/ policy \in {"always", "assignIds"}
       \/ policy = "opt_in" /\ dom.art[i].id = NoId
    /\ Editable(dom, i)

(* The new ids were never in use before.  Items of one pass may get the same: *)
(* an id is the time in milliseconds and one of 10000 numbers.                *)
AssignIds(S, policy) ==
    {[dom EXCEPT !.art = [i \in DOMAIN @ |-> IF i \in DOMAIN f THEN [@[i] EXCEPT !.id = f[i]] ELSE @[i]],
                 !.used = @ \cup Range(f)]
       : f \in [{i \in S : GetsId(i, policy)} -> Fresh(dom)]}

FlawCodes == {"R_COLLECT_FAILED", "V_MISSING_REQUIRED_PARAM", "V_INVALID_PARAM_TYPE",
              "V_INVALID_PARAM_VALUE"}
CollectFails ==
    LET p == task.payload IN
    /\ task.stage = "collect"
    /\ \/ /\ p.flaws # {}               \* a flaw validatePayload does not look for
          /\ \E code \in FlawCodes : task' = Fails(code, "collect")
          /\ heap' = heap
       \/ \E r \in Collected(p.target) :
            /\ ~r.ok /\ heap' = r.heap
            /\ \E code \in FailCodes(Selectors(p.target)[r.by]) : task' = Fails(code, "collect")
    /\ UNCHANGED <<dom, selected, seen>>

(* Mutant: ids are written before the exclusion takes its items out. *)
CollectTaggingAll ==
    LET p == task.payload IN
    /\ task.stage = "collect" /\ p.flaws = {}
    /\ \E r \in {r \in Collected(p.target) : r.ok} :
         LET count == filterItems(r.count, p.exclude) IN
         /\ heap' = r.heap
         /\ dom' \in AssignIds(Held(r.count), p.policy)
         /\ selected' = IF p.dryRun \/ (p.target # NoTarget /\ p.target.type = "selection")
                        THEN selected ELSE {}
         /\ task' = [task EXCEPT !.count = count,
                       !.stage = IF Held(count) = {} THEN "returned" ELSE "compute"]
         /\ seen' = [seen EXCEPT !.found = @ \cup Held(count),
                       !.first = IF @ = <<>> THEN <<count>> ELSE @]

(* The selection is cleared once the targets are known, unless the task names *)
(* it or is a dry run; a task without targets does not name it.               *)
Collect ==
    LET p == task.payload IN
    /\ task.stage = "collect" /\ p.flaws = {}
    /\ \E r \in {r \in Collected(p.target) : r.ok} :
         LET count == filterItems(r.count, p.exclude) IN
         /\ heap' = r.heap
         /\ dom' \in AssignIds(Held(count), p.policy)
         /\ selected' = IF p.dryRun \/ (p.target # NoTarget /\ p.target.type = "selection")
                        THEN selected ELSE {}
         /\ task' = [task EXCEPT !.count = count,
                       !.stage = IF Held(count) = {} THEN "returned" ELSE "compute"]
         /\ seen' = [seen EXCEPT !.found = @ \cup Held(count),
                       !.first = IF @ = <<>> THEN <<count>> ELSE @]

-----------------------------------------------------------------------------
(* Compute *)

(* A compute function plans an action for every item, and a new item when     *)
(* there was nothing to collect; safeExecute leaves out those it fails for.   *)
(* A dry run ends here, and so does a task without an apply function.         *)
Compute ==
    LET p == task.payload IN
    /\ task.stage = "compute" /\ ~p.batch
    /\ \E S \in SUBSET Held(task.count) :
         LET planned == [x \in Things |-> IF x \in S THEN 0
                                          ELSE IF x = NoItem /\ p.creation THEN 1 ELSE task.count[x]]
         IN /\ task' = [task EXCEPT
                 !.stage = IF p.dryRun THEN "returned" ELSE "apply",
                 !.todo = planned,
                 !.skipped = [x \in Things |-> IF x \in S THEN task.skipped[x] + task.count[x]
                                               ELSE task.skipped[x]],
                 !.errors = @ \cup {makeTaskError("R_ITEM_OPERATION_FAILED", "compute") : i \in S}]
            /\ seen' = [seen EXCEPT !.entered = IF p.dryRun THEN @ ELSE @ + 1]
    /\ UNCHANGED <<dom, heap, selected>>

ComputeThrows ==
    /\ task.stage = "compute"
    /\ task' = Fails("R_COMPUTE_FAILED", "compute")
    /\ UNCHANGED <<dom, heap, selected, seen>>

(* compute_soc_batch.jsx: executeOpBatch runs here, dry run or not.  It may   *)
(* create, repaint or remove items and still fail, for it goes on after a     *)
(* failure; the report gets the first error.                                  *)
OpenLayers == {l \in LayersOf(dom, Doc) : LayerOpen(dom, l) /\ CanAdd(dom, 1)}
CanChange  == {i \in Live(dom, Doc) : Editable(dom, i)}
BatchEffects ==
    \/ UNCHANGED <<dom, heap>>
    \/ \E i \in CanChange :
         /\ dom' = Remove(dom, {i}) \/ \E s \in Styles : dom' = Repaint(dom, {i}, s)
         /\ heap' = heap
    \/ \E id \in Fresh(dom), l \in OpenLayers :
         /\ dom' = Add(dom, New(id, "path", l))
         /\ heap' = Register(heap, id, Newest(dom))
BatchErrors ==
    {makeTaskError("V_INVALID_PAYLOAD", "validate"), makeTaskError("R_COLLECT_FAILED", "collect"),
     makeTaskError("R_ELEMENT_NOT_FOUND", "collect"), makeTaskError("R_APPLY_FAILED", "apply")}
ComputeBatch ==
    /\ task.stage = "compute" /\ task.payload.batch
    /\ BatchEffects
    /\ \/ task' = Returns
       \/ \E e \in BatchErrors :
            task' = [Returns EXCEPT !.ok = FALSE, !.errors = @ \cup {e}]
       \/ task' = Fails("R_COMPUTE_FAILED", "compute")
    /\ UNCHANGED <<selected, seen>>

-----------------------------------------------------------------------------
(* Apply *)

Acts(x) == IF x = NoItem
           THEN {Add(dom, New(NoId, "path", l)) : l \in OpenLayers}
           ELSE IF Editable(dom, x) THEN {Repaint(dom, {x}, s) : s \in Styles} ELSE {}
Apply ==
    /\ task.stage = "apply"
    /\ \E x \in Things :
         /\ task.todo[x] > 0
         /\ dom' \in Acts(x)
         /\ task' = [task EXCEPT !.todo[x] = @ - 1]
         /\ seen' = [seen EXCEPT !.applied[x] = @ + 1]
    /\ UNCHANGED <<heap, selected>>

(* An action that throws is caught by safeExecute, or ends the stage. *)
SkipItem ==
    /\ task.stage = "apply"
    /\ \E i \in Held(task.todo) :
         task' = [task EXCEPT !.todo[i] = @ - 1, !.skipped[i] = @ + 1,
                    !.errors = @ \cup {makeTaskError("R_ITEM_OPERATION_FAILED", "apply")}]
    /\ UNCHANGED <<dom, heap, selected, seen>>

(* Mutant: the failure is recorded, the report stays ok. *)
ApplyThrowsOk ==
    /\ task.stage = "apply"
    /\ task' = [Returns EXCEPT !.errors = @ \cup {makeTaskError("R_APPLY_FAILED", "apply")}]
    /\ UNCHANGED <<dom, heap, selected, seen>>

ApplyThrows ==
    /\ task.stage = "apply"
    /\ task' = Fails("R_APPLY_FAILED", "apply")
    /\ UNCHANGED <<dom, heap, selected, seen>>

ApplyEnds ==
    /\ task.stage = "apply" /\ task.todo = None
    /\ task' = Returns
    /\ UNCHANGED <<dom, heap, selected, seen>>

-----------------------------------------------------------------------------
(* Retry *)

(* Mutant: the stage alone decides. *)
isRetryableStage(e, stages) == e.stage \in stages

isRetryable(e, stages) ==
    /\ e.stage \in stages
    /\ e.code \in RETRYABLE_CODES

(* Mutant: one attempt more than the policy allows. *)
RetryOnceMore ==
    LET again == /\ ~task.ok /\ task.attempt <= task.payload.attempts
                 /\ \E e \in task.errors : isRetryable(e, task.payload.stages)
    IN /\ task.stage = "returned"
       /\ task' = IF again THEN [task EXCEPT !.stage = "validate", !.attempt = @ + 1]
                  ELSE [task EXCEPT !.stage = "over"]
       /\ UNCHANGED <<dom, heap, selected, seen>>

(* executeTask has returned to executeTaskWithRetrySafe, or, for one attempt, *)
(* to the script.                                                             *)
Retry ==
    LET again == /\ ~task.ok /\ task.attempt < task.payload.attempts
                 /\ \E e \in task.errors : isRetryable(e, task.payload.stages)
    IN /\ task.stage = "returned"
       /\ task' = IF again THEN [task EXCEPT !.stage = "validate", !.attempt = @ + 1]
                  ELSE [task EXCEPT !.stage = "over"]
       /\ UNCHANGED <<dom, heap, selected, seen>>

Next ==
    \/ Submit \/ Validate
    \/ CollectFails \/ Collect
    \/ Compute \/ ComputeThrows \/ ComputeBatch
    \/ Apply \/ SkipItem \/ ApplyThrows \/ ApplyEnds
    \/ Retry

Spec == Init /\ [][Next]_vars

-----------------------------------------------------------------------------
(* Correctness *)

(* Whatever stages a retry policy names, "apply" included, and however items  *)
(* fail on the way, the apply function is entered once and changes an item no *)
(* more often than the targets list it: a retry never applies twice (Case 8   *)
(* of "living test/living_test.md").                                          *)
AppliedOnce ==
    /\ seen.entered <= 1
    /\ \A i \in Items : seen.applied[i] <= task.count[i]
    /\ seen.applied[NoItem] <= 1

(* A retry works on the items the first attempt found, and does not lose them *)
(* by what collecting did: the ids it wrote, the selection it cleared.  This  *)
(* needs an id policy that keeps ids, and targets that name the selection or  *)
(* do without it; a search near an item may come out differently.             *)
KeepsIds(p)   == p.policy \notin {"always", "assignIds"}
SteadyTarget(t) ==
    /\ t # NoTarget
    /\ \/ t.type = "selection"
       \/ \A k \in DOMAIN Selectors(t) : Selectors(t)[k].type \notin {"near", "grid", "selection"}
RetryFindsSame ==
    LET p == task.payload IN
    seen.first # <<>> /\ ~p.batch /\ KeepsIds(p) /\ SteadyTarget(p.target) =>
        /\ task.stage \in {"compute", "apply"} => task.count = seen.first[1]
        /\ \A e \in task.errors : e.stage # "collect"

(* An item whose id changed in the course of a task is one of its targets,    *)
(* not one that exclude left out, and had no id or was to get another one     *)
(* (Case 9 of "living test/living_test.md").                                  *)
OnlyTargetsTagged ==
    \A i \in DOMAIN dom.art \cap DOMAIN seen.start.art :
        dom.art[i].id # seen.start.art[i].id =>
            /\ i \in seen.found
            /\ seen.start.art[i].id # NoId => ~KeepsIds(task.payload)

(* A task that reports ok has applied an action to every item of its last     *)
(* collection as often as the targets list it, or counts it as skipped, and   *)
(* made the item it was to make - unless it was a dry run or ran a batch      *)
(* instead: no failure on the way hides an item that was never reached.       *)
OkAccountsForAll ==
    LET p == task.payload IN
    task.stage = "over" /\ task.ok /\ ~p.dryRun /\ ~p.batch =>
        /\ \A i \in Items : seen.applied[i] + task.skipped[i] = task.count[i]
        /\ seen.applied[NoItem] = IF p.creation THEN 1 ELSE 0

-----------------------------------------------------------------------------
(* What a comment claims *)

(* task_pipeline.jsx:485: a dry run "must leave the document untouched". *)
DryRunUntouched ==
    task.stage # "idle" => (task.payload.dryRun => dom = seen.start)
=============================================================================
