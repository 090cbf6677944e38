------------------------------- MODULE Targets -------------------------------
(* resources/scripts/targets.jsx: from the selector of an operation to the    *)
(* page items its handler gets, and snapshot.jsx, which saves and restores    *)
(* items by their ids.                                                        *)
EXTENDS Heap

CONSTANTS AnyForm       \* a precondition or guard that asks for nothing

(* The selectors an operation may carry.  "id" and "uuid" are never cached    *)
(* within a batch, the others are.                                            *)
IdSelectors  == [type: {"id"}, ids: (SUBSET Ids) \ {{}}, pre: Forms \cup {AnyForm}]
UuidSelector == [type: {"uuid"}, doc: Docs, items: {{i} : i \in Items}]
CachedSelectors == [type: {"all"}] \cup [type: {"layer"}, layer: Layers]
                     \cup [type: {"near"}, id: Ids]

Found(h, S) == [ok |-> TRUE, heap |-> h, items |-> S]
Refused(h)  == [ok |-> FALSE, heap |-> h, items |-> {}]

(* A grounded id names exactly one item, visible and editable with all that   *)
(* encloses it, which still meets the precondition.                           *)
Grounds(dom, d, id, pre) ==
    \E i \in Tagged(dom, d, id) :
        /\ Tagged(dom, d, id) = {i}
        /\ Editable(dom, i)
        /\ pre \in {AnyForm, dom.art[i].form}
resolveGroundedIdTargets(dom, h, d, sel) ==
    IF \A id \in sel.ids : Grounds(dom, d, id, sel.pre)
    THEN Found(h, UNION {Tagged(dom, d, id) : id \in sel.ids})
    ELSE Refused(h)

(* A native uuid is looked up in the document it was read from; only the      *)
(* item's own lock and its layer are looked at.                               *)
resolveUuidTargets(dom, h, d, sel) ==
    IF /\ sel.doc = d
       /\ \A i \in sel.items : /\ i \in Live(dom, d)
                               /\ ~dom.art[i].locked
                               /\ LayerOpen(dom, dom.art[i].layer)
    THEN Found(h, sel.items) ELSE Refused(h)

(* nearTo: of the items on visible layers any may be near and not hidden, the  *)
(* reference itself is left out.                                              *)
Visible(dom, i) == dom.layers[dom.art[i].layer].visible
collectNear(dom, h, d, id) ==
    UNION {IF r.item = NoItem THEN {Refused(r.heap)}
           ELSE {Found(r.heap, S) : S \in SUBSET ({i \in Live(dom, d) : Visible(dom, i)} \ {r.item})}
           : r \in Resolve(h, dom, d, id, FALSE) \cup Resolve(h, dom, d, id, TRUE)}

collectTargets(dom, h, d, sel) ==
    CASE sel.type = "id"    -> {resolveGroundedIdTargets(dom, h, d, sel)}
      [] sel.type = "uuid"  -> {resolveUuidTargets(dom, h, d, sel)}
      [] sel.type = "all"   -> {Found(h, Live(dom, d))}
      [] sel.type = "layer" ->
           {IF sel.layer \in LayersOf(dom, d)
            THEN Found(h, {i \in Live(dom, d) : dom.art[i].layer = sel.layer}) ELSE Refused(h)}
      [] sel.type = "near"  -> collectNear(dom, h, d, sel.id)

(* Mutant: the snapshot also lists the items without an id. *)
captureEverything(dom, d) ==
    {[id |-> dom.art[i].id, kind |-> dom.art[i].kind, style |-> dom.art[i].style] : i \in Live(dom, d)}

(* A snapshot lists the managed items of a document; restoreSnapshot writes    *)
(* their style back when serializeColor knew it, never their form.            *)
Saved == [id: Ids, kind: Kinds, style: Styles]
captureSnapshot(dom, d) ==
    {[id |-> dom.art[i].id, kind |-> dom.art[i].kind, style |-> dom.art[i].style] : i \in Managed(dom, d)}

(* Items are found again by id; duplicates stop the whole restore.  A locked  *)
(* item throws, and paint written to a compound path, a group or a text does  *)
(* not reach it.                                                              *)
restoreSnapshot(dom, d, snap) ==
    IF ~UniqueIds(dom, d) THEN dom
    ELSE LET saved(i) == {s \in snap : s.id = dom.art[i].id}
             back(i)  == CHOOSE s \in saved(i) : TRUE
             again    == {i \in Managed(dom, d) :
                            /\ saved(i) # {} /\ Editable(dom, i)
                            /\ back(i).kind = "path" /\ dom.art[i].kind = "path"
                            /\ back(i).style \in Plain}
         IN [dom EXCEPT !.art = [i \in DOMAIN @ |->
               IF i \in again THEN [@[i] EXCEPT !.style = back(i).style] ELSE @[i]]]
=============================================================================
