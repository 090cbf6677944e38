------------------------------- MODULE OpBatch -------------------------------
(* ops_core.jsx (executeOpBatch, executeSubOps, rollbackBatch) and            *)
(* ops_compound.jsx: batches of operations that one script engine runs one    *)
(* after the other, on artwork the user edits in between.  The engine is      *)
(* single-threaded, so an operation is one step; what the steps of a batch    *)
(* share is its context, the heap transaction and the artwork itself.         *)
EXTENDS Handlers, Sequences

CONSTANTS Tasks,          \* the operations a batch may use first, second, ...
          Selectors,      \* the targets they name
          Guards,         \* when/unless: the forms that are kept, or AnyForm
          Modes,          \* how batches end at a failure
          CompoundModes,  \* the same for compound operations
          NoSelector, NoCompound,
          FirstDoms,      \* the artwork at the start
          MaxOps,         \* bound: operations of a batch, sub-operations included
          MaxBatches,     \* bound: batches
          MaxEdits        \* bound: edits by the user

ASSUME OpBatchAssumption ==
    /\ Modes \subseteq {"loose", "strict", "undo", "snapshot"} /\ Modes # {}
    /\ CompoundModes \subseteq {"loose", "undo", "snapshot"}
    /\ {MaxOps, MaxBatches, MaxEdits} \subseteq Nat
    /\ Selectors \subseteq IdSelectors \cup UuidSelector \cup CachedSelectors
    /\ NoSelector \notin IdSelectors \cup UuidSelector \cup CachedSelectors
    /\ \A d \in FirstDoms : IsDom(d)

VARIABLES dom,      \* the artwork
          heap,     \* $.global.mcpHeap and _heapTxn
          doc,      \* the active document
          batch,    \* the context, the results so far and the report of a batch
          comp,     \* the compound operation under way
          room      \* batches and edits to come

vars == <<dom, heap, doc, batch, comp, room>>

(* mode "loose" continues after a failure, "strict" stops, "undo" and         *)
(* "snapshot" also roll back; a snapshot that cannot be captured is "undo".   *)
(* past is Illustrator's undo stack since the start, one artwork for every    *)
(* operation that changed it; born, rolled and fanned are history variables:  *)
(* the items there were at the start, what the last step rolled back, and     *)
(* whether an operation fanned out.                                           *)
NothingRolled == [pre |-> {}, created |-> {}]

IsBatch(b) ==
    /\ DOMAIN b = {"phase", "mode", "pre", "created", "undo", "n", "ok", "born", "fanned",
                   "cache", "past", "rolled"}
    /\ b.phase \in {"idle", "run", "ending", "ended", "escaped"} /\ b.mode \in Modes
    /\ b.pre \subseteq Saved /\ b.created \subseteq Ids
    /\ b.n \in 0..MaxOps + 1 /\ b.undo \in 0..b.n /\ b.born \in 0..MaxItems
    /\ b.ok \in BOOLEAN /\ b.fanned \in BOOLEAN
    /\ DOMAIN b.cache \subseteq Selectors
    /\ \A s \in DOMAIN b.cache : b.cache[s] \subseteq Items
    /\ b.past \in Seq(Range(b.past)) /\ \A d \in Range(b.past) : IsDom(d)
Compound == [mode: CompoundModes, pre: SUBSET Saved, created: SUBSET Ids, undo: 0..MaxOps,
             ok: BOOLEAN, over: BOOLEAN, prev: SUBSET Ids, from: 0..MaxOps]
ASSUME CompoundAssumption == NoCompound \notin Compound

(* Every variable has its type, no reference leads out of it, and a compound  *)
(* counts no more undo steps than it ran operations, within a batch under way.*)
TypeOK ==
    /\ IsDom(dom) /\ IsHeap(heap) /\ doc \in Docs
    /\ IsBatch(batch)
    /\ comp # NoCompound => /\ comp \in Compound /\ batch.phase = "run"
                            /\ comp.from + comp.undo <= batch.n /\ batch.n <= MaxOps
    /\ room \in [batches: 0..MaxBatches, edits: 0..MaxEdits]

Init ==
    /\ dom \in FirstDoms
    /\ heap = EmptyHeap
    /\ doc \in Docs
    /\ batch = [phase |-> "idle", mode |-> CHOOSE m \in Modes : TRUE, pre |-> {},
                created |-> {}, undo |-> 0, n |-> 0, ok |-> TRUE, born |-> 0,
                fanned |-> FALSE, cache |-> <<>>, past |-> <<>>, rolled |-> NothingRolled]
    /\ comp = NoCompound
    /\ room = [batches |-> MaxBatches, edits |-> MaxEdits]

-----------------------------------------------------------------------------
(* A batch *)

Idle == batch.phase \in {"idle", "ended", "escaped"}
Ready == batch.phase = "run" /\ batch.n < MaxOps
Can(task) == Ready /\ task \in Tasks[batch.n + 1] /\ (comp # NoCompound => ~comp.over)

Begin ==
    /\ Idle /\ room.batches > 0
    /\ \E mode \in Modes :
         batch' = [phase |-> "run", mode |-> mode,
                   pre |-> IF mode = "snapshot" THEN captureSnapshot(dom, doc) ELSE {},
                   created |-> {}, undo |-> 0, n |-> 0, ok |-> TRUE, born |-> dom.born,
                   fanned |-> FALSE, cache |-> <<>>, past |-> <<>>, rolled |-> NothingRolled]
    /\ heap' = BeginTxn(heap)
    /\ room' = [room EXCEPT !.batches = @ - 1]
    /\ UNCHANGED <<dom, doc, comp>>

(* Mutant: the transaction opened at the start is not closed on this path. *)
RefuseRecomputeOpen ==
    /\ Idle
    /\ heap' = BeginTxn(heap)
    /\ UNCHANGED <<dom, doc, batch, comp, room>>

(* A batch asked to recompute without confirmation, or without a journal. *)
RefuseRecompute ==
    /\ Idle
    /\ heap' = RollbackTxn(BeginTxn(heap))
    /\ UNCHANGED <<dom, doc, batch, comp, room>>

(* A recompute removes every managed item before the batches of the journal   *)
(* run again, or fails at one it cannot remove and writes the saved styles    *)
(* back to those that are left.  Its transaction stays open: the first batch  *)
(* of the replay discards it, after a failure nothing does.                   *)
RecomputeClears ==
    /\ Idle /\ room.batches > 0
    /\ LET removable == {i \in Managed(dom, doc) : Editable(dom, i)}
       IN \E S \in SUBSET removable :
            /\ S = Managed(dom, doc) \/ removable # Managed(dom, doc)
            /\ dom' = restoreSnapshot(Remove(dom, S), doc, captureSnapshot(dom, doc))
    /\ heap' = BeginTxn(heap)
    /\ batch' = [batch EXCEPT !.phase = "escaped", !.ok = FALSE]
    /\ room' = [room EXCEPT !.batches = @ - 1]
    /\ UNCHANGED <<doc, comp>>

(* The heap transaction is committed whatever the outcome. *)
Finish ==
    /\ batch.phase \in {"run", "ending"} /\ comp = NoCompound
    /\ batch' = [batch EXCEPT !.phase = "ended", !.pre = {}, !.cache = <<>>, !.past = <<>>,
                              !.rolled = NothingRolled]
    /\ heap' = CommitTxn(heap)
    /\ UNCHANGED <<dom, doc, comp, room>>

-----------------------------------------------------------------------------
(* The outcome of an operation *)

OP_CLASS(task) ==
    CASE task \in {"assert_count", "assert_exists", "assert_order", "assert_bounds",
                   "assert_text", "assert_style", "assert_alignment", "measure"} -> "readonly"
      [] task = "layer_activate" -> "session"
      [] OTHER -> "doc"
Undoable(task) == IF OP_CLASS(task) = "doc" THEN 1 ELSE 0

(* What rollbackBatch makes of an artwork d and a heap h. *)
DeleteCreated(d, created) ==
    Remove(d, {i \in TopLevel(d, doc) : d.art[i].id \in created /\ Editable(d, i)})
Undone(d, past, undo) ==
    IF undo = 0 \/ past = <<>> THEN d
    ELSE past[IF undo < Len(past) THEN Len(past) - undo + 1 ELSE 1]
(* Mutant: styles are restored while the created items are still there. *)
RestoreFirst(d, past, b) ==
    IF b.mode = "snapshot" THEN DeleteCreated(restoreSnapshot(d, doc, b.pre), b.created)
    ELSE Undone(d, past, b.undo)
rollbackBatch(d, past, b) ==
    IF b.mode = "snapshot" THEN restoreSnapshot(DeleteCreated(d, b.created), doc, b.pre)
    ELSE Undone(d, past, b.undo)
RolledHeap(h, b) == IF b.mode = "snapshot" /\ b.created # {} THEN RollbackTxn(h) ELSE h
Rolled(b) == [pre |-> b.pre, created |-> b.created]

Pushed(d) == IF d # dom /\ "undo" \in {batch.mode} \cup
                 (IF comp = NoCompound THEN {} ELSE {comp.mode})
             THEN Append(batch.past, dom) ELSE batch.past

(* The bookkeeping every finished operation shares; cache is what its targets *)
(* were found to be.                                                          *)
Step(d, h, cache) ==
    [batch EXCEPT !.n = @ + 1, !.cache = cache, !.past = Pushed(d), !.rolled = NothingRolled]

Passes(task, out, cache) ==
    LET ids == out.ids IN
    /\ dom' = out.dom /\ heap' = out.heap
    /\ IF comp = NoCompound
       THEN /\ batch' = [Step(out.dom, out.heap, cache) EXCEPT
                           !.created = @ \cup ids, !.undo = @ + Undoable(task),
                           !.fanned = @ \/ task = "fan_out"]
            /\ comp' = comp
       ELSE /\ batch' = [Step(out.dom, out.heap, cache) EXCEPT !.fanned = @ \/ task = "fan_out"]
            /\ comp' = [comp EXCEPT !.created = @ \cup ids, !.undo = @ + Undoable(task),
                                    !.prev = ids]

(* An operation of the batch itself fails: before its handler runs nothing is *)
(* rolled back, even when the batch asks for it.                              *)
BatchFails(d, h, cache, late) ==
    LET b == [Step(d, h, cache) EXCEPT
                !.ok = FALSE, !.phase = IF batch.mode = "loose" THEN "run" ELSE "ending"]
        back == late /\ batch.mode \in {"undo", "snapshot"}
    IN /\ comp' = NoCompound
       /\ dom' = IF back THEN rollbackBatch(d, b.past, b) ELSE d
       /\ heap' = IF back THEN RolledHeap(h, b) ELSE h
       /\ batch' = IF back /\ b.mode = "snapshot" THEN [b EXCEPT !.rolled = Rolled(b)] ELSE b

(* A sub-operation fails: an atomic compound rolls back by itself. *)
SubOpFails(d, h, cache) ==
    LET b == Step(d, h, cache)
        back == comp.mode = "snapshot" \/ (comp.mode = "undo" /\ comp.created # {})
    IN /\ comp' = [comp EXCEPT !.ok = FALSE, !.prev = {}, !.over = comp.mode # "loose"]
       /\ dom' = IF back THEN rollbackBatch(d, b.past, comp) ELSE d
       /\ heap' = IF back THEN RolledHeap(h, comp) ELSE h
       /\ batch' = IF comp.mode = "snapshot" THEN [b EXCEPT !.rolled = Rolled(comp)] ELSE b

Failing(d, h, cache, late) ==
    IF comp = NoCompound THEN BatchFails(d, h, cache, late) ELSE SubOpFails(d, h, cache)

(* An exception outside every try: it leaves the batch with the transaction   *)
(* open, or ends the compound as a failed operation.                          *)
Escapes(h, cache) ==
    IF comp = NoCompound
    THEN /\ batch' = [Step(dom, h, cache) EXCEPT !.phase = "escaped", !.ok = FALSE,
                        !.pre = {}, !.cache = <<>>, !.past = <<>>]
         /\ heap' = h
         /\ UNCHANGED <<dom, comp>>
    ELSE BatchFails(dom, h, cache, TRUE)

-----------------------------------------------------------------------------
(* From an operation to its handler *)

(* resolvePrevTokens builds the id selectors of sub-operations anew, and the  *)
(* whole operation with them: precondition and guard are left out.            *)
Rebuilds(sel) == comp # NoCompound /\ sel \in IdSelectors
Selector(sel) == IF Rebuilds(sel) THEN [sel EXCEPT !.pre = AnyForm] ELSE sel
Guard(sel, guard) == IF Rebuilds(sel) THEN AnyForm ELSE guard

(* resolveTargets: none asked for, found before, or collected now.            *)
resolveTargets(sel) ==
    IF sel = NoSelector THEN {Found(heap, {})}
    ELSE IF sel \in DOMAIN batch.cache THEN {Found(heap, batch.cache[sel])}
    ELSE collectTargets(dom, heap, doc, sel)
Cached(sel, r) == IF sel \in CachedSelectors THEN Over(Only(sel, r.items), batch.cache) ELSE batch.cache

filterByGuard(T, guard) ==
    IF guard = AnyForm THEN T ELSE {i \in T : dom.art[i].form \in guard}

(* The operation that runs: selector, guard, and the targets that are left    *)
(* for the handler, whose outcomes are given by outs.                         *)
Targets(sel) == {r \in resolveTargets(Selector(sel)) : r.ok}
Run(task, sel, guard, outs(_, _)) ==
    /\ Can(task)
    /\ \E r \in Targets(sel) :
         LET g == Guard(sel, guard)
             T == filterByGuard(r.items, g)
         IN /\ g # AnyForm => r.items \subseteq DOMAIN dom.art /\ T # {}
            /\ \E out \in outs(T, r.heap) :
                 IF out.res = "ok" THEN Passes(task, out, Cached(sel, r))
                 ELSE Failing(out.dom, out.heap, Cached(sel, r), TRUE)
            /\ UNCHANGED <<doc, room>>

(* Parameters or targets of the wrong shape. *)
Invalid ==
    /\ Ready /\ (comp # NoCompound => ~comp.over)
    /\ Failing(dom, heap, batch.cache, FALSE)
    /\ UNCHANGED <<doc, room>>

CollectFails(sel) ==
    /\ Can("collect_fails")
    /\ \E r \in resolveTargets(Selector(sel)) \ Targets(sel) : Failing(dom, r.heap, batch.cache, FALSE)
    /\ UNCHANGED <<doc, room>>

(* An unknown property, comparator or type is found out at the first target.  *)
GuardFails(sel) ==
    /\ Can("guard_fails") /\ ~Rebuilds(sel)
    /\ \E r \in Targets(sel) : Failing(dom, r.heap, Cached(sel, r), FALSE)
    /\ UNCHANGED <<doc, room>>

(* Nothing is left to do.  The id a skipped operation was given counts as     *)
(* created for a compound, which looks at its results only.                   *)
GuardSkips(sel, guard) ==
    /\ Can("guard_skips") /\ Guard(sel, guard) # AnyForm
    /\ \E r \in Targets(sel), ids \in {{}} \cup (IF comp = NoCompound THEN {} ELSE {{id} : id \in Ids}) :
         /\ r.items \subseteq DOMAIN dom.art
         /\ filterByGuard(r.items, guard) = {}
         /\ Passes("measure", Reports(dom, r.heap, ids), Cached(sel, r))
    /\ UNCHANGED <<doc, room>>

(* A guard reads a cached target that an earlier operation removed. *)
GuardThrows(sel, guard) ==
    /\ Can("guard_throws") /\ Guard(sel, guard) # AnyForm
    /\ \E r \in Targets(sel) :
         /\ ~(r.items \subseteq DOMAIN dom.art)
         /\ Escapes(r.heap, Cached(sel, r))
    /\ UNCHANGED <<doc, room>>

(* $prev and $prevAll: the ids the sub-operation before reported. *)
PrevUnavailable ==
    /\ Can("compound") /\ comp # NoCompound /\ comp.prev = {}
    /\ SubOpFails(dom, heap, batch.cache)
    /\ UNCHANGED <<doc, room>>
PrevSelectors == IF comp = NoCompound THEN {} ELSE IF comp.prev = {} THEN {}
                 ELSE {[type |-> "id", ids |-> comp.prev, pre |-> AnyForm]}

EnterCompound ==
    /\ Can("compound") /\ comp = NoCompound
    /\ \E mode \in CompoundModes :
         comp' = [mode |-> mode, pre |-> IF mode = "snapshot" THEN captureSnapshot(dom, doc) ELSE {},
                  created |-> {}, undo |-> 0, ok |-> TRUE, over |-> FALSE, prev |-> {},
                  from |-> batch.n]
    /\ UNCHANGED <<dom, heap, doc, batch, room>>

(* Mutant: the ids made inside a compound are not handed on to the batch. *)
LeaveCompoundForgetful ==
    /\ comp # NoCompound /\ batch.n > comp.from
    /\ IF ~comp.ok THEN BatchFails(dom, heap, batch.cache, TRUE)
       ELSE /\ batch' = [Step(dom, heap, batch.cache) EXCEPT !.undo = @ + 1]
            /\ comp' = NoCompound
            /\ UNCHANGED <<dom, heap>>
    /\ UNCHANGED <<doc, room>>

LeaveCompound ==
    /\ comp # NoCompound /\ batch.n > comp.from
    /\ IF ~comp.ok THEN BatchFails(dom, heap, batch.cache, TRUE)
       ELSE /\ batch' = [Step(dom, heap, batch.cache) EXCEPT
                           !.created = @ \cup comp.created, !.undo = @ + 1]
            /\ comp' = NoCompound
            /\ UNCHANGED <<dom, heap>>
    /\ UNCHANGED <<doc, room>>

NestedCompound ==
    /\ Can("compound") /\ comp # NoCompound
    /\ SubOpFails(dom, heap, batch.cache)
    /\ UNCHANGED <<doc, room>>

-----------------------------------------------------------------------------
(* The operations *)

Sels   == Selectors \cup PrevSelectors
Where  == Layers \cup {NoLayer}
Some(S) == (SUBSET S) \ {{}}
Room(n) == CanAdd(dom, n)

ElementCreate == \E id \in Ids, layer \in Where, kind \in {"path", "text"} :
    Room(1) /\ Run("element_create", NoSelector, AnyForm,
                   LAMBDA T, h : element_create(dom, h, doc, id, layer, kind))
ElementCreateMulti == \E ids \in Some(Ids), layer \in Where :
    Room(Cardinality(ids)) /\ Run("element_create_multi", NoSelector, AnyForm,
                   LAMBDA T, h : element_create_multi(dom, h, doc, ids, layer))
ElementCreateMultiByRef == \E ids \in Some(Ids), layer \in Where :
    Room(Cardinality(ids)) /\ Run("element_create_multi_by_ref", NoSelector, AnyForm,
                   LAMBDA T, h : element_create_multi_by_ref(dom, h, doc, ids, layer))
ElementCreateBatch == \E ids \in Some(Ids), layer \in Where :
    Room(Cardinality(ids)) /\ Run("element_create_batch", NoSelector, AnyForm,
                   LAMBDA T, h : element_create_batch(dom, h, doc, ids, layer))
ElementModify == \E sel \in Sels, g \in Guards, style \in Styles, form \in Forms, layer \in Where :
    Run("element_modify", sel, g, LAMBDA T, h : element_modify(dom, h, doc, T, style, form, layer))
ElementDelete == \E sel \in Sels, g \in Guards :
    Run("element_delete", sel, g, LAMBDA T, h : element_delete(dom, h, doc, T))
ElementReplace == \E sel \in Sels, id \in Ids :
    Room(1) /\ Run("element_replace", sel, AnyForm, LAMBDA T, h : element_replace(dom, h, doc, T, id))
GroupCreate == \E sel \in Sels, g \in Guards, id \in Ids :
    Room(1) /\ Run("group_create", sel, g, LAMBDA T, h : group_create(dom, h, doc, T, id))
GroupUngroup == \E sel \in Sels :
    Run("group_ungroup", sel, AnyForm, LAMBDA T, h : group_ungroup(dom, h, doc, T))
ClipCreate == \E mask \in Ids, contents \in SUBSET Ids, id \in Ids, dry \in BOOLEAN :
    Room(1) /\ Run("clip_create", NoSelector, AnyForm,
                   LAMBDA T, h : clip_create(dom, h, doc, mask, contents, id, dry))
ZOrder == \E sel \in Sels, g \in Guards :
    Run("zorder", sel, g, LAMBDA T, h : zorder(dom, h, doc, T))

LayerCreate == \E name \in Layers, ref \in Where :
    DocOf[name] = doc /\ Run("layer_create", NoSelector, AnyForm,
                             LAMBDA T, h : layer_create(dom, h, doc, name, ref))
LayerActivate == \E name \in Layers :
    Run("layer_activate", NoSelector, AnyForm, LAMBDA T, h : layer_activate(dom, h, doc, name))
LayerLock == \E name \in Layers, locked \in BOOLEAN :
    Run("layer_lock", NoSelector, AnyForm, LAMBDA T, h : layer_lock(dom, h, doc, name, locked))
LayerVisible == \E name \in Layers, visible \in BOOLEAN :
    Run("layer_visible", NoSelector, AnyForm, LAMBDA T, h : layer_visible(dom, h, doc, name, visible))
LayerDelete == \E name \in Layers :
    Run("layer_delete", NoSelector, AnyForm, LAMBDA T, h : layer_delete(dom, h, doc, name))

StyleSetFill == \E sel \in Sels, g \in Guards, style \in Styles :
    Run("style_set_fill", sel, g, LAMBDA T, h : style_set_fill(dom, h, doc, T, style))
StyleSetStroke == \E sel \in Sels, g \in Guards, style \in Styles :
    Run("style_set_stroke", sel, g, LAMBDA T, h : style_set_stroke(dom, h, doc, T, style))
StyleSetOpacity == \E sel \in Sels, g \in Guards, style \in Styles :
    Run("style_set_opacity", sel, g, LAMBDA T, h : style_set_opacity(dom, h, doc, T, style))
StyleRemoveFill == \E sel \in Sels, style \in Styles :
    Run("style_remove_fill", sel, AnyForm, LAMBDA T, h : style_remove_fill(dom, h, doc, T, style))
StyleRemoveStroke == \E sel \in Sels, style \in Styles :
    Run("style_remove_stroke", sel, AnyForm, LAMBDA T, h : style_remove_stroke(dom, h, doc, T, style))
StyleClone == \E sel \in Sels, from \in Ids :
    Run("style_clone", sel, AnyForm, LAMBDA T, h : style_clone(dom, h, doc, T, from))
StyleSetGradient == \E sel \in Sels, style \in Styles \ Plain, was \in Styles \ Plain :
    Run("style_set_gradient", sel, AnyForm, LAMBDA T, h : style_set_gradient(dom, h, doc, T, style, was))

TextCreate == \E id \in Ids, layer \in Where :
    Room(1) /\ Run("text_create", NoSelector, AnyForm, LAMBDA T, h : text_create(dom, h, doc, id, layer))
TextSetContent == \E sel \in Sels, form \in Forms :
    Run("text_set_content", sel, AnyForm, LAMBDA T, h : text_set_content(dom, h, doc, T, form))
TextSetStyle == \E sel \in Sels, form \in Forms :
    Run("text_set_style", sel, AnyForm, LAMBDA T, h : text_set_style(dom, h, doc, T, form))

Align == \E sel \in Sels, style \in Styles :
    Run("align", sel, AnyForm, LAMBDA T, h : align(dom, h, doc, T, style))
AlignToKey == \E sel \in Sels, style \in Styles, key \in Ids :
    Run("align_to_key", sel, AnyForm, LAMBDA T, h : align_to_key(dom, h, doc, T, style, key))
Distribute == \E sel \in Sels, style \in Styles :
    Run("distribute", sel, AnyForm, LAMBDA T, h : distribute(dom, h, doc, T, style))

AssertCount == \E sel \in Sels, n \in 0..2 :
    Run("assert_count", sel, AnyForm, LAMBDA T, h : assert_count(dom, h, doc, T, n))
AssertExists == \E ids \in SUBSET Ids :
    Run("assert_exists", NoSelector, AnyForm, LAMBDA T, h : assert_exists(dom, h, doc, ids))
AssertOrder == Run("assert_order", NoSelector, AnyForm, LAMBDA T, h : assert_order(dom, h, doc))
AssertBounds == \E sel \in Sels :
    Run("assert_bounds", sel, AnyForm, LAMBDA T, h : assert_bounds(dom, h, doc, T))
AssertText == \E sel \in Sels :
    Run("assert_text", sel, AnyForm, LAMBDA T, h : assert_text(dom, h, doc, T))
AssertStyle == \E sel \in Sels, style \in Styles, repair \in BOOLEAN :
    Run("assert_style", sel, AnyForm, LAMBDA T, h : assert_style(dom, h, doc, T, style, repair))
AssertAlignment == \E sel \in Sels, style \in Styles, repair \in BOOLEAN :
    Run("assert_alignment", sel, AnyForm, LAMBDA T, h : assert_alignment(dom, h, doc, T, style, repair))
Measure == \E sel \in Sels :
    Run("measure", sel, AnyForm, LAMBDA T, h : measure(dom, h, doc, T))

(* An operation whose parameters hold field descriptors runs once for every   *)
(* target: every run creates an item, the first one's id is reported.         *)
FanOut == \E sel \in Sels, ids \in SUBSET Fresh(dom), id \in Ids :
    /\ id \in ids /\ Cardinality(ids) > 1 /\ Room(Cardinality(ids))
    /\ Run("fan_out", sel, AnyForm, LAMBDA T, h :
         IF Cardinality(T) # Cardinality(ids) THEN {}
         ELSE OnLayer(dom, h, doc, NoLayer,
                {Reports(AddAll(dom, ids, dom.active[doc]), h, {id}),
                 Fails(AddAll(dom, ids \ {id}, dom.active[doc]), h),
                 Throws(AddAll(dom, {id}, dom.active[doc]), h)}))

-----------------------------------------------------------------------------
(* Between batches *)

Edit(d) == /\ Idle /\ room.edits > 0
           /\ dom' = d
           /\ room' = [room EXCEPT !.edits = @ - 1]
           /\ UNCHANGED <<heap, doc, batch, comp>>
UserDeletes == \E i \in Live(dom, doc) : Edit(Remove(dom, {i}))
UserDuplicates == \E i \in TopLevel(dom, doc) :
    Room(1) /\ Edit(Add(dom, [dom.art[i] EXCEPT !.locked = FALSE]))
UserLocks == \E i \in Live(dom, doc) : Edit([dom EXCEPT !.art[i].locked = ~@])
UserRetags == \E i \in Live(dom, doc), id \in Ids \cup {NoId} :
    Edit([dom EXCEPT !.art[i].id = id, !.used = @ \cup ({id} \ {NoId})])
(* geometry.jsx, for scripts of their own: an item with a generated id, put in *)
(* the index as the last step but the name and tag, whose failure removes it.  *)
drawPathPoints(id, kind, layer) ==
    LET made == Add(dom, New(id, kind, layer))
    IN /\ Idle /\ room.edits > 0 /\ Room(1)
       /\ id \in Fresh(dom) /\ layer \in LayersOf(dom, doc) /\ LayerOpen(dom, layer)
       /\ dom' \in {made, Remove(made, {Newest(dom)})}
       /\ heap' = Register(heap, id, Newest(dom))
       /\ room' = [room EXCEPT !.edits = @ - 1]
       /\ UNCHANGED <<doc, batch, comp>>
UserSwitches ==
    /\ Idle /\ room.edits > 0
    /\ doc' \in Docs \ {doc}
    /\ room' = [room EXCEPT !.edits = @ - 1]
    /\ UNCHANGED <<dom, heap, batch, comp>>

OpFails == \/ Invalid
           \/ \E sel \in Sels : CollectFails(sel) \/ GuardFails(sel)
           \/ \E sel \in Sels, g \in Guards : GuardThrows(sel, g)
           \/ PrevUnavailable
           \/ NestedCompound
ElementOp == \/ ElementCreate \/ ElementCreateMulti \/ ElementCreateMultiByRef
             \/ ElementCreateBatch \/ ElementModify \/ ElementDelete \/ ElementReplace \/ FanOut
GroupOp == GroupCreate \/ GroupUngroup \/ ClipCreate \/ ZOrder
LayerOp == LayerCreate \/ LayerActivate \/ LayerLock \/ LayerVisible \/ LayerDelete
StyleOp == \/ StyleSetFill \/ StyleSetStroke \/ StyleSetOpacity \/ StyleRemoveFill
           \/ StyleRemoveStroke \/ StyleClone \/ StyleSetGradient
TextOp == TextCreate \/ TextSetContent \/ TextSetStyle
ArrangeOp == Align \/ AlignToKey \/ Distribute
AssertOp == \/ AssertCount \/ AssertExists \/ AssertOrder \/ AssertBounds
            \/ AssertText \/ AssertStyle \/ AssertAlignment \/ Measure
UserEdit == \/ UserDeletes \/ UserDuplicates \/ UserLocks \/ UserRetags \/ UserSwitches
            \/ \E id \in Ids, kind \in {"path", "compound"}, layer \in Layers :
                  drawPathPoints(id, kind, layer)

Next ==
    \/ Begin \/ RefuseRecompute \/ RecomputeClears \/ Finish
    \/ EnterCompound \/ LeaveCompound
    \/ OpFails \/ (\E sel \in Sels, g \in Guards : GuardSkips(sel, g))
    \/ ElementOp \/ GroupOp \/ LayerOp \/ StyleOp \/ TextOp \/ ArrangeOp \/ AssertOp
    \/ UserEdit

Spec == Init /\ [][Next]_vars

-----------------------------------------------------------------------------
(* Correctness *)

(* While a transaction is open, an id it tombstoned is not in the index, and  *)
(* what it may put back it did tombstone: a later operation of the batch      *)
(* cannot reach through the heap an item an earlier one deleted (heap.jsx),   *)
(* through however many lookups and rebuilds.                                 *)
IndexSound ==
    heap.txn # NoTxn => /\ heap.txn.tomb \cap DOMAIN heap.index = {}
                        /\ DOMAIN heap.txn.deleted \subseteq heap.txn.tomb

(* Whatever the index has gone through - items deleted or retagged by the     *)
(* user, batches that failed, another document - heapResolve gives an item    *)
(* that exists and carries the id it was asked for, or none.                  *)
ResolveRight ==
    \A u \in Ids, glitch \in BOOLEAN :
        \A r \in Resolve(heap, dom, doc, u, glitch) :
            r.item # NoItem => r.item \in DOMAIN dom.art /\ dom.art[r.item].id = u

(* Only an exception that leaves executeOpBatch, or a recompute under way or  *)
(* given up, leaves its transaction open.                                     *)
TxnClosed == batch.phase \in {"idle", "ended"} => heap.txn = NoTxn

(* When a failure, of the batch or of an atomic compound, has rolled back by  *)
(* snapshot: no item reported as created is left where rollbackBatch looks,   *)
(* and, unless ids are or were ambiguous, every path found again by an id of  *)
(* the snapshot that can be written has the style it had.                     *)
RollbackExact ==
    LET r == batch.rolled
    IN /\ \A i \in TopLevel(dom, doc) :
            dom.art[i].id \in r.created => ~Editable(dom, i)
       /\ UniqueIds(dom, doc) /\ (\A s, t \in r.pre : s.id = t.id => s = t) =>
            \A s \in r.pre, i \in Live(dom, doc) :
               /\ dom.art[i].id = s.id /\ Editable(dom, i)
               /\ s.kind = "path" /\ dom.art[i].kind = "path" /\ s.style \in Plain
               => dom.art[i].style = s.style

(* A batch that reports success names every managed item it made and kept, if *)
(* nothing in it fanned out: a caller finds its items again by createdIds.    *)
CreatedReported ==
    batch.phase = "ended" /\ batch.ok /\ ~batch.fanned /\ room.edits = MaxEdits =>
        \A i \in DOMAIN dom.art :
            i > batch.born => dom.art[i].id \in batch.created \cup {NoId}

-----------------------------------------------------------------------------
(* What comments and documents claim *)

(* ops_core.jsx:912 "options.rollback - Undo all completed ops on failure".   *)
FailureUndoesAll ==
    batch.phase = "ending" /\ batch.mode = "snapshot" =>
        \A i \in TopLevel(dom, doc) :
            i > batch.born /\ Editable(dom, i) => dom.art[i].id \notin batch.created
=============================================================================
