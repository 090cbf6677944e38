------------------------------ MODULE Handlers ------------------------------
(* The operation handlers of ops_element, ops_group, ops_layer, ops_style,    *)
(* ops_text, ops_align and ops_measure.jsx.  Each operator is the set of      *)
(* outcomes of one call on the document d: what it leaves of the artwork and  *)
(* the heap, whether it reports success, reports failure or throws, and the   *)
(* ids its result names.  Items are made with one style and form.             *)
EXTENDS Targets

CONSTANTS NoLayer,      \* params.layer absent
          Longer        \* [Ids -> SUBSET Ids], the ids that begin with an id

ASSUME LongerAssumption == /\ Longer \in [Ids -> SUBSET Ids]
                            /\ \A u \in Ids : u \in Longer[u]

Out(res, dom, h, ids) == [res |-> res, dom |-> dom, heap |-> h, ids |-> ids]
Done(dom, h)       == Out("ok", dom, h, {})
Reports(dom, h, S) == Out("ok", dom, h, S)
Fails(dom, h)      == Out("fails", dom, h, {})
Throws(dom, h)     == Out("throws", dom, h, {})

Open(dom, T)  == {i \in T : Editable(dom, i)}
Dead(dom, T)  == T \ DOMAIN dom.art # {}
IdsOf(dom, T) == {dom.art[i].id : i \in T \cap DOMAIN dom.art} \ {NoId}

-----------------------------------------------------------------------------
(* ops_element.jsx *)

TargetLayer(dom, d, layer) == IF layer = NoLayer THEN dom.active[d] ELSE layer

(* What follows the choice of a layer: none of that name is a failure, a      *)
(* closed one throws at the first item added to it.                           *)
OnLayer(dom, h, d, layer, outcomes) ==
    LET l == TargetLayer(dom, d, layer)
    IN IF l \notin LayersOf(dom, d) THEN {Fails(dom, h)}
       ELSE IF ~LayerOpen(dom, l) THEN {Throws(dom, h)}
       ELSE outcomes

(* A bad payload is refused before the item exists or leaves an item without  *)
(* an id; a bad style leaves one that carries the id and is not reported.     *)
element_create(dom, h, d, id, layer, kind) ==
    LET made(tag) == Add(dom, New(tag, kind, TargetLayer(dom, d, layer)))
    IN OnLayer(dom, h, d, layer,
         {Reports(made(id), h, {id}), Fails(dom, h),
          Throws(made(NoId), h), Throws(made(id), h)})

(* Paths that are too short are skipped; an exception loses the report of     *)
(* those already made and may leave one without an id.                        *)
element_create_multi(dom, h, d, ids, layer) ==
    LET l == TargetLayer(dom, d, layer)
        made(S) == AddAll(dom, S, l)
    IN {Fails(dom, h)} \cup
       OnLayer(dom, h, d, layer,
         (UNION {{Reports(made(S), h, S), Throws(made(S), h)} : S \in SUBSET ids})
         \cup {Throws(Add(made(S), New(NoId, "path", l)), h) : S \in (SUBSET ids) \ {ids}})

(* The geometry comes from the session stash, where the key may be gone. *)
element_create_multi_by_ref(dom, h, d, ids, layer) ==
    {Fails(dom, h)} \cup element_create_multi(dom, h, d, ids, layer)

(* One item per template instance: an instance that fails leaves its clone    *)
(* without an id.  The master is removed again in every case.                 *)
CreateFromTemplate(dom, h, d, ids, layer) ==
    LET l == TargetLayer(dom, d, layer)
    IN IF l \notin LayersOf(dom, d) \/ ~LayerOpen(dom, l) THEN {Fails(dom, h)}
       ELSE {Fails(dom, h)} \cup
            {Reports(AddAll(dom, S, l), h, S) : S \in SUBSET ids} \cup
            {Reports(Add(AddAll(dom, S, l), New(NoId, "path", l)), h, S) : S \in (SUBSET ids) \ {ids}}

(* The items form: every item in a try of its own, its id reported as soon as *)
(* it is written, so that nothing throws and nothing goes unreported.         *)
element_create_batch(dom, h, d, ids, layer) ==
    LET l == TargetLayer(dom, d, layer)
    IN CreateFromTemplate(dom, h, d, ids, layer) \cup
       IF l \in LayersOf(dom, d) /\ ~LayerOpen(dom, l) THEN {Done(dom, h)} ELSE {}

(* Targets that throw are only warned about; an item may be repainted and     *)
(* then fail to move to its new layer.                                        *)
element_modify(dom, h, d, T, style, form, layer) ==
    LET seen == Reshape(Repaint(dom, Open(dom, T), style), Open(dom, T), form)
    IN IF T = {} THEN {Fails(dom, h)}
       ELSE {Done(IF layer \in LayersOf(dom, d) /\ LayerOpen(dom, layer)
                  THEN Move(seen, Open(dom, T), {}, layer) ELSE seen, h)}

(* Every target is tombstoned and then removed; one that is locked keeps its  *)
(* tombstone and its place.  Members of a group among the targets are reached *)
(* before the group (collected order, taken backwards) or after it is gone.   *)
element_delete(dom, h, d, T) ==
    LET gone == Open(dom, T)
        reached == {T, {i \in T : i \in DOMAIN dom.art /\ dom.art[i].in \cap gone = {}}}
    IN IF T = {} THEN {Done(dom, h)}
       ELSE {Out(IF gone = {} THEN "fails" ELSE "ok", Remove(dom, gone),
                 Tombstone(h, IdsOf(dom, R)), {}) : R \in reached}

(* The new item is built in a sandbox group, moved out of it, and only then   *)
(* the old one is tombstoned, removed and, if it was locked, its lock put on  *)
(* the new one.  A failure after the move leaves both, before or after the    *)
(* tombstone, or the new one only; the lock of an old item is put back.       *)
element_replace(dom, h, d, T, id) ==
    LET i == CHOOSE t \in T : TRUE
        old == dom.art[i]
        unlocked == [dom EXCEPT !.art[i].locked = FALSE]
        fresh(locked) == [New(id, "path", old.layer) EXCEPT !.locked = locked]
        tombed == Tombstone(h, {old.id} \ {NoId})
        swapped(locked) == Remove(Add(dom, fresh(locked)), {i})
    IN CASE Cardinality(T) # 1 -> {Fails(dom, h)}
         [] Cardinality(T) = 1 /\ Dead(dom, T) -> {Throws(dom, h)}
         [] Cardinality(T) = 1 /\ ~Dead(dom, T) ->
              IF ~Editable(unlocked, i) THEN {Throws(dom, h), Fails(dom, h)}
              ELSE {Fails(dom, h),
                    Fails(Add(dom, fresh(FALSE)), h), Fails(Add(dom, fresh(FALSE)), tombed),
                    Fails(swapped(FALSE), tombed), Fails(swapped(old.locked), tombed),
                    Reports(swapped(old.locked), tombed, {id})}

-----------------------------------------------------------------------------
(* ops_group.jsx *)

(* The group is made on the layer of one of the targets and takes in those    *)
(* that can be moved; pre-existing items thereby become part of a created one.*)
group_create(dom, h, d, T, id) ==
    IF T = {} THEN {Fails(dom, h)}
    ELSE UNION {
      IF i \notin DOMAIN dom.art THEN {Throws(dom, h)}
      ELSE IF ~LayerOpen(dom, dom.art[i].layer) THEN {Throws(dom, h)}
      ELSE LET g == Newest(dom)
               made == Add(dom, New(id, "group", dom.art[i].layer))
           IN {Reports(MoveInto(made, Open(dom, T), g), h, {id})}
      : i \in T}

(* Children leave a group one by one; a locked one ends that group's turn with *)
(* those before it outside.  A target that is gone throws, the groups before  *)
(* it (G) are done.                                                           *)
Children(dom, g) == {i \in DOMAIN dom.art : dom.art[i].in = dom.art[g].in \cup {g}}
Freed(dom, groups, S) ==        \* the children S of groups, with what they hold, get out
    LET leaves(i, g) == g \in groups /\ (dom.art[i].in \cup {i}) \cap S \cap Children(dom, g) # {}
        around(i) == {g \in dom.art[i].in : ~leaves(i, g)}
    IN [dom EXCEPT !.art = [i \in DOMAIN @ |-> [@[i] EXCEPT !.in = around(i)]]]
group_ungroup(dom, h, d, T) ==
    LET groups == {g \in Open(dom, T) : dom.art[g].kind = "group"}
        free(G)  == UNION {Children(dom, g) : g \in G}
        easy(G)  == {g \in G : Children(dom, g) \subseteq Open(dom, Items)}
        left(G, S) == Remove(Freed(dom, G, free(easy(G)) \cup S), easy(G))
        some(G)  == SUBSET (free(G) \cap Open(dom, Items))
    IN IF Dead(dom, T) THEN UNION {{Throws(left(G, S), h) : S \in some(G)} : G \in SUBSET groups}
       ELSE {Out(IF easy(groups) # {} \/ T = {} THEN "ok" ELSE "fails", left(groups, S), h, {}) :
               S \in some(groups)}

(* Each of mask and contents (found) is the first item, in an order the model *)
(* leaves open, whose note contains the id, be it as the beginning of a       *)
(* longer one.  A member that cannot be moved - a group cannot move into one  *)
(* inside itself - leaves a group without an id around the others.  A dry run *)
(* changes nothing; the id it was given counts as created all the same.       *)
Clip(dom, h, found, mask, id, dry) ==
    LET m == found[mask]
        S == {found[u] : u \in DOMAIN found}
        g == Newest(dom)
        made(tag) == Add(dom, [New(tag, "group", dom.art[m].layer)
                                 EXCEPT !.in = dom.art[m].in])
        movable == Open(dom, S) \ dom.art[m].in
    IN IF dom.art[m].kind \notin {"path", "compound"} THEN {Fails(dom, h)}
       ELSE IF dry THEN {Reports(dom, h, {id})}
       ELSE IF movable = S THEN {Reports(MoveInto(made(id), S, g), h, {id})}
       ELSE IF ~LayerOpen(dom, dom.art[m].layer) THEN {Fails(dom, h)}
       ELSE {Fails(MoveInto(made(NoId), R, g), h) : R \in SUBSET movable}

Matching(dom, d, u) == UNION {Tagged(dom, d, v) : v \in Longer[u]}
Finds(dom, d, ids) ==
    {f \in [ids -> DOMAIN dom.art] : \A u \in ids : f[u] \in Matching(dom, d, u)}
clip_create(dom, h, d, mask, contents, id, dry) ==
    LET ids == contents \cup {mask}
    IN IF contents = {} \/ mask \in contents \/ Finds(dom, d, ids) = {} THEN {Fails(dom, h)}
       ELSE UNION {Clip(dom, h, found, mask, id, dry) : found \in Finds(dom, d, ids)}

(* zorder_front, _back, _forward and _backward: the stacking order is not     *)
(* part of the model.                                                         *)
zorder(dom, h, d, T) == {Done(dom, h)}

-----------------------------------------------------------------------------
(* ops_layer.jsx *)

(* Idempotent; a reference layer that does not exist is noticed only after    *)
(* the layer was added.                                                       *)
layer_create(dom, h, d, name, ref) ==
    LET made == [dom EXCEPT !.layers = Over(Only(name, [locked |-> FALSE, visible |-> TRUE]), @),
                            !.active[d] = name]
    IN IF name \in LayersOf(dom, d) THEN {Done(dom, h)}
       ELSE IF ref = NoLayer \/ ref \in LayersOf(made, d) THEN {Done(made, h)}
       ELSE {Fails(made, h)}

NamedLayer(dom, h, d, name, outcome) ==
    IF name \in LayersOf(dom, d) THEN {outcome} ELSE {Fails(dom, h)}
layer_activate(dom, h, d, name) ==
    NamedLayer(dom, h, d, name, Done([dom EXCEPT !.active[d] = name], h))
layer_lock(dom, h, d, name, locked) ==
    NamedLayer(dom, h, d, name, Done([dom EXCEPT !.layers[name].locked = locked], h))
layer_visible(dom, h, d, name, visible) ==
    NamedLayer(dom, h, d, name, Done([dom EXCEPT !.layers[name].visible = visible], h))

(* The items of the layer go without a tombstone; the last layer stays. *)
layer_delete(dom, h, d, name) ==
    LET others == LayersOf(dom, d) \ {name}
        less(l) == [Remove(dom, {i \in DOMAIN dom.art : dom.art[i].layer = name}) EXCEPT
                      !.layers = Restrict(@, DOMAIN @ \ {name}),
                      !.active[d] = IF @ = name THEN l ELSE @]
    IN IF name \notin LayersOf(dom, d) \/ others = {} THEN {Fails(dom, h)}
       ELSE {Done(less(l), h) : l \in others}

-----------------------------------------------------------------------------
(* ops_style.jsx, ops_text.jsx *)

Paint(dom, h, T, style) == Done(Repaint(dom, Open(dom, T), style), h)

style_set_fill(dom, h, d, T, style) ==        \* fails without a color
    {Paint(dom, h, T, style)} \cup IF T = {} THEN {} ELSE {Fails(dom, h)}
style_set_stroke(dom, h, d, T, style)    == {Paint(dom, h, T, style)}
style_set_opacity(dom, h, d, T, style)   == {Paint(dom, h, T, style)}
style_remove_fill(dom, h, d, T, style)   == {Paint(dom, h, T, style)}
style_remove_stroke(dom, h, d, T, style) == {Paint(dom, h, T, style)}

(* The style of an item found through the heap. *)
style_clone(dom, h, d, T, from) ==
    LET outcome(r) ==
          IF r.item = NoItem THEN Fails(dom, r.heap)
          ELSE Out(IF Open(dom, T) = {} THEN "fails" ELSE "ok",
                   Repaint(dom, Open(dom, T), dom.art[r.item].style), r.heap, {})
    IN IF T = {} THEN {Done(dom, h)}
       ELSE {outcome(r) : r \in Resolve(h, dom, d, from, FALSE) \cup Resolve(h, dom, d, from, TRUE)}

(* A gradient that is found by its name is changed in place, and with it every *)
(* item of the document painted with it (style `was`).                         *)
style_set_gradient(dom, h, d, T, style, was) ==
    LET shared == {i \in Live(dom, d) : dom.art[i].style = was /\ was \notin Plain}
    IN {Fails(dom, h),
        IF T = {} THEN Done(dom, h)
        ELSE Done(Repaint(dom, Open(dom, T) \cup shared, style), h)}

text_create(dom, h, d, id, layer) ==
    OnLayer(dom, h, d, layer,
      {Reports(Add(dom, New(id, "text", TargetLayer(dom, d, layer))), h, {id})})

Frames(dom, T) == {i \in T \cap DOMAIN dom.art : dom.art[i].kind = "text"}
text_set_content(dom, h, d, T, form) ==
    IF T = {} THEN {Fails(dom, h)}
    ELSE IF Dead(dom, T) THEN {Throws(Reshape(dom, S, form), h) : S \in SUBSET Open(dom, Frames(dom, T))}
    ELSE {Done(Reshape(dom, Open(dom, Frames(dom, T)), form), h)}
text_set_style(dom, h, d, T, form) ==
    IF Dead(dom, T) THEN {Throws(Reshape(dom, S, form), h) : S \in SUBSET Open(dom, Frames(dom, T))}
    ELSE {Done(Reshape(dom, Open(dom, Frames(dom, T)), form), h)}

-----------------------------------------------------------------------------
(* ops_align.jsx *)

(* The axis is a coordinate, the artboard, the targets themselves (all read)  *)
(* or an item found through the heap.                                         *)
align(dom, h, d, T, style) ==
    IF Cardinality(T) < 2 THEN {Done(dom, h)}
    ELSE {Paint(dom, h, T, style)} \cup IF Dead(dom, T) THEN {Throws(dom, h)} ELSE {}
align_to_key(dom, h, d, T, style, key) ==
    IF Cardinality(T) < 2 THEN {Done(dom, h)}
    ELSE {IF r.item = NoItem THEN Fails(dom, r.heap) ELSE Paint(dom, r.heap, T, style) :
            r \in Resolve(h, dom, d, key, FALSE) \cup Resolve(h, dom, d, key, TRUE)}

(* Nothing is caught here: the first target that cannot be written ends it. *)
distribute(dom, h, d, T, style) ==
    IF Cardinality(T) < 3 THEN {Done(dom, h)}
    ELSE IF Open(dom, T) = T THEN {Paint(dom, h, T, style)}
    ELSE {Throws(Repaint(dom, S, style), h) : S \in SUBSET Open(dom, T)}

-----------------------------------------------------------------------------
(* ops_measure.jsx *)

Assertion(dom, h, holds) == {IF holds THEN Done(dom, h) ELSE Fails(dom, h)}
assert_count(dom, h, d, T, n)    == Assertion(dom, h, Cardinality(T) = n)
assert_exists(dom, h, d, ids)    == Assertion(dom, h, \A id \in ids : Tagged(dom, d, id) # {})
assert_order(dom, h, d)          == {Done(dom, h), Fails(dom, h)}
assert_bounds(dom, h, d, T)      == IF Dead(dom, T) THEN {Throws(dom, h)} ELSE {Done(dom, h), Fails(dom, h)}
measure(dom, h, d, T)            == {IF Dead(dom, T) THEN Throws(dom, h) ELSE Done(dom, h)}

(* Whatever is expected, a target that is not a text frame does not have it.  *)
assert_text(dom, h, d, T) ==
    IF Dead(dom, T) THEN {Throws(dom, h), Fails(dom, h)}
    ELSE {Fails(dom, h)} \cup (IF Frames(dom, T) = T THEN {Done(dom, h)} ELSE {})

(* With repair the assertion writes the expected style to the items that      *)
(* differ; on a compound path the write is reported and has no effect.        *)
assert_style(dom, h, d, T, style, repair) ==
    LET bad == {i \in T : i \notin DOMAIN dom.art \/ dom.art[i].style # style}
        mended == {i \in Open(dom, bad) : dom.art[i].kind # "compound"}
    IN IF repair /\ Dead(dom, bad) THEN {Throws(Repaint(dom, S, style), h) : S \in SUBSET mended}
       ELSE IF repair THEN {Out(IF Open(dom, bad) = bad THEN "ok" ELSE "fails", Repaint(dom, mended, style), h, {})}
       ELSE Assertion(dom, h, bad = {})
assert_alignment(dom, h, d, T, style, repair) ==
    IF Cardinality(T) < 2 THEN {Done(dom, h)}
    ELSE IF Dead(dom, T) THEN {Throws(dom, h)}
    ELSE {Done(dom, h)} \cup
         {Out(IF repair /\ Open(dom, S) = S THEN "ok" ELSE "fails",
              IF repair THEN Repaint(dom, Open(dom, S), style) ELSE dom, h, {}) :
            S \in {R \in SUBSET T : R # {} /\ R # T}}
=============================================================================
