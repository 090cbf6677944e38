--------------------------- MODULE OpBatchProofs ---------------------------
(***************************************************************************)
(* OpBatch for every artwork, batch and number of batches.  Every handler  *)
(* of Handlers gives a sound outcome (Sound); what an operation does with  *)
(* it is one of two steps, Passes or Failing, for all of them (Landed); so *)
(* the inductive invariant OpInv is proved for these two and for the few   *)
(* actions that are not operations.                                        *)
(***************************************************************************)
EXTENDS OpBatch, ArtworkProofs

(* A heap with the types of Heap and nothing deleted in its index.            *)
Good(h) == IsHeap(h) /\ HeapOK(h)

(* An outcome of a handler: the artwork has grown by items it names, or, when *)
(* it fails or throws, by any; the heap stays sound.                          *)
Sound(dm, out) ==
    /\ Grown(dm, out.dom, IF out.res = "ok" THEN out.ids ELSE Ids)
    /\ out.ids \subseteq Ids /\ Good(out.heap)

-----------------------------------------------------------------------------
(* Outcomes *)

LEMMA ReportsSound ==
    ASSUME NEW dm, NEW new, NEW h, Good(h), NEW S \in SUBSET Ids, Grown(dm, new, S)
    PROVE  /\ Sound(dm, Reports(new, h, S)) /\ Sound(dm, Fails(new, h))
           /\ Sound(dm, Throws(new, h))
<1>1. Grown(dm, new, Ids)
  BY GrownMore
<1> QED
  BY <1>1 DEF Sound, Reports, Fails, Throws, Out

LEMMA OutSound ==
    ASSUME NEW dm, NEW new, NEW h, Good(h), Grown(dm, new, {}), NEW res
    PROVE  Sound(dm, Out(res, new, h, {}))
<1>1. Grown(dm, new, Ids)
  BY GrownMore
<1> QED
  BY <1>1 DEF Sound, Out

LEMMA DoneSound ==
    ASSUME NEW dm, NEW new, NEW h, Good(h), Grown(dm, new, {})
    PROVE  Sound(dm, Done(new, h)) /\ Sound(dm, Fails(new, h)) /\ Sound(dm, Throws(new, h))
BY OutSound DEF Done, Fails, Throws

LEMMA NothingSound ==
    ASSUME NEW dm, IsDom(dm), NEW h, Good(h)
    PROVE  Sound(dm, Done(dm, h)) /\ Sound(dm, Fails(dm, h)) /\ Sound(dm, Throws(dm, h))
BY GrownSelf, DoneSound

LEMMA PaintSound ==
    ASSUME NEW dm, IsDom(dm), NEW h, Good(h), NEW S, NEW style \in Styles
    PROVE  /\ Sound(dm, Done(Repaint(dm, S, style), h)) /\ Sound(dm, Fails(Repaint(dm, S, style), h))
           /\ Sound(dm, Throws(Repaint(dm, S, style), h))
BY RepaintGrown, DoneSound

LEMMA ShapeSound ==
    ASSUME NEW dm, IsDom(dm), NEW h, Good(h), NEW S, NEW form \in Forms
    PROVE  /\ Sound(dm, Done(Reshape(dm, S, form), h)) /\ Sound(dm, Fails(Reshape(dm, S, form), h))
           /\ Sound(dm, Throws(Reshape(dm, S, form), h))
BY ReshapeGrown, DoneSound

LEMMA OpenItems ==
    ASSUME NEW dm, NEW T
    PROVE  /\ Open(dm, T) \subseteq T /\ Open(dm, T) \subseteq DOMAIN dm.art
           /\ \A d : LayersOf(dm, d) \subseteq DOMAIN dm.layers
BY DEF Open, Editable, LayersOf

-----------------------------------------------------------------------------
(* ops_element.jsx *)

LEMMA OnLayerSound ==
    ASSUME NEW dm, IsDom(dm), NEW h, Good(h), NEW d, NEW layer, NEW outcomes,
           TargetLayer(dm, d, layer) \in DOMAIN dm.layers => \A o \in outcomes : Sound(dm, o),
           NEW out \in OnLayer(dm, h, d, layer, outcomes)
    PROVE  Sound(dm, out)
BY NothingSound, OpenItems DEF OnLayer

LEMMA ElementCreateSound ==
    ASSUME NEW dm, IsDom(dm), NEW h, Good(h), NEW d, NEW id \in Ids, NEW layer,
           NEW kind \in Kinds, CanAdd(dm, 1), NEW out \in element_create(dm, h, d, id, layer, kind)
    PROVE  Sound(dm, out)
<1> DEFINE l == TargetLayer(dm, d, layer)
           made(tag) == Add(dm, New(tag, kind, l))
           outs == {Reports(made(id), h, {id}), Fails(dm, h), Throws(made(NoId), h), Throws(made(id), h)}
<1>1. ASSUME l \in DOMAIN dm.layers, NEW o \in outs PROVE Sound(dm, o)
  <2>1. Grown(dm, made(id), {id} \ {NoId}) /\ Grown(dm, made(NoId), {NoId} \ {NoId})
    BY <1>1, NewGrown
  <2>2. Grown(dm, made(id), {id}) /\ Grown(dm, made(NoId), {})
    BY <2>1, GrownMore
  <2> HIDE DEF made
  <2> QED
    BY <2>2, ReportsSound, DoneSound, NothingSound
<1>2. out \in OnLayer(dm, h, d, layer, outs)
  BY DEF element_create
<1> HIDE DEF outs
<1> QED
  BY <1>1, <1>2, OnLayerSound

(* One path for every id of S, and perhaps one without an id. *)
LEMMA AddedGrown ==
    ASSUME NEW dm, IsDom(dm), NEW ids \in SUBSET Ids, CanAdd(dm, Cardinality(ids)),
           NEW S \in SUBSET ids, NEW l \in DOMAIN dm.layers
    PROVE  /\ Grown(dm, AddAll(dm, S, l), S)
           /\ S # ids => Grown(dm, Add(AddAll(dm, S, l), New(NoId, "path", l)), S)
<1> DEFINE mid == AddAll(dm, S, l)
<1>1. IsFiniteSet(ids) /\ Cardinality(ids) \in Nat
  BY ArtworkAssumption, FS_Subset, FS_CardinalityType
<1>2. /\ Cardinality(S) \in Nat /\ Cardinality(S) <= Cardinality(ids)
      /\ S # ids => Cardinality(S) < Cardinality(ids)
  BY <1>1, FS_Subset, FS_CardinalityType
<1>3. dm.born \in Nat /\ MaxItems \in Nat /\ dm.born + Cardinality(ids) <= MaxItems
  BY ArtworkAssumption, DomNumbers DEF CanAdd
<1>4. CanAdd(dm, Cardinality(S)) /\ S \in SUBSET Ids
  BY <1>1, <1>2, <1>3 DEF CanAdd
<1>5. Grown(dm, mid, S) /\ mid.layers = dm.layers /\ mid.born = dm.born + Cardinality(S)
  BY <1>4, AddAllGrown
<1> HIDE DEF mid
<1>6. ASSUME S # ids PROVE Grown(dm, Add(mid, New(NoId, "path", l)), S)
  <2>1. IsDom(mid) /\ CanAdd(mid, 1)
    BY <1>1, <1>2, <1>3, <1>5, <1>6 DEF Grown, CanAdd
  <2>2. Grown(mid, Add(mid, New(NoId, "path", l)), {NoId} \ {NoId})
    BY <1>5, <2>1, NewGrown DEF Kinds
  <2>3. Grown(mid, Add(mid, New(NoId, "path", l)), S)
    BY <2>2, GrownMore
  <2> QED
    BY <1>5, <2>3, GrownThen
<1> QED
  BY <1>5, <1>6 DEF mid

LEMMA ElementCreateMultiSound ==
    ASSUME NEW dm, IsDom(dm), NEW h, Good(h), NEW d, NEW ids \in SUBSET Ids, NEW layer,
           CanAdd(dm, Cardinality(ids)), NEW out \in element_create_multi(dm, h, d, ids, layer)
    PROVE  Sound(dm, out)
<1> DEFINE l == TargetLayer(dm, d, layer)
           made(S) == AddAll(dm, S, l)
           whole == UNION {{Reports(made(S), h, S), Throws(made(S), h)} : S \in SUBSET ids}
           cut == {Throws(Add(made(S), New(NoId, "path", l)), h) : S \in (SUBSET ids) \ {ids}}
<1>1. ASSUME l \in DOMAIN dm.layers, NEW o \in whole \cup cut PROVE Sound(dm, o)
  <2>1. CASE o \in whole
    <3>1. PICK S \in SUBSET ids : o = Reports(made(S), h, S) \/ o = Throws(made(S), h)
      BY <2>1
    <3>2. Grown(dm, made(S), S) /\ S \in SUBSET Ids
      BY <1>1, AddedGrown
    <3>3. Sound(dm, Reports(made(S), h, S)) /\ Sound(dm, Throws(made(S), h))
      BY <3>2, ReportsSound
    <3> QED
      BY <3>1, <3>3
  <2>2. CASE o \in cut
    <3>1. PICK S \in (SUBSET ids) \ {ids} : o = Throws(Add(made(S), New(NoId, "path", l)), h)
      BY <2>2
    <3>2. Grown(dm, Add(made(S), New(NoId, "path", l)), S) /\ S \in SUBSET Ids
      BY <1>1, AddedGrown
    <3> HIDE DEF made
    <3> QED
      BY <3>1, <3>2, ReportsSound
  <2> QED
    BY <1>1, <2>1, <2>2
<1>2. out = Fails(dm, h) \/ out \in OnLayer(dm, h, d, layer, whole \cup cut)
  BY DEF element_create_multi
<1> HIDE DEF whole, cut
<1> QED
  BY <1>1, <1>2, OnLayerSound, NothingSound

LEMMA ElementCreateMultiByRefSound ==
    ASSUME NEW dm, IsDom(dm), NEW h, Good(h), NEW d, NEW ids \in SUBSET Ids, NEW layer,
           CanAdd(dm, Cardinality(ids)), NEW out \in element_create_multi_by_ref(dm, h, d, ids, layer)
    PROVE  Sound(dm, out)
BY ElementCreateMultiSound, NothingSound DEF element_create_multi_by_ref

LEMMA ElementCreateBatchSound ==
    ASSUME NEW dm, IsDom(dm), NEW h, Good(h), NEW d, NEW ids \in SUBSET Ids, NEW layer,
           CanAdd(dm, Cardinality(ids)), NEW out \in element_create_batch(dm, h, d, ids, layer)
    PROVE  Sound(dm, out)
<1> DEFINE l == TargetLayer(dm, d, layer)
           whole == {Reports(AddAll(dm, S, l), h, S) : S \in SUBSET ids}
           cut == {Reports(Add(AddAll(dm, S, l), New(NoId, "path", l)), h, S) : S \in (SUBSET ids) \ {ids}}
<1>1. out \in {Done(dm, h), Fails(dm, h)} \/ (l \in LayersOf(dm, d) /\ out \in whole \cup cut)
  <2>1. CASE l \notin LayersOf(dm, d) \/ ~LayerOpen(dm, l)
    <3>1. CreateFromTemplate(dm, h, d, ids, layer) = {Fails(dm, h)}
      BY <2>1 DEF CreateFromTemplate
    <3> HIDE DEF whole, cut
    <3> QED
      BY <2>1, <3>1 DEF element_create_batch
  <2>2. CASE l \in LayersOf(dm, d) /\ LayerOpen(dm, l)
    <3>1. out \in CreateFromTemplate(dm, h, d, ids, layer)
      BY <2>2 DEF element_create_batch
    <3>2. out \in {Fails(dm, h)} \cup whole \cup cut
      BY <2>2, <3>1 DEF CreateFromTemplate
    <3> HIDE DEF whole, cut
    <3> QED
      BY <2>2, <3>2
  <2> QED
    BY <2>1, <2>2
<1>2. ASSUME l \in DOMAIN dm.layers, out \in whole PROVE Sound(dm, out)
  <2>1. PICK S \in SUBSET ids : out = Reports(AddAll(dm, S, l), h, S)
    BY <1>2
  <2>2. Grown(dm, AddAll(dm, S, l), S) /\ S \in SUBSET Ids
    BY <1>2, AddedGrown
  <2> QED
    BY <2>1, <2>2, ReportsSound
<1>3. ASSUME l \in DOMAIN dm.layers, out \in cut PROVE Sound(dm, out)
  <2>1. PICK S \in (SUBSET ids) \ {ids} : out = Reports(Add(AddAll(dm, S, l), New(NoId, "path", l)), h, S)
    BY <1>3
  <2>2. Grown(dm, Add(AddAll(dm, S, l), New(NoId, "path", l)), S) /\ S \in SUBSET Ids
    BY <1>3, AddedGrown
  <2> QED
    BY <2>1, <2>2, ReportsSound
<1> HIDE DEF whole, cut
<1> QED
  BY <1>1, <1>2, <1>3, NothingSound, OpenItems

LEMMA ElementModifySound ==
    ASSUME NEW dm, IsDom(dm), NEW h, Good(h), NEW d, NEW T, NEW style \in Styles, NEW form \in Forms,
           NEW layer, NEW out \in element_modify(dm, h, d, T, style, form, layer)
    PROVE  Sound(dm, out)
<1> DEFINE painted == Repaint(dm, Open(dm, T), style)
           seen == Reshape(painted, Open(dm, T), form)
           moved == Move(seen, Open(dm, T), {}, layer)
<1>1. Grown(dm, painted, {}) /\ painted.layers = dm.layers /\ IsDom(painted)
  BY RepaintGrown DEF Grown
<1> HIDE DEF painted
<1>2. Grown(painted, seen, {}) /\ seen.layers = dm.layers /\ IsDom(seen)
  BY <1>1, ReshapeGrown DEF Grown
<1>3. Grown(dm, seen, {})
  BY <1>1, <1>2, GrownThen
<1> HIDE DEF seen
<1>4. ASSUME layer \in DOMAIN dm.layers PROVE Grown(dm, moved, {})
  <2>1. Grown(seen, moved, {})
    BY <1>2, <1>4, MoveOutGrown
  <2> HIDE DEF moved
  <2> QED
    BY <1>3, <2>1, GrownThen
<1>5. \/ out = Fails(dm, h) \/ out = Done(seen, h)
      \/ layer \in DOMAIN dm.layers /\ out = Done(moved, h)
  BY OpenItems DEF element_modify, seen, painted
<1> HIDE DEF moved
<1> QED
  BY <1>3, <1>4, <1>5, NothingSound, DoneSound

LEMMA IdsOfTyped == ASSUME NEW dm, IsDom(dm), NEW T PROVE IdsOf(dm, T) \in SUBSET Ids
BY DEF IdsOf, IsDom, Item

LEMMA ElementDeleteSound ==
    ASSUME NEW dm, IsDom(dm), NEW h, Good(h), NEW d, NEW T, NEW out \in element_delete(dm, h, d, T)
    PROVE  Sound(dm, out)
<1> DEFINE gone == Open(dm, T)
<1>1. out = Done(dm, h) \/ \E res, R : out = Out(res, Remove(dm, gone), Tombstone(h, IdsOf(dm, R)), {})
  BY DEF element_delete
<1>2. ASSUME NEW res, NEW R, out = Out(res, Remove(dm, gone), Tombstone(h, IdsOf(dm, R)), {})
      PROVE  Sound(dm, out)
  <2>1. Good(Tombstone(h, IdsOf(dm, R)))
    BY IdsOfTyped, TombstoneOK, TombstoneTyped DEF Good
  <2>2. Grown(dm, Remove(dm, gone), {})
    BY RemoveGrown
  <2> QED
    BY <1>2, <2>1, <2>2, OutSound
<1> QED
  BY <1>1, <1>2, NothingSound

LEMMA ElementReplaceSound ==
    ASSUME NEW dm, IsDom(dm), NEW h, Good(h), NEW d, NEW T, NEW id \in Ids, CanAdd(dm, 1),
           NEW out \in element_replace(dm, h, d, T, id)
    PROVE  Sound(dm, out)
<1> DEFINE i == CHOOSE t \in T : TRUE
           old == dm.art[i]
           fresh(b) == [New(id, "path", old.layer) EXCEPT !.locked = b]
           tombed == Tombstone(h, {old.id} \ {NoId})
           added(b) == Add(dm, fresh(b))
           swapped(b) == Remove(added(b), {i})
<1>1. \/ out \in {Throws(dm, h), Fails(dm, h)}
      \/ /\ Cardinality(T) = 1 /\ ~Dead(dm, T)
         /\ \/ out \in {Fails(added(FALSE), h), Fails(added(FALSE), tombed)}
            \/ out \in {Fails(swapped(FALSE), tombed), Fails(swapped(old.locked), tombed),
                       Reports(swapped(old.locked), tombed, {id})}
  <2>1. CASE Cardinality(T) # 1
    BY <2>1 DEF element_replace
  <2>2. CASE Cardinality(T) = 1 /\ Dead(dm, T)
    BY <2>2 DEF element_replace
  <2>3. CASE Cardinality(T) = 1 /\ ~Dead(dm, T)
    BY <2>3 DEF element_replace
  <2> QED
    BY <2>1, <2>2, <2>3
<1>2. ASSUME Cardinality(T) = 1, ~Dead(dm, T),
             \/ out \in {Fails(added(FALSE), h), Fails(added(FALSE), tombed)}
             \/ out \in {Fails(swapped(FALSE), tombed), Fails(swapped(old.locked), tombed),
                        Reports(swapped(old.locked), tombed, {id})}
      PROVE  Sound(dm, out)
  <2>0. Cardinality(T) = 1
    BY <1>2
  <2>1. T # {}
    <3>1. Cardinality({}) = 0
      BY FS_EmptySet
    <3> QED
      BY <2>0, <3>1
  <2>2. i \in T /\ i \in DOMAIN dm.art
    BY <1>2, <2>1 DEF Dead
  <2>3. /\ old \in Item /\ old.layer \in DOMAIN dm.layers /\ old.layer \in Layers
        /\ old.id \in Ids \cup {NoId} /\ old.locked \in BOOLEAN
    BY <2>2 DEF IsDom, Item
  <2>4. Good(tombed)
    BY <2>3, TombstoneOK, TombstoneTyped DEF Good
  <2> HIDE DEF i, old, tombed
  <2>5. ASSUME NEW b \in BOOLEAN PROVE Grown(dm, added(b), {id})
    <3>1. New(id, "path", old.layer) \in Item
      BY <2>3, NewIsItem DEF Kinds
    <3>2. fresh(b) \in Item /\ fresh(b).id = id /\ fresh(b).layer = old.layer /\ fresh(b).in = {}
      BY <2>3, <3>1 DEF New, Item
    <3> HIDE DEF fresh
    <3>3. Grown(dm, added(b), {id} \ {NoId})
      BY <2>3, <3>2, AddGrown
    <3> HIDE DEF added
    <3> QED
      BY <3>3, GrownMore
  <2> HIDE DEF added
  <2>6. ASSUME NEW b \in BOOLEAN PROVE Grown(dm, swapped(b), {id})
    <3>1. Grown(dm, added(b), {id})
      BY <2>5
    <3>2. Grown(added(b), Remove(added(b), {i}), {})
      BY <3>1, RemoveGrown DEF Grown
    <3>3. Grown(added(b), Remove(added(b), {i}), {id})
      BY <3>2, GrownMore
    <3>4. Grown(dm, Remove(added(b), {i}), {id})
      BY <3>1, <3>3, GrownThen
    <3> QED
      BY <3>4
  <2> HIDE DEF swapped
  <2>7. CASE out \in {Fails(added(FALSE), h), Fails(added(FALSE), tombed)}
    <3>1. Grown(dm, added(FALSE), {id})
      BY <2>5
    <3> QED
      BY <2>4, <2>7, <3>1, ReportsSound
  <2>8. CASE out \in {Fails(swapped(FALSE), tombed), Fails(swapped(old.locked), tombed),
                    Reports(swapped(old.locked), tombed, {id})}
    <3>1. Grown(dm, swapped(FALSE), {id}) /\ Grown(dm, swapped(old.locked), {id})
      BY <2>3, <2>6
    <3> QED
      BY <2>4, <2>8, <3>1, ReportsSound
  <2> QED
    BY <1>2, <2>7, <2>8
<1> QED
  BY <1>1, <1>2, NothingSound

-----------------------------------------------------------------------------
(* ops_group.jsx *)

LEMMA GroupCreateSound ==
    ASSUME NEW dm, IsDom(dm), NEW h, Good(h), NEW d, NEW T, NEW id \in Ids, CanAdd(dm, 1),
           NEW out \in group_create(dm, h, d, T, id)
    PROVE  Sound(dm, out)
<1> DEFINE g == Newest(dm)
           made(i) == Add(dm, New(id, "group", dm.art[i].layer))
           full(i) == MoveInto(made(i), Open(dm, T), g)
<1>1. \/ out \in {Fails(dm, h), Throws(dm, h)}
      \/ \E i \in DOMAIN dm.art : out = Reports(full(i), h, {id})
  BY DEF group_create
<1>2. ASSUME NEW i \in DOMAIN dm.art, out = Reports(full(i), h, {id})
      PROVE  Sound(dm, out)
  <2>1. dm.art[i].layer \in DOMAIN dm.layers /\ dm.art[i].layer \in Layers
    BY DEF IsDom, Item
  <2> DEFINE x == New(id, "group", dm.art[i].layer)
  <2>2. x \in Item /\ x.id = id /\ x.in = {} /\ x.layer = dm.art[i].layer /\ x.kind = "group"
    BY <2>1, NewIsItem DEF Kinds
  <2> HIDE DEF x
  <2>3. /\ Grown(dm, Add(dm, x), {x.id} \ {NoId})
        /\ g \in DOMAIN Add(dm, x).art /\ Add(dm, x).art[g] = x
    BY <2>1, <2>2, AddGrown
  <2>4. Grown(dm, Add(dm, x), {id}) /\ IsDom(Add(dm, x))
    BY <2>2, <2>3, GrownMore DEF Grown
  <2>5. g \notin Open(dm, T)
    BY OpenItems, ArtworkAssumption DEF IsDom, Newest
  <2> HIDE DEF g
  <2>6. Grown(Add(dm, x), MoveInto(Add(dm, x), Open(dm, T), g), {})
    BY <2>2, <2>3, <2>4, <2>5, MoveIntoGrown
  <2>7. Grown(dm, MoveInto(Add(dm, x), Open(dm, T), g), {id})
    BY <2>4, <2>6, GrownMore, GrownThen
  <2> QED
    BY <1>2, <2>7, ReportsSound DEF x
<1> QED
  BY <1>1, <1>2, NothingSound

(* An item that leaves a group leaves it with what it holds: what is around   *)
(* an item stays a chain.                                                     *)
LEMMA FreedGrown ==
    ASSUME NEW dm, IsDom(dm), NEW groups, NEW S
    PROVE  Grown(dm, Freed(dm, groups, S), {})
<1> DEFINE old == dm.art
           leaves(i, g) == g \in groups /\ (old[i].in \cup {i}) \cap S \cap Children(dm, g) # {}
           around(i) == {g \in old[i].in : ~leaves(i, g)}
           art == [i \in DOMAIN old |-> [old[i] EXCEPT !.in = around(i)]]
<1>1. Freed(dm, groups, S) = [dm EXCEPT !.art = art]
  BY DEF Freed, IsDom
<1>2. \A i \in DOMAIN old : around(i) \subseteq Items
  BY DEF IsDom, Item
<1>3. \A i \in DOMAIN old :
         /\ art[i] \in Item /\ art[i].id = old[i].id /\ art[i].layer = old[i].layer
         /\ art[i].kind = old[i].kind /\ art[i].in = around(i)
  <2> HIDE DEF around
  <2> QED
    BY <1>2 DEF IsDom, Item
<1>4. DOMAIN art = DOMAIN old
  OBVIOUS
<1> HIDE DEF art
<1>5. \A i \in DOMAIN old : \A j : j \in old[i].in =>
         /\ j \in DOMAIN old /\ j # i /\ old[j].in \subseteq old[i].in
         /\ old[j].kind = "group" /\ old[j].layer = old[i].layer /\ j \notin old[j].in
         /\ \A k \in old[i].in : j = k \/ j \in old[k].in \/ k \in old[j].in
  BY DEF IsDom, Nested
<1>6. \A c, g : c \in Children(dm, g) => c \in DOMAIN old /\ old[c].in = old[g].in \cup {g}
  BY DEF Children
<1> HIDE DEF old
(* What frees an item from a group frees all that the item is in.              *)
<1>7. ASSUME NEW i \in DOMAIN old, NEW j \in old[i].in, NEW g \in old[j].in, leaves(i, g)
      PROVE  leaves(j, g)
  <2>1. PICK c \in old[i].in \cup {i} : c \in S /\ c \in Children(dm, g)
    BY <1>7
  <2>2. c \in DOMAIN old /\ old[c].in = old[g].in \cup {g}
    BY <1>6, <2>1
  <2>3. j \in DOMAIN old /\ g \in DOMAIN old /\ g \notin old[g].in /\ old[g].in \subseteq old[j].in
        /\ j \notin old[j].in
    BY <1>5
  <2>4. j \notin old[c].in
    BY <2>2, <2>3
  <2>5. c \in old[j].in \cup {j}
    BY <1>5, <2>1, <2>4
  <2> QED
    BY <1>7, <2>1, <2>5
<1>8. ASSUME NEW i \in DOMAIN old, NEW k \in old[i].in, NEW g, leaves(k, g)
      PROVE  leaves(i, g)
  BY <1>5, <1>8
<1>9. Nested(art)
  <2>1. ASSUME NEW i \in DOMAIN old PROVE i \notin art[i].in /\ art[i].in \subseteq DOMAIN old
    BY <1>3, <1>5
  <2>2. ASSUME NEW i \in DOMAIN old, NEW j \in art[i].in
        PROVE  /\ art[j].kind = "group" /\ art[j].layer = art[i].layer
               /\ art[j].in \subseteq art[i].in
               /\ \A k \in art[i].in : j = k \/ j \in art[k].in \/ k \in art[j].in
    <3>1. j \in old[i].in /\ ~leaves(i, j) /\ j \in DOMAIN old
      BY <1>3, <1>5, <2>2
    <3>2. art[j].kind = "group" /\ art[j].layer = art[i].layer
      BY <1>3, <1>5, <3>1
    <3>3. art[j].in \subseteq art[i].in
      <4>1. ASSUME NEW g \in art[j].in PROVE g \in art[i].in
        <5>1. g \in old[j].in /\ ~leaves(j, g)
          BY <1>3, <3>1
        <5>2. g \in old[i].in /\ ~leaves(i, g)
          BY <1>5, <1>7, <3>1, <5>1
        <5> QED
          BY <1>3, <5>2
      <4> QED
        BY <4>1
    <3>4. ASSUME NEW k \in art[i].in PROVE j = k \/ j \in art[k].in \/ k \in art[j].in
      <4>1. k \in old[i].in /\ ~leaves(i, k) /\ k \in DOMAIN old
        BY <1>3, <1>5, <3>4
      <4>2. ~leaves(k, j) /\ ~leaves(j, k)
        BY <1>8, <3>1, <4>1
      <4>3. j = k \/ j \in old[k].in \/ k \in old[j].in
        BY <1>5, <3>1, <4>1
      <4>4. art[k].in = around(k) /\ art[j].in = around(j)
        BY <1>3, <3>1, <4>1
      <4> HIDE DEF leaves
      <4> QED
        BY <4>2, <4>3, <4>4
    <3> QED
      BY <3>2, <3>3, <3>4
  <2> QED
    BY <1>4, <2>1, <2>2 DEF Nested
<1>10. \A i \in DOMAIN art : art[i].layer \in DOMAIN dm.layers
  BY <1>3, <1>4 DEF IsDom, old
<1>11. Grown(dm, [dm EXCEPT !.art = art], {})
  BY <1>3, <1>4, <1>9, <1>10, ArtOnly DEF old
<1> QED
  BY <1>1, <1>11 DEF art

LEMMA GroupUngroupSound ==
    ASSUME NEW dm, IsDom(dm), NEW h, Good(h), NEW d, NEW T, NEW out \in group_ungroup(dm, h, d, T)
    PROVE  Sound(dm, out)
<1>1. \E res, G, S, E : out = Out(res, Remove(Freed(dm, G, S), E), h, {})
  BY DEF group_ungroup, Throws
<1>2. PICK res, G, S, E : out = Out(res, Remove(Freed(dm, G, S), E), h, {})
  BY <1>1
<1>3. Grown(dm, Freed(dm, G, S), {}) /\ IsDom(Freed(dm, G, S))
  BY FreedGrown DEF Grown
<1>4. Grown(Freed(dm, G, S), Remove(Freed(dm, G, S), E), {})
  BY <1>3, RemoveGrown
<1>5. Grown(dm, Remove(Freed(dm, G, S), E), {})
  BY <1>3, <1>4, GrownThen
<1> QED
  BY <1>2, <1>5, OutSound

LEMMA ClipSound ==
    ASSUME NEW dm, IsDom(dm), NEW h, Good(h), NEW found, NEW mask, found[mask] \in DOMAIN dm.art,
           NEW id \in Ids, NEW dry \in BOOLEAN, CanAdd(dm, 1),
           NEW out \in Clip(dm, h, found, mask, id, dry)
    PROVE  Sound(dm, out)
<1> DEFINE m == found[mask]
           S == {found[u] : u \in DOMAIN found}
           g == Newest(dm)
           x(tag) == [New(tag, "group", dm.art[m].layer) EXCEPT !.in = dm.art[m].in]
           made(tag) == Add(dm, x(tag))
           movable == Open(dm, S) \ dm.art[m].in
           full(tag, R) == MoveInto(made(tag), R, g)
<1>1. \/ out \in {Fails(dm, h), Reports(dm, h, {id})}
      \/ out = Reports(full(id, movable), h, {id})
      \/ \E R \in SUBSET movable : out = Fails(full(NoId, R), h)
  BY DEF Clip
<1>2. ASSUME NEW tag \in Ids \cup {NoId}, NEW R \in SUBSET movable
      PROVE  Grown(dm, full(tag, R), {tag} \ {NoId})
  <2>1. m \in DOMAIN dm.art
    OBVIOUS
  <2>2. g \notin R
    <3>1. R \subseteq DOMAIN dm.art
      <4> HIDE DEF S
      <4> QED
        BY OpenItems
    <3>2. g \notin DOMAIN dm.art
      BY ArtworkAssumption DEF IsDom, Newest
    <3> QED
      BY <3>1, <3>2
  <2>3. R \cap dm.art[m].in = {}
    OBVIOUS
  <2> HIDE DEF m, g, S
  <2>4. /\ dm.art[m].layer \in DOMAIN dm.layers /\ dm.art[m].layer \in Layers
        /\ dm.art[m].in \in SUBSET Items
    BY <2>1 DEF IsDom, Item
  <2>5. New(tag, "group", dm.art[m].layer) \in Item
    BY <2>4, NewIsItem DEF Kinds
  <2>6. /\ x(tag) \in Item /\ x(tag).id = tag /\ x(tag).in = dm.art[m].in
        /\ x(tag).layer = dm.art[m].layer /\ x(tag).kind = "group"
    BY <2>4, <2>5 DEF New, Item
  <2> HIDE DEF x
  <2>7. /\ x(tag).in \subseteq DOMAIN dm.art
        /\ \A j \in x(tag).in :
              /\ dm.art[j].kind = "group" /\ dm.art[j].layer = x(tag).layer
              /\ dm.art[j].in \subseteq x(tag).in
              /\ \A k \in x(tag).in : j = k \/ j \in dm.art[k].in \/ k \in dm.art[j].in
    BY <2>1, <2>6 DEF IsDom, Nested
  <2>8. /\ Grown(dm, made(tag), {tag} \ {NoId})
        /\ g \in DOMAIN made(tag).art /\ made(tag).art[g] = x(tag)
    BY <2>4, <2>6, <2>7, AddGrown DEF g
  <2> HIDE DEF made
  <2>9. Grown(made(tag), full(tag, R), {})
    BY <2>2, <2>3, <2>6, <2>8, MoveIntoGrown DEF Grown
  <2> QED
    BY <2>8, <2>9, GrownMore, GrownThen
<1>3. {id} \ {NoId} = {id} /\ {NoId} \ {NoId} = {}
  BY ArtworkAssumption
<1>4. ASSUME out = Reports(full(id, movable), h, {id})
      PROVE  Sound(dm, out)
  <2>1. Grown(dm, full(id, movable), {id})
    BY <1>2, <1>3, <1>4
  <2> HIDE DEF full
  <2> QED
    BY <1>4, <2>1, ReportsSound
<1>5. ASSUME NEW R \in SUBSET movable, out = Fails(full(NoId, R), h)
      PROVE  Sound(dm, out)
  <2>1. Grown(dm, full(NoId, R), {NoId} \ {NoId})
    BY <1>2, <1>5
  <2>2. Grown(dm, full(NoId, R), {})
    BY <1>3, <2>1
  <2> HIDE DEF full
  <2> QED
    BY <1>5, <2>2, DoneSound
<1>6. Sound(dm, Reports(dm, h, {id}))
  BY GrownSelf, GrownMore, ReportsSound
<1> HIDE DEF full, movable
<1> QED
  BY <1>1, <1>4, <1>5, <1>6, NothingSound

LEMMA ClipCreateSound ==
    ASSUME NEW dm, IsDom(dm), NEW h, Good(h), NEW d, NEW mask \in Ids, NEW contents \in SUBSET Ids,
           NEW id \in Ids, NEW dry \in BOOLEAN, CanAdd(dm, 1),
           NEW out \in clip_create(dm, h, d, mask, contents, id, dry)
    PROVE  Sound(dm, out)
<1>1. \/ out = Fails(dm, h)
      \/ \E found \in Finds(dm, d, contents \cup {mask}) :
             out \in Clip(dm, h, found, mask, id, dry)
  BY DEF clip_create
<1>2. ASSUME NEW found \in Finds(dm, d, contents \cup {mask}),
             out \in Clip(dm, h, found, mask, id, dry)
      PROVE  Sound(dm, out)
  <2>1. found[mask] \in DOMAIN dm.art
    BY DEF Finds
  <2> QED
    BY <1>2, <2>1, ClipSound
<1> QED
  BY <1>1, <1>2, NothingSound

LEMMA ZorderSound ==
    ASSUME NEW dm, IsDom(dm), NEW h, Good(h), NEW d, NEW T, NEW out \in zorder(dm, h, d, T)
    PROVE  Sound(dm, out)
BY NothingSound DEF zorder

-----------------------------------------------------------------------------
(* ops_layer.jsx *)

LEMMA LayersGrown ==
    ASSUME NEW dm, IsDom(dm), NEW layers, NEW active \in [Docs -> Layers],
           DOMAIN dm.layers \subseteq DOMAIN layers, DOMAIN layers \subseteq Layers,
           \A l \in DOMAIN layers : layers[l] \in Layer
    PROVE  Grown(dm, [dm EXCEPT !.layers = layers, !.active = active], {})
<1> DEFINE new == [dm EXCEPT !.layers = layers, !.active = active]
<1>1. /\ DOMAIN new = {"art", "born", "layers", "active", "used"} /\ new.art = dm.art
      /\ new.born = dm.born /\ new.layers = layers /\ new.active = active /\ new.used = dm.used
  BY DEF IsDom
<1> HIDE DEF new
<1>2. dm.born \in Nat
  BY DomNumbers
<1>3. IsDom(new)
  BY <1>1 DEF IsDom
<1>4. Grown(dm, new, {})
  BY <1>1, <1>2, <1>3 DEF Grown
<1> QED
  BY <1>4 DEF new

LEMMA LayerCreateSound ==
    ASSUME NEW dm, IsDom(dm), NEW h, Good(h), NEW d \in Docs, NEW name \in Layers, NEW ref,
           NEW out \in layer_create(dm, h, d, name, ref)
    PROVE  Sound(dm, out)
<1> DEFINE open == [locked |-> FALSE, visible |-> TRUE]
           layers == Over(Only(name, open), dm.layers)
           active == [dm.active EXCEPT ![d] = name]
           made == [dm EXCEPT !.layers = layers, !.active = active]
<1>1. out \in {Done(dm, h), Done(made, h), Fails(made, h)}
  BY DEF layer_create, IsDom
<1>2. open \in Layer
  BY DEF Layer
<1> HIDE DEF open
<1>3. /\ DOMAIN layers = {name} \cup DOMAIN dm.layers /\ \A l \in DOMAIN layers : layers[l] \in Layer
  BY <1>2 DEF Over, Only, IsDom
<1>4. active \in [Docs -> Layers] /\ DOMAIN dm.layers \subseteq Layers
  BY DEF IsDom
<1> HIDE DEF layers, active
<1>5. Grown(dm, made, {})
  BY <1>3, <1>4, LayersGrown
<1> HIDE DEF made
<1> QED
  BY <1>1, <1>5, DoneSound, NothingSound

LEMMA LayerActivateSound ==
    ASSUME NEW dm, IsDom(dm), NEW h, Good(h), NEW d \in Docs, NEW name \in Layers,
           NEW out \in layer_activate(dm, h, d, name)
    PROVE  Sound(dm, out)
<1> DEFINE active == [dm.active EXCEPT ![d] = name]
           made == [dm EXCEPT !.layers = dm.layers, !.active = active]
<1>1. made = [dm EXCEPT !.active[d] = name]
  BY DEF IsDom
<1>2. out = Fails(dm, h) \/ out = Done(made, h)
  BY <1>1 DEF layer_activate, NamedLayer
<1>3. active \in [Docs -> Layers]
  BY DEF IsDom
<1> HIDE DEF active
<1>4. Grown(dm, made, {})
  BY <1>3, LayersGrown DEF IsDom
<1> HIDE DEF made
<1> QED
  BY <1>2, <1>4, DoneSound, NothingSound

LEMMA LayerSet ==
    ASSUME NEW dm, IsDom(dm), NEW name \in DOMAIN dm.layers, NEW b \in BOOLEAN
    PROVE  /\ Grown(dm, [dm EXCEPT !.layers[name].locked = b], {})
           /\ Grown(dm, [dm EXCEPT !.layers[name].visible = b], {})
<1> DEFINE locks == [dm.layers EXCEPT ![name].locked = b]
           shows == [dm.layers EXCEPT ![name].visible = b]
<1>1. /\ [dm EXCEPT !.layers[name].locked = b] = [dm EXCEPT !.layers = locks, !.active = dm.active]
      /\ [dm EXCEPT !.layers[name].visible = b] = [dm EXCEPT !.layers = shows, !.active = dm.active]
  BY DEF IsDom
<1>2. /\ DOMAIN locks = DOMAIN dm.layers /\ \A l \in DOMAIN dm.layers : locks[l] \in Layer
      /\ DOMAIN shows = DOMAIN dm.layers /\ \A l \in DOMAIN dm.layers : shows[l] \in Layer
  BY DEF IsDom, Layer
<1>3. dm.active \in [Docs -> Layers] /\ DOMAIN dm.layers \subseteq Layers
  BY DEF IsDom
<1> HIDE DEF locks, shows
<1>4. Grown(dm, [dm EXCEPT !.layers = locks, !.active = dm.active], {})
  BY <1>2, <1>3, LayersGrown
<1>5. Grown(dm, [dm EXCEPT !.layers = shows, !.active = dm.active], {})
  BY <1>2, <1>3, LayersGrown
<1> QED
  BY <1>1, <1>4, <1>5

LEMMA LayerLockSound ==
    ASSUME NEW dm, IsDom(dm), NEW h, Good(h), NEW d, NEW name, NEW b \in BOOLEAN,
           NEW out \in layer_lock(dm, h, d, name, b) \cup layer_visible(dm, h, d, name, b)
    PROVE  Sound(dm, out)
<1> DEFINE locks == [dm EXCEPT !.layers[name].locked = b]
           shows == [dm EXCEPT !.layers[name].visible = b]
<1>1. \/ out = Fails(dm, h)
      \/ name \in DOMAIN dm.layers /\ out \in {Done(locks, h), Done(shows, h)}
  BY OpenItems DEF layer_lock, layer_visible, NamedLayer
<1>2. name \in DOMAIN dm.layers => Grown(dm, locks, {}) /\ Grown(dm, shows, {})
  BY LayerSet
<1> HIDE DEF locks, shows
<1> QED
  BY <1>1, <1>2, DoneSound, NothingSound

LEMMA LayerDeleteSound ==
    ASSUME NEW dm, IsDom(dm), NEW h, Good(h), NEW d \in Docs, NEW name,
           NEW out \in layer_delete(dm, h, d, name)
    PROVE  Sound(dm, out)
<1> DEFINE mid == Remove(dm, {i \in DOMAIN dm.art : dm.art[i].layer = name})
           layers == Restrict(dm.layers, DOMAIN dm.layers \ {name})
           active(l) == [dm.active EXCEPT ![d] = IF dm.active[d] = name THEN l ELSE dm.active[d]]
           less(l) == [mid EXCEPT !.layers = layers, !.active = active(l)]
<1>1. /\ Grown(dm, mid, {}) /\ mid.layers = dm.layers /\ mid.active = dm.active
      /\ mid.born = dm.born
      /\ \A i \in DOMAIN mid.art : mid.art[i].layer # name
  BY RemoveGrown
<1>2. IsDom(mid)
  BY <1>1 DEF Grown
<1>3. \/ out = Fails(dm, h)
      \/ \E l \in DOMAIN dm.layers : out = Done(less(l), h)
  <2>1. \A l : [mid EXCEPT !.layers = Restrict(@, DOMAIN @ \ {name}),
                           !.active[d] = IF @ = name THEN l ELSE @] = less(l)
    <3> HIDE DEF mid
    <3> QED
      BY <1>1, <1>2 DEF IsDom
  <2> HIDE DEF less
  <2> QED
    BY <2>1, OpenItems DEF layer_delete
<1> HIDE DEF mid
<1>4. /\ DOMAIN layers = DOMAIN dm.layers \ {name}
      /\ \A l \in DOMAIN layers : layers[l] \in Layer
  BY DEF Restrict, IsDom
<1>5. ASSUME NEW l \in DOMAIN dm.layers PROVE Grown(dm, less(l), {})
  <2>1. active(l) \in [Docs -> Layers]
    BY DEF IsDom
  <2> DEFINE new == less(l)
             act == active(l)
  <2>2. /\ DOMAIN new = {"art", "born", "layers", "active", "used"} /\ new.art = mid.art
        /\ new.born = dm.born /\ new.layers = layers /\ new.active = act /\ new.used = mid.used
    BY <1>1, <1>2 DEF IsDom
  <2> HIDE DEF new, act, layers
  <2>3. IsDom(new)
    BY <1>1, <1>2, <1>4, <2>1, <2>2 DEF IsDom, act
  <2>4. Grown(dm, new, {})
    BY <1>1, <2>2, <2>3 DEF Grown
  <2> QED
    BY <2>4 DEF new
<1> HIDE DEF less
<1> QED
  BY <1>3, <1>5, DoneSound, NothingSound

-----------------------------------------------------------------------------
(* ops_style.jsx, ops_text.jsx *)

LEMMA PaintingSound ==
    ASSUME NEW dm, IsDom(dm), NEW h, Good(h), NEW d, NEW T, NEW style \in Styles, NEW was,
           NEW out \in style_set_fill(dm, h, d, T, style) \cup style_set_stroke(dm, h, d, T, style)
                  \cup style_set_opacity(dm, h, d, T, style) \cup style_remove_fill(dm, h, d, T, style)
                  \cup style_remove_stroke(dm, h, d, T, style)
                  \cup style_set_gradient(dm, h, d, T, style, was)
    PROVE  Sound(dm, out)
<1>1. out \in {Done(dm, h), Fails(dm, h)} \/ \E S : out = Done(Repaint(dm, S, style), h)
  BY DEF style_set_fill, style_set_stroke, style_set_opacity, style_remove_fill,
         style_remove_stroke, style_set_gradient, Paint
<1> QED
  BY <1>1, PaintSound, NothingSound

LEMMA StyleCloneSound ==
    ASSUME NEW dm, IsDom(dm), NEW h, Good(h), NEW d, NEW T, NEW from \in Ids,
           NEW out \in style_clone(dm, h, d, T, from)
    PROVE  Sound(dm, out)
<1> DEFINE looks == Resolve(h, dm, d, from, FALSE) \cup Resolve(h, dm, d, from, TRUE)
           new(r) == Repaint(dm, Open(dm, T), dm.art[r.item].style)
           res == IF Open(dm, T) = {} THEN "fails" ELSE "ok"
<1>1. \/ out = Done(dm, h)
      \/ \E r \in looks : IF r.item = NoItem THEN out = Fails(dm, r.heap)
                          ELSE out = Out(res, new(r), r.heap, {})
  BY DEF style_clone
<1>2. ASSUME NEW r \in looks PROVE Good(r.heap) /\ (r.item # NoItem => r.item \in DOMAIN dm.art)
  <2>1. PICK glitch \in BOOLEAN : r \in Resolve(h, dm, d, from, glitch)
    OBVIOUS
  <2> QED
    BY <2>1, ResolveFacts, ResolveTyped DEF Good
<1>3. ASSUME NEW r \in looks, r.item # NoItem PROVE Grown(dm, new(r), {})
  <2>1. dm.art[r.item].style \in Styles
    BY <1>2, <1>3 DEF IsDom, Item
  <2> QED
    BY <2>1, RepaintGrown
<1> HIDE DEF looks, new
<1> QED
  BY <1>1, <1>2, <1>3, OutSound, NothingSound

LEMMA TextCreateSound ==
    ASSUME NEW dm, IsDom(dm), NEW h, Good(h), NEW d, NEW id \in Ids, NEW layer, CanAdd(dm, 1),
           NEW out \in text_create(dm, h, d, id, layer)
    PROVE  Sound(dm, out)
<1> DEFINE l == TargetLayer(dm, d, layer)
           outs == {Reports(Add(dm, New(id, "text", l)), h, {id})}
<1>1. ASSUME l \in DOMAIN dm.layers, NEW o \in outs PROVE Sound(dm, o)
  <2>1. Grown(dm, Add(dm, New(id, "text", l)), {id} \ {NoId})
    BY <1>1, NewGrown DEF Kinds
  <2>2. Grown(dm, Add(dm, New(id, "text", l)), {id})
    BY <2>1, GrownMore
  <2> QED
    BY <2>2, ReportsSound
<1>2. out \in OnLayer(dm, h, d, layer, outs)
  BY DEF text_create
<1> HIDE DEF outs
<1> QED
  BY <1>1, <1>2, OnLayerSound

LEMMA TextSetSound ==
    ASSUME NEW dm, IsDom(dm), NEW h, Good(h), NEW d, NEW T, NEW form \in Forms,
           NEW out \in text_set_content(dm, h, d, T, form) \cup text_set_style(dm, h, d, T, form)
    PROVE  Sound(dm, out)
<1>1. \/ out = Fails(dm, h)
      \/ \E S : out = Done(Reshape(dm, S, form), h) \/ out = Throws(Reshape(dm, S, form), h)
  BY DEF text_set_content, text_set_style
<1> QED
  BY <1>1, ShapeSound, NothingSound

-----------------------------------------------------------------------------
(* ops_align.jsx, ops_measure.jsx *)

LEMMA AlignSound ==
    ASSUME NEW dm, IsDom(dm), NEW h, Good(h), NEW d, NEW T, NEW style \in Styles,
           NEW out \in align(dm, h, d, T, style) \cup distribute(dm, h, d, T, style)
    PROVE  Sound(dm, out)
<1>1. \/ out \in {Done(dm, h), Throws(dm, h)}
      \/ \E S : out = Done(Repaint(dm, S, style), h) \/ out = Throws(Repaint(dm, S, style), h)
  BY DEF align, distribute, Paint
<1> QED
  BY <1>1, PaintSound, NothingSound

LEMMA AlignToKeySound ==
    ASSUME NEW dm, IsDom(dm), NEW h, Good(h), NEW d, NEW T, NEW style \in Styles, NEW key \in Ids,
           NEW out \in align_to_key(dm, h, d, T, style, key)
    PROVE  Sound(dm, out)
<1> DEFINE looks == Resolve(h, dm, d, key, FALSE) \cup Resolve(h, dm, d, key, TRUE)
<1>1. \/ out = Done(dm, h)
      \/ \E r \in looks : IF r.item = NoItem THEN out = Fails(dm, r.heap)
                          ELSE out = Done(Repaint(dm, Open(dm, T), style), r.heap)
  BY DEF align_to_key, Paint
<1>2. ASSUME NEW r \in looks PROVE Good(r.heap)
  <2>1. PICK glitch \in BOOLEAN : r \in Resolve(h, dm, d, key, glitch)
    OBVIOUS
  <2> QED
    BY <2>1, ResolveFacts, ResolveTyped DEF Good
<1> HIDE DEF looks
<1> QED
  BY <1>1, <1>2, PaintSound, NothingSound

(* Assertions and measurements change nothing, but for a repair. *)
LEMMA AssertSound ==
    ASSUME NEW dm, IsDom(dm), NEW h, Good(h), NEW d, NEW T, NEW n, NEW ids,
           NEW out \in assert_count(dm, h, d, T, n) \cup assert_exists(dm, h, d, ids)
                  \cup assert_order(dm, h, d) \cup assert_bounds(dm, h, d, T)
                  \cup assert_text(dm, h, d, T) \cup measure(dm, h, d, T)
    PROVE  Sound(dm, out)
<1>1. out \in {Done(dm, h), Fails(dm, h), Throws(dm, h)}
  BY DEF assert_count, assert_exists, assert_order, assert_bounds, assert_text, measure, Assertion
<1> QED
  BY <1>1, NothingSound

LEMMA RepairSound ==
    ASSUME NEW dm, IsDom(dm), NEW h, Good(h), NEW d, NEW T, NEW style \in Styles, NEW repair \in BOOLEAN,
           NEW out \in assert_style(dm, h, d, T, style, repair)
                  \cup assert_alignment(dm, h, d, T, style, repair)
    PROVE  Sound(dm, out)
<1>1. \/ \E res : out = Out(res, dm, h, {})
      \/ \E S, res : out = Out(res, Repaint(dm, S, style), h, {})
  BY DEF assert_style, assert_alignment, Assertion, Done, Fails, Throws
<1>2. \A S : Grown(dm, Repaint(dm, S, style), {})
  BY RepaintGrown
<1> QED
  BY <1>1, <1>2, OutSound, GrownSelf

-----------------------------------------------------------------------------
(* An operation and its targets *)

(* What resolveTargetsCached keeps: the items of the selectors it may cache.  *)
IsCache(c) == DOMAIN c \subseteq Selectors /\ \A s \in DOMAIN c : c[s] \subseteq Items

(* What a handler gets, from the artwork or from the cache, are items, and the *)
(* heap it gets is sound.                                                     *)
LEMMA TargetsSound ==
    ASSUME TypeOK, HeapOK(heap), NEW sel \in Sels \cup {NoSelector},
           NEW r \in resolveTargets(Selector(sel))
    PROVE  Good(r.heap) /\ r.items \subseteq Items /\ IsCache(Cached(sel, r)) /\ IsCache(batch.cache)
<1>1. IsDom(dom) /\ IsHeap(heap) /\ doc \in Docs /\ IsCache(batch.cache)
  BY DEF TypeOK, IsBatch, IsCache
<1>2. sel # NoSelector => sel \in Selectors \/ (sel \in IdSelectors /\ sel \in PrevSelectors)
  <2>1. ASSUME sel \in PrevSelectors PROVE sel \in IdSelectors
    <3>1. comp # NoCompound /\ comp.prev # {} /\ sel = [type |-> "id", ids |-> comp.prev, pre |-> AnyForm]
      BY <2>1 DEF PrevSelectors
    <3>2. comp.prev \subseteq Ids
      BY <3>1 DEF TypeOK, Compound
    <3> QED
      BY <3>1, <3>2 DEF IdSelectors
  <2> QED
    BY <2>1 DEF Sels
<1>3. r.items \subseteq Items /\ Good(r.heap)
  <2>1. CASE Selector(sel) \in IdSelectors \cup UuidSelector \cup CachedSelectors
    <3>1. CASE r \in collectTargets(dom, heap, doc, Selector(sel))
      BY <1>1, <2>1, <3>1, CollectSound DEF Good
    <3>2. CASE r = Found(heap, {})
      BY <1>1, <3>2 DEF Found, Good
    <3>3. CASE Selector(sel) \in DOMAIN batch.cache /\ r = Found(heap, batch.cache[Selector(sel)])
      BY <1>1, <3>3 DEF Found, Good, IsCache
    <3> QED
      BY <3>1, <3>2, <3>3 DEF resolveTargets
  <2>2. CASE sel = NoSelector
    <3>1. Selector(sel) = NoSelector
      BY <2>2, OpBatchAssumption DEF Selector, Rebuilds
    <3>2. r = Found(heap, {})
      BY <3>1 DEF resolveTargets
    <3> QED
      BY <1>1, <3>2 DEF Found, Good
  <2>3. CASE sel # NoSelector
    <3>1. sel \in IdSelectors \cup UuidSelector \cup CachedSelectors
      BY <1>2, <2>3, OpBatchAssumption
    <3>2. sel \in IdSelectors => [sel EXCEPT !.pre = AnyForm] \in IdSelectors
      BY DEF IdSelectors
    <3> QED
      BY <2>1, <3>1, <3>2 DEF Selector, Rebuilds
  <2> QED
    BY <2>2, <2>3
<1>4. IsCache(Cached(sel, r))
  <2>1. CASE sel \in CachedSelectors
    <3>1. sel \in Selectors
      BY <1>2, <2>1, OpBatchAssumption DEF IdSelectors, CachedSelectors
    <3>2. Cached(sel, r) = Over(Only(sel, r.items), batch.cache)
      BY <2>1 DEF Cached
    <3> QED
      BY <1>1, <1>3, <3>1, <3>2 DEF IsCache, Over, Only
  <2>2. CASE sel \notin CachedSelectors
    BY <1>1, <2>2 DEF Cached
  <2> QED
    BY <2>1, <2>2
<1> QED
  BY <1>1, <1>3, <1>4

(* What becomes of the outcome of a handler, and when that is sound: an       *)
(* operation that succeeds names what it made, if it did not fan out.         *)
Lands(sel, r, task, out) ==
    /\ Can(task) /\ UNCHANGED <<doc, room>>
    /\ IF out.res = "ok" THEN Passes(task, out, Cached(sel, r))
       ELSE Failing(out.dom, out.heap, Cached(sel, r), TRUE)

Landed ==
    \E task, out, c :
       /\ Can(task) /\ UNCHANGED <<doc, room>>
       /\ IsCache(c) /\ out.ids \subseteq Ids /\ Good(out.heap)
       /\ Grown(dom, out.dom, IF out.res = "ok" /\ task # "fan_out" THEN out.ids ELSE Ids)
       /\ IF out.res = "ok" THEN Passes(task, out, c) ELSE Failing(out.dom, out.heap, c, TRUE)

LEMMA LandsSound ==
    ASSUME TypeOK, HeapOK(heap), NEW sel \in Sels \cup {NoSelector}, NEW r \in Targets(sel),
           NEW task, NEW out, Sound(dom, out), Lands(sel, r, task, out)
    PROVE  Landed
<1>1. IsCache(Cached(sel, r))
  BY TargetsSound DEF Targets
<1>2. Grown(dom, out.dom, IF out.res = "ok" /\ task # "fan_out" THEN out.ids ELSE Ids)
  <2>1. Grown(dom, out.dom, IF out.res = "ok" THEN out.ids ELSE Ids) /\ out.ids \subseteq Ids
    BY DEF Sound
  <2>2. Grown(dom, out.dom, Ids)
    BY <2>1, GrownMore
  <2> QED
    BY <2>1, <2>2
<1>3. out.ids \subseteq Ids /\ Good(out.heap)
  BY DEF Sound
<1> QED
  BY <1>1, <1>2, <1>3 DEF Lands, Landed

LEMMA TargetsGood ==
    ASSUME TypeOK, HeapOK(heap), NEW sel \in Sels \cup {NoSelector}, NEW r \in Targets(sel)
    PROVE  Good(r.heap) /\ IsDom(dom) /\ doc \in Docs
BY TargetsSound DEF Targets, TypeOK

(* One lemma for every operation: its outcome is sound, so it lands.          *)
LEMMA ElementCreateLands == ASSUME TypeOK, HeapOK(heap), ElementCreate PROVE Landed
<1>1. PICK id \in Ids, layer \in Where, kind \in {"path", "text"} :
        Room(1) /\ Run("element_create", NoSelector, AnyForm, LAMBDA T, h : element_create(dom, h, doc, id, layer, kind))
  BY DEF ElementCreate
<1>2. PICK r \in Targets(NoSelector) :
         \E T : \E out \in element_create(dom, r.heap, doc, id, layer, kind) : Lands(NoSelector, r, "element_create", out)
  BY <1>1 DEF Run, Lands
<1>3. PICK T, out : /\ out \in element_create(dom, r.heap, doc, id, layer, kind)
                    /\ Lands(NoSelector, r, "element_create", out)
  BY <1>2
<1>4. Sound(dom, out)
  BY <1>1, <1>3, TargetsGood, ElementCreateSound DEF Room, Kinds
<1> QED
  BY <1>3, <1>4, LandsSound

LEMMA ElementCreateMultiLands == ASSUME TypeOK, HeapOK(heap), ElementCreateMulti PROVE Landed
<1>1. PICK ids \in Some(Ids), layer \in Where :
        Room(Cardinality(ids)) /\ Run("element_create_multi", NoSelector, AnyForm, LAMBDA T, h : element_create_multi(dom, h, doc, ids, layer))
  BY DEF ElementCreateMulti
<1>2. PICK r \in Targets(NoSelector) :
         \E T : \E out \in element_create_multi(dom, r.heap, doc, ids, layer) : Lands(NoSelector, r, "element_create_multi", out)
  BY <1>1 DEF Run, Lands
<1>3. PICK T, out : /\ out \in element_create_multi(dom, r.heap, doc, ids, layer)
                    /\ Lands(NoSelector, r, "element_create_multi", out)
  BY <1>2
<1>4. Sound(dom, out)
  BY <1>1, <1>3, TargetsGood, ElementCreateMultiSound DEF Room, Some
<1> QED
  BY <1>3, <1>4, LandsSound

LEMMA ElementCreateMultiByRefLands == ASSUME TypeOK, HeapOK(heap), ElementCreateMultiByRef PROVE Landed
<1>1. PICK ids \in Some(Ids), layer \in Where :
        Room(Cardinality(ids)) /\ Run("element_create_multi_by_ref", NoSelector, AnyForm, LAMBDA T, h : element_create_multi_by_ref(dom, h, doc, ids, layer))
  BY DEF ElementCreateMultiByRef
<1>2. PICK r \in Targets(NoSelector) :
         \E T : \E out \in element_create_multi_by_ref(dom, r.heap, doc, ids, layer) : Lands(NoSelector, r, "element_create_multi_by_ref", out)
  BY <1>1 DEF Run, Lands
<1>3. PICK T, out : /\ out \in element_create_multi_by_ref(dom, r.heap, doc, ids, layer)
                    /\ Lands(NoSelector, r, "element_create_multi_by_ref", out)
  BY <1>2
<1>4. Sound(dom, out)
  BY <1>1, <1>3, TargetsGood, ElementCreateMultiByRefSound DEF Room, Some
<1> QED
  BY <1>3, <1>4, LandsSound

LEMMA ElementCreateBatchLands == ASSUME TypeOK, HeapOK(heap), ElementCreateBatch PROVE Landed
<1>1. PICK ids \in Some(Ids), layer \in Where :
        Room(Cardinality(ids)) /\ Run("element_create_batch", NoSelector, AnyForm, LAMBDA T, h : element_create_batch(dom, h, doc, ids, layer))
  BY DEF ElementCreateBatch
<1>2. PICK r \in Targets(NoSelector) :
         \E T : \E out \in element_create_batch(dom, r.heap, doc, ids, layer) : Lands(NoSelector, r, "element_create_batch", out)
  BY <1>1 DEF Run, Lands
<1>3. PICK T, out : /\ out \in element_create_batch(dom, r.heap, doc, ids, layer)
                    /\ Lands(NoSelector, r, "element_create_batch", out)
  BY <1>2
<1>4. Sound(dom, out)
  BY <1>1, <1>3, TargetsGood, ElementCreateBatchSound DEF Room, Some
<1> QED
  BY <1>3, <1>4, LandsSound

LEMMA ElementModifyLands == ASSUME TypeOK, HeapOK(heap), ElementModify PROVE Landed
<1>1. PICK sel \in Sels, g \in Guards, style \in Styles, form \in Forms, layer \in Where :
        Run("element_modify", sel, g, LAMBDA T, h : element_modify(dom, h, doc, T, style, form, layer))
  BY DEF ElementModify
<1>2. PICK r \in Targets(sel) :
         \E T : \E out \in element_modify(dom, r.heap, doc, T, style, form, layer) : Lands(sel, r, "element_modify", out)
  BY <1>1 DEF Run, Lands
<1>3. PICK T, out : /\ out \in element_modify(dom, r.heap, doc, T, style, form, layer)
                    /\ Lands(sel, r, "element_modify", out)
  BY <1>2
<1>4. Sound(dom, out)
  BY <1>1, <1>3, TargetsGood, ElementModifySound
<1> QED
  BY <1>3, <1>4, LandsSound

LEMMA ElementDeleteLands == ASSUME TypeOK, HeapOK(heap), ElementDelete PROVE Landed
<1>1. PICK sel \in Sels, g \in Guards :
        Run("element_delete", sel, g, LAMBDA T, h : element_delete(dom, h, doc, T))
  BY DEF ElementDelete
<1>2. PICK r \in Targets(sel) :
         \E T : \E out \in element_delete(dom, r.heap, doc, T) : Lands(sel, r, "element_delete", out)
  BY <1>1 DEF Run, Lands
<1>3. PICK T, out : /\ out \in element_delete(dom, r.heap, doc, T)
                    /\ Lands(sel, r, "element_delete", out)
  BY <1>2
<1>4. Sound(dom, out)
  BY <1>1, <1>3, TargetsGood, ElementDeleteSound
<1> QED
  BY <1>3, <1>4, LandsSound

LEMMA ElementReplaceLands == ASSUME TypeOK, HeapOK(heap), ElementReplace PROVE Landed
<1>1. PICK sel \in Sels, id \in Ids :
        Room(1) /\ Run("element_replace", sel, AnyForm, LAMBDA T, h : element_replace(dom, h, doc, T, id))
  BY DEF ElementReplace
<1>2. PICK r \in Targets(sel) :
         \E T : \E out \in element_replace(dom, r.heap, doc, T, id) : Lands(sel, r, "element_replace", out)
  BY <1>1 DEF Run, Lands
<1>3. PICK T, out : /\ out \in element_replace(dom, r.heap, doc, T, id)
                    /\ Lands(sel, r, "element_replace", out)
  BY <1>2
<1>4. Sound(dom, out)
  BY <1>1, <1>3, TargetsGood, ElementReplaceSound DEF Room
<1> QED
  BY <1>3, <1>4, LandsSound

LEMMA GroupCreateLands == ASSUME TypeOK, HeapOK(heap), GroupCreate PROVE Landed
<1>1. PICK sel \in Sels, g \in Guards, id \in Ids :
        Room(1) /\ Run("group_create", sel, g, LAMBDA T, h : group_create(dom, h, doc, T, id))
  BY DEF GroupCreate
<1>2. PICK r \in Targets(sel) :
         \E T : \E out \in group_create(dom, r.heap, doc, T, id) : Lands(sel, r, "group_create", out)
  BY <1>1 DEF Run, Lands
<1>3. PICK T, out : /\ out \in group_create(dom, r.heap, doc, T, id)
                    /\ Lands(sel, r, "group_create", out)
  BY <1>2
<1>4. Sound(dom, out)
  BY <1>1, <1>3, TargetsGood, GroupCreateSound DEF Room
<1> QED
  BY <1>3, <1>4, LandsSound

LEMMA GroupUngroupLands == ASSUME TypeOK, HeapOK(heap), GroupUngroup PROVE Landed
<1>1. PICK sel \in Sels :
        Run("group_ungroup", sel, AnyForm, LAMBDA T, h : group_ungroup(dom, h, doc, T))
  BY DEF GroupUngroup
<1>2. PICK r \in Targets(sel) :
         \E T : \E out \in group_ungroup(dom, r.heap, doc, T) : Lands(sel, r, "group_ungroup", out)
  BY <1>1 DEF Run, Lands
<1>3. PICK T, out : /\ out \in group_ungroup(dom, r.heap, doc, T)
                    /\ Lands(sel, r, "group_ungroup", out)
  BY <1>2
<1>4. Sound(dom, out)
  BY <1>1, <1>3, TargetsGood, GroupUngroupSound
<1> QED
  BY <1>3, <1>4, LandsSound

LEMMA ClipCreateLands == ASSUME TypeOK, HeapOK(heap), ClipCreate PROVE Landed
<1>1. PICK mask \in Ids, contents \in SUBSET Ids, id \in Ids, dry \in BOOLEAN :
        Room(1) /\ Run("clip_create", NoSelector, AnyForm, LAMBDA T, h : clip_create(dom, h, doc, mask, contents, id, dry))
  BY DEF ClipCreate
<1>2. PICK r \in Targets(NoSelector) :
         \E T : \E out \in clip_create(dom, r.heap, doc, mask, contents, id, dry) : Lands(NoSelector, r, "clip_create", out)
  BY <1>1 DEF Run, Lands
<1>3. PICK T, out : /\ out \in clip_create(dom, r.heap, doc, mask, contents, id, dry)
                    /\ Lands(NoSelector, r, "clip_create", out)
  BY <1>2
<1>4. Sound(dom, out)
  BY <1>1, <1>3, TargetsGood, ClipCreateSound DEF Room
<1> QED
  BY <1>3, <1>4, LandsSound

LEMMA ZOrderLands == ASSUME TypeOK, HeapOK(heap), ZOrder PROVE Landed
<1>1. PICK sel \in Sels, g \in Guards :
        Run("zorder", sel, g, LAMBDA T, h : zorder(dom, h, doc, T))
  BY DEF ZOrder
<1>2. PICK r \in Targets(sel) :
         \E T : \E out \in zorder(dom, r.heap, doc, T) : Lands(sel, r, "zorder", out)
  BY <1>1 DEF Run, Lands
<1>3. PICK T, out : /\ out \in zorder(dom, r.heap, doc, T)
                    /\ Lands(sel, r, "zorder", out)
  BY <1>2
<1>4. Sound(dom, out)
  BY <1>1, <1>3, TargetsGood, ZorderSound
<1> QED
  BY <1>3, <1>4, LandsSound

LEMMA LayerCreateLands == ASSUME TypeOK, HeapOK(heap), LayerCreate PROVE Landed
<1>1. PICK name \in Layers, ref \in Where :
        DocOf[name] = doc /\ Run("layer_create", NoSelector, AnyForm, LAMBDA T, h : layer_create(dom, h, doc, name, ref))
  BY DEF LayerCreate
<1>2. PICK r \in Targets(NoSelector) :
         \E T : \E out \in layer_create(dom, r.heap, doc, name, ref) : Lands(NoSelector, r, "layer_create", out)
  BY <1>1 DEF Run, Lands
<1>3. PICK T, out : /\ out \in layer_create(dom, r.heap, doc, name, ref)
                    /\ Lands(NoSelector, r, "layer_create", out)
  BY <1>2
<1>4. Sound(dom, out)
  BY <1>1, <1>3, TargetsGood, LayerCreateSound
<1> QED
  BY <1>3, <1>4, LandsSound

LEMMA LayerActivateLands == ASSUME TypeOK, HeapOK(heap), LayerActivate PROVE Landed
<1>1. PICK name \in Layers :
        Run("layer_activate", NoSelector, AnyForm, LAMBDA T, h : layer_activate(dom, h, doc, name))
  BY DEF LayerActivate
<1>2. PICK r \in Targets(NoSelector) :
         \E T : \E out \in layer_activate(dom, r.heap, doc, name) : Lands(NoSelector, r, "layer_activate", out)
  BY <1>1 DEF Run, Lands
<1>3. PICK T, out : /\ out \in layer_activate(dom, r.heap, doc, name)
                    /\ Lands(NoSelector, r, "layer_activate", out)
  BY <1>2
<1>4. Sound(dom, out)
  BY <1>1, <1>3, TargetsGood, LayerActivateSound
<1> QED
  BY <1>3, <1>4, LandsSound

LEMMA LayerLockLands == ASSUME TypeOK, HeapOK(heap), LayerLock PROVE Landed
<1>1. PICK name \in Layers, locked \in BOOLEAN :
        Run("layer_lock", NoSelector, AnyForm, LAMBDA T, h : layer_lock(dom, h, doc, name, locked))
  BY DEF LayerLock
<1>2. PICK r \in Targets(NoSelector) :
         \E T : \E out \in layer_lock(dom, r.heap, doc, name, locked) : Lands(NoSelector, r, "layer_lock", out)
  BY <1>1 DEF Run, Lands
<1>3. PICK T, out : /\ out \in layer_lock(dom, r.heap, doc, name, locked)
                    /\ Lands(NoSelector, r, "layer_lock", out)
  BY <1>2
<1>4. Sound(dom, out)
  BY <1>1, <1>3, TargetsGood, LayerLockSound
<1> QED
  BY <1>3, <1>4, LandsSound

LEMMA LayerVisibleLands == ASSUME TypeOK, HeapOK(heap), LayerVisible PROVE Landed
<1>1. PICK name \in Layers, visible \in BOOLEAN :
        Run("layer_visible", NoSelector, AnyForm, LAMBDA T, h : layer_visible(dom, h, doc, name, visible))
  BY DEF LayerVisible
<1>2. PICK r \in Targets(NoSelector) :
         \E T : \E out \in layer_visible(dom, r.heap, doc, name, visible) : Lands(NoSelector, r, "layer_visible", out)
  BY <1>1 DEF Run, Lands
<1>3. PICK T, out : /\ out \in layer_visible(dom, r.heap, doc, name, visible)
                    /\ Lands(NoSelector, r, "layer_visible", out)
  BY <1>2
<1>4. Sound(dom, out)
  BY <1>1, <1>3, TargetsGood, LayerLockSound
<1> QED
  BY <1>3, <1>4, LandsSound

LEMMA LayerDeleteLands == ASSUME TypeOK, HeapOK(heap), LayerDelete PROVE Landed
<1>1. PICK name \in Layers :
        Run("layer_delete", NoSelector, AnyForm, LAMBDA T, h : layer_delete(dom, h, doc, name))
  BY DEF LayerDelete
<1>2. PICK r \in Targets(NoSelector) :
         \E T : \E out \in layer_delete(dom, r.heap, doc, name) : Lands(NoSelector, r, "layer_delete", out)
  BY <1>1 DEF Run, Lands
<1>3. PICK T, out : /\ out \in layer_delete(dom, r.heap, doc, name)
                    /\ Lands(NoSelector, r, "layer_delete", out)
  BY <1>2
<1>4. Sound(dom, out)
  BY <1>1, <1>3, TargetsGood, LayerDeleteSound
<1> QED
  BY <1>3, <1>4, LandsSound

LEMMA StyleSetFillLands == ASSUME TypeOK, HeapOK(heap), StyleSetFill PROVE Landed
<1>1. PICK sel \in Sels, g \in Guards, style \in Styles :
        Run("style_set_fill", sel, g, LAMBDA T, h : style_set_fill(dom, h, doc, T, style))
  BY DEF StyleSetFill
<1>2. PICK r \in Targets(sel) :
         \E T : \E out \in style_set_fill(dom, r.heap, doc, T, style) : Lands(sel, r, "style_set_fill", out)
  BY <1>1 DEF Run, Lands
<1>3. PICK T, out : /\ out \in style_set_fill(dom, r.heap, doc, T, style)
                    /\ Lands(sel, r, "style_set_fill", out)
  BY <1>2
<1>4. Sound(dom, out)
  BY <1>1, <1>3, TargetsGood, PaintingSound
<1> QED
  BY <1>3, <1>4, LandsSound

LEMMA StyleSetStrokeLands == ASSUME TypeOK, HeapOK(heap), StyleSetStroke PROVE Landed
<1>1. PICK sel \in Sels, g \in Guards, style \in Styles :
        Run("style_set_stroke", sel, g, LAMBDA T, h : style_set_stroke(dom, h, doc, T, style))
  BY DEF StyleSetStroke
<1>2. PICK r \in Targets(sel) :
         \E T : \E out \in style_set_stroke(dom, r.heap, doc, T, style) : Lands(sel, r, "style_set_stroke", out)
  BY <1>1 DEF Run, Lands
<1>3. PICK T, out : /\ out \in style_set_stroke(dom, r.heap, doc, T, style)
                    /\ Lands(sel, r, "style_set_stroke", out)
  BY <1>2
<1>4. Sound(dom, out)
  BY <1>1, <1>3, TargetsGood, PaintingSound
<1> QED
  BY <1>3, <1>4, LandsSound

LEMMA StyleSetOpacityLands == ASSUME TypeOK, HeapOK(heap), StyleSetOpacity PROVE Landed
<1>1. PICK sel \in Sels, g \in Guards, style \in Styles :
        Run("style_set_opacity", sel, g, LAMBDA T, h : style_set_opacity(dom, h, doc, T, style))
  BY DEF StyleSetOpacity
<1>2. PICK r \in Targets(sel) :
         \E T : \E out \in style_set_opacity(dom, r.heap, doc, T, style) : Lands(sel, r, "style_set_opacity", out)
  BY <1>1 DEF Run, Lands
<1>3. PICK T, out : /\ out \in style_set_opacity(dom, r.heap, doc, T, style)
                    /\ Lands(sel, r, "style_set_opacity", out)
  BY <1>2
<1>4. Sound(dom, out)
  BY <1>1, <1>3, TargetsGood, PaintingSound
<1> QED
  BY <1>3, <1>4, LandsSound

LEMMA StyleRemoveFillLands == ASSUME TypeOK, HeapOK(heap), StyleRemoveFill PROVE Landed
<1>1. PICK sel \in Sels, style \in Styles :
        Run("style_remove_fill", sel, AnyForm, LAMBDA T, h : style_remove_fill(dom, h, doc, T, style))
  BY DEF StyleRemoveFill
<1>2. PICK r \in Targets(sel) :
         \E T : \E out \in style_remove_fill(dom, r.heap, doc, T, style) : Lands(sel, r, "style_remove_fill", out)
  BY <1>1 DEF Run, Lands
<1>3. PICK T, out : /\ out \in style_remove_fill(dom, r.heap, doc, T, style)
                    /\ Lands(sel, r, "style_remove_fill", out)
  BY <1>2
<1>4. Sound(dom, out)
  BY <1>1, <1>3, TargetsGood, PaintingSound
<1> QED
  BY <1>3, <1>4, LandsSound

LEMMA StyleRemoveStrokeLands == ASSUME TypeOK, HeapOK(heap), StyleRemoveStroke PROVE Landed
<1>1. PICK sel \in Sels, style \in Styles :
        Run("style_remove_stroke", sel, AnyForm, LAMBDA T, h : style_remove_stroke(dom, h, doc, T, style))
  BY DEF StyleRemoveStroke
<1>2. PICK r \in Targets(sel) :
         \E T : \E out \in style_remove_stroke(dom, r.heap, doc, T, style) : Lands(sel, r, "style_remove_stroke", out)
  BY <1>1 DEF Run, Lands
<1>3. PICK T, out : /\ out \in style_remove_stroke(dom, r.heap, doc, T, style)
                    /\ Lands(sel, r, "style_remove_stroke", out)
  BY <1>2
<1>4. Sound(dom, out)
  BY <1>1, <1>3, TargetsGood, PaintingSound
<1> QED
  BY <1>3, <1>4, LandsSound

LEMMA StyleCloneLands == ASSUME TypeOK, HeapOK(heap), StyleClone PROVE Landed
<1>1. PICK sel \in Sels, from \in Ids :
        Run("style_clone", sel, AnyForm, LAMBDA T, h : style_clone(dom, h, doc, T, from))
  BY DEF StyleClone
<1>2. PICK r \in Targets(sel) :
         \E T : \E out \in style_clone(dom, r.heap, doc, T, from) : Lands(sel, r, "style_clone", out)
  BY <1>1 DEF Run, Lands
<1>3. PICK T, out : /\ out \in style_clone(dom, r.heap, doc, T, from)
                    /\ Lands(sel, r, "style_clone", out)
  BY <1>2
<1>4. Sound(dom, out)
  BY <1>1, <1>3, TargetsGood, StyleCloneSound
<1> QED
  BY <1>3, <1>4, LandsSound

LEMMA StyleSetGradientLands == ASSUME TypeOK, HeapOK(heap), StyleSetGradient PROVE Landed
<1>1. PICK sel \in Sels, style \in Styles \ Plain, was \in Styles \ Plain :
        Run("style_set_gradient", sel, AnyForm, LAMBDA T, h : style_set_gradient(dom, h, doc, T, style, was))
  BY DEF StyleSetGradient
<1>2. PICK r \in Targets(sel) :
         \E T : \E out \in style_set_gradient(dom, r.heap, doc, T, style, was) : Lands(sel, r, "style_set_gradient", out)
  BY <1>1 DEF Run, Lands
<1>3. PICK T, out : /\ out \in style_set_gradient(dom, r.heap, doc, T, style, was)
                    /\ Lands(sel, r, "style_set_gradient", out)
  BY <1>2
<1>4. Sound(dom, out)
  BY <1>1, <1>3, TargetsGood, PaintingSound
<1> QED
  BY <1>3, <1>4, LandsSound

LEMMA TextCreateLands == ASSUME TypeOK, HeapOK(heap), TextCreate PROVE Landed
<1>1. PICK id \in Ids, layer \in Where :
        Room(1) /\ Run("text_create", NoSelector, AnyForm, LAMBDA T, h : text_create(dom, h, doc, id, layer))
  BY DEF TextCreate
<1>2. PICK r \in Targets(NoSelector) :
         \E T : \E out \in text_create(dom, r.heap, doc, id, layer) : Lands(NoSelector, r, "text_create", out)
  BY <1>1 DEF Run, Lands
<1>3. PICK T, out : /\ out \in text_create(dom, r.heap, doc, id, layer)
                    /\ Lands(NoSelector, r, "text_create", out)
  BY <1>2
<1>4. Sound(dom, out)
  BY <1>1, <1>3, TargetsGood, TextCreateSound DEF Room
<1> QED
  BY <1>3, <1>4, LandsSound

LEMMA TextSetContentLands == ASSUME TypeOK, HeapOK(heap), TextSetContent PROVE Landed
<1>1. PICK sel \in Sels, form \in Forms :
        Run("text_set_content", sel, AnyForm, LAMBDA T, h : text_set_content(dom, h, doc, T, form))
  BY DEF TextSetContent
<1>2. PICK r \in Targets(sel) :
         \E T : \E out \in text_set_content(dom, r.heap, doc, T, form) : Lands(sel, r, "text_set_content", out)
  BY <1>1 DEF Run, Lands
<1>3. PICK T, out : /\ out \in text_set_content(dom, r.heap, doc, T, form)
                    /\ Lands(sel, r, "text_set_content", out)
  BY <1>2
<1>4. Sound(dom, out)
  BY <1>1, <1>3, TargetsGood, TextSetSound
<1> QED
  BY <1>3, <1>4, LandsSound

LEMMA TextSetStyleLands == ASSUME TypeOK, HeapOK(heap), TextSetStyle PROVE Landed
<1>1. PICK sel \in Sels, form \in Forms :
        Run("text_set_style", sel, AnyForm, LAMBDA T, h : text_set_style(dom, h, doc, T, form))
  BY DEF TextSetStyle
<1>2. PICK r \in Targets(sel) :
         \E T : \E out \in text_set_style(dom, r.heap, doc, T, form) : Lands(sel, r, "text_set_style", out)
  BY <1>1 DEF Run, Lands
<1>3. PICK T, out : /\ out \in text_set_style(dom, r.heap, doc, T, form)
                    /\ Lands(sel, r, "text_set_style", out)
  BY <1>2
<1>4. Sound(dom, out)
  BY <1>1, <1>3, TargetsGood, TextSetSound
<1> QED
  BY <1>3, <1>4, LandsSound

LEMMA AlignLands == ASSUME TypeOK, HeapOK(heap), Align PROVE Landed
<1>1. PICK sel \in Sels, style \in Styles :
        Run("align", sel, AnyForm, LAMBDA T, h : align(dom, h, doc, T, style))
  BY DEF Align
<1>2. PICK r \in Targets(sel) :
         \E T : \E out \in align(dom, r.heap, doc, T, style) : Lands(sel, r, "align", out)
  BY <1>1 DEF Run, Lands
<1>3. PICK T, out : /\ out \in align(dom, r.heap, doc, T, style)
                    /\ Lands(sel, r, "align", out)
  BY <1>2
<1>4. Sound(dom, out)
  BY <1>1, <1>3, TargetsGood, AlignSound
<1> QED
  BY <1>3, <1>4, LandsSound

LEMMA AlignToKeyLands == ASSUME TypeOK, HeapOK(heap), AlignToKey PROVE Landed
<1>1. PICK sel \in Sels, style \in Styles, key \in Ids :
        Run("align_to_key", sel, AnyForm, LAMBDA T, h : align_to_key(dom, h, doc, T, style, key))
  BY DEF AlignToKey
<1>2. PICK r \in Targets(sel) :
         \E T : \E out \in align_to_key(dom, r.heap, doc, T, style, key) : Lands(sel, r, "align_to_key", out)
  BY <1>1 DEF Run, Lands
<1>3. PICK T, out : /\ out \in align_to_key(dom, r.heap, doc, T, style, key)
                    /\ Lands(sel, r, "align_to_key", out)
  BY <1>2
<1>4. Sound(dom, out)
  BY <1>1, <1>3, TargetsGood, AlignToKeySound
<1> QED
  BY <1>3, <1>4, LandsSound

LEMMA DistributeLands == ASSUME TypeOK, HeapOK(heap), Distribute PROVE Landed
<1>1. PICK sel \in Sels, style \in Styles :
        Run("distribute", sel, AnyForm, LAMBDA T, h : distribute(dom, h, doc, T, style))
  BY DEF Distribute
<1>2. PICK r \in Targets(sel) :
         \E T : \E out \in distribute(dom, r.heap, doc, T, style) : Lands(sel, r, "distribute", out)
  BY <1>1 DEF Run, Lands
<1>3. PICK T, out : /\ out \in distribute(dom, r.heap, doc, T, style)
                    /\ Lands(sel, r, "distribute", out)
  BY <1>2
<1>4. Sound(dom, out)
  BY <1>1, <1>3, TargetsGood, AlignSound
<1> QED
  BY <1>3, <1>4, LandsSound

LEMMA AssertCountLands == ASSUME TypeOK, HeapOK(heap), AssertCount PROVE Landed
<1>1. PICK sel \in Sels, n \in 0..2 :
        Run("assert_count", sel, AnyForm, LAMBDA T, h : assert_count(dom, h, doc, T, n))
  BY DEF AssertCount
<1>2. PICK r \in Targets(sel) :
         \E T : \E out \in assert_count(dom, r.heap, doc, T, n) : Lands(sel, r, "assert_count", out)
  BY <1>1 DEF Run, Lands
<1>3. PICK T, out : /\ out \in assert_count(dom, r.heap, doc, T, n)
                    /\ Lands(sel, r, "assert_count", out)
  BY <1>2
<1>4. Sound(dom, out)
  BY <1>1, <1>3, TargetsGood, AssertSound
<1> QED
  BY <1>3, <1>4, LandsSound

LEMMA AssertExistsLands == ASSUME TypeOK, HeapOK(heap), AssertExists PROVE Landed
<1>1. PICK ids \in SUBSET Ids :
        Run("assert_exists", NoSelector, AnyForm, LAMBDA T, h : assert_exists(dom, h, doc, ids))
  BY DEF AssertExists
<1>2. PICK r \in Targets(NoSelector) :
         \E T : \E out \in assert_exists(dom, r.heap, doc, ids) : Lands(NoSelector, r, "assert_exists", out)
  BY <1>1 DEF Run, Lands
<1>3. PICK T, out : /\ out \in assert_exists(dom, r.heap, doc, ids)
                    /\ Lands(NoSelector, r, "assert_exists", out)
  BY <1>2
<1>4. Sound(dom, out)
  BY <1>1, <1>3, TargetsGood, AssertSound
<1> QED
  BY <1>3, <1>4, LandsSound

LEMMA AssertOrderLands == ASSUME TypeOK, HeapOK(heap), AssertOrder PROVE Landed
<1>1. Run("assert_order", NoSelector, AnyForm, LAMBDA T, h : assert_order(dom, h, doc))
  BY DEF AssertOrder
<1>2. PICK r \in Targets(NoSelector) :
         \E T : \E out \in assert_order(dom, r.heap, doc) : Lands(NoSelector, r, "assert_order", out)
  BY <1>1 DEF Run, Lands
<1>3. PICK T, out : /\ out \in assert_order(dom, r.heap, doc)
                    /\ Lands(NoSelector, r, "assert_order", out)
  BY <1>2
<1>4. Sound(dom, out)
  BY <1>1, <1>3, TargetsGood, AssertSound
<1> QED
  BY <1>3, <1>4, LandsSound

LEMMA AssertBoundsLands == ASSUME TypeOK, HeapOK(heap), AssertBounds PROVE Landed
<1>1. PICK sel \in Sels :
        Run("assert_bounds", sel, AnyForm, LAMBDA T, h : assert_bounds(dom, h, doc, T))
  BY DEF AssertBounds
<1>2. PICK r \in Targets(sel) :
         \E T : \E out \in assert_bounds(dom, r.heap, doc, T) : Lands(sel, r, "assert_bounds", out)
  BY <1>1 DEF Run, Lands
<1>3. PICK T, out : /\ out \in assert_bounds(dom, r.heap, doc, T)
                    /\ Lands(sel, r, "assert_bounds", out)
  BY <1>2
<1>4. Sound(dom, out)
  BY <1>1, <1>3, TargetsGood, AssertSound
<1> QED
  BY <1>3, <1>4, LandsSound

LEMMA AssertTextLands == ASSUME TypeOK, HeapOK(heap), AssertText PROVE Landed
<1>1. PICK sel \in Sels :
        Run("assert_text", sel, AnyForm, LAMBDA T, h : assert_text(dom, h, doc, T))
  BY DEF AssertText
<1>2. PICK r \in Targets(sel) :
         \E T : \E out \in assert_text(dom, r.heap, doc, T) : Lands(sel, r, "assert_text", out)
  BY <1>1 DEF Run, Lands
<1>3. PICK T, out : /\ out \in assert_text(dom, r.heap, doc, T)
                    /\ Lands(sel, r, "assert_text", out)
  BY <1>2
<1>4. Sound(dom, out)
  BY <1>1, <1>3, TargetsGood, AssertSound
<1> QED
  BY <1>3, <1>4, LandsSound

LEMMA AssertStyleLands == ASSUME TypeOK, HeapOK(heap), AssertStyle PROVE Landed
<1>1. PICK sel \in Sels, style \in Styles, repair \in BOOLEAN :
        Run("assert_style", sel, AnyForm, LAMBDA T, h : assert_style(dom, h, doc, T, style, repair))
  BY DEF AssertStyle
<1>2. PICK r \in Targets(sel) :
         \E T : \E out \in assert_style(dom, r.heap, doc, T, style, repair) : Lands(sel, r, "assert_style", out)
  BY <1>1 DEF Run, Lands
<1>3. PICK T, out : /\ out \in assert_style(dom, r.heap, doc, T, style, repair)
                    /\ Lands(sel, r, "assert_style", out)
  BY <1>2
<1>4. Sound(dom, out)
  BY <1>1, <1>3, TargetsGood, RepairSound
<1> QED
  BY <1>3, <1>4, LandsSound

LEMMA AssertAlignmentLands == ASSUME TypeOK, HeapOK(heap), AssertAlignment PROVE Landed
<1>1. PICK sel \in Sels, style \in Styles, repair \in BOOLEAN :
        Run("assert_alignment", sel, AnyForm, LAMBDA T, h : assert_alignment(dom, h, doc, T, style, repair))
  BY DEF AssertAlignment
<1>2. PICK r \in Targets(sel) :
         \E T : \E out \in assert_alignment(dom, r.heap, doc, T, style, repair) : Lands(sel, r, "assert_alignment", out)
  BY <1>1 DEF Run, Lands
<1>3. PICK T, out : /\ out \in assert_alignment(dom, r.heap, doc, T, style, repair)
                    /\ Lands(sel, r, "assert_alignment", out)
  BY <1>2
<1>4. Sound(dom, out)
  BY <1>1, <1>3, TargetsGood, RepairSound
<1> QED
  BY <1>3, <1>4, LandsSound

LEMMA MeasureLands == ASSUME TypeOK, HeapOK(heap), Measure PROVE Landed
<1>1. PICK sel \in Sels :
        Run("measure", sel, AnyForm, LAMBDA T, h : measure(dom, h, doc, T))
  BY DEF Measure
<1>2. PICK r \in Targets(sel) :
         \E T : \E out \in measure(dom, r.heap, doc, T) : Lands(sel, r, "measure", out)
  BY <1>1 DEF Run, Lands
<1>3. PICK T, out : /\ out \in measure(dom, r.heap, doc, T)
                    /\ Lands(sel, r, "measure", out)
  BY <1>2
<1>4. Sound(dom, out)
  BY <1>1, <1>3, TargetsGood, AssertSound
<1> QED
  BY <1>3, <1>4, LandsSound

LEMMA FanOutLands == ASSUME TypeOK, HeapOK(heap), FanOut PROVE Landed
<1> DEFINE l == dom.active[doc]
           outs(T, h, ids, id) ==
             IF Cardinality(T) # Cardinality(ids) THEN {}
             ELSE OnLayer(dom, h, doc, NoLayer,
                    {Reports(AddAll(dom, ids, l), h, {id}),
                     Fails(AddAll(dom, ids \ {id}, l), h),
                     Throws(AddAll(dom, {id}, l), h)})
<1>1. PICK sel \in Sels, ids \in SUBSET Fresh(dom), id \in Ids :
        /\ id \in ids /\ Room(Cardinality(ids))
        /\ Run("fan_out", sel, AnyForm, LAMBDA T, h : outs(T, h, ids, id))
  BY DEF FanOut
<1> HIDE DEF outs
<1>2. PICK r \in Targets(sel) :
         \E T : \E out \in outs(T, r.heap, ids, id) : Lands(sel, r, "fan_out", out)
  BY <1>1 DEF Run, Lands
<1>3. PICK T, out : out \in outs(T, r.heap, ids, id) /\ Lands(sel, r, "fan_out", out)
  BY <1>2
<1>4. /\ Good(r.heap) /\ IsDom(dom) /\ ids \in SUBSET Ids /\ CanAdd(dom, Cardinality(ids))
      /\ ids \ {id} \in SUBSET ids /\ {id} \in SUBSET ids
  BY <1>1, TargetsGood DEF Fresh, Room
<1>5. CASE out \in {Fails(dom, r.heap), Throws(dom, r.heap)}
  <2>1. Sound(dom, out)
    BY <1>4, <1>5, NothingSound
  <2> QED
    BY <1>3, <2>1, LandsSound
<1>6. CASE /\ l \in LayersOf(dom, doc)
           /\ out \in {Fails(AddAll(dom, ids \ {id}, l), r.heap), Throws(AddAll(dom, {id}, l), r.heap)}
  <2>1. /\ Grown(dom, AddAll(dom, ids \ {id}, l), ids \ {id})
        /\ Grown(dom, AddAll(dom, {id}, l), {id})
    BY <1>4, <1>6, OpenItems, AddedGrown
  <2>2. Sound(dom, Fails(AddAll(dom, ids \ {id}, l), r.heap))
    BY <1>4, <2>1, ReportsSound
  <2>3. Sound(dom, Throws(AddAll(dom, {id}, l), r.heap))
    BY <1>4, <2>1, ReportsSound
  <2>4. Sound(dom, out)
    BY <1>6, <2>2, <2>3
  <2> QED
    BY <1>3, <2>4, LandsSound
<1>7. CASE l \in LayersOf(dom, doc) /\ out = Reports(AddAll(dom, ids, l), r.heap, {id})
  <2>1. Grown(dom, AddAll(dom, ids, l), ids)
    BY <1>4, <1>7, OpenItems, AddedGrown
  <2>2. Grown(dom, AddAll(dom, ids, l), Ids)
    BY <1>4, <2>1, GrownMore
  <2>3. /\ out.res = "ok" /\ out.dom = AddAll(dom, ids, l) /\ out.heap = r.heap /\ out.ids = {id}
    BY <1>7 DEF Reports, Out
  <2>4. IsCache(Cached(sel, r))
    BY TargetsSound DEF Targets
  <2>5. Can("fan_out") /\ UNCHANGED <<doc, room>> /\ Passes("fan_out", out, Cached(sel, r))
    BY <1>3, <2>3 DEF Lands
  <2> QED
    BY <1>4, <2>2, <2>3, <2>4, <2>5 DEF Landed
<1> QED
  BY <1>3, <1>5, <1>6, <1>7 DEF outs, OnLayer, TargetLayer

-----------------------------------------------------------------------------
(* The steps of a batch keep the types *)

(* The versions an undo goes back to are artwork.                             *)
LEMMA PushedTyped ==
    ASSUME TypeOK, NEW d
    PROVE  /\ Pushed(d) \in Seq(Range(Pushed(d)))
           /\ \A x \in Range(Pushed(d)) : IsDom(x)
<1> DEFINE past == batch.past
           more == Append(past, dom)
<1>1. IsDom(dom) /\ past \in Seq(Range(past)) /\ \A x \in Range(past) : IsDom(x)
  BY DEF TypeOK, IsBatch
<1>2. more \in Seq(Range(more)) /\ \A x \in Range(more) : IsDom(x)
  <2> HIDE DEF past
  <2> DEFINE R == Range(past) \cup {dom}
  <2>1. past \in Seq(R) /\ dom \in R
    BY <1>1
  <2> HIDE DEF R
  <2>2. /\ more \in Seq(R) /\ Len(more) = Len(past) + 1 /\ DOMAIN more = 1..Len(more)
        /\ Len(past) \in Nat /\ \A k \in DOMAIN more : more[k] \in R
    BY <2>1
  <2>3. \A x \in Range(more) : x \in R
    BY <2>2 DEF Range
  <2>4. \A k \in 1..Len(more) : more[k] \in Range(more)
    BY <2>2 DEF Range
  <2>5. more \in Seq(Range(more))
    <3> HIDE DEF more
    <3> DEFINE Q == Range(more)
    <3> HIDE DEF Q
    <3>1. \A k \in 1..Len(more) : more[k] \in Q
      BY <2>4 DEF Q
    <3>2. more \in Seq(Q)
      BY <2>2, <3>1
    <3> QED
      BY <3>2 DEF Q
  <2> QED
    BY <1>1, <2>3, <2>5 DEF R
<1>3. Pushed(d) = past \/ Pushed(d) = more
  BY DEF Pushed
<1> HIDE DEF past, more
<1> QED
  BY <1>1, <1>2, <1>3

LEMMA StepTyped ==
    ASSUME TypeOK, NEW d, NEW h, NEW c, IsCache(c), batch.n <= MaxOps
    PROVE  /\ IsBatch(Step(d, h, c))
           /\ Step(d, h, c).n = batch.n + 1 /\ Step(d, h, c).rolled = NothingRolled
           /\ Step(d, h, c).phase = batch.phase /\ Step(d, h, c).mode = batch.mode
           /\ Step(d, h, c).pre = batch.pre /\ Step(d, h, c).created = batch.created
           /\ Step(d, h, c).undo = batch.undo /\ Step(d, h, c).ok = batch.ok
           /\ Step(d, h, c).born = batch.born /\ Step(d, h, c).fanned = batch.fanned
           /\ Step(d, h, c).past = Pushed(d)
<1> DEFINE b == Step(d, h, c)
<1>1. IsBatch(batch)
  BY DEF TypeOK
<1>2. /\ DOMAIN b = DOMAIN batch
      /\ b.n = batch.n + 1 /\ b.rolled = NothingRolled /\ b.cache = c /\ b.past = Pushed(d)
      /\ b.phase = batch.phase /\ b.mode = batch.mode /\ b.pre = batch.pre
      /\ b.created = batch.created /\ b.undo = batch.undo /\ b.ok = batch.ok
      /\ b.born = batch.born /\ b.fanned = batch.fanned
  BY <1>1 DEF Step, IsBatch
<1> HIDE DEF b
<1>3. MaxOps \in Nat /\ b.n \in 0..MaxOps + 1 /\ b.undo \in 0..b.n
  BY <1>1, <1>2, OpBatchAssumption DEF IsBatch
<1>4. b.past \in Seq(Range(b.past)) /\ \A x \in Range(b.past) : IsDom(x)
  BY <1>2, PushedTyped
<1>5. IsBatch(b)
  BY <1>1, <1>2, <1>3, <1>4 DEF IsBatch, IsCache
<1> QED
  BY <1>2, <1>5 DEF b

(* A rollback ends in artwork, by snapshot or by undo.                        *)
LEMMA RolledBackTyped ==
    ASSUME NEW d, IsDom(d), NEW past, past \in Seq(Range(past)), \A x \in Range(past) : IsDom(x),
           NEW b, b.pre \subseteq Saved, b.undo \in Nat, NEW h, Good(h)
    PROVE  IsDom(rollbackBatch(d, past, b)) /\ Good(RolledHeap(h, b))
<1>1. IsDom(restoreSnapshot(DeleteCreated(d, b.created), doc, b.pre))
  <2>1. IsDom(DeleteCreated(d, b.created))
    BY RemoveGrown DEF DeleteCreated, Grown
  <2> QED
    BY <2>1, RestoreGrown DEF Grown
<1>2. IsDom(Undone(d, past, b.undo))
  <2> DEFINE k == IF b.undo < Len(past) THEN Len(past) - b.undo + 1 ELSE 1
  <2>1. CASE b.undo = 0 \/ past = <<>>
    BY <2>1 DEF Undone
  <2>2. CASE b.undo # 0 /\ past # <<>>
    <3>1. Len(past) \in Nat /\ Len(past) >= 1 /\ DOMAIN past = 1..Len(past)
      BY <2>2
    <3>2. k \in DOMAIN past
      BY <2>2, <3>1
    <3>3. Undone(d, past, b.undo) = past[k]
      BY <2>2 DEF Undone
    <3> HIDE DEF k
    <3>4. past[k] \in Range(past)
      BY <3>2 DEF Range
    <3> QED
      BY <3>3, <3>4
  <2> QED
    BY <2>1, <2>2
<1>3. Good(RolledHeap(h, b))
  BY RollbackOK, RollbackTyped DEF Good, RolledHeap
<1> QED
  BY <1>1, <1>2, <1>3 DEF rollbackBatch

(* The ends of an operation: it passes, it fails and with it the batch or the *)
(* compound it is in, or its exception leaves executeOpBatch.                 *)
LEMMA PassesTyped ==
    ASSUME TypeOK, Ready, NEW task, NEW out, NEW c, IsCache(c), IsDom(out.dom), Good(out.heap),
           out.ids \subseteq Ids, Passes(task, out, c), UNCHANGED <<doc, room>>
    PROVE  TypeOK' /\ HeapOK(heap') /\ (comp # NoCompound => comp' \in Compound)
<1> DEFINE s == Step(out.dom, out.heap, c)
<1>0. batch.n \in Nat /\ MaxOps \in Nat /\ batch.n < MaxOps /\ batch.phase = "run" /\ Undoable(task) \in {0, 1}
  BY OpBatchAssumption DEF TypeOK, IsBatch, Ready, Undoable
<1>1. /\ IsBatch(s) /\ s.n = batch.n + 1 /\ s.phase = "run" /\ s.undo = batch.undo
      /\ batch.undo \in 0..batch.n
  BY <1>0, StepTyped DEF TypeOK, IsBatch
<1>2. dom' = out.dom /\ heap' = out.heap /\ doc' = doc /\ room' = room
  BY DEF Passes
<1> HIDE DEF s
<1>3. CASE comp = NoCompound
  <2>1. /\ batch' = [s EXCEPT !.created = @ \cup out.ids, !.undo = @ + Undoable(task),
                              !.fanned = @ \/ task = "fan_out"]
        /\ comp' = NoCompound
    BY <1>3 DEF Passes, s
  <2>2. /\ DOMAIN batch' = DOMAIN s /\ batch'.phase = s.phase /\ batch'.mode = s.mode
        /\ batch'.pre = s.pre /\ batch'.created = s.created \cup out.ids
        /\ batch'.undo = s.undo + Undoable(task) /\ batch'.n = s.n /\ batch'.ok = s.ok
        /\ batch'.born = s.born /\ batch'.cache = s.cache /\ batch'.past = s.past
        /\ batch'.rolled = s.rolled
    BY <1>1, <2>1 DEF IsBatch
  <2>3. batch'.fanned \in BOOLEAN
    BY <1>1, <2>1 DEF IsBatch
  <2>4. batch'.undo \in 0..batch'.n
    BY <1>0, <1>1, <2>2
  <2>5. IsBatch(batch')
    BY <1>1, <2>2, <2>3, <2>4 DEF IsBatch
  <2> QED
    BY <1>2, <1>3, <2>1, <2>5 DEF TypeOK, Good
<1>4. CASE comp # NoCompound
  <2>1. /\ batch' = [s EXCEPT !.fanned = @ \/ task = "fan_out"]
        /\ comp' = [comp EXCEPT !.created = @ \cup out.ids, !.undo = @ + Undoable(task), !.prev = out.ids]
    BY <1>4 DEF Passes, s
  <2>2. /\ DOMAIN batch' = DOMAIN s /\ batch'.phase = s.phase /\ batch'.mode = s.mode
        /\ batch'.pre = s.pre /\ batch'.created = s.created
        /\ batch'.undo = s.undo /\ batch'.n = s.n /\ batch'.ok = s.ok
        /\ batch'.born = s.born /\ batch'.cache = s.cache /\ batch'.past = s.past
        /\ batch'.rolled = s.rolled
    BY <1>1, <2>1 DEF IsBatch
  <2>3. batch'.fanned \in BOOLEAN
    BY <1>1, <2>1 DEF IsBatch
  <2>4. IsBatch(batch')
    BY <1>1, <2>2, <2>3 DEF IsBatch
  <2>5. comp \in Compound /\ comp.from + comp.undo <= batch.n
    BY <1>4 DEF TypeOK
  <2>6. comp.undo \in Nat /\ comp.from \in Nat /\ comp.undo + Undoable(task) \in 0..MaxOps
        /\ comp.from + (comp.undo + Undoable(task)) <= batch.n + 1
    BY <1>0, <2>5 DEF Compound
  <2>7. comp' \in Compound /\ comp'.from = comp.from /\ comp'.undo = comp.undo + Undoable(task)
    BY <2>1, <2>5, <2>6 DEF Compound
  <2>8. comp'.from + comp'.undo <= batch'.n /\ batch'.n <= MaxOps /\ batch'.phase = "run"
    BY <1>0, <1>1, <2>2, <2>6, <2>7
  <2> QED
    BY <1>2, <2>4, <2>7, <2>8 DEF TypeOK, Good
<1> QED
  BY <1>3, <1>4

LEMMA BatchFailsTyped ==
    ASSUME TypeOK, batch.n <= MaxOps, batch.phase = "run", NEW d, IsDom(d), NEW h, Good(h),
           NEW c, IsCache(c), NEW late \in BOOLEAN, BatchFails(d, h, c, late), UNCHANGED <<doc, room>>
    PROVE  TypeOK' /\ HeapOK(heap')
<1> DEFINE s == Step(d, h, c)
           phase == IF batch.mode = "loose" THEN "run" ELSE "ending"
           b == [s EXCEPT !.ok = FALSE, !.phase = phase]
<1>1. IsBatch(s) /\ s.rolled = NothingRolled
  BY StepTyped
<1> HIDE DEF s
<1>2. /\ DOMAIN b = DOMAIN s /\ b.phase = phase /\ b.ok = FALSE /\ b.mode = s.mode
      /\ b.pre = s.pre /\ b.created = s.created /\ b.undo = s.undo /\ b.n = s.n
      /\ b.born = s.born /\ b.fanned = s.fanned /\ b.cache = s.cache /\ b.past = s.past
      /\ b.rolled = s.rolled
  BY <1>1 DEF IsBatch
<1>3. /\ comp' = NoCompound
      /\ \/ dom' = rollbackBatch(d, b.past, b) /\ heap' = RolledHeap(h, b)
         \/ dom' = d /\ heap' = h
      /\ batch' = b \/ batch' = [b EXCEPT !.rolled = Rolled(b)]
  BY DEF BatchFails, s
<1> HIDE DEF b
<1>4. IsBatch(b)
  BY <1>1, <1>2 DEF IsBatch
<1>5. IsDom(dom') /\ Good(heap')
  <2>1. b.undo \in Nat
    BY <1>4, OpBatchAssumption DEF IsBatch
  <2>2. IsDom(rollbackBatch(d, b.past, b)) /\ Good(RolledHeap(h, b))
    BY <1>4, <2>1, RolledBackTyped DEF IsBatch
  <2> QED
    BY <1>3, <2>2
<1>6. IsBatch(batch')
  BY <1>3, <1>4 DEF IsBatch
<1> QED
  BY <1>3, <1>5, <1>6 DEF TypeOK, Good

LEMMA SubOpFailsTyped ==
    ASSUME TypeOK, Ready, comp # NoCompound, NEW d, IsDom(d), NEW h, Good(h), NEW c, IsCache(c),
           SubOpFails(d, h, c), UNCHANGED <<doc, room>>
    PROVE  TypeOK' /\ HeapOK(heap') /\ comp' \in Compound
<1> DEFINE s == Step(d, h, c)
<1>0. batch.n \in Nat /\ MaxOps \in Nat /\ batch.n < MaxOps /\ batch.phase = "run"
  BY OpBatchAssumption DEF TypeOK, IsBatch, Ready
<1>1. IsBatch(s) /\ s.n = batch.n + 1 /\ s.phase = "run"
  BY <1>0, StepTyped
<1> HIDE DEF s
<1>2. /\ comp' = [comp EXCEPT !.ok = FALSE, !.prev = {}, !.over = comp.mode # "loose"]
      /\ \/ dom' = rollbackBatch(d, s.past, comp) /\ heap' = RolledHeap(h, comp)
         \/ dom' = d /\ heap' = h
      /\ batch' = s \/ batch' = [s EXCEPT !.rolled = Rolled(comp)]
  BY DEF SubOpFails, s
<1>3. comp \in Compound /\ comp.from + comp.undo <= batch.n
  BY DEF TypeOK
<1>4. comp' \in Compound /\ comp'.from = comp.from /\ comp'.undo = comp.undo
  <2> DEFINE over == comp.mode # "loose"
  <2>1. over \in BOOLEAN
    OBVIOUS
  <2>2. comp' = [comp EXCEPT !.ok = FALSE, !.prev = {}, !.over = over]
    BY <1>2
  <2> HIDE DEF over
  <2> QED
    BY <1>3, <2>1, <2>2 DEF Compound
<1>5. IsDom(dom') /\ Good(heap')
  <2>1. comp.undo \in Nat /\ comp.pre \subseteq Saved
    BY <1>0, <1>3 DEF Compound
  <2>2. IsDom(rollbackBatch(d, s.past, comp)) /\ Good(RolledHeap(h, comp))
    BY <1>1, <2>1, RolledBackTyped DEF IsBatch
  <2> QED
    BY <1>2, <2>2
<1>6. IsBatch(batch') /\ batch'.n = s.n /\ batch'.phase = s.phase
  BY <1>1, <1>2 DEF IsBatch
<1>7. comp'.from + comp'.undo <= batch'.n /\ batch'.n <= MaxOps /\ batch'.phase = "run"
  <2>1. comp.from \in Nat /\ comp.undo \in Nat
    BY <1>0, <1>3 DEF Compound
  <2> QED
    BY <1>0, <1>1, <1>3, <1>4, <1>6, <2>1
<1> QED
  BY <1>4, <1>5, <1>6, <1>7 DEF TypeOK, Good

LEMMA FailingTyped ==
    ASSUME TypeOK, Ready, NEW d, IsDom(d), NEW h, Good(h), NEW c, IsCache(c), NEW late \in BOOLEAN,
           Failing(d, h, c, late), UNCHANGED <<doc, room>>
    PROVE  TypeOK' /\ HeapOK(heap')
<1>1. batch.n <= MaxOps /\ batch.phase = "run"
  BY OpBatchAssumption DEF TypeOK, IsBatch, Ready
<1> QED
  BY <1>1, BatchFailsTyped, SubOpFailsTyped DEF Failing

LEMMA EscapesTyped ==
    ASSUME TypeOK, Ready, NEW h, Good(h), NEW c, IsCache(c), Escapes(h, c), UNCHANGED <<doc, room>>
    PROVE  TypeOK' /\ HeapOK(heap')
<1>1. batch.n <= MaxOps /\ batch.phase = "run" /\ IsDom(dom)
  BY OpBatchAssumption DEF TypeOK, IsBatch, Ready
<1>2. CASE comp # NoCompound
  BY <1>1, <1>2, BatchFailsTyped DEF Escapes
<1>3. CASE comp = NoCompound
  <2> DEFINE s == Step(dom, h, c)
  <2>1. IsBatch(s)
    BY <1>1, StepTyped
  <2>2. /\ batch' = [s EXCEPT !.phase = "escaped", !.ok = FALSE, !.pre = {}, !.cache = <<>>, !.past = <<>>]
        /\ heap' = h /\ dom' = dom /\ comp' = NoCompound
    BY <1>3 DEF Escapes
  <2> HIDE DEF s
  <2>3. <<>> \in Seq(Range(<<>>)) /\ Range(<<>>) = {} /\ DOMAIN <<>> = {}
    BY DEF Range
  <2>4. IsBatch(batch')
    BY <2>1, <2>2, <2>3 DEF IsBatch
  <2> QED
    BY <1>1, <2>2, <2>4 DEF TypeOK, Good
<1> QED
  BY <1>2, <1>3

-----------------------------------------------------------------------------
(* What a rollback by snapshot leaves *)

(* RollbackExact of any artwork, document and rollback.                       *)
Exact(dm, d, r) ==
    /\ \A i \in TopLevel(dm, d) : dm.art[i].id \in r.created => ~Editable(dm, i)
    /\ UniqueIds(dm, d) /\ (\A s, t \in r.pre : s.id = t.id => s = t) =>
          \A s \in r.pre, i \in Live(dm, d) :
             /\ dm.art[i].id = s.id /\ Editable(dm, i)
             /\ s.kind = "path" /\ dm.art[i].kind = "path" /\ s.style \in Plain
             => dm.art[i].style = s.style

LEMMA NothingExact == ASSUME NEW dm, NEW d PROVE Exact(dm, d, NothingRolled)
BY DEF Exact, NothingRolled

(* restoreSnapshot after the created items are removed: by an id that names   *)
(* one record and one item, the style of the record is written to that item,  *)
(* and no item it writes to comes back.                                       *)
LEMMA RestoredExact ==
    ASSUME NEW dm, IsDom(dm), NEW d, NEW pre \in SUBSET Saved, NEW created,
           NEW mid, mid = Remove(dm, {i \in TopLevel(dm, d) : dm.art[i].id \in created /\ Editable(dm, i)}),
           NEW new, new = restoreSnapshot(mid, d, pre), NEW r, r.pre = pre, r.created = created
    PROVE  Exact(new, d, r)
<1> DEFINE S == {i \in TopLevel(dm, d) : dm.art[i].id \in created /\ Editable(dm, i)}
<1>1. /\ IsDom(mid) /\ mid.layers = dm.layers
      /\ \A i \in DOMAIN mid.art : i \in DOMAIN dm.art /\ i \notin S /\ mid.art[i] = dm.art[i]
  <2> HIDE DEF S
  <2>1. mid = Remove(dm, S)
    BY DEF S
  <2>2. Grown(dm, mid, {})
    BY <2>1, RemoveGrown
  <2>3. mid.layers = dm.layers
    BY <2>1, RemoveGrown
  <2>4. \A i \in DOMAIN mid.art : i \in DOMAIN dm.art /\ i \notin S /\ mid.art[i] = dm.art[i]
    BY <2>1, RemoveGrown
  <2> QED
    BY <2>2, <2>3, <2>4 DEF Grown
<1>2. /\ IsDom(new) /\ new.layers = mid.layers /\ DOMAIN new.art = DOMAIN mid.art
      /\ \A i \in DOMAIN mid.art :
            /\ new.art[i].id = mid.art[i].id /\ new.art[i].in = mid.art[i].in
            /\ new.art[i].kind = mid.art[i].kind /\ new.art[i].layer = mid.art[i].layer
            /\ new.art[i].locked = mid.art[i].locked
  <2>1. Grown(mid, new, {})
    BY <1>1, RestoreGrown
  <2>2. \A i \in DOMAIN mid.art :
            /\ new.art[i].id = mid.art[i].id /\ new.art[i].in = mid.art[i].in
            /\ new.art[i].kind = mid.art[i].kind /\ new.art[i].layer = mid.art[i].layer
            /\ new.art[i].locked = mid.art[i].locked
    BY <1>1, RestoreGrown
  <2>3. new.layers = mid.layers /\ DOMAIN new.art = DOMAIN mid.art
    BY <1>1, RestoreGrown
  <2> QED
    BY <2>1, <2>2, <2>3 DEF Grown
<1>3. UniqueIds(mid, d) /\ (\A s, t \in pre : s.id = t.id => s = t) =>
         \A s \in pre, i \in Managed(mid, d) :
            /\ mid.art[i].id = s.id /\ Editable(mid, i)
            /\ s.kind = "path" /\ mid.art[i].kind = "path" /\ s.style \in Plain
            => new.art[i].style = s.style
  BY <1>1, RestoreGrown
<1>4. \A i \in DOMAIN mid.art : Editable(new, i) => Editable(mid, i)
  <2>1. \A i \in DOMAIN mid.art : mid.art[i].in \subseteq DOMAIN mid.art
    BY <1>1 DEF IsDom, Nested
  <2>2. ASSUME NEW i \in DOMAIN mid.art, Editable(new, i) PROVE Editable(mid, i)
    <3>1. mid.art[i].in \subseteq DOMAIN mid.art /\ new.art[i].in = mid.art[i].in
      BY <1>2, <2>1
    <3>2. \A j \in mid.art[i].in \cup {i} : ~mid.art[j].locked
      <4>1. ASSUME NEW j \in mid.art[i].in \cup {i} PROVE ~mid.art[j].locked
        <5>1. j \in new.art[i].in \cup {i} /\ j \in DOMAIN mid.art
          BY <3>1
        <5>2. ~new.art[j].locked
          BY <2>2, <5>1 DEF Editable
        <5>3. new.art[j].locked = mid.art[j].locked
          BY <1>2, <5>1
        <5>4. mid.art[j].locked \in BOOLEAN
          BY <1>1, <5>1 DEF IsDom, Item
        <5> QED
          BY <5>2, <5>3, <5>4
      <4> QED
        BY <4>1
    <3>3. LayerOpen(mid, mid.art[i].layer)
      BY <1>2, <2>2 DEF Editable, LayerOpen
    <3> QED
      BY <3>2, <3>3 DEF Editable
  <2> QED
    BY <2>2
<1>5. Live(new, d) = Live(mid, d) /\ Managed(new, d) = Managed(mid, d)
  BY <1>2 DEF Live, Managed
<1>6. UniqueIds(new, d) => UniqueIds(mid, d)
  <2>1. \A i \in Managed(mid, d) : i \in DOMAIN mid.art
    BY DEF Managed, Live
  <2> QED
    BY <1>2, <1>5, <2>1 DEF UniqueIds
<1>7. ASSUME NEW i \in TopLevel(new, d), new.art[i].id \in created, Editable(new, i)
      PROVE  FALSE
  <2>1. i \in DOMAIN mid.art /\ mid.art[i].in = {} /\ DocOf[mid.art[i].layer] = d
        /\ mid.art[i].id \in created /\ Editable(mid, i)
    BY <1>2, <1>4, <1>7 DEF TopLevel, Live
  <2>2. i \in DOMAIN dm.art /\ mid.art[i] = dm.art[i] /\ i \notin S
    BY <1>1, <2>1
  <2>3. i \in TopLevel(dm, d) /\ dm.art[i].id \in created
    BY <2>1, <2>2 DEF TopLevel, Live
  <2>4. Editable(dm, i)
    BY <1>1, <2>1, <2>2 DEF Editable, LayerOpen
  <2> QED
    BY <2>2, <2>3, <2>4
<1>8. ASSUME UniqueIds(new, d), \A s, t \in pre : s.id = t.id => s = t,
             NEW s \in pre, NEW i \in Live(new, d), new.art[i].id = s.id, Editable(new, i),
             s.kind = "path", new.art[i].kind = "path", s.style \in Plain
      PROVE  new.art[i].style = s.style
  <2>1. i \in DOMAIN mid.art
    BY <1>2 DEF Live
  <2>2. s.id # NoId
    BY ArtworkAssumption DEF Saved
  <2>3. i \in Managed(mid, d)
    BY <1>2, <1>5, <1>8, <2>1, <2>2 DEF Managed, Live
  <2>4. mid.art[i].id = s.id /\ mid.art[i].kind = "path" /\ Editable(mid, i)
    BY <1>2, <1>4, <1>8, <2>1
  <2> QED
    BY <1>3, <1>6, <1>8, <2>3, <2>4
<1> QED
  BY <1>7, <1>8 DEF Exact

-----------------------------------------------------------------------------
(* The inductive invariant *)

(* Between batches there is no rollback to be exact about: what the user does *)
(* then is not measured against the last batch.                               *)
RolledGone == Idle => batch.rolled = NothingRolled

(* What CreatedReported says at the end, of every moment of a batch: what it  *)
(* made it will name, itself or through the compound it is in.  A compound    *)
(* that has failed has lost its items, and the batch is no longer ok.         *)
Inside == IF comp = NoCompound THEN {} ELSE comp.created
MadeKnown ==
    /\ batch.phase \in {"run", "ending", "ended"} /\ batch.ok /\ ~batch.fanned /\ room.edits = MaxEdits
    /\ comp # NoCompound => comp.ok
    => \A i \in DOMAIN dom.art :
          i > batch.born => dom.art[i].id \in batch.created \cup Inside \cup {NoId}

OpInv == /\ TypeOK /\ HeapOK(heap) /\ TxnClosed
         /\ RolledGone /\ RollbackExact /\ MadeKnown

LEMMA ExactIs == RollbackExact <=> Exact(dom, doc, batch.rolled)
BY DEF RollbackExact, Exact

LEMMA NothingRolledExact == ASSUME batch.rolled = NothingRolled PROVE RollbackExact
BY NothingExact, ExactIs

(* An operation that succeeds: what it made it names.                          *)
LEMMA PassesInv ==
    ASSUME OpInv, Ready, NEW task, NEW out, NEW c, IsCache(c), out.ids \subseteq Ids, Good(out.heap),
           Grown(dom, out.dom, IF task # "fan_out" THEN out.ids ELSE Ids),
           Passes(task, out, c), UNCHANGED <<doc, room>>
    PROVE  OpInv'
<1> DEFINE s == Step(out.dom, out.heap, c)
<1>1. TypeOK' /\ HeapOK(heap')
  BY PassesTyped DEF OpInv, Grown
<1>0. TypeOK /\ IsDom(dom) /\ batch.n <= MaxOps /\ batch.phase = "run"
  BY OpBatchAssumption DEF OpInv, TypeOK, IsBatch, Ready
<1>2. /\ IsBatch(s) /\ s.rolled = NothingRolled /\ s.phase = "run" /\ s.created = batch.created
      /\ s.ok = batch.ok /\ s.born = batch.born /\ s.fanned = batch.fanned
  BY <1>0, StepTyped
<1> HIDE DEF s
<1>3. /\ dom' = out.dom /\ room' = room
      /\ IF comp = NoCompound
         THEN /\ batch' = [s EXCEPT !.created = @ \cup out.ids, !.undo = @ + Undoable(task),
                                    !.fanned = @ \/ task = "fan_out"]
              /\ comp' = comp
         ELSE /\ batch' = [s EXCEPT !.fanned = @ \/ task = "fan_out"]
              /\ comp' = [comp EXCEPT !.created = @ \cup out.ids, !.undo = @ + Undoable(task),
                                      !.prev = out.ids]
  BY DEF Passes, s
<1>4. /\ batch'.rolled = NothingRolled /\ batch'.phase = "run" /\ batch'.ok = batch.ok
      /\ batch'.born = batch.born
  BY <1>2, <1>3 DEF IsBatch
<1>5. ~batch'.fanned => ~batch.fanned /\ task # "fan_out"
  BY <1>2, <1>3 DEF IsBatch
<1>6. /\ comp' = NoCompound <=> comp = NoCompound
      /\ comp # NoCompound => comp'.ok = comp.ok
      /\ batch'.created \cup Inside' = batch.created \cup Inside \cup out.ids
  <2>1. CASE comp = NoCompound
    BY <1>2, <1>3, <2>1 DEF IsBatch, Inside
  <2>2. CASE comp # NoCompound
    <3>1. comp \in Compound
      BY <1>0, <2>2 DEF TypeOK
    <3>2. comp' = [comp EXCEPT !.created = @ \cup out.ids, !.undo = @ + Undoable(task), !.prev = out.ids]
      BY <1>3, <2>2
    <3>3. comp'.created = comp.created \cup out.ids /\ comp'.ok = comp.ok
      BY <3>1, <3>2 DEF Compound
    <3>4. comp' # NoCompound
      BY <1>0, <2>2, CompoundAssumption, PassesTyped DEF Grown
    <3>5. batch'.created = batch.created
      BY <1>2, <1>3, <2>2 DEF IsBatch
    <3> QED
      BY <2>2, <3>3, <3>4, <3>5 DEF Inside
  <2> QED
    BY <2>1, <2>2
<1>7. MadeKnown'
  <2> SUFFICES ASSUME batch'.ok, ~batch'.fanned, room'.edits = MaxEdits, comp' # NoCompound => comp'.ok,
                      NEW i \in DOMAIN dom'.art, i > batch'.born
               PROVE  dom'.art[i].id \in batch'.created \cup Inside' \cup {NoId}
    BY DEF MadeKnown
  <2>1. Grown(dom, dom', out.ids)
    BY <1>3, <1>5
  <2>2. CASE i \in DOMAIN dom.art
    <3>1. dom.art[i].id \in batch.created \cup Inside \cup {NoId}
      BY <1>0, <1>3, <1>4, <1>5, <1>6, <2>2 DEF OpInv, MadeKnown
    <3>2. dom'.art[i].id = dom.art[i].id
      BY <2>1, <2>2 DEF Grown
    <3> QED
      BY <1>6, <3>1, <3>2
  <2>3. CASE i \notin DOMAIN dom.art
    <3>1. dom'.art[i].id \in out.ids \cup {NoId}
      BY <2>1, <2>3 DEF Grown
    <3> QED
      BY <1>6, <3>1
  <2> QED
    BY <2>2, <2>3
<1>8. RollbackExact'
  BY <1>4, NothingExact DEF RollbackExact, Exact, NothingRolled
<1> QED
  BY <1>1, <1>4, <1>7, <1>8 DEF OpInv, TxnClosed, RolledGone, Idle

(* A rollback, whichever: what follows it is exact. *)
LEMMA RollbackIsExact ==
    ASSUME NEW d, IsDom(d), NEW past, NEW b, b.mode = "snapshot", b.pre \in SUBSET Saved,
           dom' = rollbackBatch(d, past, b), doc' = doc,
           batch'.rolled.pre = b.pre, batch'.rolled.created = b.created
    PROVE  RollbackExact'
<1> DEFINE S == {i \in TopLevel(d, doc) : d.art[i].id \in b.created /\ Editable(d, i)}
           mid == Remove(d, S)
<1>1. dom' = restoreSnapshot(mid, doc, b.pre)
  BY DEF rollbackBatch, DeleteCreated
<1>2. mid = Remove(d, {i \in TopLevel(d, doc) : d.art[i].id \in b.created /\ Editable(d, i)})
  OBVIOUS
<1> HIDE DEF mid, S
<1>3. Exact(dom', doc, batch'.rolled)
  BY <1>1, <1>2, RestoredExact
<1> QED
  BY <1>3 DEF RollbackExact, Exact

LEMMA BatchFailsInv ==
    ASSUME OpInv, batch.n <= MaxOps, batch.phase = "run", NEW d, IsDom(d), NEW h, Good(h),
           NEW c, IsCache(c), NEW late \in BOOLEAN, BatchFails(d, h, c, late), UNCHANGED <<doc, room>>
    PROVE  OpInv'
<1> DEFINE s == Step(d, h, c)
           phase == IF batch.mode = "loose" THEN "run" ELSE "ending"
           b == [s EXCEPT !.ok = FALSE, !.phase = phase]
           back == late /\ batch.mode \in {"undo", "snapshot"}
<1>0. TypeOK
  BY DEF OpInv
<1>1. TypeOK' /\ HeapOK(heap')
  BY <1>0, BatchFailsTyped
<1>2. IsBatch(s) /\ s.rolled = NothingRolled /\ s.pre = batch.pre /\ s.mode = batch.mode
  BY <1>0, StepTyped
<1> HIDE DEF s
<1>3. /\ b.phase = phase /\ b.ok = FALSE /\ b.pre \in SUBSET Saved /\ b.mode = batch.mode
      /\ b.rolled = NothingRolled
      /\ [b EXCEPT !.rolled = Rolled(b)].ok = FALSE /\ [b EXCEPT !.rolled = Rolled(b)].phase = phase
      /\ [b EXCEPT !.rolled = Rolled(b)].rolled = Rolled(b)
  BY <1>2 DEF IsBatch
<1>4. /\ dom' = IF back THEN rollbackBatch(d, b.past, b) ELSE d
      /\ batch' = IF back /\ b.mode = "snapshot" THEN [b EXCEPT !.rolled = Rolled(b)] ELSE b
  BY DEF BatchFails, s
<1> HIDE DEF b, back
<1>5. RollbackExact'
  <2>1. CASE back /\ b.mode = "snapshot"
    <3>1. batch'.rolled.pre = b.pre /\ batch'.rolled.created = b.created
      BY <1>3, <1>4, <2>1 DEF Rolled
    <3>2. dom' = rollbackBatch(d, b.past, b)
      BY <1>4, <2>1
    <3> QED
      BY <1>3, <2>1, <3>1, <3>2, RollbackIsExact
  <2>2. CASE ~(back /\ b.mode = "snapshot")
    <3>1. batch'.rolled = NothingRolled
      BY <1>3, <1>4, <2>2
    <3> QED
      BY <3>1, NothingExact DEF RollbackExact, Exact, NothingRolled
  <2> QED
    BY <2>1, <2>2
<1>6. batch'.phase \in {"run", "ending"} /\ ~batch'.ok
  BY <1>3, <1>4
<1> QED
  BY <1>1, <1>5, <1>6 DEF OpInv, TxnClosed, RolledGone, Idle, MadeKnown

LEMMA SubOpFailsInv ==
    ASSUME OpInv, Ready, comp # NoCompound, NEW d, IsDom(d), NEW h, Good(h), NEW c, IsCache(c),
           SubOpFails(d, h, c), UNCHANGED <<doc, room>>
    PROVE  OpInv'
<1> DEFINE s == Step(d, h, c)
           back == comp.mode = "snapshot" \/ (comp.mode = "undo" /\ comp.created # {})
<1>0. TypeOK /\ batch.n <= MaxOps /\ batch.phase = "run" /\ comp \in Compound
  BY OpBatchAssumption DEF OpInv, TypeOK, IsBatch, Ready
<1>1. TypeOK' /\ HeapOK(heap') /\ comp' \in Compound
  BY <1>0, SubOpFailsTyped
<1>2. IsBatch(s) /\ s.rolled = NothingRolled /\ s.phase = "run"
  BY <1>0, StepTyped
<1> HIDE DEF s
<1>3. /\ dom' = IF back THEN rollbackBatch(d, s.past, comp) ELSE d
      /\ batch' = IF comp.mode = "snapshot" THEN [s EXCEPT !.rolled = Rolled(comp)] ELSE s
      /\ comp' = [comp EXCEPT !.ok = FALSE, !.prev = {}, !.over = comp.mode # "loose"]
  BY DEF SubOpFails, s
<1>4. comp'.ok = FALSE /\ comp' # NoCompound
  BY <1>0, <1>1, <1>3, CompoundAssumption DEF Compound
<1>5. RollbackExact'
  <2>1. CASE comp.mode = "snapshot"
    <3>1. batch'.rolled.pre = comp.pre /\ batch'.rolled.created = comp.created
      BY <1>2, <1>3, <2>1 DEF Rolled, IsBatch
    <3>2. dom' = rollbackBatch(d, s.past, comp)
      BY <1>3, <2>1
    <3>3. comp.pre \in SUBSET Saved
      BY <1>0 DEF Compound
    <3> QED
      BY <2>1, <3>1, <3>2, <3>3, RollbackIsExact
  <2>2. CASE comp.mode # "snapshot"
    <3>1. batch'.rolled = NothingRolled
      BY <1>2, <1>3, <2>2
    <3> QED
      BY <3>1, NothingExact DEF RollbackExact, Exact, NothingRolled
  <2> QED
    BY <2>1, <2>2
<1>6. batch'.phase = "run"
  BY <1>2, <1>3 DEF IsBatch
<1> QED
  BY <1>1, <1>4, <1>5, <1>6 DEF OpInv, TxnClosed, RolledGone, Idle, MadeKnown

LEMMA FailingInv ==
    ASSUME OpInv, Ready, NEW d, IsDom(d), NEW h, Good(h), NEW c, IsCache(c), NEW late \in BOOLEAN,
           Failing(d, h, c, late), UNCHANGED <<doc, room>>
    PROVE  OpInv'
<1>1. batch.n <= MaxOps /\ batch.phase = "run"
  BY OpBatchAssumption DEF OpInv, TypeOK, IsBatch, Ready
<1> QED
  BY <1>1, BatchFailsInv, SubOpFailsInv DEF Failing

LEMMA EscapesInv ==
    ASSUME OpInv, Ready, NEW h, Good(h), NEW c, IsCache(c), Escapes(h, c), UNCHANGED <<doc, room>>
    PROVE  OpInv'
<1>0. TypeOK /\ batch.n <= MaxOps /\ batch.phase = "run" /\ IsDom(dom)
  BY OpBatchAssumption DEF OpInv, TypeOK, IsBatch, Ready
<1>1. CASE comp # NoCompound
  BY <1>0, <1>1, BatchFailsInv DEF Escapes
<1>2. CASE comp = NoCompound
  <2> DEFINE s == Step(dom, h, c)
  <2>1. IsBatch(s) /\ s.rolled = NothingRolled
    BY <1>0, StepTyped
  <2>2. batch' = [s EXCEPT !.phase = "escaped", !.ok = FALSE, !.pre = {}, !.cache = <<>>, !.past = <<>>]
    BY <1>2 DEF Escapes
  <2> HIDE DEF s
  <2>3. batch'.phase = "escaped" /\ batch'.ok = FALSE /\ batch'.rolled = NothingRolled
    BY <2>1, <2>2 DEF IsBatch
  <2>4. TypeOK' /\ HeapOK(heap')
    BY <1>0, EscapesTyped
  <2>5. RollbackExact'
    BY <2>3, NothingExact DEF RollbackExact, Exact, NothingRolled
  <2> QED
    BY <2>3, <2>4, <2>5 DEF OpInv, TxnClosed, RolledGone, Idle, MadeKnown
<1> QED
  BY <1>1, <1>2

LEMMA LandedInv == ASSUME OpInv, Landed PROVE OpInv'
<1>1. PICK task, out, c :
         /\ Can(task) /\ UNCHANGED <<doc, room>>
         /\ IsCache(c) /\ out.ids \subseteq Ids /\ Good(out.heap)
         /\ Grown(dom, out.dom, IF out.res = "ok" /\ task # "fan_out" THEN out.ids ELSE Ids)
         /\ IF out.res = "ok" THEN Passes(task, out, c) ELSE Failing(out.dom, out.heap, c, TRUE)
  BY DEF Landed
<1>2. Ready /\ IsDom(out.dom)
  BY <1>1 DEF Can, Grown
<1>3. CASE out.res = "ok"
  <2>1. Grown(dom, out.dom, IF task # "fan_out" THEN out.ids ELSE Ids) /\ Passes(task, out, c)
    BY <1>1, <1>3
  <2> QED
    BY <1>1, <1>2, <2>1, PassesInv
<1>4. CASE out.res # "ok"
  BY <1>1, <1>2, <1>4, FailingInv
<1> QED
  BY <1>3, <1>4

-----------------------------------------------------------------------------
(* The other steps *)

LEMMA InitInv == ASSUME Init PROVE OpInv
<1> DEFINE m == CHOOSE m \in Modes : TRUE
<1>1. m \in Modes
  BY OpBatchAssumption
<1> HIDE DEF m
<1>2. batch = [phase |-> "idle", mode |-> m, pre |-> {},
                created |-> {}, undo |-> 0, n |-> 0, ok |-> TRUE, born |-> 0,
                fanned |-> FALSE, cache |-> <<>>, past |-> <<>>, rolled |-> NothingRolled]
  BY DEF Init, m
<1>3. <<>> \in Seq(Range(<<>>)) /\ Range(<<>>) = {} /\ DOMAIN <<>> = {}
  BY DEF Range
<1>4. IsBatch(batch)
  BY <1>1, <1>2, <1>3, OpBatchAssumption, ArtworkAssumption DEF IsBatch
<1>5. IsHeap(EmptyHeap) /\ EmptyHeap.txn = NoTxn
  BY DEF EmptyHeap, HeapOf, IsHeap, IsMap
<1>6. room \in [batches: 0..MaxBatches, edits: 0..MaxEdits]
  BY OpBatchAssumption DEF Init
<1>7. TypeOK
  BY <1>4, <1>5, <1>6, OpBatchAssumption DEF Init, TypeOK
<1>8. RollbackExact
  BY <1>2, NothingRolledExact
<1> QED
  BY <1>2, <1>5, <1>7, <1>8 DEF Init, OpInv, HeapOK, TxnClosed, RolledGone, MadeKnown

LEMMA BeginInv == ASSUME OpInv, Begin PROVE OpInv'
<1>0. TypeOK
  BY DEF OpInv
<1>1. PICK mode \in Modes :
         batch' = [phase |-> "run", mode |-> mode,
                   pre |-> IF mode = "snapshot" THEN captureSnapshot(dom, doc) ELSE {},
                   created |-> {}, undo |-> 0, n |-> 0, ok |-> TRUE, born |-> dom.born,
                   fanned |-> FALSE, cache |-> <<>>, past |-> <<>>, rolled |-> NothingRolled]
  BY DEF Begin
<1>2. <<>> \in Seq(Range(<<>>)) /\ Range(<<>>) = {} /\ DOMAIN <<>> = {}
  BY DEF Range
<1>3. IsDom(dom) /\ dom.born \in 0..MaxItems /\ captureSnapshot(dom, doc) \subseteq Saved
  BY <1>0, CaptureTyped DEF TypeOK, IsDom
<1>4. IsBatch(batch')
  <2> DEFINE pre == IF mode = "snapshot" THEN captureSnapshot(dom, doc) ELSE {}
  <2>1. pre \subseteq Saved
    BY <1>3
  <2> HIDE DEF pre
  <2>2. batch' = [phase |-> "run", mode |-> mode, pre |-> pre,
                   created |-> {}, undo |-> 0, n |-> 0, ok |-> TRUE, born |-> dom.born,
                   fanned |-> FALSE, cache |-> <<>>, past |-> <<>>, rolled |-> NothingRolled]
    BY <1>1 DEF pre
  <2> QED
    BY <1>2, <1>3, <2>1, <2>2, OpBatchAssumption DEF IsBatch
<1>5. comp = NoCompound
  BY <1>0 DEF Begin, Idle, TypeOK
<1>6. IsHeap(heap') /\ HeapOK(heap')
  BY <1>0, BeginOK, BeginTyped DEF Begin, TypeOK
<1>7. room' \in [batches: 0..MaxBatches, edits: 0..MaxEdits] /\ room'.edits = room.edits
  BY <1>0, OpBatchAssumption DEF Begin, TypeOK
<1>8. TypeOK'
  BY <1>0, <1>4, <1>5, <1>6, <1>7 DEF Begin, TypeOK
<1>9. batch'.rolled = NothingRolled /\ batch'.phase = "run" /\ batch'.born = dom.born
  BY <1>1
<1>10. RollbackExact'
  BY <1>9, NothingExact DEF RollbackExact, Exact, NothingRolled
<1>11. MadeKnown'
  <2>1. \A i \in DOMAIN dom'.art : ~(i > batch'.born)
    BY <1>3, <1>9, ArtworkAssumption DEF Begin, IsDom
  <2> QED
    BY <2>1 DEF MadeKnown
<1> QED
  BY <1>6, <1>8, <1>9, <1>10, <1>11 DEF OpInv, TxnClosed, RolledGone, Idle

LEMMA RefuseInv == ASSUME OpInv, RefuseRecompute PROVE OpInv'
<1>1. IsHeap(heap') /\ HeapOK(heap')
  BY BeginOK, BeginTyped, RollbackOK, RollbackTyped DEF RefuseRecompute, OpInv, TypeOK
<1>2. heap'.txn = NoTxn
  BY DEF RefuseRecompute, RollbackTxn, BeginTxn, HeapOf, TxnOf
<1>3. UNCHANGED <<dom, doc, batch, comp, room>>
  BY DEF RefuseRecompute
<1> QED
  BY <1>1, <1>2, <1>3 DEF OpInv, TypeOK, TxnClosed, RolledGone, Idle, RollbackExact, MadeKnown, Inside

LEMMA RecomputeInv == ASSUME OpInv, RecomputeClears PROVE OpInv'
<1>1. TypeOK /\ IsDom(dom) /\ IsHeap(heap) /\ batch.rolled = NothingRolled /\ comp = NoCompound
  BY DEF OpInv, TypeOK, RecomputeClears, RolledGone, Idle
<1>2. PICK S : dom' = restoreSnapshot(Remove(dom, S), doc, captureSnapshot(dom, doc))
  BY DEF RecomputeClears
<1>3. IsDom(dom')
  <2>1. IsDom(Remove(dom, S))
    BY <1>1, RemoveGrown DEF Grown
  <2>2. captureSnapshot(dom, doc) \in SUBSET Saved
    BY <1>1, CaptureTyped
  <2> QED
    BY <1>2, <2>1, <2>2, RestoreGrown DEF Grown
<1>4. IsHeap(heap') /\ HeapOK(heap')
  BY <1>1, BeginOK, BeginTyped DEF RecomputeClears
<1>5. /\ IsBatch(batch') /\ batch'.phase = "escaped" /\ batch'.ok = FALSE
      /\ batch'.rolled = NothingRolled
  <2>1. batch' = [batch EXCEPT !.phase = "escaped", !.ok = FALSE] /\ IsBatch(batch)
    BY <1>1 DEF RecomputeClears, TypeOK
  <2> QED
    BY <1>1, <2>1 DEF IsBatch
<1>6. room' \in [batches: 0..MaxBatches, edits: 0..MaxEdits]
  BY <1>1, OpBatchAssumption DEF RecomputeClears, TypeOK
<1>7. TypeOK'
  BY <1>1, <1>3, <1>4, <1>5, <1>6 DEF RecomputeClears, TypeOK
<1>8. RollbackExact'
  BY <1>5, NothingExact DEF RollbackExact, Exact, NothingRolled
<1> QED
  BY <1>4, <1>5, <1>7, <1>8 DEF OpInv, TxnClosed, RolledGone, MadeKnown

LEMMA FinishInv == ASSUME OpInv, Finish PROVE OpInv'
<1>1. TypeOK /\ IsBatch(batch) /\ comp = NoCompound
  BY DEF OpInv, TypeOK, Finish
<1>2. batch' = [batch EXCEPT !.phase = "ended", !.pre = {}, !.cache = <<>>, !.past = <<>>,
                              !.rolled = NothingRolled]
  BY DEF Finish
<1>3. <<>> \in Seq(Range(<<>>)) /\ Range(<<>>) = {} /\ DOMAIN <<>> = {}
  BY DEF Range
<1>4. /\ IsBatch(batch') /\ batch'.phase = "ended" /\ batch'.rolled = NothingRolled
      /\ batch'.ok = batch.ok /\ batch'.fanned = batch.fanned /\ batch'.created = batch.created
      /\ batch'.born = batch.born
  BY <1>1, <1>2, <1>3 DEF IsBatch
<1>5. IsHeap(heap') /\ HeapOK(heap')
  BY <1>1, CommitOK, CommitTyped DEF Finish, TypeOK
<1>6. heap'.txn = NoTxn
  BY DEF Finish, CommitTxn, HeapOf
<1>7. UNCHANGED <<dom, doc, comp, room>>
  BY DEF Finish
<1>8. TypeOK'
  BY <1>1, <1>4, <1>5, <1>7 DEF TypeOK
<1>9. RollbackExact'
  BY <1>4, NothingExact DEF RollbackExact, Exact, NothingRolled
<1>10. MadeKnown'
  BY <1>1, <1>4, <1>7 DEF Finish, OpInv, MadeKnown, Inside
<1> QED
  BY <1>4, <1>5, <1>6, <1>8, <1>9, <1>10 DEF OpInv, TxnClosed, RolledGone

-----------------------------------------------------------------------------
(* Compounds, and operations that have no effect *)

LEMMA EnterInv == ASSUME OpInv, EnterCompound PROVE OpInv'
<1>0. TypeOK /\ IsBatch(batch) /\ Ready /\ comp = NoCompound /\ UNCHANGED <<dom, heap, doc, batch, room>>
  BY DEF OpInv, TypeOK, EnterCompound, Can
<1>1. PICK mode \in CompoundModes :
        comp' = [mode |-> mode, pre |-> IF mode = "snapshot" THEN captureSnapshot(dom, doc) ELSE {},
                  created |-> {}, undo |-> 0, ok |-> TRUE, over |-> FALSE, prev |-> {},
                  from |-> batch.n]
  BY DEF EnterCompound
<1>2. batch.n \in 0..MaxOps /\ MaxOps \in Nat /\ batch.phase = "run"
  BY <1>0, OpBatchAssumption DEF IsBatch, Ready
<1>3. captureSnapshot(dom, doc) \subseteq Saved
  BY <1>0, CaptureTyped DEF TypeOK
<1>4. /\ comp' \in Compound /\ comp'.created = {} /\ comp'.from + comp'.undo <= batch.n
      /\ comp' # NoCompound
  <2> DEFINE pre == IF mode = "snapshot" THEN captureSnapshot(dom, doc) ELSE {}
  <2>1. pre \subseteq Saved
    BY <1>3
  <2> HIDE DEF pre
  <2>2. comp' = [mode |-> mode, pre |-> pre, created |-> {}, undo |-> 0, ok |-> TRUE, over |-> FALSE,
                 prev |-> {}, from |-> batch.n]
    BY <1>1 DEF pre
  <2>3. comp' \in Compound
    BY <1>2, <2>1, <2>2 DEF Compound
  <2>4. comp' # NoCompound
    BY <2>3, CompoundAssumption
  <2>5. comp'.created = {} /\ comp'.undo = 0 /\ comp'.from = batch.n
    BY <2>2
  <2>6. comp'.from + comp'.undo <= batch.n
    BY <1>2, <2>5
  <2> QED
    BY <2>3, <2>4, <2>5, <2>6
<1>5. TypeOK'
  BY <1>0, <1>2, <1>4 DEF TypeOK
<1>6. RollbackExact'
  BY <1>0 DEF OpInv, RollbackExact
<1>7. MadeKnown'
  BY <1>0, <1>4 DEF OpInv, MadeKnown, Inside
<1> QED
  BY <1>0, <1>5, <1>6, <1>7 DEF OpInv, TxnClosed, RolledGone, Idle

LEMMA LeaveInv == ASSUME OpInv, LeaveCompound PROVE OpInv'
<1>0. /\ TypeOK /\ IsDom(dom) /\ Good(heap) /\ IsCache(batch.cache) /\ comp \in Compound
      /\ batch.phase = "run" /\ batch.n <= MaxOps /\ batch.n \in Nat /\ batch.undo \in 0..batch.n
      /\ comp.from + comp.undo <= batch.n /\ comp # NoCompound /\ UNCHANGED <<doc, room>>
  BY DEF OpInv, TypeOK, IsBatch, IsCache, LeaveCompound, Good
<1>1. CASE ~comp.ok
  <2>1. BatchFails(dom, heap, batch.cache, TRUE)
    BY <1>1 DEF LeaveCompound
  <2> QED
    BY <1>0, <2>1, BatchFailsInv
<1>2. CASE comp.ok
  <2> DEFINE s == Step(dom, heap, batch.cache)
  <2>1. /\ IsBatch(s) /\ s.n = batch.n + 1 /\ s.rolled = NothingRolled /\ s.phase = "run"
        /\ s.created = batch.created /\ s.undo = batch.undo /\ s.ok = batch.ok
        /\ s.born = batch.born /\ s.fanned = batch.fanned
    BY <1>0, StepTyped
  <2>2. /\ batch' = [s EXCEPT !.created = @ \cup comp.created, !.undo = @ + 1]
        /\ comp' = NoCompound /\ UNCHANGED <<dom, heap>>
    BY <1>2 DEF LeaveCompound
  <2> HIDE DEF s
  <2>3. /\ DOMAIN batch' = DOMAIN s /\ batch'.phase = s.phase /\ batch'.mode = s.mode
        /\ batch'.pre = s.pre /\ batch'.created = s.created \cup comp.created
        /\ batch'.undo = s.undo + 1 /\ batch'.n = s.n /\ batch'.ok = s.ok /\ batch'.fanned = s.fanned
        /\ batch'.born = s.born /\ batch'.cache = s.cache /\ batch'.past = s.past
        /\ batch'.rolled = s.rolled
    BY <2>1, <2>2 DEF IsBatch
  <2>4. batch'.undo \in 0..batch'.n
    BY <1>0, <2>1, <2>3
  <2>5. comp.created \subseteq Ids
    BY <1>0 DEF Compound
  <2>6. IsBatch(batch')
    BY <2>1, <2>3, <2>4, <2>5 DEF IsBatch
  <2>7. TypeOK'
    BY <1>0, <2>2, <2>6 DEF TypeOK
  <2>8. RollbackExact'
    BY <2>1, <2>3, NothingExact DEF RollbackExact, Exact, NothingRolled
  <2>9. MadeKnown'
    BY <1>0, <1>2, <2>1, <2>2, <2>3 DEF OpInv, MadeKnown, Inside
  <2> QED
    BY <1>0, <2>1, <2>2, <2>3, <2>7, <2>8, <2>9 DEF OpInv, TxnClosed, RolledGone, Idle
<1> QED
  BY <1>1, <1>2

LEMMA OpFailsInv == ASSUME OpInv, OpFails PROVE OpInv'
<1>0. TypeOK /\ HeapOK(heap) /\ IsDom(dom) /\ Good(heap) /\ IsCache(batch.cache)
  BY DEF OpInv, TypeOK, IsBatch, IsCache, Good
<1>1. CASE Invalid
  BY <1>0, <1>1, FailingInv DEF Invalid
<1>2. ASSUME NEW sel \in Sels, CollectFails(sel)
      PROVE  OpInv'
  <2>1. PICK r \in resolveTargets(Selector(sel)) : Failing(dom, r.heap, batch.cache, FALSE)
    BY <1>2 DEF CollectFails
  <2>2. Good(r.heap)
    BY <1>0, TargetsSound
  <2>3. Ready /\ UNCHANGED <<doc, room>>
    BY <1>2 DEF CollectFails, Can
  <2> QED
    BY <1>0, <2>1, <2>2, <2>3, FailingInv
<1>3. ASSUME NEW sel \in Sels, GuardFails(sel)
      PROVE  OpInv'
  <2>1. PICK r \in resolveTargets(Selector(sel)) : Failing(dom, r.heap, Cached(sel, r), FALSE)
    BY <1>3 DEF GuardFails, Targets
  <2>2. Good(r.heap) /\ IsCache(Cached(sel, r))
    BY <1>0, TargetsSound
  <2>3. Ready /\ UNCHANGED <<doc, room>>
    BY <1>3 DEF GuardFails, Can
  <2> QED
    BY <1>0, <2>1, <2>2, <2>3, FailingInv
<1>4. ASSUME NEW sel \in Sels, NEW g \in Guards, GuardThrows(sel, g)
      PROVE  OpInv'
  <2>1. PICK r \in resolveTargets(Selector(sel)) : Escapes(r.heap, Cached(sel, r))
    BY <1>4 DEF GuardThrows, Targets
  <2>2. Good(r.heap) /\ IsCache(Cached(sel, r))
    BY <1>0, TargetsSound
  <2>3. Ready /\ UNCHANGED <<doc, room>>
    BY <1>4 DEF GuardThrows, Can
  <2> QED
    BY <1>0, <2>1, <2>2, <2>3, EscapesInv
<1>5. CASE PrevUnavailable \/ NestedCompound
  <2>1. Ready /\ UNCHANGED <<doc, room>> /\ comp # NoCompound /\ SubOpFails(dom, heap, batch.cache)
    BY <1>5 DEF PrevUnavailable, NestedCompound, Can
  <2> QED
    BY <1>0, <2>1, SubOpFailsInv
<1> QED
  BY <1>1, <1>2, <1>3, <1>4, <1>5 DEF OpFails

LEMMA GuardSkipsInv ==
    ASSUME OpInv, NEW sel \in Sels, NEW g \in Guards, GuardSkips(sel, g)
    PROVE  OpInv'
<1>1. PICK r \in resolveTargets(Selector(sel)), ids \in {{}} \cup {{id} : id \in Ids} :
             Passes("measure", Reports(dom, r.heap, ids), Cached(sel, r))
  BY DEF GuardSkips, Targets
<1>2. TypeOK /\ HeapOK(heap) /\ IsDom(dom)
  BY DEF OpInv, TypeOK
<1>3. Good(r.heap) /\ IsCache(Cached(sel, r))
  BY <1>2, TargetsSound
<1> DEFINE out == Reports(dom, r.heap, ids)
<1>4. out.dom = dom /\ out.heap = r.heap /\ out.ids = ids
  BY DEF Reports, Out
<1>5. Passes("measure", out, Cached(sel, r))
  BY <1>1
<1> HIDE DEF out
<1>6. ids \subseteq Ids
  OBVIOUS
<1>7. Grown(dom, out.dom, ids)
  BY <1>2, <1>4, GrownSelf, GrownMore
<1>8. Ready /\ UNCHANGED <<doc, room>>
  BY DEF GuardSkips, Can
<1>9. Grown(dom, out.dom, IF "measure" # "fan_out" THEN out.ids ELSE Ids)
  BY <1>4, <1>7
<1> QED
  BY <1>3, <1>4, <1>5, <1>6, <1>8, <1>9, PassesInv

-----------------------------------------------------------------------------
(* What the user does between batches *)

LEMMA EditedInv ==
    ASSUME OpInv, Idle, IsDom(dom'), IsHeap(heap'), HeapOK(heap'), heap.txn = NoTxn => heap'.txn = NoTxn,
           doc' \in Docs, room' = [room EXCEPT !.edits = @ - 1], room.edits > 0,
           UNCHANGED <<batch, comp>>
    PROVE  OpInv'
<1>1. room' \in [batches: 0..MaxBatches, edits: 0..MaxEdits] /\ room'.edits # MaxEdits
  BY OpBatchAssumption DEF OpInv, TypeOK
<1>2. batch' = batch /\ comp' = comp /\ batch.rolled = NothingRolled
  BY DEF OpInv, RolledGone
<1>3. TypeOK'
  BY <1>1, <1>2 DEF OpInv, TypeOK
<1>4. RollbackExact'
  BY <1>2, NothingExact DEF RollbackExact, Exact, NothingRolled
<1> QED
  BY <1>1, <1>2, <1>3, <1>4 DEF OpInv, TxnClosed, RolledGone, Idle, MadeKnown

LEMMA LockedIsDom ==
    ASSUME NEW dm, IsDom(dm), NEW i \in DOMAIN dm.art
    PROVE  IsDom([dm EXCEPT !.art[i].locked = ~@])
<1> DEFINE art == [dm.art EXCEPT ![i].locked = ~@]
<1>1. [dm EXCEPT !.art[i].locked = ~@] = [dm EXCEPT !.art = art]
  BY DEF IsDom
<1>2. \A k \in DOMAIN dm.art : /\ art[k] \in Item /\ art[k].id = dm.art[k].id
        /\ art[k].layer = dm.art[k].layer /\ art[k].in = dm.art[k].in /\ art[k].kind = dm.art[k].kind
  BY DEF IsDom, Item
<1>3. DOMAIN art = DOMAIN dm.art
  OBVIOUS
<1> HIDE DEF art
<1>4. Nested(art)
  BY <1>2, <1>3, SameNests DEF IsDom
<1>5. Grown(dm, [dm EXCEPT !.art = art], {})
  BY <1>2, <1>3, <1>4, ArtOnly DEF IsDom
<1> QED
  BY <1>1, <1>5 DEF Grown

LEMMA RetaggedIsDom ==
    ASSUME NEW dm, IsDom(dm), NEW i \in DOMAIN dm.art, NEW id \in Ids \cup {NoId}
    PROVE  IsDom([dm EXCEPT !.art[i].id = id, !.used = @ \cup ({id} \ {NoId})])
<1> DEFINE art == [dm.art EXCEPT ![i].id = id]
           new == [dm EXCEPT !.art[i].id = id, !.used = @ \cup ({id} \ {NoId})]
<1>1. /\ DOMAIN new = {"art", "born", "layers", "active", "used"} /\ new.art = art
      /\ new.born = dm.born /\ new.layers = dm.layers /\ new.active = dm.active
      /\ new.used = dm.used \cup ({id} \ {NoId})
  BY DEF IsDom
<1>2. \A k \in DOMAIN dm.art : /\ art[k] \in Item /\ art[k].id \in new.used \cup {NoId}
        /\ art[k].layer = dm.art[k].layer /\ art[k].in = dm.art[k].in /\ art[k].kind = dm.art[k].kind
  <2> HIDE DEF new
  <2>1. \A k \in DOMAIN dm.art : dm.art[k] \in Item /\ dm.art[k].id \in dm.used \cup {NoId}
    BY DEF IsDom
  <2>2. \A k \in DOMAIN dm.art : art[k] = IF k = i THEN [dm.art[k] EXCEPT !.id = id] ELSE dm.art[k]
    OBVIOUS
  <2> HIDE DEF art
  <2>3. ASSUME NEW k \in DOMAIN dm.art
        PROVE  /\ art[k] \in Item /\ art[k].id \in new.used \cup {NoId}
               /\ art[k].layer = dm.art[k].layer /\ art[k].in = dm.art[k].in /\ art[k].kind = dm.art[k].kind
    <3>1. CASE k = i
      <4>1. art[k] = [dm.art[k] EXCEPT !.id = id] /\ dm.art[k] \in Item
        BY <2>1, <2>2, <3>1
      <4>2. art[k].id = id
        BY <4>1 DEF Item
      <4> QED
        BY <1>1, <4>1, <4>2 DEF Item
    <3>2. CASE k # i
      BY <1>1, <2>1, <2>2, <3>2
    <3> QED
      BY <3>1, <3>2
  <2> QED
    BY <2>3
<1>3. DOMAIN art = DOMAIN dm.art
  OBVIOUS
<1> HIDE DEF art, new
<1>4. Nested(art)
  BY <1>2, <1>3, SameNests DEF IsDom
<1>5. new.used \subseteq Ids
  BY <1>1 DEF IsDom
<1>6. IsDom(new)
  BY <1>1, <1>2, <1>3, <1>4, <1>5 DEF IsDom
<1> QED
  BY <1>6 DEF new

LEMMA DuplicatedIsDom ==
    ASSUME NEW dm, IsDom(dm), CanAdd(dm, 1), NEW i \in DOMAIN dm.art
    PROVE  IsDom(Add(dm, [dm.art[i] EXCEPT !.locked = FALSE]))
<1> DEFINE x == [dm.art[i] EXCEPT !.locked = FALSE]
<1>1. dm.art[i] \in Item /\ dm.art[i].layer \in DOMAIN dm.layers
  BY DEF IsDom
<1>2. x \in Item /\ x.layer = dm.art[i].layer /\ x.in = dm.art[i].in
  BY <1>1 DEF Item
<1> HIDE DEF x
<1>3. /\ x.in \subseteq DOMAIN dm.art
      /\ \A j \in x.in : /\ dm.art[j].kind = "group" /\ dm.art[j].layer = x.layer
                         /\ dm.art[j].in \subseteq x.in
                         /\ \A k \in x.in : j = k \/ j \in dm.art[k].in \/ k \in dm.art[j].in
  BY <1>2 DEF IsDom, Nested
<1>4. Grown(dm, Add(dm, x), {x.id} \ {NoId})
  BY <1>1, <1>2, <1>3, AddGrown
<1> QED
  BY <1>4 DEF Grown, x

LEMMA UserEditInv == ASSUME OpInv, UserEdit PROVE OpInv'
<1>0. IsDom(dom) /\ IsHeap(heap) /\ HeapOK(heap) /\ doc \in Docs
  BY DEF OpInv, TypeOK
<1>1. ASSUME NEW d, IsDom(d), Edit(d) PROVE OpInv'
  BY <1>0, <1>1, EditedInv DEF Edit
<1>2. CASE UserDeletes
  <2>1. PICK i \in Live(dom, doc) : Edit(Remove(dom, {i}))
    BY <1>2 DEF UserDeletes
  <2>2. IsDom(Remove(dom, {i}))
    BY <1>0, RemoveGrown DEF Grown
  <2> QED
    BY <1>1, <2>1, <2>2
<1>3. CASE UserDuplicates
  <2>1. PICK i \in TopLevel(dom, doc) : Room(1) /\ Edit(Add(dom, [dom.art[i] EXCEPT !.locked = FALSE]))
    BY <1>3 DEF UserDuplicates
  <2>2. i \in DOMAIN dom.art /\ CanAdd(dom, 1)
    BY <2>1 DEF TopLevel, Live, Room
  <2>3. IsDom(Add(dom, [dom.art[i] EXCEPT !.locked = FALSE]))
    BY <1>0, <2>2, DuplicatedIsDom
  <2> QED
    BY <1>1, <2>1, <2>3
<1>4. CASE UserLocks
  <2>1. PICK i \in Live(dom, doc) : Edit([dom EXCEPT !.art[i].locked = ~@])
    BY <1>4 DEF UserLocks
  <2>2. IsDom([dom EXCEPT !.art[i].locked = ~@])
    BY <1>0, LockedIsDom DEF Live
  <2> QED
    BY <1>1, <2>1, <2>2
<1>5. CASE UserRetags
  <2>1. PICK i \in Live(dom, doc), id \in Ids \cup {NoId} :
           Edit([dom EXCEPT !.art[i].id = id, !.used = @ \cup ({id} \ {NoId})])
    BY <1>5 DEF UserRetags
  <2>2. IsDom([dom EXCEPT !.art[i].id = id, !.used = @ \cup ({id} \ {NoId})])
    BY <1>0, RetaggedIsDom DEF Live
  <2> QED
    BY <1>1, <2>1, <2>2
<1>6. CASE UserSwitches
  BY <1>0, <1>6, EditedInv DEF UserSwitches
<1>7. ASSUME NEW id \in Ids, NEW kind \in {"path", "compound"}, NEW layer \in Layers,
             drawPathPoints(id, kind, layer)
      PROVE  OpInv'
  <2> DEFINE made == Add(dom, New(id, kind, layer))
  <2>1. CanAdd(dom, 1) /\ layer \in DOMAIN dom.layers
    BY <1>7, OpenItems DEF drawPathPoints, Room
  <2>2. IsDom(made)
    BY <1>0, <2>1, NewGrown DEF Grown, Kinds
  <2>3. IsDom(Remove(made, {Newest(dom)}))
    BY <2>2, RemoveGrown DEF Grown
  <2>4. IsDom(dom')
    BY <1>7, <2>2, <2>3 DEF drawPathPoints
  <2>5. Newest(dom) \in Items
    BY <1>0, <2>1, ArtworkAssumption DEF IsDom, CanAdd, Newest, Items
  <2>6. IsHeap(heap') /\ HeapOK(heap')
    BY <1>0, <1>7, <2>5, RegisterOK, RegisterTyped DEF drawPathPoints
  <2>7. heap.txn = NoTxn => heap'.txn = NoTxn
    BY <1>7 DEF drawPathPoints, Register, HeapOf
  <2> QED
    BY <1>0, <1>7, <2>4, <2>6, <2>7, EditedInv DEF drawPathPoints
<1> QED
  BY <1>2, <1>3, <1>4, <1>5, <1>6, <1>7 DEF UserEdit

-----------------------------------------------------------------------------
(* The theorems *)

LEMMA NextInv == ASSUME OpInv, [Next]_vars PROVE OpInv'
<1>0. TypeOK /\ HeapOK(heap)
  BY DEF OpInv
<1>1. CASE ElementOp
  <2>1. Landed
    BY <1>0, <1>1, ElementCreateLands, ElementCreateMultiLands, ElementCreateMultiByRefLands,
       ElementCreateBatchLands, ElementModifyLands, ElementDeleteLands, ElementReplaceLands,
       FanOutLands DEF ElementOp
  <2> QED
    BY <2>1, LandedInv
<1>2. CASE GroupOp \/ LayerOp
  <2>1. Landed
    BY <1>0, <1>2, GroupCreateLands, GroupUngroupLands, ClipCreateLands, ZOrderLands,
       LayerCreateLands, LayerActivateLands, LayerLockLands, LayerVisibleLands, LayerDeleteLands
       DEF GroupOp, LayerOp
  <2> QED
    BY <2>1, LandedInv
<1>3. CASE StyleOp
  <2>1. Landed
    BY <1>0, <1>3, StyleSetFillLands, StyleSetStrokeLands, StyleSetOpacityLands,
       StyleRemoveFillLands, StyleRemoveStrokeLands, StyleCloneLands, StyleSetGradientLands
       DEF StyleOp
  <2> QED
    BY <2>1, LandedInv
<1>4. CASE TextOp \/ ArrangeOp
  <2>1. Landed
    BY <1>0, <1>4, TextCreateLands, TextSetContentLands, TextSetStyleLands, AlignLands,
       AlignToKeyLands, DistributeLands DEF TextOp, ArrangeOp
  <2> QED
    BY <2>1, LandedInv
<1>5. CASE AssertOp
  <2>1. Landed
    BY <1>0, <1>5, AssertCountLands, AssertExistsLands, AssertOrderLands, AssertBoundsLands,
       AssertTextLands, AssertStyleLands, AssertAlignmentLands, MeasureLands DEF AssertOp
  <2> QED
    BY <2>1, LandedInv
<1>6. CASE UNCHANGED vars
  BY <1>6 DEF vars, OpInv, TypeOK, TxnClosed, RolledGone, Idle, RollbackExact, MadeKnown, Inside
<1> QED
  BY <1>1, <1>2, <1>3, <1>4, <1>5, <1>6, BeginInv, RefuseInv, RecomputeInv, FinishInv, EnterInv,
     LeaveInv, OpFailsInv, GuardSkipsInv, UserEditInv DEF Next

(* Whatever operations, failures, exceptions, compounds, rollbacks and edits   *)
(* by the user follow one another, OpInv holds.                               *)
THEOREM BatchesKeepInv == Spec => []OpInv
BY InitInv, NextInv, PTL DEF Spec

(* The artwork stays a forest of items on layers that exist, the index points *)
(* to items, and a batch and its compound keep their types: no handler, undo  *)
(* or restore leaves an item in a group or layer that is gone.                *)
THEOREM BatchesTyped == Spec => []TypeOK
<1>1. OpInv => TypeOK
  BY DEF OpInv
<1> QED
  BY <1>1, BatchesKeepInv, PTL

(* No operation of a batch reaches through the heap an item that an earlier   *)
(* one deleted: a tombstoned id stays out of the index as long as its         *)
(* transaction is open, through every lookup, rebuild, rollback and failure.  *)
THEOREM IndexIsSound == Spec => []IndexSound
<1>1. OpInv => IndexSound
  BY DEF OpInv, HeapOK, IndexSound
<1> QED
  BY <1>1, BatchesKeepInv, PTL

(* Only an exception that leaves executeOpBatch, or a recompute under way or  *)
(* given up, leaves the transaction of the heap open.                         *)
THEOREM TransactionsClose == Spec => []TxnClosed
<1>1. OpInv => TxnClosed
  BY DEF OpInv
<1> QED
  BY <1>1, BatchesKeepInv, PTL

(* After rollbackBatch nothing the batch reported as created is left where it *)
(* looks, and what it can find again and write has its style back, however    *)
(* far the batch or the compound had come.                                    *)
THEOREM RollbackIsRight == Spec => []RollbackExact
<1>1. OpInv => RollbackExact
  BY DEF OpInv
<1> QED
  BY <1>1, BatchesKeepInv, PTL

(* A batch that reports success names every managed item it made and kept, if *)
(* nothing fanned out: createdIds loses none on its way out of a compound.    *)
THEOREM MadeIsReported == Spec => []CreatedReported
<1>1. OpInv => CreatedReported
  <2>1. ASSUME OpInv, batch.phase = "ended" PROVE comp = NoCompound
    BY <2>1 DEF OpInv, TypeOK
  <2> QED
    BY <2>1 DEF OpInv, MadeKnown, CreatedReported, Inside
<1> QED
  BY <1>1, BatchesKeepInv, PTL

(* However stale the index: heapResolve answers with an item that exists and  *)
(* carries the id it was asked for, or with none (heap.jsx:198-250).          *)
THEOREM LookupIsRight == Spec => []ResolveRight
<1>1. ResolveRight
  BY ResolveFacts DEF ResolveRight
<1> QED
  BY <1>1, PTL
=============================================================================
