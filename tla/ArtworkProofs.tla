---------------------------- MODULE ArtworkProofs ----------------------------
(* What the operators of Artwork, Heap and Targets keep: artwork stays        *)
(* artwork, an item keeps its id, and the index points to items.              *)
EXTENDS Targets, FiniteSetTheorems, TLAPS

(* new is what dm may become: items go, the ids of those that stay are the    *)
(* same, and new items have an id of ids or none.                             *)
Grown(dm, new, ids) ==
    /\ IsDom(new) /\ new.born >= dm.born
    /\ \A i \in DOMAIN new.art :
          IF i \in DOMAIN dm.art THEN new.art[i].id = dm.art[i].id
          ELSE i > dm.born /\ new.art[i].id \in ids \cup {NoId}

LEMMA GrownSelf == ASSUME NEW dm, IsDom(dm) PROVE Grown(dm, dm, {})
BY ArtworkAssumption DEF Grown, IsDom

LEMMA GrownMore ==
    ASSUME NEW dm, NEW new, NEW few, NEW ids, few \subseteq ids, Grown(dm, new, few)
    PROVE  Grown(dm, new, ids)
BY DEF Grown

LEMMA GrownThen ==
    ASSUME NEW dm, NEW mid, NEW new, NEW ids, IsDom(dm), Grown(dm, mid, ids), Grown(mid, new, ids)
    PROVE  Grown(dm, new, ids)
<1>1. /\ dm.born \in Nat /\ mid.born \in Nat /\ new.born \in Nat
      /\ DOMAIN dm.art \subseteq Nat /\ DOMAIN mid.art \subseteq Nat /\ DOMAIN new.art \subseteq Nat
      /\ \A i \in DOMAIN dm.art : i <= dm.born
  BY ArtworkAssumption DEF Grown, IsDom
<1>2. \A i \in DOMAIN new.art : i \in DOMAIN dm.art => i \in DOMAIN mid.art
  BY <1>1 DEF Grown
<1> QED
  BY <1>1, <1>2 DEF Grown

LEMMA ItemFields ==
    ASSUME NEW x \in Item
    PROVE  /\ DOMAIN x = {"id", "style", "form", "kind", "in", "layer", "locked"}
           /\ x.id \in Ids \cup {NoId} /\ x.style \in Styles /\ x.form \in Forms
           /\ x.kind \in Kinds /\ x.in \subseteq Items /\ x.layer \in Layers
           /\ x.locked \in BOOLEAN
BY DEF Item

LEMMA DomNumbers ==
    ASSUME NEW dm, IsDom(dm)
    PROVE  dm.born \in Nat /\ dm.born <= MaxItems /\ DOMAIN dm.art \subseteq Items
BY ArtworkAssumption DEF IsDom, Items

(* Items only go or change, but not their ids. *)
LEMMA ArtOnly ==
    ASSUME NEW dm, IsDom(dm), NEW art, DOMAIN art \subseteq DOMAIN dm.art,
           \A i \in DOMAIN art : /\ art[i] \in Item /\ art[i].id = dm.art[i].id
                                 /\ art[i].layer \in DOMAIN dm.layers,
           Nested(art)
    PROVE  Grown(dm, [dm EXCEPT !.art = art], {})
<1> DEFINE new == [dm EXCEPT !.art = art]
<1>1. /\ DOMAIN new = {"art", "born", "layers", "active", "used"} /\ new.art = art
      /\ new.born = dm.born /\ new.layers = dm.layers /\ new.active = dm.active /\ new.used = dm.used
  BY DEF IsDom
<1> HIDE DEF new
<1>2. dm.born \in 0..MaxItems /\ DOMAIN art \subseteq 1..dm.born /\ dm.born >= dm.born
  BY ArtworkAssumption DEF IsDom
<1>3. \A i \in DOMAIN art : art[i].id \in dm.used \cup {NoId}
  BY DEF IsDom
<1>4. IsDom(new)
  BY <1>1, <1>2, <1>3 DEF IsDom
<1>5. Grown(dm, new, {})
  BY <1>1, <1>2, <1>4 DEF Grown
<1> QED
  BY <1>5 DEF new

(* What neither moves nor changes its kind stays nested. *)
LEMMA SameNests ==
    ASSUME NEW old, NEW art, Nested(old), DOMAIN art = DOMAIN old,
           \A i \in DOMAIN old : /\ art[i].in = old[i].in /\ art[i].kind = old[i].kind
                                 /\ art[i].layer = old[i].layer
    PROVE  Nested(art)
BY DEF Nested

LEMMA RemoveGrown ==
    ASSUME NEW dm, IsDom(dm), NEW S
    PROVE  /\ Grown(dm, Remove(dm, S), {})
           /\ Remove(dm, S).layers = dm.layers /\ Remove(dm, S).born = dm.born
           /\ Remove(dm, S).active = dm.active
           /\ \A i \in DOMAIN Remove(dm, S).art :
                 i \in DOMAIN dm.art /\ i \notin S /\ Remove(dm, S).art[i] = dm.art[i]
<1> DEFINE kept == {i \in DOMAIN dm.art : (dm.art[i].in \cup {i}) \cap S = {}}
           art == Restrict(dm.art, kept)
<1>1. DOMAIN art = kept /\ \A i \in kept : art[i] = dm.art[i]
  BY DEF Restrict
<1>2. Remove(dm, S) = [dm EXCEPT !.art = art]
  BY DEF Remove, IsDom
<1> HIDE DEF art
<1>3. Nested(art)
  BY <1>1 DEF Nested, IsDom
<1>4. \A i \in kept : /\ i \in DOMAIN dm.art /\ dm.art[i] \in Item
                      /\ dm.art[i].layer \in DOMAIN dm.layers
  BY DEF IsDom
<1>5. Grown(dm, Remove(dm, S), {})
  BY <1>1, <1>2, <1>3, <1>4, ArtOnly
<1>6. /\ Remove(dm, S).art = art /\ Remove(dm, S).layers = dm.layers
      /\ Remove(dm, S).born = dm.born /\ Remove(dm, S).active = dm.active
  BY <1>2 DEF IsDom
<1> QED
  BY <1>1, <1>5, <1>6

(* A write to the style or the form of items. *)
LEMMA RepaintGrown ==
    ASSUME NEW dm, IsDom(dm), NEW S, NEW style, style \in Styles
    PROVE  /\ Grown(dm, Repaint(dm, S, style), {})
           /\ Repaint(dm, S, style).layers = dm.layers
           /\ Repaint(dm, S, style).born = dm.born
<1> DEFINE art == [i \in DOMAIN dm.art |->
                     IF i \in S THEN [dm.art[i] EXCEPT !.style = style] ELSE dm.art[i]]
<1>1. Repaint(dm, S, style) = [dm EXCEPT !.art = art]
  BY DEF Repaint, IsDom
<1>2. \A i \in DOMAIN dm.art : /\ art[i] \in Item /\ art[i].id = dm.art[i].id
        /\ art[i].layer = dm.art[i].layer /\ art[i].in = dm.art[i].in /\ art[i].kind = dm.art[i].kind
  BY DEF IsDom, Item
<1>3. DOMAIN art = DOMAIN dm.art
  OBVIOUS
<1> HIDE DEF art
<1>4. Nested(art)
  BY <1>2, <1>3, SameNests DEF IsDom
<1>5. Grown(dm, [dm EXCEPT !.art = art], {})
  BY <1>2, <1>3, <1>4, ArtOnly DEF IsDom
<1> QED
  BY <1>1, <1>5 DEF IsDom

LEMMA ReshapeGrown ==
    ASSUME NEW dm, IsDom(dm), NEW S, NEW form, form \in Forms
    PROVE  /\ Grown(dm, Reshape(dm, S, form), {})
           /\ Reshape(dm, S, form).layers = dm.layers
           /\ Reshape(dm, S, form).born = dm.born
<1> DEFINE art == [i \in DOMAIN dm.art |->
                     IF i \in S THEN [dm.art[i] EXCEPT !.form = form] ELSE dm.art[i]]
<1>1. Reshape(dm, S, form) = [dm EXCEPT !.art = art]
  BY DEF Reshape, IsDom
<1>2. \A i \in DOMAIN dm.art : /\ art[i] \in Item /\ art[i].id = dm.art[i].id
        /\ art[i].layer = dm.art[i].layer /\ art[i].in = dm.art[i].in /\ art[i].kind = dm.art[i].kind
  BY DEF IsDom, Item
<1>3. DOMAIN art = DOMAIN dm.art
  OBVIOUS
<1> HIDE DEF art
<1>4. Nested(art)
  BY <1>2, <1>3, SameNests DEF IsDom
<1>5. Grown(dm, [dm EXCEPT !.art = art], {})
  BY <1>2, <1>3, <1>4, ArtOnly DEF IsDom
<1> QED
  BY <1>1, <1>5 DEF IsDom

(* Growing: an item, or one path for every id. *)
LEMMA NewIsItem ==
    ASSUME NEW id \in Ids \cup {NoId}, NEW kind \in Kinds, NEW layer \in Layers
    PROVE  /\ New(id, kind, layer) \in Item /\ New(id, kind, layer).id = id
           /\ New(id, kind, layer).in = {} /\ New(id, kind, layer).layer = layer
           /\ New(id, kind, layer).kind = kind
<1>1. Blank.style \in Styles /\ Blank.form \in Forms
  BY ArtworkAssumption
<1> QED
  BY <1>1 DEF New, Item

LEMMA AddGrown ==
    ASSUME NEW dm, IsDom(dm), CanAdd(dm, 1), NEW x \in Item, x.layer \in DOMAIN dm.layers,
           x.in \subseteq DOMAIN dm.art,
           \A j \in x.in : /\ dm.art[j].kind = "group" /\ dm.art[j].layer = x.layer
                           /\ dm.art[j].in \subseteq x.in
                           /\ \A k \in x.in : j = k \/ j \in dm.art[k].in \/ k \in dm.art[j].in
    PROVE  /\ Grown(dm, Add(dm, x), {x.id} \ {NoId})
           /\ Add(dm, x).layers = dm.layers /\ Add(dm, x).born = dm.born + 1
           /\ Add(dm, x).active = dm.active /\ Add(dm, x).used = dm.used \cup ({x.id} \ {NoId})
           /\ DOMAIN Add(dm, x).art = DOMAIN dm.art \cup {Newest(dm)}
           /\ Add(dm, x).art[Newest(dm)] = x
           /\ \A i \in DOMAIN dm.art : Add(dm, x).art[i] = dm.art[i]
<1> DEFINE g == Newest(dm)
           art == Over(dm.art, Only(g, x))
           new == Add(dm, x)
<1>1. dm.born \in Nat /\ dm.born + 1 <= MaxItems /\ MaxItems \in Nat /\ g = dm.born + 1
      /\ g \notin DOMAIN dm.art
  BY ArtworkAssumption DEF IsDom, CanAdd, Newest
<1>2. /\ DOMAIN art = DOMAIN dm.art \cup {g} /\ art[g] = x
      /\ \A i \in DOMAIN dm.art : art[i] = dm.art[i]
  BY <1>1 DEF Over, Only
<1>3. /\ DOMAIN new = {"art", "born", "layers", "active", "used"} /\ new.art = art
      /\ new.born = dm.born + 1 /\ new.layers = dm.layers /\ new.active = dm.active
      /\ new.used = dm.used \cup ({x.id} \ {NoId})
  BY DEF Add, IsDom
<1> HIDE DEF art, new, g
<1>4. x.id \in Ids \cup {NoId}
  BY ItemFields
<1>5. Nested(art)
  <2>1. g \notin x.in
    BY <1>1
  <2>2. \A i \in DOMAIN dm.art : art[i].in \subseteq DOMAIN dm.art
    BY <1>2 DEF IsDom, Nested
  <2> QED
    BY <1>2, <2>1, <2>2 DEF IsDom, Nested
<1>6. IsDom(new)
  <2>1. new.born \in 0..MaxItems /\ DOMAIN art \subseteq 1..new.born
    BY <1>1, <1>2, <1>3 DEF IsDom
  <2>2. \A i \in DOMAIN art : /\ art[i] \in Item /\ art[i].id \in new.used \cup {NoId}
                              /\ art[i].layer \in DOMAIN new.layers
    BY <1>2, <1>3, <1>4 DEF IsDom
  <2>3. new.used \subseteq Ids
    BY <1>3, <1>4 DEF IsDom
  <2> QED
    BY <1>3, <1>5, <2>1, <2>2, <2>3 DEF IsDom
<1>7. Grown(dm, new, {x.id} \ {NoId})
  BY <1>1, <1>2, <1>3, <1>6 DEF Grown
<1> QED
  BY <1>1, <1>2, <1>3, <1>7 DEF g, new

LEMMA NewGrown ==
    ASSUME NEW dm, IsDom(dm), CanAdd(dm, 1), NEW id \in Ids \cup {NoId}, NEW kind \in Kinds,
           NEW layer \in DOMAIN dm.layers
    PROVE  Grown(dm, Add(dm, New(id, kind, layer)), {id} \ {NoId})
<1>1. layer \in Layers
  BY DEF IsDom
<1> QED
  BY <1>1, NewIsItem, AddGrown

LEMMA AddAllGrown ==
    ASSUME NEW dm, IsDom(dm), NEW ids \in SUBSET Ids, CanAdd(dm, Cardinality(ids)),
           NEW layer \in DOMAIN dm.layers
    PROVE  /\ Grown(dm, AddAll(dm, ids, layer), ids)
           /\ AddAll(dm, ids, layer).layers = dm.layers
           /\ AddAll(dm, ids, layer).born = dm.born + Cardinality(ids)
           /\ Cardinality(ids) \in Nat
<1> DEFINE n == Cardinality(ids)
           fresh == Newest(dm)..(dm.born + n)
           nth == CHOOSE f \in Bijection(fresh, ids) : TRUE
           art == Over(dm.art, [i \in fresh |-> New(nth[i], "path", layer)])
           new == AddAll(dm, ids, layer)
<1>0. IsFiniteSet(ids)
  BY ArtworkAssumption, FS_Subset
<1>1. n \in Nat /\ dm.born \in Nat /\ dm.born + n <= MaxItems /\ MaxItems \in Nat
      /\ Newest(dm) = dm.born + 1
  BY <1>0, FS_CardinalityType, ArtworkAssumption DEF IsDom, CanAdd, Newest
<1>2. nth \in [fresh -> ids]
  <2> HIDE DEF n
  <2>1. IsFiniteSet(fresh) /\ Cardinality(fresh) = n
    <3>1. \A a, b \in Int : b = a + n - 1 => IsFiniteSet(a..b) /\ Cardinality(a..b) = n
      <4>1. ASSUME NEW a \in Int, NEW b \in Int, b = a + n - 1
            PROVE  IsFiniteSet(a..b) /\ Cardinality(a..b) = n
        <5>1. IsFiniteSet(a..b) /\ Cardinality(a..b) = IF a > b THEN 0 ELSE b - a + 1
          BY FS_Interval
        <5> QED
          BY <1>1, <4>1, <5>1
      <4> QED
        BY <4>1
    <3>2. Newest(dm) \in Int /\ dm.born + n \in Int /\ dm.born + n = Newest(dm) + n - 1
      BY <1>1
    <3> QED
      BY <3>1, <3>2, Zenon
  <2>2. Cardinality(fresh) = Cardinality(ids)
    BY <2>1 DEF n
  <2>3. ExistsBijection(fresh, ids)
    BY <1>0, <2>1, <2>2, FS_SameCardinalityBij
  <2>4. \E f : f \in Bijection(fresh, ids)
    BY <2>3 DEF ExistsBijection
  <2>5. nth \in Bijection(fresh, ids)
    BY <2>4
  <2> QED
    BY <2>5 DEF Bijection, Injection
<1>3. /\ DOMAIN new = {"art", "born", "layers", "active", "used"} /\ new.art = art
      /\ new.born = dm.born + n /\ new.layers = dm.layers /\ new.active = dm.active
      /\ new.used = dm.used \cup ids
  BY DEF AddAll, IsDom
<1>4. layer \in Layers
  BY DEF IsDom
<1> HIDE DEF n, nth, new
<1>5. \A i \in DOMAIN dm.art : i \notin fresh
  BY <1>1 DEF IsDom
<1>6. /\ DOMAIN art = DOMAIN dm.art \cup fresh
      /\ \A i \in fresh : art[i] = New(nth[i], "path", layer)
      /\ \A i \in DOMAIN dm.art : art[i] = dm.art[i]
  BY <1>5 DEF Over
<1>7. \A i \in fresh : /\ art[i] \in Item /\ art[i].id \in ids /\ art[i].in = {}
                       /\ art[i].layer = layer
  <2>1. TAKE i \in fresh
  <2>2. nth[i] \in ids
    BY <1>2
  <2> QED
    BY <1>4, <1>6, <2>2, NewIsItem DEF Kinds
<1> HIDE DEF art
<1>8. Nested(art)
  <2>1. \A i \in DOMAIN dm.art : art[i].in \subseteq DOMAIN dm.art
    BY <1>6 DEF IsDom, Nested
  <2> QED
    BY <1>5, <1>6, <1>7, <2>1 DEF IsDom, Nested
<1>9. IsDom(new)
  <2>1. new.born \in 0..MaxItems /\ DOMAIN art \subseteq 1..new.born
    BY <1>1, <1>3, <1>6 DEF IsDom
  <2>2. \A i \in DOMAIN art : /\ art[i] \in Item /\ art[i].id \in new.used \cup {NoId}
                              /\ art[i].layer \in DOMAIN new.layers
    BY <1>3, <1>6, <1>7 DEF IsDom
  <2>3. new.used \subseteq Ids
    BY <1>3 DEF IsDom
  <2> QED
    BY <1>3, <1>8, <2>1, <2>2, <2>3 DEF IsDom
<1>10. Grown(dm, new, ids)
  BY <1>1, <1>3, <1>5, <1>6, <1>7, <1>9 DEF Grown
<1> QED
  BY <1>1, <1>3, <1>10 DEF n, new

-----------------------------------------------------------------------------
(* Moving items keeps them nested: the groups they enter stay where they are. *)
LEMMA MoveGrown ==
    ASSUME NEW dm, IsDom(dm), NEW S, NEW in \in SUBSET DOMAIN dm.art, NEW layer \in DOMAIN dm.layers,
           \A j \in in : /\ dm.art[j].kind = "group" /\ dm.art[j].layer = layer
                         /\ dm.art[j].in \subseteq in /\ j \notin S
                         /\ \A k \in in : j = k \/ j \in dm.art[k].in \/ k \in dm.art[j].in
    PROVE  Grown(dm, Move(dm, S, in, layer), {}) /\ Move(dm, S, in, layer).layers = dm.layers
<1> DEFINE old == dm.art
           moved(i) == (old[i].in \cup {i}) \cap S
           above(i) == UNION {old[s].in : s \in moved(i)}
           art == [i \in DOMAIN old |->
                     IF moved(i) = {} THEN old[i]
                     ELSE [old[i] EXCEPT !.in = (old[i].in \ above(i)) \cup in, !.layer = layer]]
<1>1. Move(dm, S, in, layer) = [dm EXCEPT !.art = art]
  BY DEF Move, IsDom
<1>2. \A i \in DOMAIN old : old[i] \in Item /\ old[i].in \subseteq DOMAIN old
  BY DEF IsDom, Nested
<1>3. in \subseteq Items /\ layer \in Layers
  BY DomNumbers DEF IsDom
<1>4. DOMAIN art = DOMAIN old
  OBVIOUS
<1>5. \A i \in DOMAIN old :
         /\ art[i] \in Item /\ art[i].id = old[i].id /\ art[i].kind = old[i].kind
         /\ moved(i) = {} => art[i].in = old[i].in /\ art[i].layer = old[i].layer
         /\ moved(i) # {} => /\ art[i].in = (old[i].in \ above(i)) \cup in
                             /\ art[i].layer = layer
  <2>1. TAKE i \in DOMAIN old
  <2>2. CASE moved(i) = {}
    BY <1>2, <2>2
  <2>3. CASE moved(i) # {}
    <3>1. art[i] = [old[i] EXCEPT !.in = (old[i].in \ above(i)) \cup in, !.layer = layer]
      BY <2>3
    <3>2. old[i] \in Item
      BY <1>2
    <3> HIDE DEF art, moved, above, old
    <3> QED
      BY <1>3, <2>3, <3>1, <3>2 DEF Item
  <2> QED
    BY <2>2, <2>3
<1>6. \A i \in DOMAIN old : art[i].layer \in DOMAIN dm.layers
  BY <1>5 DEF IsDom
<1> HIDE DEF art
<1>7. \A i \in DOMAIN old : \A j : j \in old[i].in =>
         /\ j \in DOMAIN old /\ j # i /\ old[j].in \subseteq old[i].in /\ i \notin old[j].in
         /\ old[j].kind = "group" /\ old[j].layer = old[i].layer /\ j \notin old[j].in
         /\ \A k \in old[i].in : j = k \/ j \in old[k].in \/ k \in old[j].in
  BY DEF IsDom, Nested
<1>8. \A j \in in : j \in DOMAIN old /\ moved(j) = {}
  BY DEF IsDom, Nested
<1> HIDE DEF old
(* What encloses an item that is not moved is not moved. *)
<1>9. \A i \in DOMAIN old : moved(i) = {} => \A j \in old[i].in : moved(j) = {}
  BY <1>7
(* What a moved item keeps around it moves with it, and keeps the same.        *)
<1>10. ASSUME NEW i \in DOMAIN old, NEW j, j \in old[i].in, j \notin above(i), moved(i) # {}
       PROVE  moved(j) # {} /\ old[j].in \ above(j) \subseteq old[i].in \ above(i)
  <2>0. /\ j \in DOMAIN old /\ old[j].in \subseteq old[i].in
        /\ \A k \in old[i].in : j = k \/ j \in old[k].in \/ k \in old[j].in
    BY <1>7, <1>10
  <2>1. PICK s \in moved(i) : TRUE
    BY <1>10
  <2>2. \A t \in moved(i) : j \notin old[t].in
    BY <1>10
  <2>3. \A t \in moved(i) : t \in moved(j)
    <3>1. TAKE t \in moved(i)
    <3>2. t # i
      BY <1>10, <2>2, <3>1
    <3>3. t \in old[i].in /\ t \in S
      BY <3>1, <3>2
    <3> QED
      BY <2>0, <2>2, <3>1, <3>3
  <2>4. above(i) \subseteq above(j)
    BY <2>3
  <2> QED
    BY <2>0, <2>1, <2>3, <2>4
<1>11. Nested(art)
  <2>1. ASSUME NEW i \in DOMAIN old PROVE i \notin art[i].in /\ art[i].in \subseteq DOMAIN old
    <3>1. i \notin old[i].in /\ old[i].in \subseteq DOMAIN old
      BY <1>7
    <3>2. CASE moved(i) = {}
      BY <1>5, <3>1, <3>2
    <3>3. CASE moved(i) # {}
      BY <1>5, <1>8, <3>1, <3>3
    <3> QED
      BY <3>2, <3>3
  <2>2. ASSUME NEW i \in DOMAIN old, NEW j \in art[i].in
        PROVE  /\ art[j].kind = "group" /\ art[j].layer = art[i].layer
               /\ art[j].in \subseteq art[i].in
               /\ \A k \in art[i].in : j = k \/ j \in art[k].in \/ k \in art[j].in
    <3>1. CASE moved(i) = {}
      <4>1. art[i].in = old[i].in /\ art[i].layer = old[i].layer /\ j \in old[i].in
        BY <1>5, <2>2, <3>1
      <4>2. \A k \in old[i].in : k \in DOMAIN old /\ art[k].in = old[k].in /\ art[k].layer = old[k].layer
                                 /\ art[k].kind = old[k].kind
        BY <1>5, <1>7, <1>9, <3>1
      <4> QED
        BY <1>7, <4>1, <4>2
    <3>2. CASE moved(i) # {}
      <4>1. art[i].in = (old[i].in \ above(i)) \cup in /\ art[i].layer = layer
        BY <1>5, <3>2
      <4>2. \A k \in in : art[k].in = old[k].in /\ art[k].layer = layer /\ art[k].kind = "group"
        BY <1>5, <1>8 DEF old
      <4>3. \A k \in old[i].in \ above(i) :
               /\ k \in DOMAIN old /\ moved(k) # {} /\ art[k].kind = "group" /\ art[k].layer = layer
               /\ art[k].in = (old[k].in \ above(k)) \cup in
               /\ old[k].in \ above(k) \subseteq old[i].in \ above(i)
        <5>1. TAKE k \in old[i].in \ above(i)
        <5>2. k \in DOMAIN old /\ old[k].kind = "group"
          BY <1>7, <5>1
        <5>3. moved(k) # {} /\ old[k].in \ above(k) \subseteq old[i].in \ above(i)
          BY <1>10, <3>2, <5>1
        <5> QED
          BY <1>5, <5>2, <5>3
      <4>4. CASE j \in in
        <5>1. old[j].in \subseteq in
          BY <4>4 DEF old
        <5>2. \A k \in in : j = k \/ j \in old[k].in \/ k \in old[j].in
          BY <4>4 DEF old
        <5>3. \A k \in in : j = k \/ j \in art[k].in \/ k \in art[j].in
          BY <4>2, <4>4, <5>2
        <5>4. \A k \in old[i].in \ above(i) : j \in art[k].in
          BY <4>3, <4>4
        <5> QED
          BY <4>1, <4>2, <4>4, <5>1, <5>3, <5>4
      <4>5. CASE j \in old[i].in \ above(i)
        <5>1. art[j].in \subseteq art[i].in /\ art[j].kind = "group" /\ art[j].layer = layer
          BY <4>1, <4>3, <4>5
        <5>2. ASSUME NEW k \in art[i].in PROVE j = k \/ j \in art[k].in \/ k \in art[j].in
          <6>1. CASE k \in in
            BY <4>3, <4>5, <6>1
          <6>2. CASE k \in old[i].in \ above(i)
            <7>1. j = k \/ j \in old[k].in \/ k \in old[j].in
              BY <1>7, <4>5, <6>2
            <7>2. moved(k) \subseteq moved(i) /\ moved(j) \subseteq moved(i)
              BY <1>7, <4>5, <6>2
            <7>3. above(k) \subseteq above(i) /\ above(j) \subseteq above(i)
              BY <7>2
            <7>4. j \notin above(k) /\ k \notin above(j)
              BY <4>5, <6>2, <7>3
            <7> QED
              BY <4>3, <4>5, <6>2, <7>1, <7>4
          <6> QED
            BY <4>1, <5>2, <6>1, <6>2
        <5> QED
          BY <4>1, <5>1, <5>2
      <4> QED
        BY <2>2, <4>1, <4>4, <4>5
    <3> QED
      BY <3>1, <3>2
  <2> QED
    BY <1>4, <2>1, <2>2 DEF Nested
<1>12. Grown(dm, [dm EXCEPT !.art = art], {})
  BY <1>4, <1>5, <1>6, <1>11, ArtOnly DEF old
<1> QED
  BY <1>1, <1>12 DEF IsDom, art, old

LEMMA MoveOutGrown ==
    ASSUME NEW dm, IsDom(dm), NEW S, NEW layer \in DOMAIN dm.layers
    PROVE  Grown(dm, Move(dm, S, {}, layer), {}) /\ Move(dm, S, {}, layer).layers = dm.layers
BY MoveGrown

LEMMA MoveIntoGrown ==
    ASSUME NEW dm, IsDom(dm), NEW S, NEW g \in DOMAIN dm.art, dm.art[g].kind = "group",
           S \cap (dm.art[g].in \cup {g}) = {}
    PROVE  Grown(dm, MoveInto(dm, S, g), {}) /\ MoveInto(dm, S, g).layers = dm.layers
<1> DEFINE in == dm.art[g].in \cup {g}
           layer == dm.art[g].layer
<1>1. in \in SUBSET DOMAIN dm.art /\ layer \in DOMAIN dm.layers
  BY DEF IsDom, Nested
<1>2. \A j \in in : /\ dm.art[j].kind = "group" /\ dm.art[j].layer = layer
                    /\ dm.art[j].in \subseteq in /\ j \notin S
                    /\ \A k \in in : j = k \/ j \in dm.art[k].in \/ k \in dm.art[j].in
  BY DEF IsDom, Nested
<1>3. MoveInto(dm, S, g) = Move(dm, S, in, layer)
  BY DEF MoveInto
<1> HIDE DEF in, layer
<1> QED
  BY <1>1, <1>2, <1>3, MoveGrown

-----------------------------------------------------------------------------
(* Snapshots *)

LEMMA CaptureTyped ==
    ASSUME NEW dm, IsDom(dm), NEW d
    PROVE  captureSnapshot(dm, d) \subseteq Saved
BY DEF captureSnapshot, Managed, Live, IsDom, Item, Saved

(* A restore changes styles only, and gives a path found again the style of   *)
(* its record.                                                                *)
LEMMA RestoreGrown ==
    ASSUME NEW dm, IsDom(dm), NEW d, NEW snap \in SUBSET Saved
    PROVE  /\ Grown(dm, restoreSnapshot(dm, d, snap), {})
           /\ restoreSnapshot(dm, d, snap).layers = dm.layers
           /\ restoreSnapshot(dm, d, snap).born = dm.born
           /\ DOMAIN restoreSnapshot(dm, d, snap).art = DOMAIN dm.art
           /\ \A i \in DOMAIN dm.art :
                LET x == restoreSnapshot(dm, d, snap).art[i]
                    y == dm.art[i]
                IN /\ x.id = y.id /\ x.in = y.in /\ x.kind = y.kind
                   /\ x.layer = y.layer /\ x.locked = y.locked
           /\ UniqueIds(dm, d) /\ (\A s, t \in snap : s.id = t.id => s = t) =>
                \A s \in snap, i \in Managed(dm, d) :
                   /\ dm.art[i].id = s.id /\ Editable(dm, i)
                   /\ s.kind = "path" /\ dm.art[i].kind = "path" /\ s.style \in Plain
                   => restoreSnapshot(dm, d, snap).art[i].style = s.style
<1> DEFINE new == restoreSnapshot(dm, d, snap)
           saved(i) == {s \in snap : s.id = dm.art[i].id}
           back(i)  == CHOOSE s \in saved(i) : TRUE
           again    == {i \in Managed(dm, d) :
                            /\ saved(i) # {} /\ Editable(dm, i)
                            /\ back(i).kind = "path" /\ dm.art[i].kind = "path"
                            /\ back(i).style \in Plain}
           art == [i \in DOMAIN dm.art |->
                     IF i \in again THEN [dm.art[i] EXCEPT !.style = back(i).style] ELSE dm.art[i]]
<1>0. \A i \in DOMAIN dm.art : dm.art[i].id = dm.art[i].id
  OBVIOUS
<1>1. CASE ~UniqueIds(dm, d)
  <2>1. new = dm
    BY <1>1 DEF restoreSnapshot
  <2>2. Grown(dm, dm, {})
    BY ArtworkAssumption DEF Grown, IsDom
  <2> HIDE DEF new
  <2>3. Grown(dm, new, {}) /\ new.layers = dm.layers /\ new.born = dm.born /\ DOMAIN new.art = DOMAIN dm.art
    BY <2>1, <2>2
  <2> QED
    BY <1>1, <2>1, <2>3 DEF new
<1>2. CASE UniqueIds(dm, d)
  <2>1. new = [dm EXCEPT !.art = art]
    BY <1>2 DEF restoreSnapshot, IsDom
  <2>2. \A i \in again : saved(i) # {} /\ back(i) \in saved(i)
    OBVIOUS
  <2>3. \A i \in again : back(i).style \in Styles
    BY <2>2 DEF Saved
  <2> HIDE DEF back, saved, again
  <2>4. \A i \in DOMAIN dm.art :
          /\ art[i] \in Item /\ art[i].id = dm.art[i].id /\ art[i].layer = dm.art[i].layer
          /\ art[i].in = dm.art[i].in /\ art[i].kind = dm.art[i].kind /\ art[i].locked = dm.art[i].locked
          /\ i \in again => art[i].style = back(i).style
    BY <2>3 DEF IsDom, Item
  <2>5. DOMAIN art = DOMAIN dm.art
    OBVIOUS
  <2> HIDE DEF art
  <2>6. Nested(art)
    BY <2>4, <2>5, SameNests DEF IsDom
  <2>7. Grown(dm, [dm EXCEPT !.art = art], {})
    BY <2>4, <2>5, <2>6, ArtOnly DEF IsDom
  <2>8. new.art = art /\ new.layers = dm.layers /\ new.born = dm.born
    BY <2>1 DEF IsDom
  <2>9. ASSUME \A s, t \in snap : s.id = t.id => s = t,
               NEW s \in snap, NEW i \in Managed(dm, d),
               dm.art[i].id = s.id, Editable(dm, i),
               s.kind = "path", dm.art[i].kind = "path", s.style \in Plain
        PROVE  art[i].style = s.style
    <3>1. s \in saved(i) /\ \A t \in saved(i) : t = s
      BY <2>9 DEF saved
    <3>2. back(i) = s
      BY <3>1 DEF back
    <3>3. i \in again
      BY <2>9, <3>1, <3>2 DEF again
    <3>4. i \in DOMAIN dm.art
      BY DEF Managed, Live
    <3> QED
      BY <2>4, <3>2, <3>3, <3>4
  <2> HIDE DEF new
  <2>10. Grown(dm, new, {}) /\ new.layers = dm.layers /\ new.born = dm.born /\ DOMAIN new.art = DOMAIN dm.art
    BY <2>1, <2>5, <2>7, <2>8
  <2>11. \A i \in DOMAIN dm.art :
            /\ new.art[i].id = dm.art[i].id /\ new.art[i].in = dm.art[i].in
            /\ new.art[i].kind = dm.art[i].kind /\ new.art[i].layer = dm.art[i].layer
            /\ new.art[i].locked = dm.art[i].locked
    BY <2>4, <2>8
  <2>12. (\A s, t \in snap : s.id = t.id => s = t) =>
            \A s \in snap, i \in Managed(dm, d) :
               /\ dm.art[i].id = s.id /\ Editable(dm, i)
               /\ s.kind = "path" /\ dm.art[i].kind = "path" /\ s.style \in Plain
               => new.art[i].style = s.style
    BY <2>8, <2>9
  <2> QED
    BY <2>10, <2>11, <2>12 DEF new
<1> QED
  BY <1>1, <1>2

-----------------------------------------------------------------------------
(* What an open transaction deleted is not in the index, and what it may put  *)
(* back it did delete.                                                        *)
HeapOK(h) == h.txn # NoTxn => /\ h.txn.tomb \cap DOMAIN h.index = {}
                              /\ DOMAIN h.txn.deleted \subseteq h.txn.tomb

LEMMA OverDomain ==
    ASSUME NEW f, NEW g PROVE DOMAIN Over(f, g) = DOMAIN f \cup DOMAIN g
BY DEF Over

LEMMA Domains ==
    ASSUME NEW f, NEW S
    PROVE  DOMAIN Without(f, S) = DOMAIN f \ S /\ DOMAIN Restrict(f, S) = S
BY DEF Without, Restrict

-----------------------------------------------------------------------------
(* The operations of heap.jsx *)

LEMMA BeginOK == ASSUME NEW h PROVE HeapOK(BeginTxn(h))
BY DEF HeapOK, BeginTxn, HeapOf, TxnOf

LEMMA CommitOK == ASSUME NEW h PROVE HeapOK(CommitTxn(h))
BY DEF HeapOK, CommitTxn, HeapOf

LEMMA RollbackOK == ASSUME NEW h PROVE HeapOK(RollbackTxn(h))
BY DEF HeapOK, RollbackTxn, HeapOf

(* Registering an id takes it out of the tombstones and of what a rollback    *)
(* would put back, in one step.                                               *)
LEMMA RegisterOK == ASSUME NEW h, HeapOK(h), NEW u, NEW i PROVE HeapOK(Register(h, u, i))
<1> DEFINE one == Only(u, FreshEntry(i))
<1>1. CASE h.txn = NoTxn
  BY <1>1 DEF HeapOK, Register, HeapOf
<1>2. CASE h.txn # NoTxn
  <2>0. DOMAIN one = {u}
    BY DEF Only
  <2> HIDE DEF one
  <2>1. DOMAIN Over(one, h.index) = {u} \cup DOMAIN h.index
    BY <2>0, OverDomain
  <2>2. DOMAIN Without(h.txn.deleted, {u}) = DOMAIN h.txn.deleted \ {u}
    BY Domains
  <2>3. Register(h, u, i) = HeapOf(Over(one, h.index),
            TxnOf(h.txn.added \cup {u}, Without(h.txn.deleted, {u}), h.txn.tomb \ {u}, h.txn.resync))
    BY <1>2 DEF Register, one
  <2> QED
    BY <1>2, <2>1, <2>2, <2>3 DEF HeapOK, HeapOf, TxnOf
<1> QED
  BY <1>1, <1>2

LEMMA TombstoneOK == ASSUME NEW h, HeapOK(h), NEW S PROVE HeapOK(Tombstone(h, S))
<1> DEFINE dropped == Restrict(h.index, S \cap DOMAIN h.index)
<1>1. DOMAIN Without(h.index, S) = DOMAIN h.index \ S
  BY Domains
<1>2. CASE h.txn = NoTxn
  BY <1>2 DEF HeapOK, Tombstone, HeapOf
<1>3. CASE h.txn # NoTxn
  <2>1. DOMAIN dropped = S \cap DOMAIN h.index
    BY Domains
  <2> HIDE DEF dropped
  <2>2. DOMAIN Over(dropped, h.txn.deleted) = DOMAIN dropped \cup DOMAIN h.txn.deleted
    BY OverDomain
  <2>3. Tombstone(h, S) = HeapOf(Without(h.index, S),
            TxnOf(h.txn.added, Over(dropped, h.txn.deleted), h.txn.tomb \cup S, h.txn.resync))
    BY <1>3 DEF Tombstone, dropped
  <2> QED
    BY <1>1, <1>3, <2>1, <2>2, <2>3 DEF HeapOK, HeapOf, TxnOf
<1> QED
  BY <1>2, <1>3

(* A look leaves the transaction alone and adds nothing to the index; what it *)
(* finds carries the id.                                                      *)
LEMMA LookFacts ==
    ASSUME NEW h, NEW d, NEW u, NEW glitch \in BOOLEAN
    PROVE  /\ Look(h, d, u, glitch).heap.txn = h.txn
           /\ DOMAIN Look(h, d, u, glitch).heap.index \subseteq DOMAIN h.index
           /\ Look(h, d, u, glitch).item # NoItem =>
                 /\ Look(h, d, u, glitch).item \in DOMAIN d.art
                 /\ d.art[Look(h, d, u, glitch).item].id = u
<1> DEFINE look == Look(h, d, u, glitch)
           evicted == HeapOf(Without(h.index, {u}), h.txn)
           marked(s) == HeapOf([h.index EXCEPT ![u] = [item |-> h.index[u].item, suspect |-> s]], h.txn)
<1>1. evicted.txn = h.txn /\ DOMAIN evicted.index \subseteq DOMAIN h.index
  <2>1. DOMAIN Without(h.index, {u}) = DOMAIN h.index \ {u}
    BY Domains
  <2> QED
    BY <2>1 DEF HeapOf
<1>2. \A s : marked(s).txn = h.txn /\ DOMAIN marked(s).index = DOMAIN h.index
  BY DEF HeapOf
<1> HIDE DEF evicted, marked
<1>3. CASE u \notin DOMAIN h.index
  <2>1. look = [heap |-> h, item |-> NoItem]
    BY <1>3 DEF Look
  <2> QED
    BY <2>1
<1>4. CASE u \in DOMAIN h.index /\ (glitch \/ h.index[u].item \notin DOMAIN d.art)
  <2>1. look = [heap |-> IF h.index[u].suspect THEN evicted ELSE marked(TRUE), item |-> NoItem]
    BY <1>4 DEF Look, evicted, marked
  <2> HIDE DEF look
  <2>2. /\ look.heap.txn = h.txn
        /\ DOMAIN look.heap.index \subseteq DOMAIN h.index
        /\ look.item = NoItem
    BY <1>1, <1>2, <2>1
  <2> QED
    BY <2>2 DEF look
<1>5. CASE u \in DOMAIN h.index /\ ~glitch /\ h.index[u].item \in DOMAIN d.art
  <2>1. look =
          IF d.art[h.index[u].item].id = u
          THEN [heap |-> marked(FALSE), item |-> h.index[u].item]
          ELSE [heap |-> evicted, item |-> NoItem]
    BY <1>5 DEF Look, evicted, marked
  <2> HIDE DEF look
  <2>2. /\ look.heap.txn = h.txn
        /\ DOMAIN look.heap.index \subseteq DOMAIN h.index
        /\ look.item # NoItem => look.item \in DOMAIN d.art /\ d.art[look.item].id = u
    BY <1>1, <1>2, <1>5, <2>1
  <2> QED
    BY <2>2 DEF look
<1> QED
  BY <1>3, <1>4, <1>5

(* A rebuild keeps the transaction, indexes no tombstone, and every entry is  *)
(* an item that carries its id.                                               *)
LEMMA RebuiltFacts ==
    ASSUME NEW h, NEW dm, NEW d, NEW r \in Rebuilt(h, dm, d)
    PROVE  /\ r.txn = h.txn
           /\ h.txn # NoTxn => h.txn.tomb \cap DOMAIN r.index = {}
           /\ \A u \in DOMAIN r.index :
                 r.index[u].item \in DOMAIN dm.art /\ dm.art[r.index[u].item].id = u
<1> DEFINE ids(S) == {dm.art[i].id : i \in S} \ (IF h.txn = NoTxn THEN {} ELSE h.txn.tomb)
           fits(S) == {f \in [ids(S) -> S] : \A u \in ids(S) : dm.art[f[u]].id = u}
           seen == {S \in SUBSET Managed(dm, d) :
                    Cardinality(S) = IF Cardinality(Managed(dm, d)) <= RebuildCap
                                     THEN Cardinality(Managed(dm, d)) ELSE RebuildCap}
<1>0. PICK f \in UNION {fits(S) : S \in seen} :
           r = HeapOf([u \in DOMAIN f |-> FreshEntry(f[u])], h.txn)
  BY DEF Rebuilt
<1>1. PICK S \in SUBSET Managed(dm, d) : f \in fits(S)
  BY <1>0
<1>2. /\ f \in [ids(S) -> S]
      /\ \A u \in ids(S) : dm.art[f[u]].id = u
      /\ r = HeapOf([u \in DOMAIN f |-> FreshEntry(f[u])], h.txn)
  BY <1>0, <1>1
<1>3. DOMAIN f = ids(S) /\ \A u \in ids(S) : f[u] \in S
  BY <1>2
<1>4. r.txn = h.txn /\ DOMAIN r.index = ids(S) /\ \A u \in ids(S) : r.index[u].item = f[u]
  BY <1>2, <1>3 DEF HeapOf, FreshEntry
<1>5. h.txn # NoTxn => h.txn.tomb \cap ids(S) = {}
  OBVIOUS
<1>6. S \subseteq DOMAIN dm.art
  BY DEF Managed, Live
<1> HIDE DEF ids
<1> QED
  BY <1>2, <1>3, <1>4, <1>5, <1>6

(* heapResolve preserves HeapOK, and answers with an item that exists and     *)
(* carries the id, or with none.                                              *)
LEMMA ResolveFacts ==
    ASSUME NEW h, NEW dm, NEW d, NEW u, NEW glitch \in BOOLEAN,
           NEW r \in Resolve(h, dm, d, u, glitch)
    PROVE  /\ HeapOK(h) => HeapOK(r.heap)
           /\ r.item # NoItem => r.item \in DOMAIN dm.art /\ dm.art[r.item].id = u
<1> DEFINE first == Look(h, dm, u, glitch)
           second(b) == [heap |-> HeapOf(b.index, TxnOf(b.txn.added, b.txn.deleted, b.txn.tomb, TRUE)),
                         item |-> IF u \in DOMAIN b.index THEN b.index[u].item ELSE NoItem]
<1>1. \/ r = [heap |-> h, item |-> NoItem]
      \/ \E b \in Rebuilt(first.heap, dm, d) : h.txn # NoTxn /\ r = second(b)
      \/ r = first
  BY DEF Resolve
<1>2. CASE r = [heap |-> h, item |-> NoItem]
  BY <1>2
<1>3. /\ first.heap.txn = h.txn
      /\ DOMAIN first.heap.index \subseteq DOMAIN h.index
      /\ first.item # NoItem => first.item \in DOMAIN dm.art /\ dm.art[first.item].id = u
  BY LookFacts
<1> HIDE DEF first
<1>4. CASE r = first
  BY <1>3, <1>4 DEF HeapOK
<1>5. CASE \E b \in Rebuilt(first.heap, dm, d) : h.txn # NoTxn /\ r = second(b)
  <2>1. PICK b \in Rebuilt(first.heap, dm, d) : h.txn # NoTxn /\ r = second(b)
    BY <1>5
  <2>2. /\ b.txn = h.txn
        /\ h.txn # NoTxn => h.txn.tomb \cap DOMAIN b.index = {}
        /\ \A v \in DOMAIN b.index :
              b.index[v].item \in DOMAIN dm.art /\ dm.art[b.index[v].item].id = v
    BY <1>3, RebuiltFacts
  <2>3. HeapOK(h) => HeapOK(r.heap)
    BY <2>1, <2>2 DEF HeapOK, HeapOf, TxnOf
  <2>4. r.item # NoItem => r.item \in DOMAIN dm.art /\ dm.art[r.item].id = u
    BY <2>1, <2>2
  <2> QED
    BY <2>3, <2>4
<1> QED
  BY <1>1, <1>2, <1>4, <1>5

-----------------------------------------------------------------------------
(* The types of the heap *)

LEMMA WithoutTyped ==
    ASSUME NEW f, IsMap(f), NEW S
    PROVE  IsMap(Without(f, S)) /\ IsMap(Restrict(f, S \cap DOMAIN f))
BY DEF IsMap, Without, Restrict

LEMMA OverTyped == ASSUME NEW f, NEW g, IsMap(f), IsMap(g) PROVE IsMap(Over(f, g))
BY DEF IsMap, Over

LEMMA HeapOfTyped ==
    ASSUME NEW index, IsMap(index), NEW t, t = NoTxn \/ IsTxn(t)
    PROVE  IsHeap(HeapOf(index, t))
BY DEF IsHeap, HeapOf

LEMMA TxnOfTyped ==
    ASSUME NEW added \in SUBSET Ids, NEW deleted, IsMap(deleted), NEW tomb \in SUBSET Ids,
           NEW resync \in BOOLEAN
    PROVE  IsTxn(TxnOf(added, deleted, tomb, resync))
BY DEF IsTxn, TxnOf

LEMMA BeginTyped == ASSUME NEW h, IsHeap(h) PROVE IsHeap(BeginTxn(h))
<1>1. IsMap(<<>>)
  BY DEF IsMap
<1> QED
  BY <1>1, TxnOfTyped, HeapOfTyped DEF IsHeap, BeginTxn

LEMMA CommitTyped == ASSUME NEW h, IsHeap(h) PROVE IsHeap(CommitTxn(h))
BY WithoutTyped, HeapOfTyped DEF CommitTxn, IsHeap

LEMMA RollbackTyped == ASSUME NEW h, IsHeap(h) PROVE IsHeap(RollbackTxn(h))
<1>1. CASE h.txn = NoTxn
  BY <1>1 DEF RollbackTxn
<1>2. CASE h.txn # NoTxn
  <2>1. IsMap(Over(h.txn.deleted, Without(h.index, h.txn.added)))
    BY <1>2, WithoutTyped, OverTyped DEF IsHeap, IsTxn
  <2> QED
    BY <1>2, <2>1, HeapOfTyped DEF RollbackTxn
<1> QED
  BY <1>1, <1>2

LEMMA RegisterTyped ==
    ASSUME NEW h, IsHeap(h), NEW u \in Ids, NEW i \in Items
    PROVE  IsHeap(Register(h, u, i))
<1>1. IsMap(Only(u, FreshEntry(i)))
  BY DEF IsMap, Only, FreshEntry, Entry
<1>2. IsMap(Over(Only(u, FreshEntry(i)), h.index))
  BY <1>1, OverTyped DEF IsHeap
<1>3. h.txn # NoTxn =>
        IsTxn(TxnOf(h.txn.added \cup {u}, Without(h.txn.deleted, {u}), h.txn.tomb \ {u}, h.txn.resync))
  <2> SUFFICES ASSUME h.txn # NoTxn
               PROVE  IsTxn(TxnOf(h.txn.added \cup {u}, Without(h.txn.deleted, {u}), h.txn.tomb \ {u}, h.txn.resync))
    OBVIOUS
  <2>1. IsTxn(h.txn)
    BY DEF IsHeap
  <2>2. IsMap(Without(h.txn.deleted, {u}))
    BY <2>1, WithoutTyped DEF IsTxn
  <2>3. /\ h.txn.added \cup {u} \in SUBSET Ids /\ h.txn.tomb \ {u} \in SUBSET Ids
        /\ h.txn.resync \in BOOLEAN
    BY <2>1 DEF IsTxn
  <2> QED
    BY <2>2, <2>3, TxnOfTyped
<1> QED
  BY <1>2, <1>3, HeapOfTyped DEF Register

LEMMA TombstoneTyped ==
    ASSUME NEW h, IsHeap(h), NEW S \in SUBSET Ids
    PROVE  IsHeap(Tombstone(h, S))
<1>1. IsMap(Without(h.index, S)) /\ IsMap(Restrict(h.index, S \cap DOMAIN h.index))
  BY WithoutTyped DEF IsHeap
<1>2. ASSUME h.txn # NoTxn
      PROVE  IsTxn(TxnOf(h.txn.added, Over(Restrict(h.index, S \cap DOMAIN h.index), h.txn.deleted),
                         h.txn.tomb \cup S, h.txn.resync))
  <2>1. IsTxn(h.txn)
    BY <1>2 DEF IsHeap
  <2>2. IsMap(Over(Restrict(h.index, S \cap DOMAIN h.index), h.txn.deleted))
    BY <1>1, <2>1, OverTyped DEF IsTxn
  <2>3. /\ h.txn.added \in SUBSET Ids /\ h.txn.tomb \cup S \in SUBSET Ids
        /\ h.txn.resync \in BOOLEAN
    BY <2>1 DEF IsTxn
  <2> QED
    BY <2>2, <2>3, TxnOfTyped
<1> QED
  BY <1>1, <1>2, HeapOfTyped DEF Tombstone

LEMMA LookTyped ==
    ASSUME NEW h, IsHeap(h), NEW dm, NEW u \in Ids, NEW glitch \in BOOLEAN
    PROVE  IsHeap(Look(h, dm, u, glitch).heap) /\ Look(h, dm, u, glitch).heap.txn = h.txn
<1> DEFINE e == h.index[u]
           evicted == HeapOf(Without(h.index, {u}), h.txn)
           marked(suspect) == HeapOf([h.index EXCEPT ![u] = [item |-> e.item, suspect |-> suspect]], h.txn)
<1>1. IsHeap(evicted) /\ evicted.txn = h.txn
  BY WithoutTyped, HeapOfTyped DEF IsHeap, HeapOf
<1>2. u \in DOMAIN h.index => \A b \in BOOLEAN : IsHeap(marked(b)) /\ marked(b).txn = h.txn
  <2>1. ASSUME u \in DOMAIN h.index, NEW b \in BOOLEAN
        PROVE  IsMap([h.index EXCEPT ![u] = [item |-> e.item, suspect |-> b]])
    BY <2>1 DEF IsHeap, IsMap, Entry
  <2> QED
    BY <2>1, HeapOfTyped DEF IsHeap, HeapOf
<1> HIDE DEF evicted, marked
<1>3. CASE u \notin DOMAIN h.index
  <2>1. Look(h, dm, u, glitch) = [heap |-> h, item |-> NoItem]
    BY <1>3 DEF Look
  <2> QED
    BY <2>1
<1>4. CASE u \in DOMAIN h.index /\ (glitch \/ e.item \notin DOMAIN dm.art)
  <2>1. Look(h, dm, u, glitch) = [heap |-> IF e.suspect THEN evicted ELSE marked(TRUE), item |-> NoItem]
    BY <1>4 DEF Look, evicted, marked
  <2>2. Look(h, dm, u, glitch).heap \in {evicted, marked(TRUE)}
    BY <2>1
  <2> QED
    BY <1>1, <1>2, <1>4, <2>2
<1>5. CASE u \in DOMAIN h.index /\ ~glitch /\ e.item \in DOMAIN dm.art
  <2>1. Look(h, dm, u, glitch) =
          IF dm.art[e.item].id = u THEN [heap |-> marked(FALSE), item |-> e.item]
          ELSE [heap |-> evicted, item |-> NoItem]
    BY <1>5 DEF Look, evicted, marked
  <2>2. Look(h, dm, u, glitch).heap \in {evicted, marked(FALSE)}
    BY <2>1
  <2> QED
    BY <1>1, <1>2, <1>5, <2>2
<1> QED
  BY <1>3, <1>4, <1>5

LEMMA RebuiltTyped ==
    ASSUME NEW h, IsHeap(h), NEW dm, IsDom(dm), NEW d, NEW r \in Rebuilt(h, dm, d)
    PROVE  IsHeap(r) /\ r.txn = h.txn
<1> DEFINE ids(S) == {dm.art[i].id : i \in S} \ (IF h.txn = NoTxn THEN {} ELSE h.txn.tomb)
           fits(S) == {f \in [ids(S) -> S] : \A u \in ids(S) : dm.art[f[u]].id = u}
           seen == {S \in SUBSET Managed(dm, d) :
                    Cardinality(S) = IF Cardinality(Managed(dm, d)) <= RebuildCap
                                     THEN Cardinality(Managed(dm, d)) ELSE RebuildCap}
<1>0. PICK f \in UNION {fits(S) : S \in seen} :
           r = HeapOf([u \in DOMAIN f |-> FreshEntry(f[u])], h.txn)
  BY DEF Rebuilt
<1>1. /\ r.index = [u \in DOMAIN f |-> FreshEntry(f[u])]
      /\ DOMAIN f \subseteq {dm.art[i].id : i \in Managed(dm, d)}
      /\ \A u \in DOMAIN f : f[u] \in Managed(dm, d)
  <2>1. PICK S \in SUBSET Managed(dm, d) : f \in fits(S)
    BY <1>0
  <2>2. f \in [ids(S) -> S]
    BY <2>1
  <2>3. DOMAIN f = ids(S) /\ \A u \in ids(S) : f[u] \in S
    BY <2>2
  <2>4. r.index = [u \in DOMAIN f |-> FreshEntry(f[u])]
    BY <1>0 DEF HeapOf
  <2> QED
    BY <2>3, <2>4
<1>2. DOMAIN f \subseteq Ids
  BY <1>1 DEF Managed, Live, IsDom, Item
<1>3. \A u \in DOMAIN f : f[u] \in Items
  BY <1>1, DomNumbers DEF Managed, Live
<1>4. IsMap(r.index)
  BY <1>1, <1>2, <1>3 DEF IsMap, FreshEntry, Entry
<1> QED
  BY <1>4, RebuiltFacts DEF IsHeap

LEMMA ResolveTyped ==
    ASSUME NEW h, IsHeap(h), NEW dm, IsDom(dm), NEW d, NEW u \in Ids, NEW glitch \in BOOLEAN,
           NEW r \in Resolve(h, dm, d, u, glitch)
    PROVE  IsHeap(r.heap)
<1> DEFINE first == Look(h, dm, u, glitch)
           second(q) == [heap |-> HeapOf(q.index, TxnOf(q.txn.added, q.txn.deleted, q.txn.tomb, TRUE)),
                         item |-> IF u \in DOMAIN q.index THEN q.index[u].item ELSE NoItem]
<1>1. IsHeap(first.heap) /\ first.heap.txn = h.txn
  BY LookTyped
<1>2. CASE r = [heap |-> h, item |-> NoItem] \/ r = first
  BY <1>1, <1>2
<1>3. CASE h.txn # NoTxn /\ \E q \in Rebuilt(first.heap, dm, d) : r = second(q)
  <2>1. PICK q \in Rebuilt(first.heap, dm, d) : r = second(q)
    BY <1>3
  <2>2. IsHeap(q) /\ q.txn = h.txn
    BY <1>1, RebuiltTyped
  <2>3. IsTxn(TxnOf(q.txn.added, q.txn.deleted, q.txn.tomb, TRUE))
    BY <1>3, <2>2, TxnOfTyped DEF IsHeap, IsTxn
  <2> QED
    BY <2>1, <2>2, <2>3, HeapOfTyped DEF IsHeap
<1>4. r = [heap |-> h, item |-> NoItem] \/ r = first
        \/ (h.txn # NoTxn /\ \E q \in Rebuilt(first.heap, dm, d) : r = second(q))
  BY DEF Resolve
<1> QED
  BY <1>2, <1>3, <1>4

(* What the targets of an operation are: items, found through a sound heap.   *)
LEMMA CollectSound ==
    ASSUME NEW h, IsHeap(h), HeapOK(h), NEW dm, IsDom(dm), NEW d \in Docs,
           NEW sel \in IdSelectors \cup UuidSelector \cup CachedSelectors,
           NEW r \in collectTargets(dm, h, d, sel)
    PROVE  IsHeap(r.heap) /\ HeapOK(r.heap) /\ r.items \subseteq Items
<1>0. Live(dm, d) \subseteq Items
  BY DomNumbers DEF Live
<1>1. CASE sel.type = "near"
  <2>1. r \in collectNear(dm, h, d, sel.id) /\ sel.id \in Ids
    BY <1>1 DEF collectTargets, IdSelectors, UuidSelector, CachedSelectors
  <2> DEFINE looks == Resolve(h, dm, d, sel.id, FALSE) \cup Resolve(h, dm, d, sel.id, TRUE)
             near(l) == IF l.item = NoItem THEN {Refused(l.heap)}
                        ELSE {Found(l.heap, S) : S \in SUBSET ({i \in Live(dm, d) : Visible(dm, i)} \ {l.item})}
  <2>2. PICK l \in looks : r \in near(l)
    BY <2>1 DEF collectNear
  <2>3. r.heap = l.heap /\ r.items \subseteq Items
    BY <1>0, <2>2 DEF Found, Refused
  <2>4. HeapOK(l.heap) /\ IsHeap(l.heap)
    BY <2>1, ResolveFacts, ResolveTyped
  <2> QED
    BY <2>3, <2>4
<1>2. CASE sel.type = "id"
  <2>1. r = resolveGroundedIdTargets(dm, h, d, sel)
    BY <1>2 DEF collectTargets
  <2>2. r.heap = h /\ r.items \subseteq Items
    BY <1>0, <2>1 DEF resolveGroundedIdTargets, Found, Refused, Tagged
  <2> QED
    BY <2>2
<1>3. CASE sel.type = "uuid"
  <2>1. r = resolveUuidTargets(dm, h, d, sel)
    BY <1>3 DEF collectTargets
  <2>2. r.heap = h /\ r.items \subseteq Items
    BY <1>0, <2>1 DEF resolveUuidTargets, Found, Refused
  <2> QED
    BY <2>2
<1>4. CASE sel.type \in {"all", "layer"}
  BY <1>0, <1>4 DEF collectTargets, Found, Refused
<1> QED
  BY <1>1, <1>2, <1>3, <1>4 DEF IdSelectors, UuidSelector, CachedSelectors
=============================================================================
