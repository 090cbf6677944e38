----------------------------- MODULE TaskProofs -----------------------------
(***************************************************************************)
(* TaskPipeline for every artwork, payload and retry policy.  TaskInv is   *)
(* inductive: an attempt that has entered the apply stage has no error a   *)
(* retry is for (EnteredOnce), what is applied, skipped and still to be    *)
(* done adds up to what was collected (Accounted), and what was collected  *)
(* first would be collected again (FoundAgain).                            *)
(***************************************************************************)
EXTENDS TaskPipeline, ArtworkProofs

-----------------------------------------------------------------------------
(* What an attempt finds *)

(* Without a transaction a look at the index opens none.                      *)
LEMMA CollectClosed ==
    ASSUME NEW h, h.txn = NoTxn, NEW dm, NEW d, NEW sel \in TaskSelectors,
           sel.type \notin {"selection", "grid"}, NEW r \in collectTargets(dm, h, d, sel)
    PROVE  r.heap.txn = NoTxn
<1>1. CASE sel.type = "near"
  <2>1. r \in collectNear(dm, h, d, sel.id)
    BY <1>1 DEF collectTargets
  <2> DEFINE looks == Resolve(h, dm, d, sel.id, FALSE) \cup Resolve(h, dm, d, sel.id, TRUE)
             near(l) == IF l.item = NoItem THEN {Refused(l.heap)}
                        ELSE {Found(l.heap, S) : S \in SUBSET ({i \in Live(dm, d) : Visible(dm, i)} \ {l.item})}
  <2>2. PICK l \in looks : r \in near(l)
    BY <2>1 DEF collectNear
  <2>3. r.heap = l.heap
    BY <2>2 DEF Found, Refused
  <2>4. PICK glitch \in BOOLEAN : l = Look(h, dm, sel.id, glitch)
    BY DEF Resolve
  <2>5. l.heap.txn = h.txn
    BY <2>4, LookFacts
  <2> QED
    BY <2>3, <2>5
<1>2. CASE sel.type = "id"
  <2>1. r = resolveGroundedIdTargets(dm, h, d, sel)
    BY <1>2 DEF collectTargets
  <2> QED
    BY <2>1 DEF resolveGroundedIdTargets, Found, Refused
<1>3. CASE sel.type = "uuid"
  <2>1. r = resolveUuidTargets(dm, h, d, sel)
    BY <1>3 DEF collectTargets
  <2> QED
    BY <2>1 DEF resolveUuidTargets, Found, Refused
<1>4. CASE sel.type = "all"
  BY <1>4 DEF collectTargets, Found
<1>5. CASE sel.type = "layer"
  BY <1>5 DEF collectTargets, Found, Refused
<1>6. sel.type \in {"near", "id", "uuid", "all", "layer"}
  BY DEF TaskSelectors, IdSelectors, UuidSelector, CachedSelectors
<1> QED
  BY <1>1, <1>2, <1>3, <1>4, <1>5, <1>6

LEMMA CollectOneTyped ==
    ASSUME TaskTypeOK, NEW h, IsHeap(h), h.txn = NoTxn, NEW s \in TaskSelectors,
           NEW r \in CollectOne(h, s)
    PROVE  IsHeap(r.heap) /\ r.heap.txn = NoTxn /\ r.items \subseteq Items
<1>1. IsDom(dom) /\ Doc \in Docs /\ selected \subseteq Items
  BY TaskAssumption DEF TaskTypeOK
<1>2. CASE s.type = "selection"
  BY <1>1, <1>2 DEF CollectOne, Found
<1>3. CASE s.type = "grid"
  <2>1. PICK S \in SUBSET {i \in Live(dom, Doc) : Visible(dom, i)} : r = Found(h, S)
    BY <1>3 DEF CollectOne
  <2>2. Live(dom, Doc) \subseteq Items
    BY <1>1, DomNumbers DEF Live
  <2> QED
    BY <2>1, <2>2 DEF Found
<1>4. CASE s.type \notin {"selection", "grid"}
  <2>1. r \in collectTargets(dom, h, Doc, s)
    BY <1>4 DEF CollectOne
  <2>2. s \in IdSelectors \cup UuidSelector \cup CachedSelectors
    BY <1>4 DEF TaskSelectors
  <2>3. HeapOK(h)
    BY DEF HeapOK
  <2>4. IsHeap(r.heap) /\ r.items \subseteq Items
    BY <1>1, <2>1, <2>2, <2>3, CollectSound
  <2>5. r.heap.txn = NoTxn
    BY <1>4, <2>1, CollectClosed
  <2> QED
    BY <2>4, <2>5
<1> QED
  BY <1>2, <1>3, <1>4

LEMMA SelectorsTyped ==
    ASSUME NEW t \in TaskTargets
    PROVE  \/ Len(Selectors(t)) = 1 /\ Selectors(t)[1] \in TaskSelectors /\ DOMAIN Selectors(t) = {1}
           \/ /\ Len(Selectors(t)) = 2 /\ DOMAIN Selectors(t) = {1, 2}
              /\ Selectors(t)[1] \in TaskSelectors /\ Selectors(t)[2] \in TaskSelectors
<1>1. CASE t = NoTarget
  <2> DEFINE s == [type |-> "selection"]
  <2>1. s \in TaskSelectors
    BY DEF TaskSelectors
  <2> HIDE DEF s
  <2>2. Selectors(t) = <<s>>
    BY <1>1 DEF Selectors, s
  <2> QED
    BY <2>1, <2>2
<1>2. CASE t # NoTarget /\ t \in TaskSelectors
  <2>1. t.type # "compound"
    BY <1>2 DEF TaskSelectors, IdSelectors, UuidSelector, CachedSelectors
  <2>2. Selectors(t) = <<t>>
    BY <1>2, <2>1 DEF Selectors
  <2> QED
    BY <1>2, <2>2
<1>3. CASE t # NoTarget /\ t \in [type: {"compound"}, anyOf: TaskSelectors \X TaskSelectors]
  <2>1. t.type = "compound" /\ t.anyOf \in TaskSelectors \X TaskSelectors
    BY <1>3
  <2>2. Selectors(t) = t.anyOf
    BY <1>3, <2>1 DEF Selectors
  <2>3. PICK a \in TaskSelectors, b \in TaskSelectors : t.anyOf = <<a, b>>
    BY <2>1
  <2> QED
    BY <2>2, <2>3
<1> QED
  BY <1>1, <1>2, <1>3 DEF TaskTargets

(* An item a selector finds, once.                                            *)
OnceIn(S) == [x \in Things |-> IF x \in S THEN 1 ELSE 0]
Twice(S, T) == [x \in Things |-> OnceIn(S)[x] + OnceIn(T)[x]]

LEMMA OnceTyped ==
    ASSUME NEW S, NEW T, S \subseteq Items, T \subseteq Items
    PROVE  /\ OnceIn(S) \in Counts /\ OnceIn(S)[NoItem] = 0
           /\ Twice(S, T) \in Counts /\ Twice(S, T)[NoItem] = 0
<1>1. NoItem \in Things /\ NoItem \notin S /\ NoItem \notin T
  BY HeapAssumption DEF Things
<1>2. \A x \in Things : OnceIn(S)[x] \in 0..1 /\ OnceIn(T)[x] \in 0..1
  BY DEF OnceIn
<1>3. \A x \in Things : OnceIn(S)[x] + OnceIn(T)[x] \in 0..2
  BY <1>2
<1> QED
  BY <1>1, <1>2, <1>3 DEF OnceIn, Twice, Counts

(* What a target finds is what its selectors find, one after the other.       *)
LEMMA CollectedIs ==
    ASSUME NEW t, NEW r \in Collected(t)
    PROVE  \E a \in CollectOne(heap, Selectors(t)[1]) :
              \/ /\ ~a.ok \/ Len(Selectors(t)) = 1
                 /\ r.heap = a.heap /\ r.ok = a.ok /\ r.count = OnceIn(a.items)
              \/ /\ a.ok /\ Len(Selectors(t)) # 1
                 /\ \E b \in CollectOne(a.heap, Selectors(t)[2]) :
                       r.heap = b.heap /\ r.ok = b.ok /\ r.count = Twice(a.items, b.items)
<1> DEFINE s == Selectors(t)
           first == CollectOne(heap, s[1])
           both(a, b) == [heap |-> b.heap, ok |-> b.ok, by |-> 2,
                          count |-> Twice(a.items, b.items)]
           of(a) == IF ~a.ok \/ Len(s) = 1
                    THEN {[heap |-> a.heap, ok |-> a.ok, by |-> 1, count |-> OnceIn(a.items)]}
                    ELSE {both(a, b) : b \in CollectOne(a.heap, s[2])}
<1>1. r \in UNION {of(a) : a \in first}
  BY DEF Collected, OnceIn, Twice
<1> HIDE DEF first, s
<1>2. PICK a \in first : r \in of(a)
  BY <1>1
<1>3. CASE ~a.ok \/ Len(s) = 1
  BY <1>2, <1>3 DEF first, s
<1>4. CASE a.ok /\ Len(s) # 1
  <2>1. PICK b \in CollectOne(a.heap, s[2]) : r = both(a, b)
    BY <1>2, <1>4
  <2> QED
    BY <1>2, <1>4, <2>1 DEF first, s
<1> QED
  BY <1>3, <1>4

LEMMA CollectedTyped ==
    ASSUME TaskTypeOK, NEW t \in TaskTargets, NEW r \in Collected(t)
    PROVE  IsHeap(r.heap) /\ r.heap.txn = NoTxn /\ r.count \in Counts /\ r.count[NoItem] = 0
<1>1. IsHeap(heap) /\ heap.txn = NoTxn
  BY DEF TaskTypeOK
<1>2. PICK a \in CollectOne(heap, Selectors(t)[1]) :
              \/ /\ ~a.ok \/ Len(Selectors(t)) = 1
                 /\ r.heap = a.heap /\ r.ok = a.ok /\ r.count = OnceIn(a.items)
              \/ /\ a.ok /\ Len(Selectors(t)) # 1
                 /\ \E b \in CollectOne(a.heap, Selectors(t)[2]) :
                       r.heap = b.heap /\ r.ok = b.ok /\ r.count = Twice(a.items, b.items)
  BY CollectedIs
<1>3. Selectors(t)[1] \in TaskSelectors
  BY SelectorsTyped
<1>4. IsHeap(a.heap) /\ a.heap.txn = NoTxn /\ a.items \subseteq Items
  BY <1>1, <1>3, CollectOneTyped
<1>5. CASE r.heap = a.heap /\ r.count = OnceIn(a.items)
  BY <1>4, <1>5, OnceTyped
<1>6. ASSUME Len(Selectors(t)) # 1, NEW b \in CollectOne(a.heap, Selectors(t)[2]),
             r.heap = b.heap, r.count = Twice(a.items, b.items)
      PROVE  IsHeap(r.heap) /\ r.heap.txn = NoTxn /\ r.count \in Counts /\ r.count[NoItem] = 0
  <2>1. Selectors(t)[2] \in TaskSelectors
    BY <1>6, SelectorsTyped
  <2>2. IsHeap(b.heap) /\ b.heap.txn = NoTxn /\ b.items \subseteq Items
    BY <1>4, <2>1, CollectOneTyped
  <2> QED
    BY <1>4, <1>6, <2>2, OnceTyped
<1> QED
  BY <1>2, <1>5, <1>6

(* What exclude leaves of a count, in any artwork.                            *)
Kept(dm, c, exclude) ==
    [x \in Things |-> IF x = NoItem THEN c[x]
                      ELSE IF c[x] = 0 THEN 0
                      ELSE IF dm.art[x].locked /\ "locked" \in exclude THEN 0
                      ELSE IF dm.art[x].form \in exclude THEN 0 ELSE c[x]]

LEMMA FilterTyped ==
    ASSUME NEW dm, NEW c \in Counts, c[NoItem] = 0, NEW exclude
    PROVE  Kept(dm, c, exclude) \in Counts /\ Kept(dm, c, exclude)[NoItem] = 0
<1>1. NoItem \in Things /\ \A x \in Things : c[x] \in 0..2
  BY DEF Counts, Things
<1>2. \A x \in Things : Kept(dm, c, exclude)[x] \in {0, c[x]}
  BY DEF Kept
<1>3. Kept(dm, c, exclude)[NoItem] = c[NoItem]
  BY <1>1 DEF Kept
<1>4. \A x \in Things : Kept(dm, c, exclude)[x] \in 0..2
  BY <1>1, <1>2
<1> QED
  BY <1>3, <1>4 DEF Kept, Counts

LEMMA FilterIs == ASSUME NEW c, NEW exclude PROVE filterItems(c, exclude) = Kept(dom, c, exclude)
BY DEF filterItems, Kept

-----------------------------------------------------------------------------
(* What writing ids changes *)

(* new is dm but for the ids of items of S, which had none or may lose them.  *)
Rewritten(dm, new, S) ==
    /\ DOMAIN new.art = DOMAIN dm.art /\ new.layers = dm.layers /\ new.born = dm.born
    /\ \A i \in DOMAIN dm.art :
          /\ new.art[i].style = dm.art[i].style /\ new.art[i].form = dm.art[i].form
          /\ new.art[i].kind = dm.art[i].kind /\ new.art[i].in = dm.art[i].in
          /\ new.art[i].layer = dm.art[i].layer /\ new.art[i].locked = dm.art[i].locked
          /\ new.art[i].id # dm.art[i].id => i \in S /\ new.art[i].id \in Fresh(dm)

LEMMA AssignFacts ==
    ASSUME IsDom(dom), NEW S, NEW policy, NEW new \in AssignIds(S, policy)
    PROVE  /\ IsDom(new)
           /\ Rewritten(dom, new, {i \in S : policy \notin {"always", "assignIds"} => dom.art[i].id = NoId})
<1> DEFINE G == {i \in S : GetsId(i, policy)}
           R == {i \in S : policy \notin {"always", "assignIds"} => dom.art[i].id = NoId}
<1>1. PICK f \in [G -> Fresh(dom)] :
         new = [dom EXCEPT !.art = [i \in DOMAIN @ |-> IF i \in DOMAIN f THEN [@[i] EXCEPT !.id = f[i]] ELSE @[i]],
                           !.used = @ \cup Range(f)]
  BY DEF AssignIds
<1>2. G \subseteq R /\ DOMAIN f = G /\ \A i \in G : f[i] \in Fresh(dom) /\ f[i] \in Range(f)
  BY DEF GetsId, Range
<1>3. Range(f) \subseteq Ids /\ Fresh(dom) \subseteq Ids
  BY <1>2 DEF Range, Fresh
<1> HIDE DEF G, R
<1>4. /\ DOMAIN new = {"art", "born", "layers", "active", "used"}
      /\ new.born = dom.born /\ new.layers = dom.layers /\ new.active = dom.active
      /\ new.used = dom.used \cup Range(f) /\ DOMAIN new.art = DOMAIN dom.art
  BY <1>1 DEF IsDom
<1>5. \A i \in DOMAIN dom.art : new.art[i] = IF i \in G THEN [dom.art[i] EXCEPT !.id = f[i]] ELSE dom.art[i]
  BY <1>1, <1>2 DEF IsDom
<1>6. ASSUME NEW i \in DOMAIN dom.art
      PROVE  /\ new.art[i] \in Item /\ new.art[i].id \in new.used \cup {NoId}
             /\ new.art[i].style = dom.art[i].style /\ new.art[i].form = dom.art[i].form
             /\ new.art[i].kind = dom.art[i].kind /\ new.art[i].in = dom.art[i].in
             /\ new.art[i].layer = dom.art[i].layer /\ new.art[i].locked = dom.art[i].locked
             /\ new.art[i].id # dom.art[i].id => i \in R /\ new.art[i].id \in Fresh(dom)
  <2>1. dom.art[i] \in Item /\ dom.art[i].id \in dom.used \cup {NoId}
    BY DEF IsDom
  <2>2. CASE i \in G
    <3>1. new.art[i] = [dom.art[i] EXCEPT !.id = f[i]] /\ f[i] \in Ids /\ f[i] \in Range(f) /\ f[i] \in Fresh(dom)
      BY <1>2, <1>3, <1>5, <2>2
    <3>2. new.art[i] \in Item
      BY <2>1, <3>1 DEF Item
    <3> QED
      BY <1>2, <1>4, <2>1, <2>2, <3>1, <3>2 DEF Item
  <2>3. CASE i \notin G
    BY <1>4, <1>5, <2>1, <2>3
  <2> QED
    BY <2>2, <2>3
<1>7. Nested(new.art)
  BY <1>4, <1>6, SameNests DEF IsDom
<1>8. IsDom(new)
  BY <1>3, <1>4, <1>6, <1>7 DEF IsDom
<1>9. Rewritten(dom, new, R)
  BY <1>4, <1>6 DEF Rewritten
<1> QED
  BY <1>8, <1>9 DEF R

-----------------------------------------------------------------------------
(* What a retry finds again *)

(* A selector that does without the index and without chance: whether it      *)
(* resolves, and to which items.                                              *)
Steady(s) == s.type \notin {"near", "grid"}
Meets(dm, s) ==
    CASE s.type = "id"    -> \A id \in s.ids : Grounds(dm, Doc, id, s.pre)
      [] s.type = "uuid"  -> /\ s.doc = Doc
                             /\ \A i \in s.items : /\ i \in Live(dm, Doc) /\ ~dm.art[i].locked
                                                   /\ LayerOpen(dm, dm.art[i].layer)
      [] s.type = "layer" -> s.layer \in LayersOf(dm, Doc)
      [] OTHER -> TRUE
Gets(dm, sel, s) ==
    CASE s.type = "id"    -> UNION {Tagged(dm, Doc, id) : id \in s.ids}
      [] s.type = "uuid"  -> s.items
      [] s.type = "layer" -> {i \in Live(dm, Doc) : dm.art[i].layer = s.layer}
      [] s.type = "all"   -> Live(dm, Doc)
      [] OTHER -> sel \cap DOMAIN dm.art

LEMMA SelectorTypes ==
    ASSUME NEW s \in TaskSelectors, Steady(s)
    PROVE  \/ s.type = "id" /\ s.ids \subseteq Ids
           \/ s.type \in {"uuid", "layer", "all", "selection"}
BY DEF TaskSelectors, IdSelectors, UuidSelector, CachedSelectors, Steady

LEMMA SteadyOne ==
    ASSUME NEW h, NEW s \in TaskSelectors, Steady(s), NEW r \in CollectOne(h, s)
    PROVE  r.heap = h /\ r.ok = Meets(dom, s) /\ (r.ok => r.items = Gets(dom, selected, s))
<1>1. CASE s.type = "id"
  <2>1. r = resolveGroundedIdTargets(dom, h, Doc, s)
    BY <1>1 DEF CollectOne, collectTargets
  <2>2. Meets(dom, s) = (\A id \in s.ids : Grounds(dom, Doc, id, s.pre))
    BY <1>1 DEF Meets
  <2>3. Gets(dom, selected, s) = UNION {Tagged(dom, Doc, id) : id \in s.ids}
    BY <1>1 DEF Gets
  <2> QED
    BY <2>1, <2>2, <2>3 DEF resolveGroundedIdTargets, Found, Refused
<1>2. CASE s.type = "uuid"
  <2>1. r = resolveUuidTargets(dom, h, Doc, s)
    BY <1>2 DEF CollectOne, collectTargets
  <2> DEFINE M == /\ s.doc = Doc
                  /\ \A i \in s.items : /\ i \in Live(dom, Doc) /\ ~dom.art[i].locked
                                        /\ LayerOpen(dom, dom.art[i].layer)
  <2>2. Meets(dom, s) = M /\ M \in BOOLEAN
    BY <1>2 DEF Meets
  <2>3. Gets(dom, selected, s) = s.items
    BY <1>2 DEF Gets
  <2>4. r = IF M THEN Found(h, s.items) ELSE Refused(h)
    BY <2>1 DEF resolveUuidTargets
  <2> HIDE DEF M
  <2> QED
    BY <2>2, <2>3, <2>4 DEF Found, Refused
<1>3. CASE s.type = "layer"
  <2>1. r = IF s.layer \in LayersOf(dom, Doc)
            THEN Found(h, {i \in Live(dom, Doc) : dom.art[i].layer = s.layer}) ELSE Refused(h)
    BY <1>3 DEF CollectOne, collectTargets
  <2>2. Meets(dom, s) = (s.layer \in LayersOf(dom, Doc))
    BY <1>3 DEF Meets
  <2>3. Gets(dom, selected, s) = {i \in Live(dom, Doc) : dom.art[i].layer = s.layer}
    BY <1>3 DEF Gets
  <2>4. CASE s.layer \in LayersOf(dom, Doc)
    <3>1. r = Found(h, Gets(dom, selected, s)) /\ Meets(dom, s)
      BY <2>1, <2>2, <2>3, <2>4
    <3> QED
      BY <2>2, <2>4, <3>1 DEF Found
  <2>5. CASE s.layer \notin LayersOf(dom, Doc)
    <3>1. r = Refused(h)
      BY <2>1, <2>5
    <3>2. Meets(dom, s) = FALSE
      BY <1>3, <2>5 DEF Meets
    <3> QED
      BY <3>1, <3>2 DEF Refused
  <2> QED
    BY <2>4, <2>5
<1>4. CASE s.type \in {"all", "selection"}
  <2>1. Meets(dom, s) = TRUE
    BY <1>4 DEF Meets
  <2>2. r = Found(h, Gets(dom, selected, s))
    <3>1. CASE s.type = "all"
      BY <3>1 DEF CollectOne, collectTargets, Gets
    <3>2. CASE s.type = "selection"
      BY <3>2 DEF CollectOne, Gets
    <3> QED
      BY <1>4, <3>1, <3>2
  <2> QED
    BY <2>1, <2>2 DEF Found
<1> QED
  BY <1>1, <1>2, <1>3, <1>4, SelectorTypes

(* Neither new ids nor, but for the selection, another selection change what  *)
(* a steady selector finds.                                                   *)
LEMMA SteadyKept ==
    ASSUME NEW dm, IsDom(dm), NEW new, NEW S, \A i \in S : dm.art[i].id = NoId, Rewritten(dm, new, S),
           NEW s \in TaskSelectors, Steady(s), Meets(dm, s),
           NEW sel, NEW sel2, s.type = "selection" => sel2 = sel
    PROVE  Meets(new, s) /\ Gets(new, sel2, s) = Gets(dm, sel, s) /\ Gets(dm, sel, s) \subseteq DOMAIN dm.art
<1>1. /\ DOMAIN new.art = DOMAIN dm.art /\ new.layers = dm.layers
      /\ Live(new, Doc) = Live(dm, Doc) /\ LayersOf(new, Doc) = LayersOf(dm, Doc)
  BY DEF Rewritten, Live, LayersOf
<1>2. Live(dm, Doc) \subseteq DOMAIN dm.art
  BY DEF Live
<1>3. ASSUME NEW id \in dm.used PROVE Tagged(new, Doc, id) = Tagged(dm, Doc, id)
  <2>1. id \notin Fresh(dm) /\ id # NoId
    BY ArtworkAssumption DEF Fresh, IsDom
  <2>2. ASSUME NEW i \in Live(dm, Doc) PROVE new.art[i].id = id <=> dm.art[i].id = id
    BY <1>2, <2>1 DEF Rewritten
  <2> QED
    BY <1>1, <2>2 DEF Tagged
<1>4. ASSUME NEW i \in DOMAIN dm.art PROVE Editable(new, i) <=> Editable(dm, i)
  <2>1. dm.art[i].in \cup {i} \subseteq DOMAIN dm.art
    BY DEF IsDom, Nested
  <2>2. \A j \in dm.art[i].in \cup {i} : new.art[j].locked = dm.art[j].locked
    BY <2>1 DEF Rewritten
  <2>3. new.art[i].layer = dm.art[i].layer /\ new.art[i].in = dm.art[i].in
    BY DEF Rewritten
  <2> QED
    BY <1>1, <2>2, <2>3 DEF Editable, LayerOpen
<1>5. CASE s.type = "id"
  <2>1. \A id \in s.ids : Grounds(dm, Doc, id, s.pre)
    BY <1>5 DEF Meets
  <2>2. ASSUME NEW id \in s.ids
        PROVE  /\ Tagged(new, Doc, id) = Tagged(dm, Doc, id) /\ Grounds(new, Doc, id, s.pre)
               /\ Tagged(dm, Doc, id) \subseteq DOMAIN dm.art
    <3>1. PICK i \in Tagged(dm, Doc, id) :
             Tagged(dm, Doc, id) = {i} /\ Editable(dm, i) /\ s.pre \in {AnyForm, dm.art[i].form}
      BY <2>1 DEF Grounds
    <3>2. id \in Ids
      BY <1>5, SelectorTypes
    <3>3. i \in DOMAIN dm.art /\ dm.art[i].id = id
      BY <1>2, <3>1 DEF Tagged
    <3>4. id \in dm.used
      BY <3>2, <3>3, ArtworkAssumption DEF IsDom
    <3>5. Tagged(new, Doc, id) = Tagged(dm, Doc, id)
      BY <1>3, <3>4
    <3>6. Editable(new, i) /\ new.art[i].form = dm.art[i].form
      BY <1>4, <3>1, <3>3 DEF Rewritten
    <3> QED
      BY <3>1, <3>3, <3>5, <3>6 DEF Grounds
  <2>3. Meets(new, s)
    BY <1>5, <2>2 DEF Meets
  <2>4. Gets(new, sel2, s) = UNION {Tagged(new, Doc, id) : id \in s.ids}
    BY <1>5 DEF Gets
  <2>5. Gets(dm, sel, s) = UNION {Tagged(dm, Doc, id) : id \in s.ids}
    BY <1>5 DEF Gets
  <2> QED
    BY <2>2, <2>3, <2>4, <2>5
<1>6. CASE s.type = "uuid"
  <2>1. /\ s.doc = Doc
        /\ \A i \in s.items : i \in Live(dm, Doc) /\ ~dm.art[i].locked /\ LayerOpen(dm, dm.art[i].layer)
    BY <1>6 DEF Meets
  <2>2. \A i \in s.items : i \in DOMAIN dm.art /\ new.art[i].locked = dm.art[i].locked
                            /\ new.art[i].layer = dm.art[i].layer
    BY <1>2, <2>1 DEF Rewritten
  <2>3. \A i \in s.items : i \in Live(new, Doc) /\ ~new.art[i].locked /\ LayerOpen(new, new.art[i].layer)
    BY <1>1, <2>1, <2>2 DEF LayerOpen
  <2>4. Meets(new, s)
    BY <1>6, <2>1, <2>3 DEF Meets
  <2> QED
    BY <1>6, <2>2, <2>4 DEF Gets
<1>7. CASE s.type = "layer"
  <2>1. Meets(new, s)
    BY <1>1, <1>7 DEF Meets
  <2>2. Gets(new, sel2, s) = {i \in Live(new, Doc) : new.art[i].layer = s.layer}
    BY <1>7 DEF Gets
  <2>3. Gets(dm, sel, s) = {i \in Live(dm, Doc) : dm.art[i].layer = s.layer}
    BY <1>7 DEF Gets
  <2>4. \A i \in Live(dm, Doc) : new.art[i].layer = dm.art[i].layer
    BY <1>2 DEF Rewritten
  <2> QED
    BY <1>1, <1>2, <2>1, <2>2, <2>3, <2>4
<1>8. CASE s.type = "all"
  BY <1>1, <1>2, <1>8 DEF Meets, Gets
<1>9. CASE s.type = "selection"
  BY <1>1, <1>9 DEF Meets, Gets
<1> QED
  BY <1>5, <1>6, <1>7, <1>8, <1>9, SelectorTypes

(* The same of a target, of one selector or two.                              *)
Two(t) == Len(Selectors(t)) # 1
AllMeet(dm, t) == Meets(dm, Selectors(t)[1]) /\ (Two(t) => Meets(dm, Selectors(t)[2]))
CountOf(dm, sel, t) ==
    IF Two(t) THEN Twice(Gets(dm, sel, Selectors(t)[1]), Gets(dm, sel, Selectors(t)[2]))
    ELSE OnceIn(Gets(dm, sel, Selectors(t)[1]))

LEMMA SteadySelectors ==
    ASSUME NEW t \in TaskTargets, SteadyTarget(t)
    PROVE  /\ Selectors(t)[1] \in TaskSelectors /\ Steady(Selectors(t)[1])
           /\ Two(t) => Selectors(t)[2] \in TaskSelectors /\ Steady(Selectors(t)[2])
           /\ t.type # "selection" =>
                /\ Selectors(t)[1].type # "selection"
                /\ Two(t) => Selectors(t)[2].type # "selection"
<1>1. CASE t.type = "selection"
  <2>1. Selectors(t) = <<t>>
    BY <1>1 DEF Selectors, SteadyTarget
  <2>2. Len(<<t>>) = 1 /\ <<t>>[1] = t
    OBVIOUS
  <2>3. ~Two(t) /\ Selectors(t)[1] = t
    BY <2>1, <2>2 DEF Two
  <2> QED
    BY <1>1, <2>3, SelectorsTyped DEF Steady
<1>2. CASE t.type # "selection"
  <2>1. \A k \in DOMAIN Selectors(t) : Selectors(t)[k].type \notin {"near", "grid", "selection"}
    BY <1>2 DEF SteadyTarget
  <2> QED
    BY <1>2, <2>1, SelectorsTyped DEF Steady, Two
<1> QED
  BY <1>1, <1>2

LEMMA SteadyFinds ==
    ASSUME NEW t \in TaskTargets, SteadyTarget(t), NEW r \in Collected(t)
    PROVE  /\ r.ok => AllMeet(dom, t) /\ r.count = CountOf(dom, selected, t)
           /\ AllMeet(dom, t) => r.ok
<1>1. PICK a \in CollectOne(heap, Selectors(t)[1]) :
              \/ /\ ~a.ok \/ Len(Selectors(t)) = 1
                 /\ r.heap = a.heap /\ r.ok = a.ok /\ r.count = OnceIn(a.items)
              \/ /\ a.ok /\ Len(Selectors(t)) # 1
                 /\ \E b \in CollectOne(a.heap, Selectors(t)[2]) :
                       r.heap = b.heap /\ r.ok = b.ok /\ r.count = Twice(a.items, b.items)
  BY CollectedIs
<1>2. /\ a.ok = Meets(dom, Selectors(t)[1])
      /\ a.ok => a.items = Gets(dom, selected, Selectors(t)[1])
  BY SteadySelectors, SteadyOne
<1>3. CASE (~a.ok \/ Len(Selectors(t)) = 1) /\ r.ok = a.ok /\ r.count = OnceIn(a.items)
  BY <1>2, <1>3 DEF AllMeet, CountOf, Two
<1>4. ASSUME a.ok, Len(Selectors(t)) # 1, NEW b \in CollectOne(a.heap, Selectors(t)[2]),
             r.ok = b.ok, r.count = Twice(a.items, b.items)
      PROVE  /\ r.ok => AllMeet(dom, t) /\ r.count = CountOf(dom, selected, t)
             /\ AllMeet(dom, t) => r.ok
  <2>1. /\ b.ok = Meets(dom, Selectors(t)[2])
        /\ b.ok => b.items = Gets(dom, selected, Selectors(t)[2])
    BY <1>4, SteadySelectors, SteadyOne DEF Two
  <2> QED
    BY <1>2, <1>4, <2>1 DEF AllMeet, CountOf, Two
<1> QED
  BY <1>1, <1>3, <1>4

LEMMA SteadyAgain ==
    ASSUME NEW dm, IsDom(dm), NEW new, NEW S, \A i \in S : dm.art[i].id = NoId, Rewritten(dm, new, S),
           NEW t \in TaskTargets, SteadyTarget(t), AllMeet(dm, t),
           NEW sel, NEW sel2, t.type = "selection" => sel2 = sel, NEW exclude
    PROVE  AllMeet(new, t) /\ Kept(new, CountOf(new, sel2, t), exclude) = Kept(dm, CountOf(dm, sel, t), exclude)
<1> DEFINE s1 == Selectors(t)[1]
           s2 == Selectors(t)[2]
<1>1. /\ s1 \in TaskSelectors /\ Steady(s1) /\ Meets(dm, s1) /\ (s1.type = "selection" => sel2 = sel)
      /\ Two(t) => s2 \in TaskSelectors /\ Steady(s2) /\ Meets(dm, s2) /\ (s2.type = "selection" => sel2 = sel)
  BY SteadySelectors DEF AllMeet
<1> HIDE DEF s1, s2
<1>2. Meets(new, s1) /\ Gets(new, sel2, s1) = Gets(dm, sel, s1) /\ Gets(dm, sel, s1) \subseteq DOMAIN dm.art
  BY <1>1, SteadyKept
<1>3. Two(t) => /\ Meets(new, s2) /\ Gets(new, sel2, s2) = Gets(dm, sel, s2)
                /\ Gets(dm, sel, s2) \subseteq DOMAIN dm.art
  BY <1>1, SteadyKept
<1>4. AllMeet(new, t)
  BY <1>2, <1>3 DEF AllMeet, s1, s2
<1>5. CountOf(new, sel2, t) = CountOf(dm, sel, t)
  BY <1>2, <1>3 DEF CountOf, s1, s2
<1> DEFINE c == CountOf(dm, sel, t)
<1>6. \A x \in Things : c[x] # 0 => x \in DOMAIN dm.art
  <2>1. CASE Two(t)
    <3>1. c = Twice(Gets(dm, sel, s1), Gets(dm, sel, s2))
      BY <2>1 DEF CountOf, s1, s2
    <3> QED
      BY <1>2, <1>3, <2>1, <3>1 DEF Twice, OnceIn
  <2>2. CASE ~Two(t)
    <3>1. c = OnceIn(Gets(dm, sel, s1))
      BY <2>2 DEF CountOf, s1
    <3> QED
      BY <1>2, <3>1 DEF OnceIn
  <2> QED
    BY <2>1, <2>2
<1> HIDE DEF c
<1>7. Kept(new, c, exclude) = Kept(dm, c, exclude)
  BY <1>6 DEF Kept, Rewritten
<1> QED
  BY <1>4, <1>5, <1>7 DEF c

-----------------------------------------------------------------------------
(* The inductive invariant *)

(* An attempt starts with a report of its own, which stays clean until the    *)
(* compute stage ends; a task that creates collects nothing.                  *)
Attempt ==
    /\ task.stage \in {"collect", "compute"} =>
          task.ok /\ task.errors = {} /\ task.skipped = None /\ task.payload.open
    /\ task.stage = "collect" => ~task.payload.creation
    /\ task.stage = "compute" => task.count[NoItem] = 0

(* The apply stage is entered once: no error a retry is for is in the report  *)
(* of an attempt that has entered it.                                         *)
EnteredOnce ==
    /\ task.stage \in {"idle", "validate", "collect", "compute"} => seen.entered = 0
    /\ task.stage = "apply" => seen.entered = 1
    /\ seen.entered = 0 => seen.applied = None
    /\ seen.entered # 0 =>
          seen.entered = 1 /\ \A e \in task.errors : e.code \notin RETRYABLE_CODES

(* What is applied, skipped and still to be done is what was collected; what  *)
(* an apply function left undone only a failure leaves so.                    *)
ToMake == IF task.payload.creation THEN 1 ELSE 0
Accounted ==
    /\ task.stage = "apply" =>
          /\ task.ok /\ ~task.payload.dryRun
          /\ \A i \in Items : seen.applied[i] + task.todo[i] + task.skipped[i] = task.count[i]
          /\ seen.applied[NoItem] + task.todo[NoItem] = ToMake
    /\ task.stage \in {"returned", "over"} /\ seen.entered # 0 =>
          /\ \A i \in Items : seen.applied[i] <= task.count[i]
          /\ seen.applied[NoItem] <= 1
    /\ /\ task.stage \in {"returned", "over"} /\ task.ok
       /\ ~task.payload.dryRun /\ ~task.payload.batch
       => /\ \A i \in Items : seen.applied[i] + task.skipped[i] = task.count[i]
          /\ seen.applied[NoItem] = ToMake

(* Item numbers are never used twice, and a task starts from the artwork it   *)
(* is compared with.                                                          *)
Since == /\ IsDom(seen.start) /\ seen.start.born <= dom.born
         /\ task.stage = "idle" => dom = seen.start

(* As long as nothing is applied, what the first attempt found would be found *)
(* again.                                                                     *)
FoundAgain ==
    LET p == task.payload IN
    seen.first # <<>> =>
        /\ task.stage # "idle" /\ p.flaws = {} /\ p.open /\ ~p.creation
        /\ ~p.batch /\ KeepsIds(p) /\ SteadyTarget(p.target) /\ seen.entered = 0 =>
              /\ AllMeet(dom, p.target)
              /\ Kept(dom, CountOf(dom, selected, p.target), p.exclude) = seen.first[1]

TaskInv == /\ TaskTypeOK /\ Attempt /\ EnteredOnce /\ Accounted
           /\ Since /\ OnlyTargetsTagged /\ FoundAgain /\ RetryFindsSame

-----------------------------------------------------------------------------
(* One lemma for every action *)

Fields == {"stage", "payload", "attempt", "count", "todo", "ok", "errors", "skipped"}

(* What a report is made of.                                                  *)
LEMMA NoneTyped == None \in Counts /\ \A x \in Things : None[x] = 0
BY DEF None, Counts

LEMMA ErrorTyped ==
    ASSUME NEW c, NEW s
    PROVE  /\ makeTaskError(c, s).code = c /\ makeTaskError(c, s).stage = s
           /\ c \in Codes /\ s \in Stages => makeTaskError(c, s) \in TaskError
BY DEF makeTaskError, TaskError

LEMMA FailsFacts ==
    ASSUME TaskTypeOK, NEW code \in Codes, NEW stage \in Stages, NEW new, new = Fails(code, stage)
    PROVE  /\ DOMAIN new = Fields /\ new.stage = "returned" /\ new.ok = FALSE
           /\ new.errors = task.errors \cup {makeTaskError(code, stage)} /\ new.errors \subseteq TaskError
           /\ new.payload = task.payload /\ new.attempt = task.attempt /\ new.count = task.count
           /\ new.todo = task.todo /\ new.skipped = task.skipped
<1>1. DOMAIN task = Fields /\ task.errors \subseteq TaskError
  BY DEF TaskTypeOK, Fields
<1>2. makeTaskError(code, stage) \in TaskError
  BY ErrorTyped
<1> QED
  BY <1>1, <1>2 DEF Fails, Returns, Fields

(* The types in the next state, part by part.                                 *)
LEMMA TaskTyped ==
    ASSUME TaskTypeOK, IsDom(dom'), IsHeap(heap'), heap'.txn = NoTxn, selected' \subseteq Items,
           DOMAIN task' = Fields, task'.stage \in Stages \cup {"returned", "over"},
           IsPayload(task'.payload), task'.attempt \in 0..MaxAttempts,
           task'.count \in Counts, task'.todo \in Counts, task'.skipped \in Counts,
           task'.ok \in BOOLEAN, task'.errors \subseteq TaskError,
           DOMAIN seen' = DOMAIN seen, seen'.found \subseteq Items, seen'.entered \in 0..MaxAttempts,
           seen'.applied \in Counts
    PROVE  TaskTypeOK'
<1>1. {task'.count, task'.todo, task'.skipped} \subseteq Counts
  OBVIOUS
<1> QED
  BY <1>1 DEF TaskTypeOK, Fields

(* What the types say of a task that has been submitted.                      *)
LEMMA Submitted ==
    ASSUME TaskInv, task.stage # "idle"
    PROVE  /\ TaskTypeOK /\ IsPayload(task.payload) /\ IsDom(dom) /\ IsHeap(heap) /\ heap.txn = NoTxn
           /\ DOMAIN task = Fields /\ task.stage \in Stages \cup {"returned", "over"}
           /\ task.attempt \in 0..MaxAttempts /\ selected \subseteq Items
           /\ task.count \in Counts /\ task.todo \in Counts /\ task.skipped \in Counts
           /\ task.ok \in BOOLEAN /\ task.errors \subseteq TaskError
           /\ DOMAIN seen = {"start", "found", "first", "entered", "applied"}
           /\ seen.found \subseteq Items /\ seen.entered \in 0..MaxAttempts /\ seen.applied \in Counts
BY DEF TaskInv, TaskTypeOK, Fields

(* A failure outside the apply stage: nothing but the report changes.         *)
LEMMA FailingInv ==
    ASSUME TaskInv, task.stage \in {"collect", "compute", "apply"},
           NEW code \in Codes, NEW stage \in Stages, task' = Fails(code, stage),
           task.stage = "apply" => code \notin RETRYABLE_CODES,
           IsDom(dom'), dom'.born >= dom.born, IsHeap(heap'), heap'.txn = NoTxn,
           UNCHANGED <<selected, seen>>,
           OnlyTargetsTagged',
           dom' = dom \/ task.payload.batch,
           stage = "collect" => RetryFindsSame'
    PROVE  TaskInv'
<1>1. /\ DOMAIN task' = Fields /\ task'.stage = "returned" /\ task'.ok = FALSE
      /\ task'.errors = task.errors \cup {makeTaskError(code, stage)} /\ task'.errors \subseteq TaskError
      /\ task'.payload = task.payload /\ task'.attempt = task.attempt /\ task'.count = task.count
      /\ task'.todo = task.todo /\ task'.skipped = task.skipped
  BY FailsFacts DEF TaskInv
<1>2. makeTaskError(code, stage).code = code /\ makeTaskError(code, stage).stage = stage
  BY ErrorTyped
<1>3. TaskTypeOK'
  BY <1>1, Submitted, TaskTyped
<1>4. Attempt'
  BY <1>1 DEF Attempt
<1>5. EnteredOnce'
  BY <1>1, <1>2 DEF TaskInv, EnteredOnce
<1>6. Accounted'
  <2>1. CASE task.stage = "apply"
    <3>1. /\ \A i \in Items : seen.applied[i] + task.todo[i] + task.skipped[i] = task.count[i]
          /\ seen.applied[NoItem] + task.todo[NoItem] = ToMake
      BY <2>1 DEF TaskInv, Accounted
    <3>2. \A x \in Things : seen.applied[x] \in Nat /\ task.todo[x] \in Nat /\ task.skipped[x] \in Nat
      BY DEF TaskInv, TaskTypeOK, Counts
    <3>3. \A i \in Items : seen.applied[i] <= task.count[i]
      BY <3>1, <3>2 DEF Things
    <3>4. seen.applied[NoItem] <= 1
      BY <3>1, <3>2 DEF Things, ToMake
    <3> QED
      BY <1>1, <3>3, <3>4 DEF Accounted
  <2>2. CASE task.stage \in {"collect", "compute"}
    BY <1>1, <2>2 DEF TaskInv, EnteredOnce, Accounted
  <2> QED
    BY <2>1, <2>2
<1>7. Since'
  <2>1. IsDom(seen.start) /\ seen.start.born \in Nat /\ dom.born \in Nat /\ dom'.born \in Nat
        /\ seen.start.born <= dom.born
    BY ArtworkAssumption DEF TaskInv, TaskTypeOK, Since, IsDom
  <2> QED
    BY <1>1, <2>1 DEF Since
<1>8. FoundAgain'
  BY <1>1 DEF TaskInv, FoundAgain
<1>9. RetryFindsSame'
  BY <1>1, <1>2 DEF TaskInv, RetryFindsSame
<1> QED
  BY <1>3, <1>4, <1>5, <1>6, <1>7, <1>8, <1>9 DEF TaskInv

LEMMA TaskInitInv == ASSUME Init PROVE TaskInv
<1>1. IsDom(dom) /\ Doc \in Docs /\ MaxAttempts \in Nat
  BY TaskAssumption DEF Init
<1>2. IsHeap(heap) /\ heap.txn = NoTxn
  <2>1. CASE heap = EmptyHeap
    BY <2>1 DEF EmptyHeap, HeapOf, IsHeap, IsMap
  <2>2. ASSUME NEW i \in Managed(dom, Doc), heap = HeapOf([u \in {dom.art[i].id} |-> FreshEntry(i)], NoTxn)
        PROVE  IsHeap(heap) /\ heap.txn = NoTxn
    <3>1. i \in Items /\ dom.art[i].id \in Ids
      <4>1. i \in DOMAIN dom.art /\ dom.art[i].id # NoId /\ dom.art[i] \in Item
        BY <1>1 DEF Managed, Live, IsDom
      <4> QED
        BY <1>1, <4>1, DomNumbers, ItemFields
    <3> DEFINE m == [u \in {dom.art[i].id} |-> FreshEntry(i)]
    <3>2. IsMap(m)
      BY <3>1 DEF IsMap, FreshEntry, Entry
    <3> HIDE DEF m
    <3>3. heap = HeapOf(m, NoTxn)
      BY <2>2 DEF m
    <3> QED
      BY <3>2, <3>3 DEF HeapOf, IsHeap
  <2> QED
    BY <2>1, <2>2 DEF Init
<1>3. selected \subseteq Items
  BY <1>1, DomNumbers DEF Init, Live
<1>4. /\ task = [stage |-> "idle", payload |-> <<>>, attempt |-> 0, count |-> None, todo |-> None,
                 ok |-> TRUE, errors |-> {}, skipped |-> None]
      /\ seen = [start |-> dom, found |-> {}, first |-> <<>>, entered |-> 0, applied |-> None]
  BY DEF Init
<1>5. TaskTypeOK
  BY <1>1, <1>2, <1>3, <1>4, NoneTyped DEF TaskTypeOK, Fields
<1>6. Attempt /\ EnteredOnce /\ Accounted
  BY <1>4 DEF Attempt, EnteredOnce, Accounted
<1>7. Since
  BY <1>1, <1>4, ArtworkAssumption DEF Since, IsDom
<1>8. OnlyTargetsTagged
  BY <1>4 DEF OnlyTargetsTagged
<1>9. FoundAgain /\ RetryFindsSame
  BY <1>4 DEF FoundAgain, RetryFindsSame
<1> QED
  BY <1>5, <1>6, <1>7, <1>8, <1>9 DEF TaskInv

LEMMA SubmitInv == ASSUME TaskInv, Submit PROVE TaskInv'
<1>1. PICK p \in Payloads : task' = [task EXCEPT !.stage = "validate", !.payload = p, !.attempt = 1]
  BY DEF Submit
<1>2. IsPayload(p) /\ 1 \in 0..MaxAttempts
  BY TaskAssumption
<1>3. /\ DOMAIN task' = Fields /\ task'.stage = "validate" /\ task'.payload = p /\ task'.attempt = 1
      /\ task'.count = task.count /\ task'.todo = task.todo /\ task'.skipped = task.skipped
      /\ task'.ok = task.ok /\ task'.errors = task.errors
  BY <1>1 DEF TaskInv, TaskTypeOK, Fields
<1>4. task.stage = "idle" /\ UNCHANGED <<dom, heap, selected, seen>>
  BY DEF Submit
<1>5. dom = seen.start /\ seen.entered = 0 /\ seen.first = <<>>
  BY <1>4 DEF TaskInv, Since, EnteredOnce, FoundAgain
<1>6. TaskTypeOK'
  <2>1. /\ TaskTypeOK /\ IsDom(dom) /\ IsHeap(heap) /\ heap.txn = NoTxn /\ selected \subseteq Items
        /\ task.count \in Counts /\ task.todo \in Counts /\ task.skipped \in Counts
        /\ task.ok \in BOOLEAN /\ task.errors \subseteq TaskError
        /\ seen.found \subseteq Items /\ seen.entered \in 0..MaxAttempts /\ seen.applied \in Counts
    BY DEF TaskInv, TaskTypeOK
  <2>2. task'.stage \in Stages \cup {"returned", "over"}
    BY <1>3 DEF Stages
  <2> QED
    BY <1>2, <1>3, <1>4, <2>1, <2>2, TaskTyped
<1>7. Attempt' /\ EnteredOnce' /\ Accounted'
  BY <1>3, <1>4, <1>5 DEF TaskInv, Attempt, EnteredOnce, Accounted
<1>8. Since'
  BY <1>3, <1>4 DEF TaskInv, Since
<1>9. OnlyTargetsTagged'
  BY <1>4, <1>5 DEF OnlyTargetsTagged
<1>10. FoundAgain' /\ RetryFindsSame'
  BY <1>4, <1>5 DEF FoundAgain, RetryFindsSame
<1> QED
  BY <1>6, <1>7, <1>8, <1>9, <1>10 DEF TaskInv

LEMMA CodesTyped == ASSUME NEW p PROVE validatePayload(p) \subseteq Codes /\ validatePayload(p) \cap RETRYABLE_CODES = {}
<1>1. TargetCodes(p) \subseteq {"V_INVALID_TARGETS", "V_UNKNOWN_TARGET_TYPE", "V_MISSING_REQUIRED_PARAM",
                            "V_INVALID_PARAM_TYPE", "V_INVALID_PARAM_VALUE"}
  BY DEF TargetCodes
<1> QED
  BY <1>1 DEF validatePayload, Codes, RETRYABLE_CODES

LEMMA ValidateInv == ASSUME TaskInv, Validate PROVE TaskInv'
<1> DEFINE p == task.payload
           codes == validatePayload(p)
           errs == {makeTaskError(c, "validate") : c \in codes}
<1>0. /\ task.stage = "validate" /\ UNCHANGED <<dom, heap, selected, seen>>
      /\ seen.entered = 0 /\ seen.applied = None /\ IsPayload(p) /\ DOMAIN task = Fields
  BY DEF Validate, TaskInv, EnteredOnce, TaskTypeOK, Fields
<1>1. \A e \in errs : e \in TaskError /\ e.stage = "validate"
  BY CodesTyped, ErrorTyped DEF Stages
<1>2. makeTaskError("V_NO_DOCUMENT", "collect") \in TaskError
  BY ErrorTyped DEF Codes, Stages
<1>3. /\ DOMAIN task' = Fields /\ task'.payload = p /\ task'.attempt = task.attempt
      /\ task'.count = None /\ task'.todo = None /\ task'.skipped = None
      /\ \/ task'.stage = "returned" /\ task'.ok = FALSE /\ task'.errors = errs
         \/ /\ task'.stage = "returned" /\ task'.ok = FALSE /\ ~p.open
            /\ task'.errors = {makeTaskError("V_NO_DOCUMENT", "collect")}
         \/ /\ task'.stage = IF p.creation THEN "compute" ELSE "collect"
            /\ task'.ok = TRUE /\ task'.errors = {} /\ p.open
  <2> HIDE DEF codes, errs, p
  <2>1. CASE codes # {}
    <3>1. task' = [Fresher EXCEPT !.stage = "returned", !.ok = FALSE, !.errors = errs]
      BY <2>1 DEF Validate, codes, errs, p
    <3> QED
      BY <1>0, <3>1 DEF Fresher, Fields, p
  <2>2. CASE codes = {} /\ ~p.open
    <3>1. task' = [Fresher EXCEPT !.stage = "returned", !.ok = FALSE,
                          !.errors = {makeTaskError("V_NO_DOCUMENT", "collect")}]
      BY <2>2 DEF Validate, codes, p
    <3> QED
      BY <1>0, <2>2, <3>1 DEF Fresher, Fields, p
  <2>3. CASE codes = {} /\ p.open
    <3>1. task' = [Fresher EXCEPT !.stage = IF p.creation THEN "compute" ELSE "collect"]
      BY <2>3 DEF Validate, codes, p
    <3> QED
      BY <1>0, <2>3, <3>1 DEF Fresher, Fields, p
  <2> QED
    BY <2>1, <2>2, <2>3
<1> HIDE DEF errs, codes
<1>4. TaskTypeOK'
  <2>1. task'.errors \subseteq TaskError /\ task'.ok \in BOOLEAN
        /\ task'.stage \in Stages \cup {"returned", "over"}
    BY <1>1, <1>2, <1>3 DEF Stages
  <2> QED
    BY <1>0, <1>3, <2>1, NoneTyped, Submitted, TaskTyped
<1>5. Attempt'
  <2>1. None[NoItem] = 0
    BY NoneTyped DEF Things
  <2> QED
    BY <1>0, <1>3, <2>1 DEF Attempt
<1>6. EnteredOnce'
  BY <1>0, <1>3 DEF TaskInv, EnteredOnce
<1>7. Accounted'
  BY <1>0, <1>3 DEF Accounted
<1>8. Since'
  BY <1>0, <1>3 DEF TaskInv, Since
<1>9. OnlyTargetsTagged'
  BY <1>0, <1>3 DEF TaskInv, OnlyTargetsTagged
<1>10. FoundAgain'
  BY <1>0, <1>3 DEF TaskInv, FoundAgain
<1>11. RetryFindsSame'
  <2> SUFFICES ASSUME seen.first # <<>>
               PROVE  /\ task'.stage \notin {"compute", "apply"}
                      /\ \A e \in task'.errors : e.stage # "collect"
    BY <1>0 DEF RetryFindsSame
  <2>1. p.open /\ ~p.creation
    BY DEF TaskInv, FoundAgain
  <2> QED
    BY <1>1, <1>3, <2>1
<1> QED
  BY <1>4, <1>5, <1>6, <1>7, <1>8, <1>9, <1>10, <1>11 DEF TaskInv

(* Whatever is done to the artwork but for writing ids.                       *)
LEMMA TagsKept ==
    ASSUME TaskInv, task.stage # "idle", NEW ids, Grown(dom, dom', ids),
           seen'.start = seen.start, seen'.found = seen.found, task'.payload = task.payload
    PROVE  OnlyTargetsTagged'
<1>1. /\ IsDom(dom) /\ IsDom(seen.start) /\ seen.start.born <= dom.born
      /\ seen.start.born \in Nat /\ dom.born \in Nat
  BY DomNumbers DEF TaskInv, TaskTypeOK, Since
<1> SUFFICES ASSUME NEW i \in DOMAIN dom'.art \cap DOMAIN seen.start.art,
                    dom'.art[i].id # seen.start.art[i].id
             PROVE  i \in seen.found /\ (seen.start.art[i].id # NoId => ~KeepsIds(task.payload))
  BY DEF OnlyTargetsTagged
<1>2. CASE i \in DOMAIN dom.art
  <2>1. dom'.art[i].id = dom.art[i].id
    BY <1>2 DEF Grown
  <2> QED
    BY <1>2, <2>1 DEF TaskInv, OnlyTargetsTagged
<1>3. CASE i \notin DOMAIN dom.art
  <2>1. i > dom.born
    BY <1>3 DEF Grown
  <2>2. i \in 1..seen.start.born
    BY <1>1 DEF IsDom
  <2> QED
    BY <1>1, <2>1, <2>2
<1> QED
  BY <1>2, <1>3

LEMMA CollectFailsInv == ASSUME TaskInv, CollectFails PROVE TaskInv'
<1>0. /\ task.stage = "collect" /\ UNCHANGED <<dom, selected, seen>>
      /\ TaskTypeOK /\ IsPayload(task.payload) /\ IsDom(dom) /\ IsHeap(heap) /\ heap.txn = NoTxn
      /\ dom.born \in Nat /\ seen.entered = 0
  BY Submitted, DomNumbers DEF CollectFails, TaskInv, EnteredOnce
<1>1. task.payload.target \in TaskTargets
  BY <1>0 DEF IsPayload
<1>2. OnlyTargetsTagged' /\ "collect" \in Stages
  <2>1. task'.payload = task.payload
    <3>1. \E c, s : task' = Fails(c, s)
      BY DEF CollectFails
    <3> QED
      BY <1>0, <3>1 DEF Fails, Returns, TaskTypeOK
  <2> QED
    BY <1>0, <2>1 DEF TaskInv, OnlyTargetsTagged, Stages
<1>3. ASSUME task.payload.flaws # {}, heap' = heap,
             NEW code \in FlawCodes, task' = Fails(code, "collect")
      PROVE  TaskInv'
  <2>1. code \in Codes
    BY DEF FlawCodes, Codes, RETRYABLE_CODES
  <2>2. RetryFindsSame'
    BY <1>0, <1>3 DEF TaskInv, FoundAgain, RetryFindsSame
  <2> QED
    BY <1>0, <1>2, <1>3, <2>1, <2>2, FailingInv
<1>4. ASSUME NEW r \in Collected(task.payload.target), ~r.ok, heap' = r.heap,
             NEW code \in FailCodes(Selectors(task.payload.target)[r.by]), task' = Fails(code, "collect")
      PROVE  TaskInv'
  <2>1. code \in Codes
    BY DEF FailCodes, Codes, RETRYABLE_CODES
  <2>2. IsHeap(r.heap) /\ r.heap.txn = NoTxn
    BY <1>0, <1>1, CollectedTyped
  <2>3. task'.payload = task.payload
    BY <1>0, <1>4 DEF Fails, Returns, TaskTypeOK
  <2>4. RetryFindsSame'
    <3> SUFFICES ASSUME seen.first # <<>>, ~task.payload.batch, KeepsIds(task.payload),
                        SteadyTarget(task.payload.target)
                 PROVE  FALSE
      BY <1>0, <2>3 DEF RetryFindsSame
    <3>1. AllMeet(dom, task.payload.target)
      BY <1>0 DEF TaskInv, FoundAgain
    <3> QED
      BY <1>1, <1>4, <3>1, SteadyFinds
  <2> QED
    BY <1>0, <1>2, <1>4, <2>1, <2>2, <2>4, FailingInv
<1> QED
  BY <1>3, <1>4 DEF CollectFails

LEMMA ComputeThrowsInv == ASSUME TaskInv, ComputeThrows PROVE TaskInv'
<1>1. /\ task.stage = "compute" /\ UNCHANGED <<dom, heap, selected, seen>>
      /\ task' = Fails("R_COMPUTE_FAILED", "compute") /\ TaskTypeOK
      /\ IsDom(dom) /\ IsHeap(heap) /\ heap.txn = NoTxn /\ dom.born \in Nat
  BY Submitted, DomNumbers DEF ComputeThrows
<1>2. "R_COMPUTE_FAILED" \in Codes /\ "compute" \in Stages
  BY DEF Codes, RETRYABLE_CODES, Stages
<1>3. task'.payload = task.payload
  BY <1>1 DEF Fails, Returns, TaskTypeOK
<1>4. OnlyTargetsTagged'
  BY <1>1, <1>3 DEF TaskInv, OnlyTargetsTagged
<1> QED
  BY <1>1, <1>2, <1>4, FailingInv

LEMMA ApplyThrowsInv == ASSUME TaskInv, ApplyThrows PROVE TaskInv'
<1>1. /\ task.stage = "apply" /\ UNCHANGED <<dom, heap, selected, seen>>
      /\ task' = Fails("R_APPLY_FAILED", "apply") /\ TaskTypeOK
      /\ IsDom(dom) /\ IsHeap(heap) /\ heap.txn = NoTxn /\ dom.born \in Nat
  BY Submitted, DomNumbers DEF ApplyThrows
<1>2. "R_APPLY_FAILED" \in Codes /\ "apply" \in Stages /\ "R_APPLY_FAILED" \notin RETRYABLE_CODES
  BY DEF Codes, RETRYABLE_CODES, Stages
<1>3. task'.payload = task.payload
  BY <1>1 DEF Fails, Returns, TaskTypeOK
<1>4. OnlyTargetsTagged'
  BY <1>1, <1>3 DEF TaskInv, OnlyTargetsTagged
<1> QED
  BY <1>1, <1>2, <1>4, FailingInv

(* What an operation of a batch may do to the artwork and the index.          *)
LEMMA BatchEffectsSound ==
    ASSUME IsDom(dom), IsHeap(heap), heap.txn = NoTxn, BatchEffects
    PROVE  Grown(dom, dom', Ids) /\ IsHeap(heap') /\ heap'.txn = NoTxn
<1>1. CASE UNCHANGED <<dom, heap>>
  BY <1>1, GrownSelf, GrownMore
<1>2. ASSUME NEW i \in CanChange, NEW s \in Styles, dom' = Repaint(dom, {i}, s), heap' = heap
      PROVE  Grown(dom, dom', Ids) /\ IsHeap(heap') /\ heap'.txn = NoTxn
  BY <1>2, RepaintGrown, GrownMore
<1>3. ASSUME NEW i \in CanChange, dom' = Remove(dom, {i}), heap' = heap
      PROVE  Grown(dom, dom', Ids) /\ IsHeap(heap') /\ heap'.txn = NoTxn
  BY <1>3, RemoveGrown, GrownMore
<1>4. ASSUME NEW id \in Fresh(dom), NEW l \in OpenLayers,
             dom' = Add(dom, New(id, "path", l)), heap' = Register(heap, id, Newest(dom))
      PROVE  Grown(dom, dom', Ids) /\ IsHeap(heap') /\ heap'.txn = NoTxn
  <2>1. id \in Ids /\ l \in DOMAIN dom.layers /\ CanAdd(dom, 1) /\ "path" \in Kinds
    BY <1>4 DEF Fresh, OpenLayers, LayersOf, Kinds
  <2>2. Grown(dom, Add(dom, New(id, "path", l)), {id} \ {NoId})
    BY <2>1, NewGrown
  <2>3. Newest(dom) \in Items
    BY <2>1, ArtworkAssumption DEF IsDom, CanAdd, Newest, Items
  <2>4. IsHeap(Register(heap, id, Newest(dom))) /\ Register(heap, id, Newest(dom)).txn = NoTxn
    BY <2>1, <2>3, RegisterTyped DEF Register, HeapOf
  <2> QED
    BY <1>4, <2>1, <2>2, <2>4, GrownMore
<1> QED
  BY <1>1, <1>2, <1>3, <1>4 DEF BatchEffects

LEMMA ComputeBatchInv == ASSUME TaskInv, ComputeBatch PROVE TaskInv'
<1>1. BatchEffects
  BY DEF ComputeBatch
<1>2. /\ task.stage = "compute" /\ task.payload.batch /\ UNCHANGED <<selected, seen>>
      /\ TaskTypeOK /\ IsDom(dom) /\ IsHeap(heap) /\ heap.txn = NoTxn /\ DOMAIN task = Fields
      /\ IsPayload(task.payload) /\ seen.entered = 0
  BY Submitted DEF ComputeBatch, TaskInv, EnteredOnce
<1>3. Grown(dom, dom', Ids) /\ IsHeap(heap') /\ heap'.txn = NoTxn
  BY <1>1, <1>2, BatchEffectsSound
<1>4. IsDom(dom') /\ dom'.born >= dom.born
  BY <1>3 DEF Grown
<1>5. CASE task' = Returns
  <2>1. /\ DOMAIN task' = Fields /\ task'.stage = "returned" /\ task'.payload = task.payload
        /\ task'.attempt = task.attempt /\ task'.count = task.count /\ task'.todo = task.todo
        /\ task'.ok = task.ok /\ task'.errors = task.errors /\ task'.skipped = task.skipped
    BY <1>2, <1>5 DEF Returns, Fields
  <2>2. TaskTypeOK'
    <3>1. task'.stage \in Stages \cup {"returned", "over"}
      BY <2>1
    <3> QED
      BY <1>2, <1>3, <1>4, <2>1, <3>1, Submitted, TaskTyped
  <2>3. Attempt' /\ EnteredOnce' /\ Accounted'
    BY <1>2, <2>1 DEF TaskInv, Attempt, EnteredOnce, Accounted
  <2>4. Since'
    <3>1. IsDom(seen.start) /\ seen.start.born \in Nat /\ dom.born \in Nat /\ dom'.born \in Nat
          /\ seen.start.born <= dom.born
      BY <1>2, <1>4, DomNumbers DEF TaskInv, Since
    <3> QED
      BY <1>2, <1>4, <2>1, <3>1 DEF Since
  <2>5. OnlyTargetsTagged'
    BY <1>2, <1>3, <2>1, TagsKept
  <2>6. FoundAgain' /\ RetryFindsSame'
    BY <1>2, <2>1 DEF TaskInv, FoundAgain, RetryFindsSame
  <2> QED
    BY <2>2, <2>3, <2>4, <2>5, <2>6 DEF TaskInv
<1>6. ASSUME NEW code \in Codes, NEW stage \in Stages, task' = Fails(code, stage) PROVE TaskInv'
  <2>1. task'.payload = task.payload
    BY <1>2, <1>6, FailsFacts
  <2>2. OnlyTargetsTagged'
    BY <1>2, <1>3, <2>1, TagsKept
  <2>3. RetryFindsSame'
    BY <1>2, <2>1 DEF RetryFindsSame
  <2> QED
    BY <1>2, <1>3, <1>4, <1>6, <2>2, <2>3, FailingInv
<1>7. CASE task' = Fails("R_COMPUTE_FAILED", "compute")
  BY <1>6, <1>7 DEF Codes, RETRYABLE_CODES, Stages
<1>8. ASSUME NEW e \in BatchErrors, task' = [Returns EXCEPT !.ok = FALSE, !.errors = @ \cup {e}]
      PROVE  TaskInv'
  <2>1. PICK code \in Codes, stage \in Stages : e = makeTaskError(code, stage)
    BY DEF BatchErrors, Codes, RETRYABLE_CODES, Stages
  <2>2. task' = Fails(code, stage)
    BY <1>8, <2>1 DEF Fails
  <2> QED
    BY <1>6, <2>2
<1> QED
  BY <1>5, <1>7, <1>8 DEF ComputeBatch

LEMMA HeldItems ==
    ASSUME NEW c \in Counts
    PROVE  Held(c) \subseteq Items /\ (\A i \in Items : i \notin Held(c) => c[i] = 0) /\ NoItem \notin Held(c)
<1>1. \A x \in Things : c[x] \in 0..2
  BY DEF Counts
<1> QED
  BY <1>1, HeapAssumption DEF Held, Things

LEMMA CollectInv == ASSUME TaskInv, Collect PROVE TaskInv'
<1> DEFINE p == task.payload
<1>0. /\ task.stage = "collect" /\ p.flaws = {} /\ TaskTypeOK /\ IsPayload(p)
      /\ IsDom(dom) /\ dom.born \in Nat /\ DOMAIN task = Fields
      /\ DOMAIN seen = {"start", "found", "first", "entered", "applied"}
      /\ task.ok /\ task.errors = {} /\ task.skipped = None /\ p.open /\ ~p.creation
      /\ seen.entered = 0 /\ seen.applied = None
  BY Submitted, DomNumbers DEF Collect, TaskInv, Attempt, EnteredOnce
<1>1. PICK r \in {q \in Collected(p.target) : q.ok} :
         LET count == filterItems(r.count, p.exclude) IN
         /\ heap' = r.heap
         /\ dom' \in AssignIds(Held(count), p.policy)
         /\ selected' = IF p.dryRun \/ (p.target # NoTarget /\ p.target.type = "selection")
                        THEN selected ELSE {}
         /\ task' = [task EXCEPT !.count = count,
                       !.stage = IF Held(count) = {} THEN "returned" ELSE "compute"]
         /\ seen' = [seen EXCEPT !.found = @ \cup Held(count),
                       !.first = IF @ = <<>> THEN <<count>> ELSE @]
  BY DEF Collect
<1> DEFINE count == Kept(dom, r.count, p.exclude)
<1>2. p.target \in TaskTargets
  BY <1>0 DEF IsPayload
<1>3. IsHeap(r.heap) /\ r.heap.txn = NoTxn /\ r.count \in Counts /\ r.count[NoItem] = 0
  BY <1>0, <1>2, CollectedTyped
<1>4. count \in Counts /\ count[NoItem] = 0
  BY <1>3, FilterTyped
<1>5. /\ heap' = r.heap /\ dom' \in AssignIds(Held(count), p.policy)
      /\ selected' = IF p.dryRun \/ (p.target # NoTarget /\ p.target.type = "selection")
                     THEN selected ELSE {}
      /\ task' = [task EXCEPT !.count = count,
                    !.stage = IF Held(count) = {} THEN "returned" ELSE "compute"]
      /\ seen' = [seen EXCEPT !.found = @ \cup Held(count),
                    !.first = IF @ = <<>> THEN <<count>> ELSE @]
  BY <1>1, FilterIs
<1> HIDE DEF count
<1>6. /\ DOMAIN task' = Fields /\ task'.payload = p /\ task'.attempt = task.attempt
      /\ task'.count = count /\ task'.todo = task.todo /\ task'.skipped = None
      /\ task'.ok = task.ok /\ task'.errors = {}
      /\ task'.stage = IF Held(count) = {} THEN "returned" ELSE "compute"
  BY <1>0, <1>5 DEF Fields
<1>7. /\ DOMAIN seen' = DOMAIN seen /\ seen'.start = seen.start /\ seen'.entered = 0
      /\ seen'.applied = None /\ seen'.found = seen.found \cup Held(count)
      /\ seen'.first = IF seen.first = <<>> THEN <<count>> ELSE seen.first
  BY <1>0, <1>5
<1> DEFINE S == {i \in Held(count) : p.policy \notin {"always", "assignIds"} => dom.art[i].id = NoId}
<1>8. IsDom(dom') /\ Rewritten(dom, dom', S)
  BY <1>0, <1>5, AssignFacts
<1>9. TaskTypeOK'
  <2>1. task'.stage \in Stages \cup {"returned", "over"} /\ task'.ok \in BOOLEAN
    BY <1>0, <1>6 DEF Stages
  <2>2. selected' \subseteq Items /\ seen'.found \subseteq Items /\ seen'.entered \in 0..MaxAttempts
    BY <1>0, <1>4, <1>5, <1>7, HeldItems DEF TaskTypeOK
  <2>3. task'.count \in Counts /\ task'.todo \in Counts /\ task'.skipped \in Counts /\ seen'.applied \in Counts
        /\ task'.attempt \in 0..MaxAttempts /\ task'.errors \subseteq TaskError
    BY <1>0, <1>4, <1>6, <1>7, NoneTyped, Submitted
  <2> QED
    BY <1>0, <1>3, <1>5, <1>6, <1>7, <1>8, <2>1, <2>2, <2>3, TaskTyped
<1>10. Attempt'
  BY <1>0, <1>4, <1>6 DEF Attempt
<1>11. EnteredOnce'
  BY <1>6, <1>7 DEF EnteredOnce
<1>12. Accounted'
  <2>1. CASE Held(count) = {}
    <3>1. \A i \in Items : count[i] = 0 /\ None[i] = 0 /\ None[NoItem] = 0
      BY <1>4, <2>1, HeldItems, NoneTyped DEF Things
    <3>2. ToMake' = 0 /\ None[NoItem] = 0
      BY <1>0, <1>6, NoneTyped DEF ToMake, Things
    <3> QED
      BY <1>6, <1>7, <2>1, <3>1, <3>2 DEF Accounted
  <2>2. CASE Held(count) # {}
    BY <1>6, <2>2 DEF Accounted
  <2> QED
    BY <2>1, <2>2
<1>13. Since'
  BY <1>0, <1>6, <1>7, <1>8 DEF TaskInv, Since, Rewritten
<1>14. OnlyTargetsTagged'
  <2> SUFFICES ASSUME NEW i \in DOMAIN dom.art \cap DOMAIN seen.start.art,
                      dom'.art[i].id # seen.start.art[i].id
               PROVE  i \in seen'.found /\ (seen.start.art[i].id # NoId => ~KeepsIds(p))
    BY <1>6, <1>7, <1>8 DEF OnlyTargetsTagged, Rewritten
  <2>1. CASE dom.art[i].id # seen.start.art[i].id
    BY <1>7, <2>1 DEF TaskInv, OnlyTargetsTagged
  <2>2. CASE dom.art[i].id = seen.start.art[i].id
    <3>1. i \in S
      BY <1>8, <2>2 DEF Rewritten
    <3> QED
      BY <1>7, <2>2, <3>1 DEF KeepsIds
  <2> QED
    BY <2>1, <2>2
<1>15. ASSUME ~p.batch, KeepsIds(p), SteadyTarget(p.target)
       PROVE  /\ AllMeet(dom', p.target)
              /\ Kept(dom', CountOf(dom', selected', p.target), p.exclude) = count
              /\ seen.first # <<>> => seen.first[1] = count
  <2>1. AllMeet(dom, p.target) /\ r.count = CountOf(dom, selected, p.target)
    BY <1>1, <1>2, <1>15, SteadyFinds
  <2>2. count = Kept(dom, CountOf(dom, selected, p.target), p.exclude)
    BY <2>1 DEF count
  <2>3. \A i \in S : dom.art[i].id = NoId
    BY <1>15 DEF KeepsIds
  <2>4. p.target.type = "selection" => selected' = selected
    BY <1>5, <1>15 DEF SteadyTarget
  <2>5. seen.first # <<>> => seen.first[1] = count
    BY <1>0, <1>15, <2>2 DEF TaskInv, FoundAgain
  <2> HIDE DEF S
  <2> DEFINE t == p.target
             ex == p.exclude
             sel2 == selected'
  <2>6. /\ IsDom(dom) /\ Rewritten(dom, dom', S) /\ t \in TaskTargets /\ SteadyTarget(t)
        /\ AllMeet(dom, t) /\ (t.type = "selection" => sel2 = selected)
    BY <1>0, <1>2, <1>8, <1>15, <2>1, <2>4
  <2> HIDE DEF t, ex, sel2
  <2>7. /\ AllMeet(dom', t)
        /\ Kept(dom', CountOf(dom', sel2, t), ex) = Kept(dom, CountOf(dom, selected, t), ex)
    BY <2>3, <2>6, SteadyAgain
  <2> QED
    BY <2>2, <2>5, <2>7 DEF t, ex, sel2
<1> HIDE DEF S
<1>16. FoundAgain'
  <2>1. seen'.first # <<>> /\ task'.stage # "idle"
    BY <1>6, <1>7
  <2>2. ASSUME ~p.batch, KeepsIds(p), SteadyTarget(p.target) PROVE seen'.first[1] = count
    BY <1>7, <1>15, <2>2
  <2> QED
    BY <1>0, <1>6, <1>7, <1>15, <2>1, <2>2 DEF FoundAgain
<1>17. RetryFindsSame'
  <2>1. ASSUME ~p.batch, KeepsIds(p), SteadyTarget(p.target) PROVE seen'.first[1] = count
    BY <1>7, <1>15, <2>1
  <2> QED
    BY <1>6, <2>1 DEF RetryFindsSame
<1> QED
  BY <1>9, <1>10, <1>11, <1>12, <1>13, <1>14, <1>16, <1>17 DEF TaskInv

LEMMA ComputeInv == ASSUME TaskInv, Compute PROVE TaskInv'
<1> DEFINE p == task.payload
<1>0. /\ task.stage = "compute" /\ ~p.batch /\ UNCHANGED <<dom, heap, selected>>
      /\ TaskTypeOK /\ IsPayload(p) /\ IsDom(dom) /\ IsHeap(heap) /\ heap.txn = NoTxn /\ selected \subseteq Items
      /\ DOMAIN task = Fields /\ DOMAIN seen = {"start", "found", "first", "entered", "applied"}
      /\ task.ok /\ task.errors = {} /\ task.skipped = None /\ p.open /\ task.count[NoItem] = 0
      /\ seen.entered = 0 /\ seen.applied = None /\ task.count \in Counts
  BY Submitted DEF Compute, TaskInv, Attempt, EnteredOnce
<1>1. PICK S \in SUBSET Held(task.count) :
         LET planned == [x \in Things |-> IF x \in S THEN 0
                                          ELSE IF x = NoItem /\ p.creation THEN 1 ELSE task.count[x]]
         IN /\ task' = [task EXCEPT
                 !.stage = IF p.dryRun THEN "returned" ELSE "apply",
                 !.todo = planned,
                 !.skipped = [x \in Things |-> IF x \in S THEN task.skipped[x] + task.count[x]
                                               ELSE task.skipped[x]],
                 !.errors = @ \cup {makeTaskError("R_ITEM_OPERATION_FAILED", "compute") : i \in S}]
            /\ seen' = [seen EXCEPT !.entered = IF p.dryRun THEN @ ELSE @ + 1]
  BY DEF Compute
<1> DEFINE planned == [x \in Things |-> IF x \in S THEN 0
                                        ELSE IF x = NoItem /\ p.creation THEN 1 ELSE task.count[x]]
           out == [x \in Things |-> IF x \in S THEN task.skipped[x] + task.count[x] ELSE task.skipped[x]]
           errs == {makeTaskError("R_ITEM_OPERATION_FAILED", "compute") : i \in S}
<1>2. /\ DOMAIN task' = Fields /\ task'.payload = p /\ task'.attempt = task.attempt
      /\ task'.count = task.count /\ task'.todo = planned /\ task'.skipped = out
      /\ task'.ok = task.ok /\ task'.errors = task.errors \cup errs
      /\ task'.stage = IF p.dryRun THEN "returned" ELSE "apply"
  <2> HIDE DEF planned, out, errs
  <2>1. task' = [task EXCEPT !.stage = IF p.dryRun THEN "returned" ELSE "apply",
                   !.todo = planned, !.skipped = out, !.errors = @ \cup errs]
    BY <1>1 DEF planned, out, errs
  <2> QED
    BY <1>0, <2>1 DEF Fields
<1>3. /\ DOMAIN seen' = DOMAIN seen /\ seen'.start = seen.start /\ seen'.found = seen.found
      /\ seen'.first = seen.first /\ seen'.applied = None
      /\ seen'.entered = IF p.dryRun THEN 0 ELSE 1
  BY <1>0, <1>1
<1>4. \A x \in Things : /\ task.count[x] \in 0..2 /\ task.skipped[x] = 0 /\ None[x] = 0
  BY <1>0, NoneTyped DEF Counts
<1>5. S \subseteq Items /\ NoItem \notin S /\ NoItem \in Things /\ NoItem \notin Items
  BY <1>0, HeldItems, HeapAssumption DEF Things
<1>6. planned \in Counts /\ out \in Counts
  BY <1>4 DEF Counts
<1>7. \A i \in Items : planned[i] + out[i] = task.count[i]
  BY <1>4, <1>5 DEF Things
<1>8. planned[NoItem] = IF p.creation THEN 1 ELSE 0
  BY <1>0, <1>5
<1>9. \A e \in errs : e \in TaskError /\ e.stage = "compute" /\ e.code \notin RETRYABLE_CODES
  BY ErrorTyped DEF Codes, RETRYABLE_CODES, Stages
<1> HIDE DEF planned, out, errs
<1>10. TaskTypeOK'
  <2>1. /\ task'.stage \in Stages \cup {"returned", "over"} /\ task'.ok \in BOOLEAN
        /\ task'.errors \subseteq TaskError /\ task'.attempt \in 0..MaxAttempts
        /\ seen'.entered \in 0..MaxAttempts /\ seen'.found \subseteq Items /\ seen'.applied \in Counts
    BY <1>0, <1>2, <1>3, <1>9, Submitted, NoneTyped, TaskAssumption DEF Stages
  <2> QED
    BY <1>0, <1>2, <1>3, <1>6, <2>1, TaskTyped
<1>11. Attempt'
  BY <1>2 DEF Attempt
<1>12. EnteredOnce'
  BY <1>0, <1>2, <1>3, <1>9 DEF EnteredOnce
<1>13. Accounted'
  <2>1. CASE p.dryRun
    BY <1>2, <1>3, <2>1 DEF Accounted
  <2>2. CASE ~p.dryRun
    <3>1. task'.stage = "apply"
      BY <1>2, <2>2
    <3>2. \A i \in Items : None[i] + planned[i] + out[i] = task.count[i]
      <4>1. \A i \in Items : None[i] = 0 /\ planned[i] \in Nat /\ out[i] \in Nat
        BY <1>4, <1>6 DEF Counts, Things
      <4> QED
        BY <1>7, <4>1
    <3>3. None[NoItem] + planned[NoItem] = IF p.creation THEN 1 ELSE 0
      BY <1>4, <1>5, <1>8
    <3> QED
      BY <1>0, <1>2, <1>3, <2>2, <3>1, <3>2, <3>3 DEF Accounted, ToMake
  <2> QED
    BY <2>1, <2>2
<1>14. Since'
  BY <1>0, <1>2, <1>3 DEF TaskInv, Since
<1>15. OnlyTargetsTagged'
  BY <1>0, <1>2, <1>3 DEF TaskInv, OnlyTargetsTagged
<1>16. FoundAgain'
  BY <1>0, <1>2, <1>3 DEF TaskInv, FoundAgain
<1>17. RetryFindsSame'
  BY <1>0, <1>2, <1>3, <1>9 DEF TaskInv, RetryFindsSame
<1> QED
  BY <1>10, <1>11, <1>12, <1>13, <1>14, <1>15, <1>16, <1>17 DEF TaskInv

(* What an action of an apply function may do to the artwork.                 *)
LEMMA ActsSound ==
    ASSUME IsDom(dom), NEW x \in Things, NEW new \in Acts(x)
    PROVE  Grown(dom, new, Ids)
<1>1. CASE x = NoItem
  <2>1. PICK l \in OpenLayers : new = Add(dom, New(NoId, "path", l))
    BY <1>1 DEF Acts
  <2>2. l \in DOMAIN dom.layers /\ CanAdd(dom, 1) /\ "path" \in Kinds /\ NoId \in Ids \cup {NoId}
    BY DEF OpenLayers, LayersOf, Kinds
  <2>3. Grown(dom, new, {NoId} \ {NoId})
    BY <2>1, <2>2, NewGrown
  <2> QED
    BY <2>3, GrownMore
<1>2. CASE x # NoItem
  <2>1. PICK s \in Styles : new = Repaint(dom, {x}, s)
    BY <1>2 DEF Acts
  <2>2. Grown(dom, new, {})
    BY <2>1, RepaintGrown
  <2> QED
    BY <2>2, GrownMore
<1> QED
  BY <1>1, <1>2

(* What the apply stage knows of its report.                                  *)
LEMMA Applying ==
    ASSUME TaskInv, task.stage = "apply"
    PROVE  /\ TaskTypeOK /\ IsPayload(task.payload) /\ IsDom(dom) /\ IsHeap(heap) /\ heap.txn = NoTxn
           /\ DOMAIN task = Fields /\ DOMAIN seen = {"start", "found", "first", "entered", "applied"}
           /\ task.ok /\ seen.entered = 1 /\ task.attempt \in 0..MaxAttempts /\ selected \subseteq Items
           /\ task.count \in Counts /\ task.todo \in Counts /\ task.skipped \in Counts /\ seen.applied \in Counts
           /\ \A x \in Things : /\ task.count[x] \in 0..2 /\ task.todo[x] \in 0..2
                                /\ task.skipped[x] \in 0..2 /\ seen.applied[x] \in 0..2
           /\ \A i \in Items : seen.applied[i] + task.todo[i] + task.skipped[i] = task.count[i]
           /\ seen.applied[NoItem] + task.todo[NoItem] = ToMake
           /\ ~task.payload.dryRun
           /\ \A e \in task.errors : e \in TaskError /\ e.code \notin RETRYABLE_CODES
           /\ seen.found \subseteq Items /\ seen.entered \in 0..MaxAttempts
<1>1. /\ task.count \in Counts /\ task.todo \in Counts /\ task.skipped \in Counts /\ seen.applied \in Counts
      /\ TaskTypeOK /\ IsPayload(task.payload) /\ IsDom(dom) /\ IsHeap(heap) /\ heap.txn = NoTxn
      /\ DOMAIN task = Fields /\ DOMAIN seen = {"start", "found", "first", "entered", "applied"}
      /\ task.attempt \in 0..MaxAttempts /\ selected \subseteq Items /\ task.errors \subseteq TaskError
      /\ seen.found \subseteq Items /\ seen.entered \in 0..MaxAttempts
  BY Submitted
<1>2. \A x \in Things : /\ task.count[x] \in 0..2 /\ task.todo[x] \in 0..2
                        /\ task.skipped[x] \in 0..2 /\ seen.applied[x] \in 0..2
  BY <1>1 DEF Counts
<1>3. seen.entered = 1 /\ \A e \in task.errors : e.code \notin RETRYABLE_CODES
  BY DEF TaskInv, EnteredOnce
<1>4. /\ task.ok /\ ~task.payload.dryRun
      /\ \A i \in Items : seen.applied[i] + task.todo[i] + task.skipped[i] = task.count[i]
      /\ seen.applied[NoItem] + task.todo[NoItem] = ToMake
  BY DEF TaskInv, Accounted
<1> QED
  BY <1>1, <1>2, <1>3, <1>4

LEMMA ApplyInv == ASSUME TaskInv, Apply PROVE TaskInv'
<1>1. PICK x \in Things : /\ task.todo[x] > 0 /\ dom' \in Acts(x)
                          /\ task' = [task EXCEPT !.todo[x] = @ - 1]
                          /\ seen' = [seen EXCEPT !.applied[x] = @ + 1]
  BY DEF Apply
<1>2. task.stage = "apply" /\ UNCHANGED <<heap, selected>>
  BY DEF Apply
<1>3. /\ DOMAIN task' = Fields /\ task'.payload = task.payload /\ task'.attempt = task.attempt
      /\ task'.count = task.count /\ task'.skipped = task.skipped /\ task'.stage = "apply"
      /\ task'.ok = task.ok /\ task'.errors = task.errors
      /\ task'.todo = [task.todo EXCEPT ![x] = @ - 1]
  BY <1>1, <1>2, Applying DEF Fields
<1>4. /\ DOMAIN seen' = DOMAIN seen /\ seen'.start = seen.start /\ seen'.found = seen.found
      /\ seen'.first = seen.first /\ seen'.entered = seen.entered
      /\ seen'.applied = [seen.applied EXCEPT ![x] = @ + 1]
  BY <1>1, <1>2, Applying
<1>5. /\ DOMAIN task.todo = Things /\ DOMAIN seen.applied = Things
      /\ \A y \in Things : /\ task'.todo[y] = IF y = x THEN task.todo[y] - 1 ELSE task.todo[y]
                           /\ seen'.applied[y] = IF y = x THEN seen.applied[y] + 1 ELSE seen.applied[y]
  BY <1>2, <1>3, <1>4, Applying DEF Counts
<1>6. seen.applied[x] <= 1
  <2>1. CASE x = NoItem
    BY <1>1, <1>2, <2>1, Applying DEF ToMake
  <2>2. CASE x \in Items
    <3>1. /\ seen.applied[x] + task.todo[x] + task.skipped[x] = task.count[x]
          /\ task.count[x] \in 0..2 /\ task.todo[x] \in 0..2
          /\ task.skipped[x] \in 0..2 /\ seen.applied[x] \in 0..2
      BY <1>2, <2>2, Applying
    <3> QED
      BY <1>1, <3>1
  <2> QED
    BY <2>1, <2>2 DEF Things
<1>7. task'.todo \in Counts /\ seen'.applied \in Counts
  <2>1. \A y \in Things : task'.todo[y] \in 0..2 /\ seen'.applied[y] \in 0..2
    BY <1>1, <1>2, <1>5, <1>6, Applying
  <2> QED
    BY <1>3, <1>4, <1>5, <2>1 DEF Counts
<1>8. Grown(dom, dom', Ids) /\ IsDom(dom') /\ dom'.born >= dom.born /\ dom.born \in Nat /\ dom'.born \in Nat
  BY <1>1, <1>2, Applying, ActsSound, DomNumbers DEF Grown
<1>9. TaskTypeOK'
  <2>1. task'.stage \in Stages \cup {"returned", "over"} /\ task'.ok \in BOOLEAN
        /\ task'.errors \subseteq TaskError
    BY <1>2, <1>3, Submitted DEF Stages
  <2> QED
    BY <1>2, <1>3, <1>4, <1>7, <1>8, <2>1, Applying, TaskTyped
<1>10. Attempt' /\ EnteredOnce'
  BY <1>2, <1>3, <1>4, Applying DEF Attempt, EnteredOnce
<1>11. Accounted'
  <2>1. \A i \in Items : seen'.applied[i] + task'.todo[i] + task'.skipped[i] = task'.count[i]
    <3> TAKE i \in Items
    <3>1. /\ i \in Things /\ seen.applied[i] + task.todo[i] + task.skipped[i] = task.count[i]
          /\ task.todo[i] \in 0..2 /\ task.skipped[i] \in 0..2 /\ seen.applied[i] \in 0..2
      BY <1>2, Applying DEF Things
    <3> QED
      BY <1>3, <1>5, <3>1
  <2>2. seen'.applied[NoItem] + task'.todo[NoItem] = ToMake'
    <3>1. /\ NoItem \in Things /\ seen.applied[NoItem] + task.todo[NoItem] = ToMake
          /\ task.todo[NoItem] \in 0..2 /\ seen.applied[NoItem] \in 0..2
      BY <1>2, Applying DEF Things
    <3>2. ToMake' = ToMake
      BY <1>3 DEF ToMake
    <3> QED
      BY <1>5, <3>1, <3>2
  <2> QED
    BY <1>2, <1>3, <2>1, <2>2, Applying DEF Accounted
<1>12. Since'
  <2>1. IsDom(seen.start) /\ seen.start.born \in Nat /\ seen.start.born <= dom.born
    BY DomNumbers DEF TaskInv, Since
  <2> QED
    BY <1>3, <1>4, <1>8, <2>1 DEF Since
<1>13. OnlyTargetsTagged'
  BY <1>2, <1>3, <1>4, <1>8, TagsKept
<1>14. FoundAgain'
  BY <1>2, <1>3, <1>4, Applying DEF TaskInv, FoundAgain
<1>15. RetryFindsSame'
  BY <1>2, <1>3, <1>4 DEF TaskInv, RetryFindsSame
<1> QED
  BY <1>9, <1>10, <1>11, <1>12, <1>13, <1>14, <1>15 DEF TaskInv

LEMMA SkipItemInv == ASSUME TaskInv, SkipItem PROVE TaskInv'
<1> DEFINE e == makeTaskError("R_ITEM_OPERATION_FAILED", "apply")
<1>1. PICK k \in Held(task.todo) :
        task' = [task EXCEPT !.todo[k] = @ - 1, !.skipped[k] = @ + 1, !.errors = @ \cup {e}]
  BY DEF SkipItem
<1>2. task.stage = "apply" /\ UNCHANGED <<dom, heap, selected, seen>>
  BY DEF SkipItem
<1>3. e \in TaskError /\ e.stage = "apply" /\ e.code \notin RETRYABLE_CODES
  BY ErrorTyped DEF Codes, RETRYABLE_CODES, Stages
<1> HIDE DEF e
<1>4. k \in Items /\ k \in Things /\ k # NoItem /\ task.todo[k] > 0
  BY HeapAssumption DEF Held, Things
<1>5. /\ DOMAIN task' = Fields /\ task'.payload = task.payload /\ task'.attempt = task.attempt
      /\ task'.count = task.count /\ task'.stage = "apply" /\ task'.ok = task.ok
      /\ task'.errors = task.errors \cup {e}
      /\ task'.skipped = [task.skipped EXCEPT ![k] = @ + 1]
      /\ task'.todo = [task.todo EXCEPT ![k] = @ - 1]
  BY <1>1, <1>2, Applying DEF Fields
<1>6. /\ DOMAIN task.todo = Things /\ DOMAIN task.skipped = Things
      /\ \A y \in Things :
            /\ task'.todo[y] = IF y = k THEN task.todo[y] - 1 ELSE task.todo[y]
            /\ task'.skipped[y] = IF y = k THEN task.skipped[y] + 1 ELSE task.skipped[y]
  BY <1>2, <1>5, Applying DEF Counts
<1>7. task.skipped[k] <= 1
  <2>1. /\ seen.applied[k] + task.todo[k] + task.skipped[k] = task.count[k]
        /\ task.count[k] \in 0..2 /\ task.todo[k] \in 0..2
        /\ task.skipped[k] \in 0..2 /\ seen.applied[k] \in 0..2
    BY <1>2, <1>4, Applying
  <2> QED
    BY <1>4, <2>1
<1>8. task'.todo \in Counts /\ task'.skipped \in Counts
  <2>1. \A y \in Things : task'.todo[y] \in 0..2 /\ task'.skipped[y] \in 0..2
    BY <1>2, <1>4, <1>6, <1>7, Applying
  <2> QED
    BY <1>5, <1>6, <2>1 DEF Counts
<1>9. TaskTypeOK'
  <2>1. task'.stage \in Stages \cup {"returned", "over"} /\ task'.ok \in BOOLEAN
        /\ task'.errors \subseteq TaskError
    BY <1>2, <1>3, <1>5, Submitted DEF Stages
  <2> QED
    BY <1>2, <1>5, <1>8, <2>1, Applying, TaskTyped
<1>10. Attempt' /\ EnteredOnce'
  BY <1>2, <1>3, <1>5, Applying DEF Attempt, EnteredOnce
<1>11. Accounted'
  <2>1. \A i \in Items : seen'.applied[i] + task'.todo[i] + task'.skipped[i] = task'.count[i]
    <3> TAKE i \in Items
    <3>1. /\ i \in Things /\ seen.applied[i] + task.todo[i] + task.skipped[i] = task.count[i]
          /\ task.todo[i] \in 0..2 /\ task.skipped[i] \in 0..2 /\ seen.applied[i] \in 0..2
      BY <1>2, Applying DEF Things
    <3> QED
      BY <1>2, <1>5, <1>6, <3>1
  <2>2. seen'.applied[NoItem] + task'.todo[NoItem] = ToMake'
    <3>1. NoItem \in Things /\ seen.applied[NoItem] + task.todo[NoItem] = ToMake
      BY <1>2, Applying DEF Things
    <3>2. ToMake' = ToMake
      BY <1>5 DEF ToMake
    <3> QED
      BY <1>2, <1>4, <1>6, <3>1, <3>2
  <2> QED
    BY <1>2, <1>5, <2>1, <2>2, Applying DEF Accounted
<1>12. Since' /\ OnlyTargetsTagged'
  BY <1>2, <1>5 DEF TaskInv, Since, OnlyTargetsTagged
<1>13. FoundAgain'
  BY <1>2, <1>5 DEF TaskInv, FoundAgain
<1>14. RetryFindsSame'
  BY <1>2, <1>3, <1>5 DEF TaskInv, RetryFindsSame
<1> QED
  BY <1>9, <1>10, <1>11, <1>12, <1>13, <1>14 DEF TaskInv

LEMMA ApplyEndsInv == ASSUME TaskInv, ApplyEnds PROVE TaskInv'
<1>1. task.stage = "apply" /\ UNCHANGED <<dom, heap, selected, seen>> /\ task.todo = None
  BY DEF ApplyEnds
<1>2. /\ DOMAIN task' = Fields /\ task'.stage = "returned" /\ task'.payload = task.payload
      /\ task'.attempt = task.attempt /\ task'.count = task.count /\ task'.todo = task.todo
      /\ task'.ok = task.ok /\ task'.errors = task.errors /\ task'.skipped = task.skipped
  BY <1>1, Applying DEF ApplyEnds, Returns, Fields
<1>3. TaskTypeOK'
  <2>1. task'.stage \in Stages \cup {"returned", "over"} /\ task'.ok \in BOOLEAN
        /\ task'.errors \subseteq TaskError
    BY <1>1, <1>2, Submitted DEF Stages
  <2> QED
    BY <1>1, <1>2, <2>1, Applying, TaskTyped
<1>4. Attempt' /\ EnteredOnce'
  BY <1>1, <1>2, Applying DEF Attempt, EnteredOnce
<1>5. Accounted'
  <2>1. \A i \in Items : /\ seen.applied[i] + task.skipped[i] = task.count[i]
                         /\ seen.applied[i] <= task.count[i]
    <3> TAKE i \in Items
    <3>1. /\ i \in Things /\ seen.applied[i] + task.todo[i] + task.skipped[i] = task.count[i]
          /\ task.todo[i] = 0 /\ task.skipped[i] \in 0..2 /\ seen.applied[i] \in 0..2
      BY <1>1, Applying, NoneTyped DEF Things
    <3> QED
      BY <3>1
  <2>2. seen.applied[NoItem] = ToMake /\ ToMake' = ToMake /\ ToMake <= 1
    <3>1. /\ NoItem \in Things /\ seen.applied[NoItem] + task.todo[NoItem] = ToMake
          /\ task.todo[NoItem] = 0 /\ seen.applied[NoItem] \in 0..2
      BY <1>1, Applying, NoneTyped DEF Things
    <3> QED
      BY <1>2, <3>1 DEF ToMake
  <2> QED
    BY <1>1, <1>2, <2>1, <2>2 DEF Accounted
<1>6. Since' /\ OnlyTargetsTagged'
  BY <1>1, <1>2 DEF TaskInv, Since, OnlyTargetsTagged
<1>7. FoundAgain'
  BY <1>1, <1>2 DEF TaskInv, FoundAgain
<1>8. RetryFindsSame'
  BY <1>1, <1>2 DEF TaskInv, RetryFindsSame
<1> QED
  BY <1>3, <1>4, <1>5, <1>6, <1>7, <1>8 DEF TaskInv

LEMMA RetryInv == ASSUME TaskInv, Retry PROVE TaskInv'
<1> DEFINE again == /\ ~task.ok /\ task.attempt < task.payload.attempts
                    /\ \E e \in task.errors : isRetryable(e, task.payload.stages)
<1>1. /\ task.stage = "returned" /\ UNCHANGED <<dom, heap, selected, seen>>
      /\ TaskTypeOK /\ IsPayload(task.payload) /\ IsDom(dom) /\ IsHeap(heap) /\ heap.txn = NoTxn
      /\ DOMAIN task = Fields /\ task.attempt \in 0..MaxAttempts /\ selected \subseteq Items
      /\ task.count \in Counts /\ task.todo \in Counts /\ task.skipped \in Counts
      /\ task.ok \in BOOLEAN /\ task.errors \subseteq TaskError
      /\ seen.found \subseteq Items /\ seen.entered \in 0..MaxAttempts /\ seen.applied \in Counts
  BY Submitted DEF Retry
<1>2. task' = IF again THEN [task EXCEPT !.stage = "validate", !.attempt = @ + 1]
              ELSE [task EXCEPT !.stage = "over"]
  BY DEF Retry
<1>3. again => seen.entered = 0 /\ task.attempt + 1 \in 0..MaxAttempts
  <2>1. again => \E e \in task.errors : e.code \in RETRYABLE_CODES
    BY DEF isRetryable
  <2>2. MaxAttempts \in Nat /\ task.payload.attempts \in 1..MaxAttempts
    BY <1>1, TaskAssumption DEF IsPayload
  <2>3. again => task.attempt < task.payload.attempts
    OBVIOUS
  <2> HIDE DEF again
  <2>4. again => seen.entered = 0
    BY <2>1 DEF TaskInv, EnteredOnce
  <2>5. again => task.attempt + 1 \in 0..MaxAttempts
    BY <1>1, <2>2, <2>3
  <2> QED
    BY <2>4, <2>5
<1> HIDE DEF again
<1>4. /\ DOMAIN task' = Fields /\ task'.payload = task.payload
      /\ task'.count = task.count /\ task'.todo = task.todo /\ task'.skipped = task.skipped
      /\ task'.ok = task.ok /\ task'.errors = task.errors
      /\ task'.stage = IF again THEN "validate" ELSE "over"
      /\ task'.attempt = IF again THEN task.attempt + 1 ELSE task.attempt
  BY <1>1, <1>2 DEF Fields
<1>5. TaskTypeOK'
  <2>1. task'.stage \in Stages \cup {"returned", "over"} /\ task'.attempt \in 0..MaxAttempts
    BY <1>1, <1>3, <1>4 DEF Stages
  <2> QED
    BY <1>1, <1>4, <2>1, TaskTyped
<1>6. Attempt' /\ EnteredOnce'
  BY <1>1, <1>3, <1>4 DEF TaskInv, Attempt, EnteredOnce
<1>7. Accounted'
  <2>1. ToMake' = ToMake
    BY <1>4 DEF ToMake
  <2> QED
    BY <1>1, <1>4, <2>1 DEF TaskInv, Accounted
<1>8. Since' /\ OnlyTargetsTagged'
  BY <1>1, <1>4 DEF TaskInv, Since, OnlyTargetsTagged
<1>9. FoundAgain'
  BY <1>1, <1>4 DEF TaskInv, FoundAgain
<1>10. RetryFindsSame'
  BY <1>1, <1>4 DEF TaskInv, RetryFindsSame
<1> QED
  BY <1>5, <1>6, <1>7, <1>8, <1>9, <1>10 DEF TaskInv

-----------------------------------------------------------------------------
(* The theorems *)

LEMMA TaskNextInv == ASSUME TaskInv, [Next]_vars PROVE TaskInv'
<1>1. CASE UNCHANGED vars
  BY <1>1 DEF vars, TaskInv, TaskTypeOK, Attempt, EnteredOnce, Accounted, ToMake, Since,
     OnlyTargetsTagged, FoundAgain, RetryFindsSame
<1> QED
  BY <1>1, SubmitInv, ValidateInv, CollectFailsInv, CollectInv, ComputeInv, ComputeThrowsInv,
     ComputeBatchInv, ApplyInv, SkipItemInv, ApplyThrowsInv, ApplyEndsInv, RetryInv DEF Next

(* Whatever a task asks for, finds and fails at, and however often it is      *)
(* tried: TaskInv holds.                                                      *)
THEOREM TasksKeepInv == Spec => []TaskInv
BY TaskInitInv, TaskNextInv, PTL DEF Spec

(* Report, selection, index and artwork keep their types through every stage; *)
(* no more attempts are made than the policy allows.                          *)
THEOREM TasksTyped == Spec => []TaskTypeOK
<1>1. TaskInv => TaskTypeOK
  BY DEF TaskInv
<1> QED
  BY <1>1, TasksKeepInv, PTL

(* The apply function is entered once and changes an item no more often than  *)
(* the targets list it, whatever stages a retry policy names.                 *)
THEOREM AppliesOnce == Spec => []AppliedOnce
<1>1. TaskInv => AppliedOnce
  <2> SUFFICES ASSUME TaskInv PROVE AppliedOnce
    OBVIOUS
  <2>1. CASE seen.entered = 0
    <3>1. /\ seen.applied = None /\ NoItem \in Things /\ Items \subseteq Things
          /\ \A x \in Things : None[x] = 0 /\ task.count[x] \in 0..2
      BY <2>1, NoneTyped DEF TaskInv, TaskTypeOK, EnteredOnce, Counts, Things
    <3> QED
      BY <2>1, <3>1 DEF AppliedOnce
  <2>2. CASE task.stage = "apply"
    <3>1. \A i \in Items : seen.applied[i] <= task.count[i]
      <4> TAKE i \in Items
      <4>1. /\ i \in Things /\ seen.applied[i] + task.todo[i] + task.skipped[i] = task.count[i]
            /\ task.todo[i] \in 0..2 /\ task.skipped[i] \in 0..2 /\ seen.applied[i] \in 0..2
        BY <2>2, Applying DEF Things
      <4> QED
        BY <4>1
    <3>2. seen.applied[NoItem] <= 1
      <4>1. /\ NoItem \in Things /\ seen.applied[NoItem] + task.todo[NoItem] = ToMake
            /\ task.todo[NoItem] \in 0..2 /\ seen.applied[NoItem] \in 0..2
        BY <2>2, Applying DEF Things
      <4> QED
        BY <4>1 DEF ToMake
    <3> QED
      BY <2>2, <3>1, <3>2, Applying DEF AppliedOnce
  <2>3. CASE seen.entered # 0 /\ task.stage # "apply"
    <3>1. task.stage \in {"returned", "over"}
      BY <2>3 DEF TaskInv, TaskTypeOK, EnteredOnce, Stages
    <3> QED
      BY <2>3, <3>1 DEF TaskInv, EnteredOnce, Accounted, AppliedOnce
  <2> QED
    BY <2>1, <2>2, <2>3
<1> QED
  BY <1>1, TasksKeepInv, PTL

(* A retry works on the items the first attempt found: the ids that attempt   *)
(* wrote and the selection it cleared do not change what its targets name.    *)
THEOREM RetriesFindTheSame == Spec => []RetryFindsSame
<1>1. TaskInv => RetryFindsSame
  BY DEF TaskInv
<1> QED
  BY <1>1, TasksKeepInv, PTL

(* A task changes no id but those of its targets, and none that it was to     *)
(* keep.                                                                      *)
THEOREM TagsOnlyTargets == Spec => []OnlyTargetsTagged
<1>1. TaskInv => OnlyTargetsTagged
  BY DEF TaskInv
<1> QED
  BY <1>1, TasksKeepInv, PTL

(* A task that reports ok has applied its actions to every item of its last   *)
(* collection, or counts the item as skipped.                                 *)
THEOREM OkHidesNothing == Spec => []OkAccountsForAll
<1>1. TaskInv => OkAccountsForAll
  BY DEF TaskInv, Accounted, OkAccountsForAll, ToMake
<1> QED
  BY <1>1, TasksKeepInv, PTL
=============================================================================
