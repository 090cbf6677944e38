------------------------------- MODULE Artwork -------------------------------
(* Illustrator's open documents as the scripts of resources/scripts see and   *)
(* change them.  The program is external; every operator here states what the *)
(* scripts rely on when they call it.                                         *)
(*                                                                            *)
(* dom.art maps every page item that exists to its identity tag (the MCP id   *)
(* in its note), its style (paint, opacity and position), its form (size,     *)
(* outline and text), its kind, the groups that enclose it, its layer and its *)
(* own lock; a locked and a hidden item are not told apart.  Item numbers are *)
(* never used twice, so a reference held by a script means its item or is     *)
(* dead; dom.used are the ids ever written: a generated UUID is another one.  *)
EXTENDS Naturals, FiniteSets, Functions

CONSTANTS Ids,          \* the MCP ids
          NoId,         \* an item without one
          Styles,       \* paint, opacity and position of an item
          Plain,        \* those whose paint serializeColor can save
          Forms,        \* size, outline and text of an item
          Blank,        \* style and form of an item just made
          Layers,       \* layer names, of all documents
          DocOf,        \* the document of a layer
          MaxItems      \* bound: page items ever created

ASSUME ArtworkAssumption ==
    /\ IsFiniteSet(Ids) /\ NoId \notin Ids
    /\ Plain \subseteq Styles
    /\ Blank \in [style: Styles, form: Forms]
    /\ MaxItems \in Nat

Over(f, g) == [x \in DOMAIN f \cup DOMAIN g |-> IF x \in DOMAIN f THEN f[x] ELSE g[x]]
Only(x, y) == [v \in {x} |-> y]

Docs  == {DocOf[l] : l \in Layers}
Items == 1..MaxItems
Kinds == {"path", "compound", "text", "group"}
Item  == [id: Ids \cup {NoId}, style: Styles, form: Forms, kind: Kinds, in: SUBSET Items,
          layer: Layers, locked: BOOLEAN]
Layer == [locked: BOOLEAN, visible: BOOLEAN]

(* Groups hold items, all of one layer: what encloses an item is a chain.      *)
Nested(art) ==
    \A i \in DOMAIN art :
       /\ i \notin art[i].in /\ art[i].in \subseteq DOMAIN art
       /\ \A j \in art[i].in :
             /\ art[j].kind = "group" /\ art[j].layer = art[i].layer
             /\ art[j].in \subseteq art[i].in
             /\ \A k \in art[i].in : j = k \/ j \in art[k].in \/ k \in art[j].in

IsDom(dom) ==
    /\ DOMAIN dom = {"art", "born", "layers", "active", "used"}
    /\ dom.born \in 0..MaxItems
    /\ DOMAIN dom.art \subseteq 1..dom.born
    /\ \A i \in DOMAIN dom.art :
          /\ dom.art[i] \in Item
          /\ dom.art[i].id \in dom.used \cup {NoId}
          /\ dom.art[i].layer \in DOMAIN dom.layers
    /\ Nested(dom.art)
    /\ DOMAIN dom.layers \subseteq Layers
    /\ \A l \in DOMAIN dom.layers : dom.layers[l] \in Layer
    /\ dom.active \in [Docs -> Layers]
    /\ dom.used \subseteq Ids

Live(dom, d)         == {i \in DOMAIN dom.art : DocOf[dom.art[i].layer] = d}
TopLevel(dom, d)     == {i \in Live(dom, d) : dom.art[i].in = {}}
Tagged(dom, d, id)   == {i \in Live(dom, d) : dom.art[i].id = id}
Managed(dom, d)      == {i \in Live(dom, d) : dom.art[i].id # NoId}
LayersOf(dom, d)     == {l \in DOMAIN dom.layers : DocOf[l] = d}
UniqueIds(dom, d)    == \A i, j \in Managed(dom, d) :
                           dom.art[i].id = dom.art[j].id => i = j

(* A write to an item throws when it, a group around it or its layer is       *)
(* locked or hidden, or when the item is gone.                                *)
LayerOpen(dom, l) == ~dom.layers[l].locked /\ dom.layers[l].visible
Editable(dom, i)  == /\ i \in DOMAIN dom.art
                     /\ LayerOpen(dom, dom.art[i].layer)
                     /\ \A j \in dom.art[i].in \cup {i} : ~dom.art[j].locked

CanAdd(dom, n)    == dom.born + n <= MaxItems
Fresh(dom)        == Ids \ dom.used
Newest(dom)       == dom.born + 1
New(id, kind, layer) ==
    [id |-> id, style |-> Blank.style, form |-> Blank.form, kind |-> kind, in |-> {},
     layer |-> layer, locked |-> FALSE]
Add(dom, item) ==
    [dom EXCEPT !.art = Over(@, Only(Newest(dom), item)), !.born = @ + 1,
                !.used = @ \cup ({item.id} \ {NoId})]
AddAll(dom, ids, layer) ==      \* one path for every id
    LET new == Newest(dom)..(dom.born + Cardinality(ids))
        nth == CHOOSE f \in Bijection(new, ids) : TRUE
    IN [dom EXCEPT !.art = Over(@, [i \in new |-> New(nth[i], "path", layer)]),
                   !.born = @ + Cardinality(ids), !.used = @ \cup ids]

(* Removing a group removes what it holds. *)
Remove(dom, S) ==
    [dom EXCEPT !.art = Restrict(@, {i \in DOMAIN @ : (@[i].in \cup {i}) \cap S = {}})]

Repaint(dom, S, style) ==
    [dom EXCEPT !.art = [i \in DOMAIN @ |->
        IF i \in S THEN [@[i] EXCEPT !.style = style] ELSE @[i]]]
Reshape(dom, S, form) ==
    [dom EXCEPT !.art = [i \in DOMAIN @ |->
        IF i \in S THEN [@[i] EXCEPT !.form = form] ELSE @[i]]]

(* PageItem.move: an item leaves what encloses the innermost of those moved   *)
(* it lies in or is, and gets there with it, in the groups `in` on a layer.    *)
Move(dom, S, in, layer) ==
    LET moved(i) == (dom.art[i].in \cup {i}) \cap S
        around(i) == (dom.art[i].in \ UNION {dom.art[s].in : s \in moved(i)}) \cup in
    IN [dom EXCEPT !.art = [i \in DOMAIN @ |->
          IF moved(i) = {} THEN @[i] ELSE [@[i] EXCEPT !.in = around(i), !.layer = layer]]]
MoveInto(dom, S, g) == Move(dom, S, dom.art[g].in \cup {g}, dom.art[g].layer)
=============================================================================
