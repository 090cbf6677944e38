------------------------------ MODULE MCOpBatch ------------------------------
(* Small instances of OpBatch. *)
EXTENDS OpBatch, TLC

OneDoc  == [l \in Layers |-> "doc"]
TwoDocs == [l \in Layers |-> IF l = "L1" THEN "doc" ELSE "other"]
MCBlank == [style |-> "flat", form |-> "small"]
OneLonger == [u \in Ids |-> IF u = 1 THEN {1, 2} ELSE {u}]     \* "1" begins "12"
ById(ids, pre) == [type |-> "id", ids |-> ids, pre |-> pre]
OnTheLayer(l) == [type |-> "layer", layer |-> l]
All == [type |-> "all"]

Drawn(id, style, form, kind, layer, locked) ==
    [id |-> id, style |-> style, form |-> form, kind |-> kind, in |-> {},
     layer |-> layer, locked |-> locked]
Start(art, layers, active) ==
    [art |-> art, born |-> Len(art), layers |-> layers, active |-> active,
     used |-> {art[i].id : i \in DOMAIN art} \ {NoId}]
OpenLayer == [locked |-> FALSE, visible |-> TRUE]

(* A managed path and one without an id, or two of these. *)
PathAndSketch ==
    {Start(<<Drawn(id, "flat", "small", "path", "L1", FALSE),
             Drawn(NoId, "flat", "large", "path", "L1", FALSE)>>,
           "L1" :> OpenLayer, "doc" :> "L1") : id \in {1, NoId}}
RollbackSelectors == {ById({1}, AnyForm), ById({1}, "small"), ById({1, 2}, AnyForm), All}
RollbackGuards == {AnyForm, {"small"}}
RollbackTasks == {"element_create", "element_modify", "element_delete", "element_replace",
   "group_create", "group_ungroup", "layer_lock", "style_set_fill", "compound", "collect_fails",
   "guard_fails", "guard_skips", "guard_throws", "assert_count"}

(* Two documents that hold items with the same id. *)
SameIds ==
    {Start(<<Drawn(1, "flat", "small", "path", "L1", FALSE),
             Drawn(1, "rich", "small", "path", "L2", FALSE),
             Drawn(NoId, "flat", "small", "text", "L2", FALSE)>>,
           "L1" :> OpenLayer @@ "L2" :> OpenLayer, "doc" :> "L1" @@ "other" :> "L2")}
HeapSelectors == {ById({1}, AnyForm), [type |-> "near", id |-> 1]}
HeapTasks == {"element_create", "element_delete", "element_replace", "style_clone", "align_to_key",
   "collect_fails", "guard_throws", "layer_delete", "assert_exists", "fan_out"}
OtherTasks == {"element_create_multi", "element_create_multi_by_ref", "element_create_batch", "clip_create",
   "zorder", "layer_create", "layer_activate", "layer_visible", "layer_delete", "style_set_stroke",
   "style_set_opacity", "style_remove_fill", "style_remove_stroke", "style_set_gradient", "text_create",
   "text_set_content", "text_set_style", "align", "distribute", "assert_order", "assert_bounds", "assert_text", "assert_style",
   "assert_alignment", "measure"}
AllTasks == RollbackTasks \cup HeapTasks \cup OtherTasks
LastTasks == {"element_create", "group_create", "style_set_fill", "compound", "guard_throws", "assert_count"}
AnyThenLast == <<AllTasks, AllTasks, LastTasks>>
HeapTwice == <<HeapTasks, HeapTasks>>
=============================================================================
