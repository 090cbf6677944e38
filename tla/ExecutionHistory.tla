-------------------------- MODULE ExecutionHistory --------------------------
(***************************************************************************)
(* The recovery history of RequestRegistry (bridge/request_registry.py):   *)
(* an ordered dictionary from request ids to what is known about the       *)
(* execution of their scripts.  It is what a caller polls after a timeout, *)
(* and what decides whether an answer says "safe to retry".                *)
(*                                                                         *)
(* A history is a sequence of [id, state] records, oldest insertion first. *)
(***************************************************************************)
EXTENDS Naturals, Sequences

States == {"not_started", "completed", "unknown"}

Evidence == [id : Nat, state : States]

(* dict.get: the recorded state of request i, "none" when it has no record  *)
(* (never submitted, or evicted).                                           *)
Status(h, i) ==
    IF \E k \in DOMAIN h : h[k].id = i
    THEN h[CHOOSE k \in DOMAIN h : h[k].id = i].state
    ELSE "none"

(* "unknown" is no news about a script whose fate is settled.               *)
Settled(h, i) == Status(h, i) \in {"completed", "not_started"}

(* Assignment to an existing key keeps its place in an OrderedDict.         *)
Put(h, i, st) ==
    IF \E k \in DOMAIN h : h[k].id = i
    THEN [k \in DOMAIN h |-> IF h[k].id = i THEN [id |-> i, state |-> st] ELSE h[k]]
    ELSE Append(h, [id |-> i, state |-> st])

(* Mutants: nothing is evicted; the latest news wins.                       *)
RecordForever(h, i, st, limit) ==
    IF st = "unknown" /\ Settled(h, i) THEN h ELSE Put(h, i, st)

RecordLatest(h, i, st, limit) ==
    LET g == Put(h, i, st) IN IF Len(g) > limit THEN Tail(g) ELSE g

(* record_execution: one insertion at most, so one eviction keeps the bound. *)
Record(h, i, st, limit) ==
    IF st = "unknown" /\ Settled(h, i) THEN h
    ELSE LET g == Put(h, i, st)
         IN  IF Len(g) > limit THEN Tail(g) ELSE g
=============================================================================
