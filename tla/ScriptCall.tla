----------------------------- MODULE ScriptCall -----------------------------
(***************************************************************************)
(* What execute_script_async, and execute_script_streaming at the end of a *)
(* stream, promises to the tool that calls it, whatever happens to the     *)
(* connection, the panel and the server process in between.                *)
(*                                                                         *)
(* Every call submits one script.  The caller is told one of               *)
(*   "not_started"  - the script has not run and never will: retry freely; *)
(*   "completed"    - Illustrator ran the script to its end, once;         *)
(*   "unknown"      - nothing is promised: inspect the document first.     *)
(* A script runs at most once, and never before its call is made.          *)
(***************************************************************************)
CONSTANT Calls

VARIABLES told,     \* what each caller has been told: "idle" before the call
          script    \* what Illustrator has done with each script

vars == <<told, script>>

Told == {"idle", "open", "not_started", "completed", "unknown"}
Progress == {"fresh", "running", "finished"}

TypeOK == /\ told \in [Calls -> Told]
          /\ script \in [Calls -> Progress]

Init == /\ told = [c \in Calls |-> "idle"]
        /\ script = [c \in Calls |-> "fresh"]

Submit(c) == /\ told[c] = "idle"
             /\ told' = [told EXCEPT ![c] = "open"]
             /\ UNCHANGED script

(* A refused script is out for good: Start is disabled from then on.        *)
Refuse(c) == /\ told[c] \in {"idle", "open"}
             /\ script[c] = "fresh"
             /\ told' = [told EXCEPT ![c] = "not_started"]
             /\ UNCHANGED script

Start(c) == /\ told[c] \in {"open", "unknown"}
            /\ script[c] = "fresh"
            /\ script' = [script EXCEPT ![c] = "running"]
            /\ UNCHANGED told

Finish(c) == /\ script[c] = "running"
             /\ script' = [script EXCEPT ![c] = "finished"]
             /\ UNCHANGED told

Complete(c) == /\ told[c] = "open"
               /\ script[c] = "finished"
               /\ told' = [told EXCEPT ![c] = "completed"]
               /\ UNCHANGED script

(* One event (a crash) may leave several callers without evidence.          *)
GiveUp(C) == /\ \A c \in C : told[c] = "open"
             /\ told' = [c \in Calls |-> IF c \in C THEN "unknown" ELSE told[c]]
             /\ UNCHANGED script

Next == \/ \E C \in SUBSET Calls : GiveUp(C)
        \/ \E c \in Calls : Submit(c) \/ Refuse(c) \/ Start(c) \/ Finish(c) \/ Complete(c)

Spec == Init /\ [][Next]_vars
=============================================================================
