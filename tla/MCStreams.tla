------------------------------ MODULE MCStreams ------------------------------
(* Streams for TLC.  Calls are alike, so that what one of them is sure of, all *)
(* are: the fairness assumed is that of this one, whatever the other does.     *)
EXTENDS Streams

One == CHOOSE c \in Calls : TRUE

FairSpec == Spec /\ Fairness(One)

(* Every stream ends, whatever of its messages was lost to a full queue, an   *)
(* oversized response, a closed or replaced connection, and however its       *)
(* competitor behaves: each wait has a timeout of its own.                    *)
EveryStreamEnds == At(One, "sending") ~> At(One, "over")
=============================================================================
