------------------------------ MODULE MCBridge ------------------------------
(* Bridge for TLC: symmetry for the runs without liveness.                  *)
EXTENDS Bridge, TLC

Symmetry == Permutations(Calls) \cup Permutations(Sockets)
=============================================================================
