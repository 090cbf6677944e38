---------------------------- MODULE MCPanelLink ----------------------------
(* PanelLink for TLC: symmetry for the run without liveness.                *)
EXTENDS PanelLink, TLC

Symmetry == Permutations(Sockets) \cup Permutations(Processes)
=============================================================================
