------------------------------- MODULE Stores -------------------------------
(* What a session keeps in the script engine: the journal and the checkpoints *)
(* live side by side in $.global, and Illustrator may reset the engine, and   *)
(* with it both, at any time.                                                 *)
EXTENDS Journal, Checkpoints

CONSTANTS MaxWrites     \* bound: batches journalled and checkpoints saved together

storevars == <<jvars, ckvars>>

StoresInit == JournalInit /\ CheckpointInit

EngineReset == JournalReset /\ CheckpointReset

StoresNext ==
    /\ \/ JournalNext /\ UNCHANGED ckvars
       \/ CheckpointNext /\ UNCHANGED jvars
       \/ EngineReset
    /\ jcount' + cksaves' <= MaxWrites

StoresTypeOK == JournalTypeOK /\ CheckpointTypeOK

StoresSpec == StoresInit /\ [][StoresNext]_storevars
=============================================================================
