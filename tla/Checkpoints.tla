----------------------------- MODULE Checkpoints -----------------------------
(* resources/scripts/checkpoint.jsx: named snapshots of documents, kept in    *)
(* $.global by document key until the engine is reset, and in one file per    *)
(* key, named after the first 60 characters of the key.                       *)
EXTENDS Naturals, Sequences

CONSTANTS DocKeys,      \* _checkpointDocKey of the documents in use
          FileOf,       \* [DocKeys -> Files], _fallbackPath
          Files,
          Names,        \* names of checkpoints
          Torn,         \* what a write that was cut short leaves of a file
          MaxSaves      \* bound: checkpoints saved

Snaps  == 1..MaxSaves
StoreOf == UNION {[S -> Snaps] : S \in SUBSET Names}
NoStore == [n \in {} |-> 0]

ASSUME CheckpointsAssumption ==
    /\ FileOf \in [DocKeys -> Files]
    /\ MaxSaves \in Nat
    /\ Torn \notin StoreOf

VARIABLES ckmem,    \* $.global.mcpCheckpoints: a store for every key
          ckfile,   \* the fallback files
          cksaves,  \* snapshots taken so far; a snapshot is its number
          cktrue,   \* history: the store every key should have
          cksafe,   \* history: every write for the key has reached its file
          ckof      \* history: the key and the name every snapshot was saved for

ckvars == <<ckmem, ckfile, cksaves, cktrue, cksafe, ckof>>

CheckpointTypeOK ==
    /\ ckmem \in [DocKeys -> StoreOf]
    /\ ckfile \in [Files -> StoreOf \cup {Torn}]
    /\ cksaves \in 0..MaxSaves
    /\ cktrue \in [DocKeys -> StoreOf]
    /\ cksafe \in [DocKeys -> BOOLEAN]
    /\ ckof \in Seq(DocKeys \X Names) /\ Len(ckof) = cksaves

CheckpointInit ==
    /\ ckmem = [k \in DocKeys |-> NoStore]
    /\ ckfile = [f \in Files |-> NoStore]          \* no file is read as an empty store
    /\ cksaves = 0
    /\ cktrue = [k \in DocKeys |-> NoStore]
    /\ cksafe = [k \in DocKeys |-> TRUE]
    /\ ckof = <<>>

(* _loadFallback: the file is looked at only when memory holds nothing.       *)
loadFallback(k) ==
    IF ckmem[k] # NoStore \/ ckfile[FileOf[k]] = Torn THEN ckmem[k] ELSE ckfile[FileOf[k]]

With(store, n, s) == [m \in DOMAIN store \cup {n} |-> IF m = n THEN s ELSE store[m]]
Less(store, n)    == [m \in DOMAIN store \ {n} |-> store[m]]

(* Mutant: memory holds one store for all documents. *)
KeepShared(k, store, written) ==
    /\ ckmem' = [j \in DocKeys |-> store]
    /\ ckfile' = IF written THEN [ckfile EXCEPT ![FileOf[k]] = store] ELSE ckfile
    /\ cksafe' = [cksafe EXCEPT ![k] = @ /\ written]

(* _saveFallback writes the store of one key over the whole file; its failure *)
(* is not reported.                                                           *)
Keep(k, store, written) ==
    /\ ckmem' = [ckmem EXCEPT ![k] = store]
    /\ ckfile' = IF written THEN [ckfile EXCEPT ![FileOf[k]] = store] ELSE ckfile
    /\ cksafe' = [cksafe EXCEPT ![k] = @ /\ written]

(* Mutant: a save does not look at the file when memory is empty. *)
checkpointSaveBlind(k, n, written) ==
    /\ cksaves < MaxSaves
    /\ cksaves' = cksaves + 1
    /\ Keep(k, With(ckmem[k], n, cksaves + 1), written)
    /\ cktrue' = [cktrue EXCEPT ![k] = With(@, n, cksaves + 1)]
    /\ ckof' = Append(ckof, <<k, n>>)

checkpointSave(k, n, written) ==
    /\ cksaves < MaxSaves
    /\ cksaves' = cksaves + 1
    /\ Keep(k, With(loadFallback(k), n, cksaves + 1), written)
    /\ cktrue' = [cktrue EXCEPT ![k] = With(@, n, cksaves + 1)]
    /\ ckof' = Append(ckof, <<k, n>>)

checkpointDelete(k, n, written) ==
    /\ n \in DOMAIN loadFallback(k)
    /\ Keep(k, Less(loadFallback(k), n), written)
    /\ cktrue' = [cktrue EXCEPT ![k] = Less(@, n)]
    /\ UNCHANGED <<cksaves, ckof>>

(* Listing and restoring, a name that is not there, and a deletion of one:    *)
(* all load the store.                                                        *)
Load(k) ==
    /\ ckmem' = [ckmem EXCEPT ![k] = loadFallback(k)]
    /\ UNCHANGED <<ckfile, cksaves, cktrue, cksafe, ckof>>

(* Illustrator ends within a write; the caller never heard of the save.       *)
CrashInSave(k) ==
    /\ cksaves < MaxSaves
    /\ cksaves' = cksaves + 1
    /\ ckmem' = [j \in DocKeys |-> NoStore]
    /\ ckfile' = [ckfile EXCEPT ![FileOf[k]] = Torn]
    /\ cksafe' = [cksafe EXCEPT ![k] = FALSE]
    /\ \E n \in Names : ckof' = Append(ckof, <<k, n>>)
    /\ UNCHANGED cktrue

CheckpointReset ==
    /\ ckmem' = [k \in DocKeys |-> NoStore]
    /\ UNCHANGED <<ckfile, cksaves, cktrue, cksafe, ckof>>

CheckpointNext ==
    \/ \E k \in DocKeys, n \in Names, written \in BOOLEAN :
          checkpointSave(k, n, written) \/ checkpointDelete(k, n, written)
    \/ \E k \in DocKeys : Load(k) \/ CrashInSave(k)

-----------------------------------------------------------------------------
(* A checkpoint that was saved is found, with the snapshot it was saved with, *)
(* and one that was deleted is not, through every reset of the engine, while  *)
(* the writes for its document reach the file and no other document has the   *)
(* same file.                                                                 *)
OwnFile(k) == \A j \in DocKeys : FileOf[j] = FileOf[k] => j = k
CheckpointsDurable ==
    \A k \in DocKeys : OwnFile(k) /\ cksafe[k] => loadFallback(k) = cktrue[k]

(* Even when writes fail or are cut short, what any document finds under a    *)
(* name is a snapshot that was saved under this name, and for a document with *)
(* the same file: for itself, unless another key has the same 60 characters.  *)
Sharing(k) == {j \in DocKeys : FileOf[j] = FileOf[k]}
CheckpointsGenuine ==
    \A k \in DocKeys : \A n \in DOMAIN loadFallback(k) :
        ckof[loadFallback(k)[n]] \in Sharing(k) \X {n}
=============================================================================
