----------------------------- MODULE StoresProofs -----------------------------
(***************************************************************************)
(* What a document finds under the name of a checkpoint, and what its      *)
(* journal holds, in memory and on file, for every set of documents, files *)
(* and names, any number of batches, artboard sizes and compactions,       *)
(* whatever else lives in the script engine.                               *)
(***************************************************************************)
EXTENDS Stores, SequenceTheorems, TLAPS

USE CheckpointsAssumption

-----------------------------------------------------------------------------
(* Checkpoints *)

(* Stores are the functions from names to snapshots, and closed under the   *)
(* operations on them.                                                      *)
LEMMA StoreShape ==
    /\ NoStore \in StoreOf
    /\ \A s \in StoreOf : DOMAIN s \subseteq Names /\ \A n \in DOMAIN s : s[n] \in Snaps
    /\ \A s \in StoreOf : s = [n \in DOMAIN s |-> s[n]]
<1>1. NoStore \in [{} -> Snaps]
  BY DEF NoStore
<1>2. \A s \in StoreOf : \E S \in SUBSET Names : s \in [S -> Snaps]
  BY DEF StoreOf
<1> QED
  BY <1>1, <1>2 DEF StoreOf

LEMMA WithType ==
    ASSUME NEW s \in StoreOf, NEW n \in Names, NEW x \in Snaps
    PROVE  With(s, n, x) \in StoreOf
<1>1. DOMAIN s \cup {n} \in SUBSET Names
  BY StoreShape
<1>2. With(s, n, x) \in [DOMAIN s \cup {n} -> Snaps]
  BY StoreShape DEF With
<1> QED
  BY <1>1, <1>2 DEF StoreOf

LEMMA LessType ==
    ASSUME NEW s \in StoreOf, NEW n
    PROVE  Less(s, n) \in StoreOf
<1>1. DOMAIN s \ {n} \in SUBSET Names
  BY StoreShape
<1>2. Less(s, n) \in [DOMAIN s \ {n} -> Snaps]
  BY StoreShape DEF Less
<1> QED
  BY <1>1, <1>2 DEF StoreOf

LEMMA LoadType ==
    ASSUME CheckpointTypeOK, NEW k \in DocKeys
    PROVE  loadFallback(k) \in StoreOf
BY DEF loadFallback, CheckpointTypeOK

-----------------------------------------------------------------------------
(* The inductive invariant.  For a document with a file of its own: as long *)
(* as its writes reach the file, the file is the store it should have, and  *)
(* memory is empty or the same.  For every document, and whatever failed,   *)
(* each snapshot in the file or in memory was saved under its name by one   *)
(* of the documents that share the file.                                    *)
Genuine(store, k, of) ==
    \A n \in DOMAIN store : store[n] \in 1..Len(of) /\ of[store[n]] \in Sharing(k) \X {n}
SafeStore(k)  == /\ ckfile[FileOf[k]] = cktrue[k]
                 /\ ckmem[k] \in {NoStore, cktrue[k]}
AllSafe    == \A k \in DocKeys : OwnFile(k) /\ cksafe[k] => SafeStore(k)
AllGenuine == \A k \in DocKeys :
                 /\ Genuine(ckmem[k], k, ckof)
                 /\ ckfile[FileOf[k]] # Torn => Genuine(ckfile[FileOf[k]], k, ckof)
CkInv == CheckpointTypeOK /\ AllSafe /\ AllGenuine

LEMMA SafeLoads ==
    ASSUME CheckpointTypeOK, NEW k \in DocKeys, SafeStore(k)
    PROVE  loadFallback(k) = cktrue[k]
BY DEF SafeStore, loadFallback, CheckpointTypeOK

LEMMA GenuineLoads ==
    ASSUME CkInv, NEW k \in DocKeys
    PROVE  Genuine(loadFallback(k), k, ckof)
BY DEF CkInv, AllGenuine, loadFallback

(* Snapshots saved later do not change what older ones are.                 *)
LEMMA GenuineStays ==
    ASSUME NEW of \in Seq(DocKeys \X Names), NEW e \in DocKeys \X Names,
           NEW store, NEW k, Genuine(store, k, of)
    PROVE  Genuine(store, k, Append(of, e))
BY DEF Genuine

(* Genuine for a document is genuine for whoever shares its file.           *)
LEMMA GenuineShared ==
    ASSUME NEW j \in DocKeys, NEW k \in DocKeys, FileOf[j] = FileOf[k],
           NEW store, NEW of, Genuine(store, k, of)
    PROVE  Genuine(store, j, of)
BY DEF Genuine, Sharing

LEMMA GenuineWith ==
    ASSUME NEW of \in Seq(DocKeys \X Names), NEW k \in DocKeys, NEW n \in Names,
           NEW store, Genuine(store, k, of)
    PROVE  Genuine(With(store, n, Len(of) + 1), k, Append(of, <<k, n>>))
<1>1. Append(of, <<k, n>>)[Len(of) + 1] \in Sharing(k) \X {n}
  BY DEF Sharing
<1>2. \A i \in 1..Len(of) : Append(of, <<k, n>>)[i] = of[i]
  OBVIOUS
<1>3. Len(Append(of, <<k, n>>)) = Len(of) + 1 /\ Len(of) \in Nat
  OBVIOUS
<1> QED
  BY <1>1, <1>2, <1>3 DEF Genuine, With

LEMMA GenuineLess ==
    ASSUME NEW of, NEW k, NEW n, NEW store, Genuine(store, k, of)
    PROVE  Genuine(Less(store, n), k, of)
BY DEF Genuine, Less

LEMMA GenuineEmpty == ASSUME NEW k, NEW of PROVE Genuine(NoStore, k, of)
BY DEF Genuine, NoStore

-----------------------------------------------------------------------------
LEMMA CkStart == CheckpointInit => CkInv
<1> SUFFICES ASSUME CheckpointInit PROVE CkInv
  OBVIOUS
<1>1. CheckpointTypeOK
  BY StoreShape DEF CheckpointInit, CheckpointTypeOK
<1>2. AllSafe
  BY DEF CheckpointInit, AllSafe, SafeStore
<1>3. AllGenuine
  BY GenuineEmpty DEF CheckpointInit, AllGenuine
<1> QED
  BY <1>1, <1>2, <1>3 DEF CkInv

LEMMA SaveKeeps ==
    ASSUME CkInv, NEW k \in DocKeys, NEW n \in Names, NEW written \in BOOLEAN,
           checkpointSave(k, n, written)
    PROVE  CkInv'
<1> DEFINE store == With(loadFallback(k), n, cksaves + 1)
<1>0. CheckpointTypeOK /\ cksaves + 1 \in Snaps /\ cksaves = Len(ckof)
  BY DEF CkInv, CheckpointTypeOK, checkpointSave, Snaps
<1>1. store \in StoreOf
  BY <1>0, WithType, LoadType
<1>2. With(cktrue[k], n, cksaves + 1) \in StoreOf
  BY <1>0, WithType DEF CheckpointTypeOK
<1> HIDE DEF store
<1>3. /\ ckmem' = [ckmem EXCEPT ![k] = store]
      /\ ckfile' = IF written THEN [ckfile EXCEPT ![FileOf[k]] = store] ELSE ckfile
      /\ cksafe' = [cksafe EXCEPT ![k] = cksafe[k] /\ written]
      /\ cktrue' = [cktrue EXCEPT ![k] = With(cktrue[k], n, cksaves + 1)]
      /\ ckof' = Append(ckof, <<k, n>>) /\ cksaves' = cksaves + 1
  BY DEF checkpointSave, Keep, store
<1>4. CheckpointTypeOK'
  <2>1. ckof' \in Seq(DocKeys \X Names) /\ Len(ckof') = cksaves'
    BY <1>0, <1>3 DEF CheckpointTypeOK
  <2>2. ckmem' \in [DocKeys -> StoreOf] /\ ckfile' \in [Files -> StoreOf \cup {Torn}]
    BY <1>0, <1>1, <1>3 DEF CheckpointTypeOK
  <2>3. cktrue' \in [DocKeys -> StoreOf] /\ cksafe' \in [DocKeys -> BOOLEAN]
    BY <1>0, <1>2, <1>3 DEF CheckpointTypeOK
  <2> QED
    BY <1>0, <1>3, <2>1, <2>2, <2>3 DEF CheckpointTypeOK, Snaps
<1>5. AllSafe'
  <2> SUFFICES ASSUME NEW j \in DocKeys, OwnFile(j), cksafe'[j] PROVE SafeStore(j)'
    BY DEF AllSafe
  <2>1. CASE j = k
    <3>1. written /\ cksafe[k]
      BY <1>0, <1>3, <2>1 DEF CheckpointTypeOK
    <3>2. loadFallback(k) = cktrue[k]
      BY <1>0, <2>1, <3>1, SafeLoads DEF CkInv, AllSafe
    <3>3. store = cktrue'[k]
      BY <1>0, <1>3, <3>2 DEF store, CheckpointTypeOK
    <3> QED
      BY <1>0, <1>3, <2>1, <3>1, <3>3 DEF SafeStore, CheckpointTypeOK
  <2>2. CASE j # k
    <3>1. cksafe[j] /\ SafeStore(j) /\ FileOf[j] # FileOf[k]
      BY <1>0, <1>3, <2>2 DEF CkInv, AllSafe, OwnFile, CheckpointTypeOK
    <3> QED
      BY <1>0, <1>3, <2>2, <3>1 DEF SafeStore, CheckpointTypeOK
  <2> QED
    BY <2>1, <2>2
<1>6. AllGenuine'
  <2> SUFFICES ASSUME NEW j \in DocKeys
               PROVE  /\ Genuine(ckmem'[j], j, ckof')
                      /\ ckfile'[FileOf[j]] # Torn => Genuine(ckfile'[FileOf[j]], j, ckof')
    BY DEF AllGenuine
  <2>0. /\ Genuine(ckmem[j], j, ckof)
        /\ ckfile[FileOf[j]] # Torn => Genuine(ckfile[FileOf[j]], j, ckof)
    BY DEF CkInv, AllGenuine
  <2>1. ckof \in Seq(DocKeys \X Names) /\ <<k, n>> \in DocKeys \X Names
    BY <1>0 DEF CheckpointTypeOK
  <2>2. /\ Genuine(ckmem[j], j, ckof')
        /\ ckfile[FileOf[j]] # Torn => Genuine(ckfile[FileOf[j]], j, ckof')
    BY <1>3, <2>0, <2>1, GenuineStays
  <2>3. Genuine(store, k, ckof')
    BY <1>0, <1>3, <2>1, GenuineLoads, GenuineWith DEF store
  <2>4. FileOf[j] = FileOf[k] => Genuine(store, j, ckof')
    BY <2>3, GenuineShared
  <2> QED
    BY <1>0, <1>3, <2>2, <2>3, <2>4 DEF CheckpointTypeOK
<1> QED
  BY <1>4, <1>5, <1>6 DEF CkInv

LEMMA DeleteKeeps ==
    ASSUME CkInv, NEW k \in DocKeys, NEW n \in Names, NEW written \in BOOLEAN,
           checkpointDelete(k, n, written)
    PROVE  CkInv'
<1> DEFINE store == Less(loadFallback(k), n)
<1>0. CheckpointTypeOK
  BY DEF CkInv
<1>1. store \in StoreOf
  BY <1>0, LessType, LoadType
<1>2. Less(cktrue[k], n) \in StoreOf
  BY <1>0, LessType DEF CheckpointTypeOK
<1> HIDE DEF store
<1>3. /\ ckmem' = [ckmem EXCEPT ![k] = store]
      /\ ckfile' = IF written THEN [ckfile EXCEPT ![FileOf[k]] = store] ELSE ckfile
      /\ cksafe' = [cksafe EXCEPT ![k] = cksafe[k] /\ written]
      /\ cktrue' = [cktrue EXCEPT ![k] = Less(cktrue[k], n)]
      /\ ckof' = ckof /\ cksaves' = cksaves
  BY DEF checkpointDelete, Keep, store
<1>4. CheckpointTypeOK'
  <2>1. ckmem' \in [DocKeys -> StoreOf] /\ ckfile' \in [Files -> StoreOf \cup {Torn}]
    BY <1>0, <1>1, <1>3 DEF CheckpointTypeOK
  <2>2. cktrue' \in [DocKeys -> StoreOf] /\ cksafe' \in [DocKeys -> BOOLEAN]
    BY <1>0, <1>2, <1>3 DEF CheckpointTypeOK
  <2> QED
    BY <1>0, <1>3, <2>1, <2>2 DEF CheckpointTypeOK
<1>5. AllSafe'
  <2> SUFFICES ASSUME NEW j \in DocKeys, OwnFile(j), cksafe'[j] PROVE SafeStore(j)'
    BY DEF AllSafe
  <2>1. CASE j = k
    <3>1. written /\ cksafe[k]
      BY <1>0, <1>3, <2>1 DEF CheckpointTypeOK
    <3>2. loadFallback(k) = cktrue[k]
      BY <1>0, <2>1, <3>1, SafeLoads DEF CkInv, AllSafe
    <3>3. store = cktrue'[k]
      BY <1>0, <1>3, <3>2 DEF store, CheckpointTypeOK
    <3> QED
      BY <1>0, <1>3, <2>1, <3>1, <3>3 DEF SafeStore, CheckpointTypeOK
  <2>2. CASE j # k
    <3>1. cksafe[j] /\ SafeStore(j) /\ FileOf[j] # FileOf[k]
      BY <1>0, <1>3, <2>2 DEF CkInv, AllSafe, OwnFile, CheckpointTypeOK
    <3> QED
      BY <1>0, <1>3, <2>2, <3>1 DEF SafeStore, CheckpointTypeOK
  <2> QED
    BY <2>1, <2>2
<1>6. AllGenuine'
  <2> SUFFICES ASSUME NEW j \in DocKeys
               PROVE  /\ Genuine(ckmem'[j], j, ckof')
                      /\ ckfile'[FileOf[j]] # Torn => Genuine(ckfile'[FileOf[j]], j, ckof')
    BY DEF AllGenuine
  <2>0. /\ Genuine(ckmem[j], j, ckof)
        /\ ckfile[FileOf[j]] # Torn => Genuine(ckfile[FileOf[j]], j, ckof)
    BY DEF CkInv, AllGenuine
  <2>1. Genuine(store, k, ckof')
    BY <1>3, GenuineLoads, GenuineLess DEF store
  <2>2. FileOf[j] = FileOf[k] => Genuine(store, j, ckof')
    BY <2>1, GenuineShared
  <2> QED
    BY <1>0, <1>3, <2>0, <2>1, <2>2 DEF CheckpointTypeOK
<1> QED
  BY <1>4, <1>5, <1>6 DEF CkInv

LEMMA LoadKeeps ==
    ASSUME CkInv, NEW k \in DocKeys, Load(k)
    PROVE  CkInv'
<1>0. CheckpointTypeOK /\ loadFallback(k) \in StoreOf
  BY LoadType DEF CkInv
<1>1. CheckpointTypeOK'
  BY <1>0 DEF CheckpointTypeOK, Load
<1>2. AllSafe'
  <2> SUFFICES ASSUME NEW j \in DocKeys, OwnFile(j), cksafe'[j] PROVE SafeStore(j)'
    BY DEF AllSafe
  <2>1. SafeStore(j)
    BY DEF CkInv, AllSafe, Load
  <2>2. j = k => loadFallback(k) = cktrue[k]
    BY <1>0, <2>1, SafeLoads
  <2> QED
    BY <1>0, <2>1, <2>2 DEF SafeStore, Load, CheckpointTypeOK
<1>3. AllGenuine'
  BY <1>0, GenuineLoads DEF CkInv, AllGenuine, Load, CheckpointTypeOK
<1> QED
  BY <1>1, <1>2, <1>3 DEF CkInv

LEMMA CrashKeeps ==
    ASSUME CkInv, NEW k \in DocKeys, CrashInSave(k)
    PROVE  CkInv'
<1>0. CheckpointTypeOK /\ cksaves + 1 \in Snaps
  BY DEF CkInv, CheckpointTypeOK, CrashInSave, Snaps
<1>1. PICK n \in Names : ckof' = Append(ckof, <<k, n>>)
  BY DEF CrashInSave
<1>2. CheckpointTypeOK'
  <2>1. ckof' \in Seq(DocKeys \X Names) /\ Len(ckof') = cksaves'
    BY <1>0, <1>1 DEF CheckpointTypeOK, CrashInSave
  <2>2. ckmem' \in [DocKeys -> StoreOf] /\ ckfile' \in [Files -> StoreOf \cup {Torn}]
    BY <1>0, StoreShape DEF CheckpointTypeOK, CrashInSave
  <2> QED
    BY <1>0, <2>1, <2>2 DEF CheckpointTypeOK, CrashInSave, Snaps
<1>3. AllSafe'
  <2> SUFFICES ASSUME NEW j \in DocKeys, OwnFile(j), cksafe'[j] PROVE SafeStore(j)'
    BY DEF AllSafe
  <2>1. j # k /\ cksafe[j] /\ SafeStore(j)
    BY <1>0 DEF CkInv, AllSafe, CrashInSave, CheckpointTypeOK
  <2>2. FileOf[j] # FileOf[k]
    BY <2>1 DEF OwnFile
  <2> QED
    BY <1>0, <2>1, <2>2 DEF SafeStore, CrashInSave, CheckpointTypeOK
<1>4. AllGenuine'
  <2> SUFFICES ASSUME NEW j \in DocKeys
               PROVE  /\ Genuine(ckmem'[j], j, ckof')
                      /\ ckfile'[FileOf[j]] # Torn => Genuine(ckfile'[FileOf[j]], j, ckof')
    BY DEF AllGenuine
  <2>1. ckmem'[j] = NoStore /\ Genuine(NoStore, j, ckof')
    BY GenuineEmpty DEF CrashInSave
  <2>2. ckfile'[FileOf[j]] # Torn => ckfile'[FileOf[j]] = ckfile[FileOf[j]]
    BY <1>0 DEF CrashInSave, CheckpointTypeOK
  <2>3. ckfile[FileOf[j]] # Torn => Genuine(ckfile[FileOf[j]], j, ckof')
    BY <1>0, <1>1, GenuineStays DEF CkInv, AllGenuine, CheckpointTypeOK
  <2> QED
    BY <2>1, <2>2, <2>3
<1> QED
  BY <1>2, <1>3, <1>4 DEF CkInv

LEMMA ResetKeeps ==
    ASSUME CkInv, CheckpointReset
    PROVE  CkInv'
<1>1. CheckpointTypeOK'
  BY StoreShape DEF CkInv, CheckpointTypeOK, CheckpointReset
<1>2. AllSafe'
  BY DEF CkInv, AllSafe, SafeStore, CheckpointReset, OwnFile
<1>3. AllGenuine'
  BY GenuineEmpty DEF CkInv, AllGenuine, CheckpointReset
<1> QED
  BY <1>1, <1>2, <1>3 DEF CkInv

LEMMA CkUnchanged == ASSUME CkInv, UNCHANGED ckvars PROVE CkInv'
BY DEF CkInv, ckvars, CheckpointTypeOK, AllSafe, SafeStore, AllGenuine, OwnFile

LEMMA CkInductive == CkInv /\ [StoresNext]_storevars => CkInv'
<1> SUFFICES ASSUME CkInv, [StoresNext]_storevars PROVE CkInv'
  OBVIOUS
<1>1. CASE CheckpointNext
  BY <1>1, SaveKeeps, DeleteKeeps, LoadKeeps, CrashKeeps DEF CheckpointNext
<1>2. CASE UNCHANGED ckvars
  BY <1>2, CkUnchanged
<1>3. CASE CheckpointReset
  BY <1>3, ResetKeeps
<1> QED
  BY <1>1, <1>2, <1>3 DEF StoresNext, EngineReset, storevars

LEMMA CkAlways == StoresSpec => []CkInv
<1>1. StoresInit => CkInv
  BY CkStart DEF StoresInit
<1> QED
  BY <1>1, CkInductive, PTL DEF StoresSpec

(* A checkpoint whose writes reached the file of its document survives every *)
(* reset of the engine, beside documents whose files are cut short.          *)
THEOREM CheckpointsLast == StoresSpec => []CheckpointsDurable
<1>1. CkInv => CheckpointsDurable
  BY SafeLoads DEF CkInv, AllSafe, CheckpointsDurable
<1> QED
  BY <1>1, CkAlways, PTL

(* No document is given a snapshot saved under another name, or for a        *)
(* document with another file.                                               *)
THEOREM CheckpointsAreGenuine == StoresSpec => []CheckpointsGenuine
<1>1. CkInv => CheckpointsGenuine
  BY GenuineLoads DEF Genuine, CheckpointsGenuine
<1> QED
  BY <1>1, CkAlways, PTL

HIDE CheckpointsAssumption
USE JournalAssumption

-----------------------------------------------------------------------------
(* Sequences of entries                                                     *)

(* The last n entries of a journal keep their places from the end.           *)
LEMMA LastOfContent ==
    ASSUME NEW s \in Seq(Entries), NEW n \in Nat
    PROVE  /\ LastOf(s, n) \in Seq(Entries)
           /\ Len(LastOf(s, n)) = IF Len(s) > n THEN n ELSE Len(s)
           /\ \A i \in 1..Len(LastOf(s, n)) :
                 LastOf(s, n)[i] = s[i + (Len(s) - Len(LastOf(s, n)))]
<1>1. CASE Len(s) > n
  <2> DEFINE m == Len(s) - n + 1
  <2>1. m \in Int /\ Len(s) \in Int /\ Len(s) - m + 1 = n /\ \A i \in m..Len(s) : s[i] \in Entries
    BY <1>1
  <2>2. /\ SubSeq(s, m, Len(s)) \in Seq(Entries)
        /\ Len(SubSeq(s, m, Len(s))) = IF m <= Len(s) THEN Len(s) - m + 1 ELSE 0
        /\ \A i \in 1..(Len(s) - m + 1) : SubSeq(s, m, Len(s))[i] = s[m + i - 1]
    BY <2>1, SubSeqProperties
  <2>3. LastOf(s, n) = SubSeq(s, m, Len(s))
    BY <1>1 DEF LastOf
  <2> QED
    BY <1>1, <2>1, <2>2, <2>3
<1>2. CASE ~(Len(s) > n)
  BY <1>2 DEF LastOf
<1> QED
  BY <1>1, <1>2

(* What is kept of a journal that is not empty ends with its newest entry.   *)
LEMMA LastOfNewest ==
    ASSUME NEW s \in Seq(Entries), s # <<>>, NEW n \in Nat \ {0}
    PROVE  LastOf(s, n) # <<>> /\ Last(LastOf(s, n)) = Last(s)
<1>1. Len(s) >= 1
  BY EmptySeq
<1>2. Len(LastOf(s, n)) >= 1 /\ Len(LastOf(s, n)) <= Len(s)
  BY <1>1, LastOfContent
<1>3. LastOf(s, n)[Len(LastOf(s, n))] = s[Len(s)]
  BY <1>2, LastOfContent
<1> QED
  BY <1>2, <1>3, LastOfContent DEF Last

Ordered(s, top) == Increasing(s) /\ \A i \in DOMAIN s : s[i] <= top

LEMMA OrderedLastOf ==
    ASSUME NEW s \in Seq(Entries), NEW n \in Nat, NEW top \in Nat, Ordered(s, top)
    PROVE  Ordered(LastOf(s, n), top)
<1> DEFINE t == LastOf(s, n)
           off == Len(s) - Len(t)
<1>1. t \in Seq(Entries) /\ off \in Nat /\ Len(t) + off = Len(s)
  BY LastOfContent
<1>2. \A i \in DOMAIN t : i + off \in DOMAIN s /\ t[i] = s[i + off]
  BY <1>1, LastOfContent
<1> HIDE DEF t, off
<1>3. Increasing(t)
  <2> SUFFICES ASSUME NEW i \in DOMAIN t, NEW j \in DOMAIN t, i < j PROVE t[i] < t[j]
    BY DEF Increasing
  <2>1. i + off < j + off
    BY <1>1
  <2> QED
    BY <1>2, <2>1 DEF Ordered, Increasing
<1>4. \A i \in DOMAIN t : t[i] <= top
  BY <1>2 DEF Ordered
<1> QED
  BY <1>3, <1>4 DEF Ordered, t

LEMMA OrderedAppend ==
    ASSUME NEW s \in Seq(Entries), NEW top \in Nat, top + 1 \in Entries, Ordered(s, top)
    PROVE  Ordered(Append(s, top + 1), top + 1)
<1> DEFINE t == Append(s, top + 1)
<1>1. /\ t \in Seq(Entries) /\ Len(t) = Len(s) + 1 /\ t[Len(t)] = top + 1
      /\ \A i \in DOMAIN s : i \in DOMAIN t /\ t[i] = s[i]
      /\ \A i \in DOMAIN t : i \in DOMAIN s \/ i = Len(t)
  OBVIOUS
<1>2. \A i \in DOMAIN s : s[i] <= top /\ s[i] \in Nat
  BY DEF Ordered, Entries
<1> HIDE DEF t
<1>3. Increasing(t)
  <2> SUFFICES ASSUME NEW i \in DOMAIN t, NEW j \in DOMAIN t, i < j PROVE t[i] < t[j]
    BY DEF Increasing
  <2>1. i \in DOMAIN s
    BY <1>1
  <2>2. CASE j \in DOMAIN s
    BY <1>1, <2>1, <2>2 DEF Ordered, Increasing
  <2>3. CASE j = Len(t)
    BY <1>1, <1>2, <2>1, <2>3
  <2> QED
    BY <1>1, <2>2, <2>3
<1>4. \A i \in DOMAIN t : t[i] <= top + 1
  BY <1>1, <1>2
<1> QED
  BY <1>3, <1>4 DEF Ordered, t

LEMMA AppendEnd ==
    ASSUME NEW s \in Seq(Entries), NEW x \in Entries
    PROVE  Append(s, x) \in Seq(Entries) /\ Append(s, x) # <<>> /\ Last(Append(s, x)) = x
<1>1. /\ Append(s, x) \in Seq(Entries) /\ Len(Append(s, x)) = Len(s) + 1
      /\ Append(s, x)[Len(s) + 1] = x
  OBVIOUS
<1>2. Len(Append(s, x)) # 0
  BY <1>1
<1> QED
  BY <1>1, <1>2 DEF Last

LEMMA OrderedSmall ==
    ASSUME NEW e \in Entries
    PROVE  Ordered(<<e>>, e) /\ <<e>> \in Seq(Entries) /\ <<e>> # <<>> /\ Last(<<e>>) = e
BY DEF Ordered, Increasing, Last, Entries

LEMMA OrderedLater ==
    ASSUME NEW s \in Seq(Entries), NEW top \in Nat, Ordered(s, top)
    PROVE  Ordered(s, top + 1)
BY DEF Ordered, Entries

(* s is the end of t. *)
Ends(s, t) == Len(s) <= Len(t) /\ \A i \in 1..Len(s) : s[i] = t[i + (Len(t) - Len(s))]

LEMMA EndsIsSuffix ==
    ASSUME NEW s \in Seq(Entries), NEW t \in Seq(Entries), Ends(s, t)
    PROVE  IsSuffix(s, t)
<1> DEFINE rs == Reverse(s)
           rt == Reverse(t)
<1>1. /\ rs \in Seq(Entries) /\ Len(rs) = Len(s) /\ \A i \in 1..Len(s) : rs[i] = s[(Len(s) - i) + 1]
      /\ rt \in Seq(Entries) /\ Len(rt) = Len(t) /\ \A i \in 1..Len(t) : rt[i] = t[(Len(t) - i) + 1]
  BY DEF Reverse
<1>2. Len(s) <= Len(t) /\ Len(s) \in Nat /\ Len(t) \in Nat
  BY DEF Ends
<1>3. \A i \in 1..Len(s) : rs[i] = rt[i]
  <2> SUFFICES ASSUME NEW i \in 1..Len(s) PROVE rs[i] = rt[i]
    OBVIOUS
  <2> DEFINE j == (Len(s) - i) + 1
  <2>1. j \in 1..Len(s) /\ j + (Len(t) - Len(s)) = (Len(t) - i) + 1 /\ i \in 1..Len(t)
    BY <1>2
  <2>2. s[j] = t[j + (Len(t) - Len(s))]
    BY <2>1 DEF Ends
  <2> QED
    BY <1>1, <2>1, <2>2
<1> HIDE DEF rs, rt
<1>4. /\ SubSeq(rs, 1, Len(s)) \in Seq(Entries) /\ Len(SubSeq(rs, 1, Len(s))) = Len(s)
      /\ \A i \in 1..Len(s) : SubSeq(rs, 1, Len(s))[i] = rs[i]
  BY <1>1, <1>2
<1>5. /\ SubSeq(rt, 1, Len(s)) \in Seq(Entries) /\ Len(SubSeq(rt, 1, Len(s))) = Len(s)
      /\ \A i \in 1..Len(s) : SubSeq(rt, 1, Len(s))[i] = rt[i]
  BY <1>1, <1>2
<1>6. SubSeq(rs, 1, Len(s)) = SubSeq(rt, 1, Len(s))
  BY <1>3, <1>4, <1>5, SeqEqual
<1> QED
  BY <1>1, <1>2, <1>6 DEF IsSuffix, IsPrefix, rs, rt

LEMMA EndsAppend ==
    ASSUME NEW s \in Seq(Entries), NEW t \in Seq(Entries), NEW x \in Entries
    PROVE  /\ Ends(s, t) => Ends(Append(s, x), Append(t, x))
           /\ Ends(<<x>>, Append(t, x))
<1>1. \A u \in Seq(Entries) : /\ Len(Append(u, x)) = Len(u) + 1 /\ Append(u, x)[Len(u) + 1] = x
                              /\ \A i \in 1..Len(u) : Append(u, x)[i] = u[i]
  OBVIOUS
<1>2. Ends(<<x>>, Append(t, x))
  BY <1>1 DEF Ends
<1>3. ASSUME Ends(s, t) PROVE Ends(Append(s, x), Append(t, x))
  <2>1. Len(s) \in Nat /\ Len(t) \in Nat /\ Len(s) <= Len(t)
    BY <1>3 DEF Ends
  <2>2. ASSUME NEW i \in 1..(Len(s) + 1)
        PROVE  Append(s, x)[i] = Append(t, x)[i + (Len(t) - Len(s))]
    <3>1. CASE i = Len(s) + 1
      <4>1. i + (Len(t) - Len(s)) = Len(t) + 1
        BY <2>1, <3>1
      <4> QED
        BY <1>1, <3>1, <4>1
    <3>2. CASE i \in 1..Len(s)
      <4>1. i + (Len(t) - Len(s)) \in 1..Len(t)
        BY <2>1, <3>2
      <4> QED
        BY <1>1, <1>3, <3>2, <4>1 DEF Ends
    <3> QED
      BY <2>1, <3>1, <3>2
  <2>3. /\ Len(Append(s, x)) = Len(s) + 1 /\ Len(Append(t, x)) = Len(t) + 1
        /\ Len(Append(t, x)) - Len(Append(s, x)) = Len(t) - Len(s)
        /\ Len(Append(s, x)) <= Len(Append(t, x))
    BY <1>1, <2>1
  <2>4. \A i \in 1..Len(Append(s, x)) :
          Append(s, x)[i] = Append(t, x)[i + (Len(Append(t, x)) - Len(Append(s, x)))]
    BY <2>2, <2>3
  <2> QED
    BY <2>3, <2>4 DEF Ends
<1> QED
  BY <1>2, <1>3

-----------------------------------------------------------------------------
(* The inductive invariant: journals are ordered and hold entries of the     *)
(* past only; and while the document keeps its size and its files can be     *)
(* written, memory and file end with the newest entry there should be, and   *)
(* memory is the end of the file.                                            *)
JOrdered == /\ jmem # Absent => Ordered(jmem, jcount)
            /\ \A p \in Prints : ~Lost(jfile[p]) => Ordered(jfile[p], jcount)
Steady   == ~jhist.moved /\ ~jhist.broken
EndsLike(s, t) == s # <<>> /\ Last(s) = Last(t)
JNewest == Steady =>
    IF jhist.entries = <<>> THEN jmem = Absent /\ jfile[jprint] = Absent
    ELSE /\ jfile[jprint] \notin {Absent, Corrupt}
         /\ EndsLike(jfile[jprint], jhist.entries)
         /\ jmem # Absent => EndsLike(jmem, jhist.entries)
JSuffix == Steady /\ jmem # Absent => ~Lost(jfile[jprint]) /\ Ends(jmem, jfile[jprint])
JInv == JournalTypeOK /\ JOrdered /\ JNewest /\ JSuffix

LEMMA NoMarks == \A s \in Seq(Entries) : s # Absent /\ s # Corrupt
BY DEF Entries

(* What journalGet returns, and what it leaves in memory.                    *)
LEMMA GetContent ==
    ASSUME JInv
    PROVE  /\ journalGet \in Seq(Entries)
           /\ Ordered(journalGet, jcount)
           /\ Steady /\ journalGet # <<>> =>
                jhist.entries # <<>> /\ Last(journalGet) = Last(jhist.entries)
           /\ Loaded \in {jmem, journalGet}
           /\ Loaded # jmem => jmem = Absent /\ Loaded = jfile[jprint] /\ ~Lost(jfile[jprint])
<1>1. journalGet \in Seq(Entries)
  BY DEF JInv, JournalTypeOK, journalGet, Lost
<1>2. Ordered(journalGet, jcount)
  <2>1. Ordered(<<>>, jcount)
    BY DEF Ordered, Increasing
  <2> QED
    BY <2>1 DEF JInv, JournalTypeOK, JOrdered, journalGet
<1>3. Steady /\ journalGet # <<>> => jhist.entries # <<>> /\ Last(journalGet) = Last(jhist.entries)
  BY DEF JInv, JNewest, EndsLike, journalGet, Lost
<1>4. /\ Loaded \in {jmem, journalGet}
      /\ Loaded # jmem => jmem = Absent /\ Loaded = jfile[jprint] /\ ~Lost(jfile[jprint])
  BY DEF Loaded, journalGet
<1> QED
  BY <1>1, <1>2, <1>3, <1>4

-----------------------------------------------------------------------------
LEMMA JStart == JournalInit => JInv
<1> SUFFICES ASSUME JournalInit PROVE JInv
  OBVIOUS
<1>1. JournalTypeOK
  BY DEF JournalInit, JournalTypeOK
<1>2. JOrdered /\ JNewest /\ JSuffix
  BY DEF JournalInit, JOrdered, JNewest, JSuffix, Lost
<1> QED
  BY <1>1, <1>2 DEF JInv

LEMMA AppendKeeps ==
    ASSUME JInv, NEW written \in BOOLEAN, journalAppend(written)
    PROVE  JInv'
<1> DEFINE e == jcount + 1
           file == jfile[jprint]
           kept == written /\ file # Corrupt
           longer == IF file = Absent THEN <<e>> ELSE Append(file, e)
<1>0. JournalTypeOK /\ e \in Entries /\ jcount \in Nat /\ jprint \in Prints
  BY DEF JInv, JournalTypeOK, journalAppend, Entries
<1>1. /\ jcount' = e /\ jprint' = jprint
      /\ jmem' = IF jmem = Absent THEN <<e>> ELSE Append(jmem, e)
      /\ jfile' = IF kept THEN [jfile EXCEPT ![jprint] = longer] ELSE jfile
      /\ jart' = jart \cup {e}
      /\ jhist' = [jhist EXCEPT !.entries = Append(jhist.entries, e), !.broken = jhist.broken \/ ~kept]
  BY DEF journalAppend
<1>2. /\ jmem' \in Seq(Entries) /\ Ordered(jmem', e)
      /\ EndsLike(jmem', Append(jhist.entries, e))
  <2>1. jhist.entries \in Seq(Entries) /\ Last(Append(jhist.entries, e)) = e
    BY <1>0, AppendEnd DEF JournalTypeOK
  <2>2. CASE jmem = Absent
    BY <1>0, <1>1, <2>1, <2>2, OrderedSmall DEF EndsLike
  <2>3. CASE jmem # Absent
    <3>1. jmem \in Seq(Entries) /\ Ordered(jmem, jcount)
      BY <1>0, <2>3 DEF JInv, JOrdered, JournalTypeOK
    <3>2. Append(jmem, e) \in Seq(Entries) /\ Append(jmem, e) # <<>> /\ Last(Append(jmem, e)) = e
      BY <1>0, <3>1, AppendEnd
    <3> QED
      BY <1>0, <1>1, <2>1, <2>3, <3>1, <3>2, OrderedAppend DEF EndsLike
  <2> QED
    BY <2>2, <2>3
<1>3. kept => /\ longer \in Seq(Entries) /\ Ordered(longer, e)
              /\ EndsLike(longer, Append(jhist.entries, e))
  <2>1. jhist.entries \in Seq(Entries) /\ Last(Append(jhist.entries, e)) = e
    BY <1>0, AppendEnd DEF JournalTypeOK
  <2>2. CASE file = Absent
    BY <1>0, <2>1, <2>2, OrderedSmall DEF EndsLike
  <2>3. CASE file # Absent /\ kept
    <3>1. file \in Seq(Entries) /\ Ordered(file, jcount)
      BY <1>0, <2>3 DEF JInv, JOrdered, JournalTypeOK, Lost
    <3>2. \A s \in Seq(Entries) : /\ Append(s, e) \in Seq(Entries)
                                   /\ Append(s, e) # <<>> /\ Last(Append(s, e)) = e
      BY <1>0, AppendEnd
    <3>3. longer = Append(file, e)
      BY <2>3
    <3> QED
      BY <1>0, <2>1, <3>1, <3>2, <3>3, OrderedAppend DEF EndsLike
  <2> QED
    BY <2>2, <2>3
<1> HIDE DEF longer
<1>4. JournalTypeOK'
  <2>1. Append(jhist.entries, e) \in Seq(Entries)
    BY <1>0 DEF JournalTypeOK
  <2>2. jhist' \in [entries: Seq(Entries), moved: BOOLEAN, broken: BOOLEAN]
    BY <1>0, <1>1, <2>1 DEF JournalTypeOK
  <2>3. jfile' \in [Prints -> Seq(Entries) \cup {Absent, Corrupt}]
    BY <1>0, <1>1, <1>3 DEF JournalTypeOK
  <2>4. jcount' \in 0..MaxEntries /\ jart' \subseteq Entries
    BY <1>0, <1>1 DEF JournalTypeOK, Entries
  <2> QED
    BY <1>0, <1>1, <1>2, <2>2, <2>3, <2>4 DEF JournalTypeOK
<1>5. JOrdered'
  <2>1. \A p \in Prints : ~Lost(jfile[p]) => Ordered(jfile[p], e)
    BY <1>0, OrderedLater DEF JInv, JOrdered, JournalTypeOK, Lost
  <2>2. \A p \in Prints : jfile'[p] = jfile[p] \/ (kept /\ jfile'[p] = longer)
    BY <1>0, <1>1 DEF JournalTypeOK
  <2> QED
    BY <1>1, <1>2, <1>3, <2>1, <2>2 DEF JOrdered
<1>6. JNewest'
  <2> SUFFICES ASSUME Steady' PROVE JNewest'
    BY DEF JNewest
  <2>1. kept
    BY <1>0, <1>1 DEF Steady, JournalTypeOK
  <2>2. jhist'.entries = Append(jhist.entries, e) /\ jhist'.entries # <<>>
    BY <1>0, <1>1 DEF JournalTypeOK
  <2>3. jfile'[jprint'] = longer /\ longer \notin {Absent, Corrupt}
    BY <1>0, <1>1, <1>3, <2>1, NoMarks DEF JournalTypeOK
  <2> QED
    BY <1>2, <1>3, <2>1, <2>2, <2>3 DEF JNewest
<1>7. JSuffix'
  <2> SUFFICES ASSUME Steady' PROVE ~Lost(jfile'[jprint']) /\ Ends(jmem', jfile'[jprint'])
    BY DEF JSuffix
  <2>1. kept /\ Steady
    BY <1>0, <1>1 DEF Steady, JournalTypeOK
  <2>2. jfile'[jprint'] = longer /\ ~Lost(longer)
    BY <1>0, <1>1, <1>3, <2>1, NoMarks DEF JournalTypeOK, Lost
  <2>3. CASE file = Absent
    <3>1. jmem = Absent
      BY <2>1, <2>3 DEF JInv, JSuffix, Lost
    <3>2. longer = <<e>> /\ jmem' = <<e>>
      BY <1>1, <2>3, <3>1 DEF longer
    <3>3. Ends(<<e>>, <<e>>)
      BY DEF Ends
    <3> QED
      BY <2>2, <3>2, <3>3
  <2>4. CASE file # Absent
    <3>1. file \in Seq(Entries) /\ longer = Append(file, e)
      BY <1>0, <2>1, <2>4 DEF JournalTypeOK, longer
    <3>2. CASE jmem = Absent
      BY <1>0, <1>1, <2>2, <3>1, <3>2, EndsAppend
    <3>3. CASE jmem # Absent
      <4>1. jmem \in Seq(Entries) /\ Ends(jmem, file) /\ jmem' = Append(jmem, e)
        BY <1>0, <1>1, <2>1, <3>3 DEF JInv, JSuffix, JournalTypeOK
      <4> QED
        BY <1>0, <2>2, <3>1, <4>1, EndsAppend
    <3> QED
      BY <3>2, <3>3
  <2> QED
    BY <2>3, <2>4
<1> QED
  BY <1>4, <1>5, <1>6, <1>7 DEF JInv

LEMMA CompactKeeps ==
    ASSUME JInv, NEW written \in BOOLEAN, journalCompact(written)
    PROVE  JInv'
<1> DEFINE kept == LastOf(journalGet, KeepEntries)
<1>0. JournalTypeOK /\ journalGet # <<>>
  BY DEF JInv, journalCompact
<1>1. kept \in Seq(Entries) /\ kept # <<>> /\ Ordered(kept, jcount) /\ Last(kept) = Last(journalGet)
  <2>1. journalGet \in Seq(Entries) /\ Ordered(journalGet, jcount) /\ jcount \in Nat
    BY <1>0, GetContent DEF JournalTypeOK
  <2>2. KeepEntries \in Nat \ {0}
    OBVIOUS
  <2>3. kept \in Seq(Entries) /\ Ordered(kept, jcount)
    BY <2>1, <2>2, LastOfContent, OrderedLastOf
  <2>4. kept # <<>> /\ Last(kept) = Last(journalGet)
    BY <1>0, <2>1, <2>2, LastOfNewest
  <2> QED
    BY <2>3, <2>4
<1>2. PICK n \in 1..Len(kept) :
        /\ jmem' = LastOf(kept, n)
        /\ jfile' = IF written THEN [jfile EXCEPT ![jprint] = LastOf(kept, n)] ELSE jfile
        /\ jhist' = [jhist EXCEPT !.entries = LastOf(jhist.entries, n), !.broken = jhist.broken \/ ~written]
  BY DEF journalCompact
<1> DEFINE short == LastOf(kept, n)
<1> HIDE DEF kept
<1>3. n \in Nat \ {0} /\ UNCHANGED <<jprint, jcount, jart>>
  BY <1>1 DEF journalCompact
<1>4. short \in Seq(Entries) /\ short # <<>> /\ Ordered(short, jcount) /\ Last(short) = Last(journalGet)
  BY <1>0, <1>1, <1>3, LastOfNewest, LastOfContent, OrderedLastOf DEF JournalTypeOK
<1>5. LastOf(jhist.entries, n) \in Seq(Entries)
  BY <1>0, <1>3, LastOfContent DEF JournalTypeOK
<1> HIDE DEF short
<1>6. /\ jmem' = short /\ jhist'.entries = LastOf(jhist.entries, n)
      /\ jfile' = IF written THEN [jfile EXCEPT ![jprint] = short] ELSE jfile
      /\ jhist'.moved = jhist.moved /\ jhist'.broken = (jhist.broken \/ ~written)
  BY <1>0, <1>2 DEF short, JournalTypeOK
<1>7. JournalTypeOK'
  <2>1. jhist' \in [entries: Seq(Entries), moved: BOOLEAN, broken: BOOLEAN]
    BY <1>0, <1>2, <1>5 DEF JournalTypeOK
  <2> QED
    BY <1>0, <1>3, <1>4, <1>6, <2>1 DEF JournalTypeOK
<1>8. JOrdered'
  <2>1. \A p \in Prints : jfile'[p] \in {jfile[p], short}
    BY <1>0, <1>6 DEF JournalTypeOK
  <2> QED
    BY <1>3, <1>4, <1>6, <2>1 DEF JInv, JOrdered
<1>9. JNewest'
  <2> SUFFICES ASSUME Steady' PROVE JNewest'
    BY DEF JNewest
  <2>1. Steady /\ written
    BY <1>6 DEF Steady
  <2>2. jhist.entries # <<>> /\ Last(journalGet) = Last(jhist.entries)
    BY <1>0, <2>1, GetContent
  <2>3. jhist'.entries # <<>> /\ Last(jhist'.entries) = Last(jhist.entries)
    BY <1>0, <1>3, <1>6, <2>2, LastOfNewest DEF JournalTypeOK
  <2>4. jfile'[jprint'] = short /\ short \notin {Absent, Corrupt}
    BY <1>0, <1>3, <1>4, <1>6, <2>1, NoMarks DEF JournalTypeOK
  <2> QED
    BY <1>4, <1>6, <2>2, <2>3, <2>4 DEF JNewest, EndsLike
<1>10. JSuffix'
  <2> SUFFICES ASSUME Steady' PROVE ~Lost(jfile'[jprint']) /\ Ends(jmem', jfile'[jprint'])
    BY DEF JSuffix
  <2>1. written
    BY <1>6 DEF Steady
  <2>2. jfile'[jprint'] = short /\ ~Lost(short)
    BY <1>0, <1>3, <1>4, <1>6, <2>1, NoMarks DEF JournalTypeOK, Lost
  <2> QED
    BY <1>4, <1>6, <2>2 DEF Ends
<1> QED
  BY <1>7, <1>8, <1>9, <1>10 DEF JInv

(* Whatever only reads the journal, replays it or not.                       *)
LEMMA LoadingKeeps ==
    ASSUME JInv, jmem' = Loaded, jart' \subseteq Entries, UNCHANGED <<jfile, jprint, jcount, jhist>>
    PROVE  JInv'
<1>1. JournalTypeOK'
  BY GetContent DEF JInv, JournalTypeOK
<1>2. JOrdered'
  BY GetContent DEF JInv, JOrdered
<1>3. JNewest'
  BY GetContent DEF JInv, JNewest, Steady, EndsLike, Lost
<1>4. JSuffix'
  <2>1. \A s \in Seq(Entries) : Ends(s, s)
    BY DEF Ends
  <2>2. ~Lost(jfile[jprint]) => jfile[jprint] \in Seq(Entries)
    BY DEF JInv, JournalTypeOK, Lost
  <2> QED
    BY GetContent, <2>1, <2>2 DEF JInv, JSuffix, Steady
<1> QED
  BY <1>1, <1>2, <1>3, <1>4 DEF JInv

LEMMA ReplayTypes ==
    ASSUME JInv, NEW S \in SUBSET (1..Len(journalGet))
    PROVE  {journalGet[k] : k \in S} \subseteq Entries
BY GetContent

LEMMA ReplayKeeps ==
    ASSUME JInv, \/ Read \/ Recompute \/ RecomputeFails \/ RecomputeStuck
                 \/ \E onError \in {"strict", "skip", "rollback"}, from \in 0..1 : Replay(onError, from)
    PROVE  JInv'
<1>0. jart \subseteq Entries /\ Len(journalGet) \in Nat
  BY GetContent DEF JInv, JournalTypeOK
<1>1. \A n \in 0..Len(journalGet) : Replayed(n) \subseteq Entries
  <2> SUFFICES ASSUME NEW n \in 0..Len(journalGet) PROVE Replayed(n) \subseteq Entries
    OBVIOUS
  <2>1. 1..n \in SUBSET (1..Len(journalGet))
    BY <1>0
  <2> QED
    BY <2>1, ReplayTypes DEF Replayed
<1>2. CASE Read
  BY <1>0, <1>2, LoadingKeeps DEF Read
<1>3. CASE Recompute
  BY <1>0, <1>1, <1>3, LoadingKeeps DEF Recompute
<1>4. CASE RecomputeFails
  <2>1. jart' \subseteq Entries
    BY <1>0, <1>1, <1>4 DEF RecomputeFails
  <2> QED
    BY <1>4, <2>1, LoadingKeeps DEF RecomputeFails
<1>5. CASE RecomputeStuck
  BY <1>0, <1>5, LoadingKeeps DEF RecomputeStuck
<1>6. ASSUME NEW onError \in {"strict", "skip", "rollback"}, NEW from \in 0..1, Replay(onError, from)
      PROVE  JInv'
  <2> DEFINE todo == {k \in 1..Len(journalGet) : k > from}
  <2>1. \A S \in SUBSET todo : {journalGet[k] : k \in S} \subseteq Entries
    BY ReplayTypes
  <2>3. CASE onError = "skip"
    <3>1. \E S \in SUBSET todo : jart' = jart \cup {journalGet[k] : k \in S}
      BY <1>6, <2>3 DEF Replay
    <3>2. jart' \subseteq Entries
      BY <1>0, <2>1, <3>1
    <3> QED
      BY <1>6, <3>2, LoadingKeeps DEF Replay
  <2>4. CASE onError = "strict"
    <3>1. \E n \in 0..Len(journalGet) : jart' = jart \cup {journalGet[k] : k \in {x \in todo : x <= n}}
      BY <1>6, <2>4 DEF Replay
    <3>2. jart' \subseteq Entries
      BY <1>0, <2>1, <3>1
    <3> QED
      BY <1>6, <3>2, LoadingKeeps DEF Replay
  <2>5. CASE onError = "rollback"
    <3>1. jart' \in {jart, jart \cup {journalGet[k] : k \in todo}}
      BY <1>6, <2>5 DEF Replay
    <3>2. jart' \subseteq Entries
      BY <1>0, <2>1, <3>1
    <3> QED
      BY <1>6, <3>2, LoadingKeeps DEF Replay
  <2> QED
    BY <2>3, <2>4, <2>5
<1> QED
  BY <1>2, <1>3, <1>4, <1>5, <1>6

LEMMA CrashInWriteKeeps ==
    ASSUME JInv, CrashInWrite
    PROVE  JInv'
<1>1. JournalTypeOK'
  <2>1. jhist' \in [entries: Seq(Entries), moved: BOOLEAN, broken: BOOLEAN]
    BY DEF JInv, JournalTypeOK, CrashInWrite
  <2>2. jcount' \in 0..MaxEntries
    BY DEF JInv, JournalTypeOK, CrashInWrite
  <2>3. jfile' \in [Prints -> Seq(Entries) \cup {Absent, Corrupt}]
    BY DEF JInv, JournalTypeOK, CrashInWrite
  <2> QED
    BY <2>1, <2>2, <2>3 DEF JInv, JournalTypeOK, CrashInWrite
<1>2. JOrdered'
  <2>1. \A p \in Prints : ~Lost(jfile'[p]) => jfile'[p] = jfile[p] /\ ~Lost(jfile[p])
    BY DEF JInv, JournalTypeOK, CrashInWrite, Lost
  <2>2. \A p \in Prints : ~Lost(jfile[p]) => /\ Ordered(jfile[p], jcount)
                                              /\ Ordered(jfile[p], jcount + 1)
    BY OrderedLater DEF JInv, JOrdered, JournalTypeOK, Lost
  <2> QED
    BY <2>1, <2>2 DEF JOrdered, CrashInWrite
<1>3. ~Steady'
  BY DEF JInv, JournalTypeOK, CrashInWrite, Steady
<1> QED
  BY <1>1, <1>2, <1>3 DEF JInv, JNewest, JSuffix

LEMMA ClearKeeps ==
    ASSUME JInv, journalClear
    PROVE  JInv'
<1>0. <<>> \in Seq(Entries)
  OBVIOUS
<1>1. JournalTypeOK'
  <2>1. jhist' = [jhist EXCEPT !.entries = <<>>] /\ jhist \in [entries: Seq(Entries), moved: BOOLEAN, broken: BOOLEAN]
    BY DEF JInv, JournalTypeOK, journalClear
  <2>2. jhist' \in [entries: Seq(Entries), moved: BOOLEAN, broken: BOOLEAN]
    BY <1>0, <2>1
  <2> QED
    BY <2>2 DEF JInv, JournalTypeOK, journalClear
<1>2. JOrdered'
  BY DEF JInv, JOrdered, JournalTypeOK, journalClear, Lost
<1>3. JNewest' /\ JSuffix'
  BY DEF JInv, JNewest, JSuffix, JournalTypeOK, journalClear, Steady
<1> QED
  BY <1>1, <1>2, <1>3 DEF JInv

LEMMA ResizeKeeps ==
    ASSUME JInv, Resize
    PROVE  JInv'
BY DEF JInv, JournalTypeOK, JOrdered, JNewest, JSuffix, Steady, Resize

LEMMA JResetKeeps ==
    ASSUME JInv, JournalReset
    PROVE  JInv'
BY DEF JInv, JournalTypeOK, JOrdered, JNewest, JSuffix, Steady, JournalReset

LEMMA JUnchanged == ASSUME JInv, UNCHANGED jvars PROVE JInv'
BY DEF JInv, jvars, JournalTypeOK, JOrdered, JNewest, JSuffix, Steady

LEMMA JInductive == JInv /\ [StoresNext]_storevars => JInv'
<1> SUFFICES ASSUME JInv, [StoresNext]_storevars PROVE JInv'
  OBVIOUS
<1>1. CASE JournalNext
  BY <1>1, AppendKeeps, CompactKeeps, ReplayKeeps, CrashInWriteKeeps, ClearKeeps, ResizeKeeps DEF JournalNext
<1>2. CASE UNCHANGED jvars
  BY <1>2, JUnchanged
<1>3. CASE JournalReset
  BY <1>3, JResetKeeps
<1> QED
  BY <1>1, <1>2, <1>3 DEF StoresNext, EngineReset, storevars

LEMMA JAlways == StoresSpec => []JInv
<1>1. StoresInit => JInv
  BY JStart DEF StoresInit
<1> QED
  BY <1>1, JInductive, PTL DEF StoresSpec

(* The stores of a session are well formed after any sequence of resets,     *)
(* failed writes, compactions and replays.                                   *)
THEOREM StoresTypeCorrect == StoresSpec => []StoresTypeOK
<1>1. JInv /\ CkInv => StoresTypeOK
  BY DEF JInv, CkInv, StoresTypeOK
<1> QED
  BY <1>1, JAlways, CkAlways, PTL

(* A replay runs every batch at most once and in order.                      *)
THEOREM ReplayInOrder == StoresSpec => []JournalInOrder
<1>1. JInv => JournalInOrder
  BY DEF JInv, JOrdered, Ordered, JournalInOrder
<1> QED
  BY <1>1, JAlways, PTL

(* The newest batch can be replayed after any reset of the engine.           *)
THEOREM NewestIsKept == StoresSpec => []NewestSurvives
<1>1. JInv => NewestSurvives
  BY DEF JInv, JNewest, Steady, EndsLike, NewestSurvives, Lost
<1> QED
  BY <1>1, JAlways, PTL

(* What a session can replay from memory, a later one can from the file.     *)
THEOREM FileIsAhead == StoresSpec => []FileHasMemory
<1>1. JInv => FileHasMemory
  BY EndsIsSuffix DEF JInv, JSuffix, JournalTypeOK, Steady, FileHasMemory, Lost
<1> QED
  BY <1>1, JAlways, PTL
=============================================================================
