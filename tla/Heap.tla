-------------------------------- MODULE Heap --------------------------------
(* resources/scripts/heap.jsx: the index from MCP ids to page items that      *)
(* outlives a batch in $.global, and the transaction a batch keeps on it.     *)
(* An entry carries the __mcpSuspect flag of its reference.                   *)
EXTENDS Artwork

CONSTANTS NoTxn,        \* _heapTxn = null
          NoItem,       \* the null a lookup returns
          RebuildCap    \* _HEAP_REBUILD_CAP

ASSUME HeapAssumption == RebuildCap \in Nat /\ NoItem \notin Items

Entry == [item: Items, suspect: BOOLEAN]
IsMap(f)   == DOMAIN f \subseteq Ids /\ \A u \in DOMAIN f : f[u] \in Entry
IsTxn(t)   == /\ DOMAIN t = {"added", "deleted", "tomb", "resync"}
              /\ t.added \subseteq Ids /\ t.tomb \subseteq Ids
              /\ t.resync \in BOOLEAN /\ IsMap(t.deleted)
IsHeap(h)  == IsMap(h.index) /\ (h.txn = NoTxn \/ IsTxn(h.txn))

HeapOf(index, txn) == [index |-> index, txn |-> txn]
TxnOf(added, deleted, tomb, resync) ==
    [added |-> added, deleted |-> deleted, tomb |-> tomb, resync |-> resync]
EmptyHeap == HeapOf(<<>>, NoTxn)
Without(f, S) == Restrict(f, DOMAIN f \ S)
FreshEntry(i) == [item |-> i, suspect |-> FALSE]

(* A transaction left open is discarded, its marks on the index stay. *)
BeginTxn(h) == HeapOf(h.index, TxnOf({}, <<>>, {}, FALSE))

CommitTxn(h) ==
    IF h.txn = NoTxn THEN h
    ELSE HeapOf(Without(h.index, DOMAIN h.txn.deleted), NoTxn)

RollbackTxn(h) ==
    IF h.txn = NoTxn THEN h
    ELSE HeapOf(Over(h.txn.deleted, Without(h.index, h.txn.added)), NoTxn)

Register(h, u, i) ==
    HeapOf(Over(Only(u, FreshEntry(i)), h.index),
           IF h.txn = NoTxn THEN NoTxn
           ELSE TxnOf(h.txn.added \cup {u}, Without(h.txn.deleted, {u}), h.txn.tomb \ {u}, h.txn.resync))

(* heapTombstone of every id of S. *)
Tombstone(h, S) ==
    HeapOf(Without(h.index, S),
           IF h.txn = NoTxn THEN NoTxn
           ELSE TxnOf(h.txn.added, Over(Restrict(h.index, S \cap DOMAIN h.index), h.txn.deleted),
                      h.txn.tomb \cup S, h.txn.resync))

(* Mutant: the scan does not look at the tombstones of the transaction.        *)
RebuiltWithTombs(h, dom, d) ==
    {HeapOf([u \in DOMAIN f |-> FreshEntry(f[u])], h.txn) :
       f \in {f \in [{dom.art[i].id : i \in Managed(dom, d)} -> Managed(dom, d)] :
                 \A u \in DOMAIN f : dom.art[f[u]].id = u}}

(* The scan indexes at most RebuildCap items of the document; of two items    *)
(* with one id it keeps the one it meets last.                                *)
Rebuilt(h, dom, d) ==
    LET seen == {S \in SUBSET Managed(dom, d) :
                    Cardinality(S) = IF Cardinality(Managed(dom, d)) <= RebuildCap
                                     THEN Cardinality(Managed(dom, d)) ELSE RebuildCap}
        ids(S) == {dom.art[i].id : i \in S} \ (IF h.txn = NoTxn THEN {} ELSE h.txn.tomb)
    IN {HeapOf([u \in DOMAIN f |-> FreshEntry(f[u])], h.txn) :
          f \in UNION {{f \in [ids(S) -> S] : \A u \in ids(S) : dom.art[f[u]].id = u} :
                       S \in seen}}

(* Mutant: a reference that can be read is taken for the right one. *)
LookUnchecked(h, dom, u, glitch) ==
    IF u \in DOMAIN h.index /\ ~glitch /\ h.index[u].item \in DOMAIN dom.art
    THEN [heap |-> h, item |-> h.index[u].item]
    ELSE [heap |-> HeapOf(Without(h.index, {u}), h.txn), item |-> NoItem]

(* heapResolve up to the resync: the entry is checked against the item's      *)
(* note.  Reading the note of a dead reference throws, and so it may for a    *)
(* moment on a live one (glitch).                                             *)
Look(h, dom, u, glitch) ==
    LET e == h.index[u]
        evicted == HeapOf(Without(h.index, {u}), h.txn)
        marked(suspect) == HeapOf([h.index EXCEPT ![u] = [item |-> e.item, suspect |-> suspect]], h.txn)
    IN CASE u \notin DOMAIN h.index -> [heap |-> h, item |-> NoItem]
         [] u \in DOMAIN h.index /\ (glitch \/ e.item \notin DOMAIN dom.art) ->
              [heap |-> IF e.suspect THEN evicted
                        ELSE marked(TRUE), item |-> NoItem]
         [] u \in DOMAIN h.index /\ ~glitch /\ e.item \in DOMAIN dom.art ->
              IF dom.art[e.item].id = u
              THEN [heap |-> marked(FALSE), item |-> e.item]
              ELSE [heap |-> evicted, item |-> NoItem]

(* heapResolve: the set of its outcomes. *)
Resolve(h, dom, d, u, glitch) ==
    LET first == Look(h, dom, u, glitch)
        second(r) == [heap |-> HeapOf(r.index, TxnOf(r.txn.added, r.txn.deleted, r.txn.tomb, TRUE)),
                      item |-> IF u \in DOMAIN r.index THEN r.index[u].item ELSE NoItem]
    IN IF h.txn # NoTxn /\ u \in h.txn.tomb THEN {[heap |-> h, item |-> NoItem]}
       ELSE IF first.item = NoItem /\ h.txn # NoTxn /\ ~h.txn.resync
            THEN {second(r) : r \in Rebuilt(first.heap, dom, d)}
            ELSE {first}
=============================================================================
