------------------------------- MODULE Journal -------------------------------
(* resources/scripts/ops_journal.jsx and the recompute gate of ops_core.jsx:  *)
(* the journal of the batches run on documents of one name.  It is kept in    *)
(* $.global, by name, until the engine is reset, and in a file, by name and   *)
(* size of the first artboard.  An entry is the number of its batch.          *)
EXTENDS Naturals, Sequences, SequencesExt

CONSTANTS Prints,       \* artboard sizes of the documents of this name
          Absent,       \* not in $.global, or no such file
          Corrupt,      \* a file whose writing was cut short
          KeepEntries,  \* maxEntries of a compaction
          MaxEntries    \* bound: batches journalled

ASSUME JournalAssumption ==
    /\ KeepEntries \in Nat \ {0} /\ MaxEntries \in Nat
    /\ Absent # Corrupt /\ {Absent, Corrupt} \cap Seq(1..MaxEntries) = {}

VARIABLES jmem,     \* $.global.mcpJournal[docName]
          jfile,    \* the files, by print
          jprint,   \* the size of the active document's first artboard
          jcount,   \* batches journalled so far
          jart,     \* the batches whose artwork is in the document
          jhist     \* history: the entries that should be there, and whether
                    \* the print has changed or a file write has failed

jvars == <<jmem, jfile, jprint, jcount, jart, jhist>>

Entries == 1..MaxEntries
Lost(f) == f \in {Absent, Corrupt}

JournalTypeOK ==
    /\ jmem \in Seq(Entries) \cup {Absent}
    /\ jfile \in [Prints -> Seq(Entries) \cup {Absent, Corrupt}]
    /\ jprint \in Prints /\ jcount \in 0..MaxEntries
    /\ jart \subseteq Entries
    /\ jhist \in [entries: Seq(Entries), moved: BOOLEAN, broken: BOOLEAN]

JournalInit ==
    /\ jmem = Absent
    /\ jfile = [p \in Prints |-> Absent]
    /\ jprint \in Prints
    /\ jcount = 0 /\ jart = {}
    /\ jhist = [entries |-> <<>>, moved |-> FALSE, broken |-> FALSE]

(* journalGet: memory first; what is read from the file is put in memory.     *)
journalGet ==
    IF jmem # Absent THEN jmem
    ELSE IF Lost(jfile[jprint]) THEN <<>> ELSE jfile[jprint]
(* Mutant: what is in the file is put in memory before it is parsed. *)
LoadedUnparsed == IF jmem = Absent /\ jfile[jprint] # Absent THEN jfile[jprint] ELSE jmem
Loaded == IF jmem = Absent /\ ~Lost(jfile[jprint]) THEN jfile[jprint] ELSE jmem
LastOf(s, n) == IF Len(s) > n THEN SubSeq(s, Len(s) - n + 1, Len(s)) ELSE s

(* Mutant: memory is filled from the file once the entry is in it already. *)
journalAppendReloaded(written) ==
    LET e == jcount + 1
        file == jfile[jprint]
        kept == written /\ file # Corrupt
        longer == IF file = Absent THEN <<e>> ELSE Append(file, e)
    IN /\ jcount < MaxEntries
       /\ jcount' = e
       /\ jmem' = Append(IF jmem # Absent THEN jmem ELSE IF kept THEN longer ELSE <<>>, e)
       /\ jfile' = IF kept THEN [jfile EXCEPT ![jprint] = longer] ELSE jfile
       /\ jart' = jart \cup {e}
       /\ jhist' = [jhist EXCEPT !.entries = Append(@, e), !.broken = @ \/ ~kept]
       /\ UNCHANGED <<jprint>>

(* Memory starts anew after a reset; the file is read, extended and written   *)
(* back.  A file that cannot be parsed is left as it is, a failed write too;  *)
(* neither is reported.                                                       *)
journalAppend(written) ==
    LET e == jcount + 1
        file == jfile[jprint]
        kept == written /\ file # Corrupt
    IN /\ jcount < MaxEntries
       /\ jcount' = e
       /\ jmem' = IF jmem = Absent THEN <<e>> ELSE Append(jmem, e)
       /\ jfile' = IF kept THEN [jfile EXCEPT ![jprint] = IF file = Absent THEN <<e>> ELSE Append(file, e)]
                   ELSE jfile
       /\ jart' = jart \cup {e}
       /\ jhist' = [jhist EXCEPT !.entries = Append(@, e), !.broken = @ \/ ~kept]
       /\ UNCHANGED <<jprint>>

(* Illustrator ends while an append or a compaction writes the file, which is *)
(* left half written or empty; an empty file is read like none.               *)
CrashInWrite ==
    /\ jcount' \in {jcount, jcount + 1} /\ jcount' <= MaxEntries
    /\ jmem' = Absent
    /\ \E left \in {Absent, Corrupt} : jfile' = [jfile EXCEPT ![jprint] = left]
    /\ jhist' = [jhist EXCEPT !.broken = TRUE]
    /\ UNCHANGED <<jprint, jart>>

Read == /\ jmem' = Loaded
        /\ UNCHANGED <<jfile, jprint, jcount, jart, jhist>>

journalClear ==
    /\ jmem' = Absent
    /\ jfile' = [jfile EXCEPT ![jprint] = Absent]
    /\ jhist' = [jhist EXCEPT !.entries = <<>>]
    /\ UNCHANGED <<jprint, jcount, jart>>

(* Mutants: the oldest entries are kept; the file is compacted, memory is not. *)
journalCompactOldest(written) ==
    LET kept == SubSeq(journalGet, 1, IF Len(journalGet) < KeepEntries THEN Len(journalGet) ELSE KeepEntries)
    IN /\ journalGet # <<>>
       /\ jmem' = kept
       /\ jfile' = IF written THEN [jfile EXCEPT ![jprint] = kept] ELSE jfile
       /\ jhist' = [jhist EXCEPT !.broken = @ \/ ~written]
       /\ UNCHANGED <<jprint, jcount, jart>>
journalCompactFile(written) ==
    LET kept == LastOf(journalGet, KeepEntries)
    IN /\ journalGet # <<>>
       /\ jfile' = IF written THEN [jfile EXCEPT ![jprint] = kept] ELSE jfile
       /\ jhist' = [jhist EXCEPT !.entries = LastOf(@, Len(kept)), !.broken = @ \/ ~written]
       /\ UNCHANGED <<jmem, jprint, jcount, jart>>

(* Both stores get the last KeepEntries of what journalGet returned; a file   *)
(* over maxBytes loses more, down to one entry.                               *)
journalCompact(written) ==
    LET kept == LastOf(journalGet, KeepEntries)
    IN /\ journalGet # <<>>
       /\ \E n \in 1..Len(kept) :
            /\ jmem' = LastOf(kept, n)
            /\ jfile' = IF written THEN [jfile EXCEPT ![jprint] = LastOf(kept, n)] ELSE jfile
            /\ jhist' = [jhist EXCEPT !.entries = LastOf(@, n), !.broken = @ \/ ~written]
       /\ UNCHANGED <<jprint, jcount, jart>>

(* The user resizes the first artboard or turns to a document of that name.   *)
Resize == /\ jprint' \in Prints \ {jprint}
          /\ jhist' = [jhist EXCEPT !.moved = TRUE]
          /\ UNCHANGED <<jmem, jfile, jcount, jart>>

JournalReset == jmem' = Absent /\ UNCHANGED <<jfile, jprint, jcount, jart, jhist>>

(* journalReplay after the managed items were removed: strict stops at the    *)
(* first batch that fails, whose artwork stays away or half done.             *)
Replayed(n) == {journalGet[k] : k \in 1..n}
Recompute ==
    /\ journalGet # <<>>
    /\ jmem' = Loaded
    /\ jart' = Replayed(Len(journalGet))
    /\ UNCHANGED <<jfile, jprint, jcount, jhist>>
RecomputeFails ==               \* reported with rolledBack: true
    /\ journalGet # <<>>
    /\ jmem' = Loaded
    /\ \E n \in 1..Len(journalGet) : jart' \in {Replayed(n - 1), Replayed(n)}
    /\ UNCHANGED <<jfile, jprint, jcount, jhist>>
RecomputeStuck ==               \* an item could not be removed
    /\ journalGet # <<>> /\ jart # {}
    /\ jmem' = Loaded
    /\ jart' \in (SUBSET jart) \ {{}}
    /\ UNCHANGED <<jfile, jprint, jcount, jhist>>

(* journalReplay by itself, on top of what is there: "skip" replays all it    *)
(* can, "rollback" removes what the replay made and restores styles.          *)
Replay(onError, from) ==
    LET todo == {k \in 1..Len(journalGet) : k > from}
    IN /\ journalGet # <<>>
       /\ jmem' = Loaded
       /\ jart' \in CASE onError = "skip" -> {jart \cup {journalGet[k] : k \in S} : S \in SUBSET todo}
                      [] onError = "strict" -> {jart \cup {journalGet[k] : k \in {x \in todo : x <= n}} : n \in 0..Len(journalGet)}
                      [] onError = "rollback" -> {jart, jart \cup {journalGet[k] : k \in todo}}
       /\ UNCHANGED <<jfile, jprint, jcount, jhist>>

JournalNext ==
    \/ \E written \in BOOLEAN : journalAppend(written) \/ journalCompact(written)
    \/ CrashInWrite \/ Read \/ journalClear \/ Resize
    \/ Recompute \/ RecomputeFails \/ RecomputeStuck
    \/ \E onError \in {"strict", "skip", "rollback"}, from \in 0..1 : Replay(onError, from)

-----------------------------------------------------------------------------
(* No journal, in memory or on file, holds a batch twice or out of order,     *)
(* whatever resets, failed writes, compactions and reloads came between: a    *)
(* replay runs every batch at most once and in the order of the session.      *)
Increasing(s) == \A a, b \in DOMAIN s : a < b => s[a] < s[b]
JournalInOrder ==
    /\ jmem # Absent => Increasing(jmem)
    /\ \A p \in Prints : ~Lost(jfile[p]) => Increasing(jfile[p])

(* The newest entry survives a reset of the engine, while the document keeps  *)
(* its size and its files can be written.                                     *)
NewestSurvives ==
    ~jhist.moved /\ ~jhist.broken /\ jhist.entries # <<>> =>
        /\ ~Lost(jfile[jprint])
        /\ Last(jfile[jprint]) = Last(jhist.entries)

(* Memory never knows an entry that the file does not have, under the same    *)
(* conditions: what a session replays, a later one can.                       *)
FileHasMemory ==
    ~jhist.moved /\ ~jhist.broken /\ jmem # Absent =>
        /\ ~Lost(jfile[jprint])
        /\ IsSuffix(jmem, jfile[jprint])

(* ops_journal.jsx:7 "Fallback: ~/mcp_journal_... (survives engine reset)":   *)
(* with a file that is written every time, journalGet returns every entry     *)
(* appended and not compacted away.                                           *)
JournalComplete ==
    ~jhist.moved /\ ~jhist.broken => journalGet = jhist.entries
=============================================================================
