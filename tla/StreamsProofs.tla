---------------------------- MODULE StreamsProofs ----------------------------
(***************************************************************************)
(* What the consumers of streams are given, for any number of calls and    *)
(* connections, every size of a queue and every number of updates: what    *)
(* they are told is true, in order, and ends.                              *)
(***************************************************************************)
EXTENDS Streams, SequenceTheorems, TLAPS

USE StreamsAssumption

-----------------------------------------------------------------------------
(* The inductive invariant *)

(* Positions in a connection of the messages about a call, and the calls    *)
(* whose request has not been taken up by the panel.                        *)
Of(c, s)  == {k \in DOMAIN toServer[s] : toServer[s][k].call = c}
Queued(c) == \E s \in Sockets : \E k \in DOMAIN toPanel[s] : toPanel[s][k] = c

(* What the place of a generator says of its entry and of what was told.    *)
PlaceOK(r) ==
    /\ r.at \in {"idle", "sending"} => ~r.began /\ r.told = <<>>
    /\ r.at = "idle" => ~r.entry /\ r.queue = <<>>
    /\ r.at = "sending" /\ ~r.entry => r.excused
    /\ r.at = "waiting" => \A k \in DOMAIN r.told : r.told[k] \in Updates
    /\ r.at = "given" => /\ r.told # <<>>
                         /\ Last(r.told) \in Updates \cup Finals \cup {End("timeout")}
    /\ r.at = "over" => r.told = EndOf(r.told) /\ (r.began => ~r.entry)
    /\ r.at \in {"left", "over"} /\ ~r.excused => r.told # <<>> /\ Last(r.told) \in Ends

(* An update may only come after updates of smaller numbers.                *)
Ahead(x, y) == y \in Updates => x \in Updates /\ x[2] < y[2]

(* The consumer may still be given what is in the queue.                    *)
Reading(r) == \/ r.at \in {"sending", "waiting"}
              \/ r.at = "given" /\ Last(r.told) \in Updates

ToldInOrder(r) ==
    /\ \A j, k \in DOMAIN r.told : j < k => r.told[j] \in Updates /\ Ahead(r.told[j], r.told[k])
    /\ ~r.full => \A k \in DOMAIN r.told : r.told[k] \in Updates => r.told[k] = Update(k)
QueueInOrder(r) ==
    /\ r.at # "over" => \A j, k \in DOMAIN r.queue : j < k => Ahead(r.queue[j], r.queue[k])
    /\ Reading(r) => \A j \in DOMAIN r.told, k \in DOMAIN r.queue : Ahead(r.told[j], r.queue[k])
    /\ Reading(r) /\ ~r.full => \A k \in DOMAIN r.queue :
          r.queue[k] \in Updates => r.queue[k] = Update(Len(r.told) + k)

StreamOK(r) == /\ r \in Stream /\ Len(r.queue) <= QueueSize
               /\ PlaceOK(r) /\ ToldInOrder(r) /\ QueueInOrder(r)

(* A request is under way once.                                             *)
OneCopy ==
    \A s, t \in Sockets : \A k \in DOMAIN toPanel[s], l \in DOMAIN toPanel[t] :
        toPanel[s][k] = toPanel[t][l] => s = t /\ k = l

(* What was given to the consumer of r or waits for it.                     *)
Given(r) == {r.told[k] : k \in DOMAIN r.told} \cup {r.queue[k] : k \in DOMAIN r.queue}

(* A script has not run before its request is taken up, and runs once.      *)
Once(c) ==
    /\ At(c, "idle") => script[c] = "none" /\ ~Queued(c) /\ \A s \in Sockets : Of(c, s) = {}
    /\ Queued(c) => script[c] = "none"
    /\ active # None /\ active[1] = c => script[c] = "running"

(* Until the script has ended nothing is heard of it.                       *)
Unheard(c) ==
    Queued(c) \/ script[c] = "running" =>
        /\ \A s \in Sockets : Of(c, s) = {}
        /\ Given(stream[c]) \cap Updates = {}
        /\ stream[c].entry /\ stream[c].at # "over" => stream[c].queue = <<>>

(* A result is true wherever it has come to.                                *)
Holds(c, x) ==
    /\ x = End("completed") => script[c] = "done"
    /\ x \in {End("not_started"), End("refused")} => script[c] = "none" /\ ~Queued(c)
Evidence(c) ==
    /\ \A x \in Given(stream[c]) : Holds(c, x)
    /\ \A s \in Sockets : \A k \in Of(c, s) : Holds(c, toServer[s][k].body)

(* The messages about a call are on one connection, in order, and continue  *)
(* what its consumer was given.                                             *)
Precedes(c, x) == \A s \in Sockets : \A k \in Of(c, s) : Ahead(x, toServer[s][k].body)
Continues(c, s, k) ==
    \/ k > 1 /\ toServer[s][k - 1] = [call |-> c, body |-> Update(toServer[s][k].body[2] - 1)]
    \/ /\ \A j \in Of(c, s) : j >= k
       /\ toServer[s][k].body = Update(Len(stream[c].told) + Len(stream[c].queue) + 1)
Pending(c) ==
    LET r == stream[c] IN
    /\ \A s, t \in Sockets : Of(c, s) # {} /\ Of(c, t) # {} => s = t
    /\ \A s \in Sockets : \A j, k \in Of(c, s) : j < k => Ahead(toServer[s][j].body, toServer[s][k].body)
    /\ r.entry /\ r.at # "over" => \A j \in DOMAIN r.queue : Precedes(c, r.queue[j])
    /\ r.entry /\ Reading(r) => \A j \in DOMAIN r.told : Precedes(c, r.told[j])
    /\ End("completed") \in Given(r) => Precedes(c, End("completed"))
    /\ r.entry /\ Reading(r) /\ ~r.full =>
          \A s \in Sockets : \A k \in Of(c, s) : toServer[s][k].body \in Updates => Continues(c, s, k)

CallOK(c) == Once(c) /\ Unheard(c) /\ Evidence(c) /\ Pending(c)

(* The types of the variables but stream, whose records are in StreamOK.    *)
LinkTypeOK ==
    /\ conn \in [Sockets -> {"new", "open", "dead", "gone"}]
    /\ slot \in Sockets \cup {None}
    /\ toPanel \in [Sockets -> Seq(Calls)] /\ toServer \in [Sockets -> Seq(Message)]
    /\ active \in {None} \cup (Calls \X Sockets)
    /\ script \in [Calls -> {"none", "running", "done", "thrown"}]
    /\ DOMAIN stream = Calls /\ stream = [c \in Calls |-> stream[c]]

StreamsInv == /\ LinkTypeOK /\ OneCopy
              /\ \A c \in Calls : StreamOK(stream[c]) /\ CallOK(c)

-----------------------------------------------------------------------------
(* Tokens and queues *)

LEMMA Tokens ==
    /\ Updates \cap Ends = {}
    /\ \A x \in Updates : x[2] \in Nat /\ x = Update(x[2])
    /\ \A n \in UpdateCounts : \A k \in 1..n : Update(k) \in Updates
    /\ \A k \in Nat : Update(k)[2] = k
    /\ Finals \subseteq Ends
<1>1. \A n \in UpdateCounts : n \in Nat
  OBVIOUS
<1>2. \A x \in Updates : \E k \in Nat : x = Update(k)
  BY <1>1 DEF Updates
<1>3. \A k : Update(k)[2] = k /\ Update(k)[1] = "progress"
  BY DEF Update
<1>4. \A x \in Ends : x[1] # "progress"
  BY DEF Ends, Finals, End
<1>5. \A n \in UpdateCounts : \A k \in 1..n : Update(k) \in Updates
  BY DEF Updates
<1> QED
  BY <1>2, <1>3, <1>4, <1>5 DEF Ends

LEMMA EndsDiffer ==
    /\ {End("completed"), End("not_started"), End("unknown"), End("cancelled")} = Finals
    /\ \A how, other : how # other => End(how) # End(other)
<1>1. \A how : End(how)[1] = how
  BY DEF End
<1> QED
  BY <1>1 DEF Finals

LEMMA NoDomain ==
    ASSUME NEW S, NEW t \in Seq(S)
    PROVE  /\ DOMAIN t = 1..Len(t) /\ Len(t) \in Nat
           /\ DOMAIN t = {} <=> t = <<>>
<1>1. DOMAIN t = 1..Len(t) /\ Len(t) \in Nat
  BY LenProperties
<1>2. t # <<>> => 1 \in DOMAIN t
  <2>1. t # <<>> => Len(t) \in Nat \ {0}
    BY EmptySeq
  <2> QED
    BY <1>1, <2>1
<1>3. DOMAIN <<>> = {}
  OBVIOUS
<1> QED
  BY <1>1, <1>2, <1>3

LEMMA LastOf ==
    ASSUME NEW S, NEW t \in Seq(S), t # <<>>
    PROVE  Last(t) \in S /\ Last(t) = t[Len(t)] /\ Len(t) \in DOMAIN t /\ Len(t) \in Nat \ {0}
BY EmptySeq DEF Last

LEMMA EndOfFacts ==
    ASSUME NEW t \in Seq(Updates \cup Ends)
    PROVE  /\ EndOf(t) \in Seq(Updates \cup Ends)
           /\ EndOf(EndOf(t)) = EndOf(t)
           /\ Len(EndOf(t)) <= 1
           /\ \A k \in DOMAIN EndOf(t) : EndOf(t)[k] \in Ends /\ EndOf(t)[k] = Last(t) /\ t # <<>>
           /\ t # <<>> /\ Last(t) \in Ends => EndOf(t) # <<>> /\ Last(EndOf(t)) = Last(t)
<1>1. CASE t # <<>> /\ Last(t) \in Ends
  <2> DEFINE e == Last(t)
  <2>1. e \in Ends /\ EndOf(t) = <<e>>
    BY <1>1 DEF EndOf
  <2> HIDE DEF e
  <2>2. /\ <<e>> \in Seq(Updates \cup Ends) /\ Len(<<e>>) = 1 /\ DOMAIN <<e>> = 1..1
        /\ <<e>>[1] = e /\ <<e>> # <<>> /\ Last(<<e>>) = e
    BY <2>1 DEF Last
  <2>3. EndOf(<<e>>) = <<e>>
    BY <2>1, <2>2 DEF EndOf
  <2> QED
    BY <1>1, <2>1, <2>2, <2>3 DEF e
<1>2. CASE ~(t # <<>> /\ Last(t) \in Ends)
  <2>1. EndOf(t) = <<>>
    BY <1>2 DEF EndOf
  <2>2. EndOf(<<>>) = <<>>
    BY DEF EndOf
  <2> QED
    BY <1>2, <2>1, <2>2
<1> QED
  BY <1>1, <1>2

-----------------------------------------------------------------------------
(* Generators that end *)

LEMMA OverOK ==
    ASSUME NEW r \in Stream, Len(r.queue) <= QueueSize, r.at = "over",
           r.told = EndOf(r.told), r.began => ~r.entry,
           ~r.excused => r.told # <<>> /\ Last(r.told) \in Ends
    PROVE  StreamOK(r)
<1>1. r.told \in Seq(Updates \cup Ends)
  BY DEF Stream
<1>2. Len(r.told) <= 1 /\ \A k \in DOMAIN r.told : r.told[k] \in Ends
  BY <1>1, EndOfFacts
<1>3. ToldInOrder(r)
  <2>1. \A j, k \in DOMAIN r.told : ~(j < k)
    BY <1>1, <1>2
  <2>2. \A k \in DOMAIN r.told : r.told[k] \notin Updates
    BY <1>2, Tokens
  <2> QED
    BY <2>1, <2>2 DEF ToldInOrder
<1>4. QueueInOrder(r)
  BY DEF QueueInOrder, Reading
<1> QED
  BY <1>3, <1>4 DEF StreamOK, PlaceOK

LEMMA EndedOK ==
    ASSUME NEW r \in Stream, Len(r.queue) <= QueueSize, ~(r.began /\ r.entry),
           ~r.excused => r.told # <<>> /\ Last(r.told) \in Ends
    PROVE  /\ StreamOK(Ended(r)) /\ Ended(r).at = "over"
           /\ Ended(r).entry = r.entry /\ Ended(r).told = EndOf(r.told)
           /\ Ended(r).queue \in {r.queue, <<>>}
<1> DEFINE e == Ended(r)
<1>1. r.told \in Seq(Updates \cup Ends)
  BY DEF Stream
<1>2. EndOf(r.told) \in Seq(Updates \cup Ends)
  BY <1>1, EndOfFacts
<1>3. /\ e.at = "over" /\ e.on = None /\ e.entry = r.entry /\ e.completed = r.completed
      /\ e.queue = (IF r.entry THEN r.queue ELSE <<>>) /\ e.told = EndOf(r.told)
      /\ e.began = (r.began /\ r.entry) /\ e.excused = r.excused /\ e.full = FALSE
  BY DEF Ended, Stream
<1>4. e \in Stream
  <2> DEFINE q == IF r.entry THEN r.queue ELSE <<>>
             b == r.began /\ r.entry
  <2> DEFINE x == EndOf(r.told)
  <2>1. e = [r EXCEPT !.at = "over", !.on = None, !.began = b, !.full = FALSE, !.queue = q, !.told = x]
    BY DEF Ended
  <2>2. q \in Seq(Updates \cup Finals)
    BY DEF Stream
  <2>3. b \in BOOLEAN
    OBVIOUS
  <2> HIDE DEF e, q, b, x
  <2> QED
    BY <1>2, <2>1, <2>2, <2>3 DEF Stream, x
<1>5. Len(e.queue) <= QueueSize
  BY <1>3
<1>6. e.told = EndOf(e.told)
  BY <1>1, <1>3, EndOfFacts
<1>7. ~e.excused => e.told # <<>> /\ Last(e.told) \in Ends
  BY <1>1, <1>3, EndOfFacts
<1> HIDE DEF e
<1>8. StreamOK(e)
  BY <1>3, <1>4, <1>5, <1>6, <1>7, OverOK
<1> QED
  BY <1>3, <1>8 DEF e

LEMMA RemovedOK ==
    ASSUME NEW r \in Stream, Len(r.queue) <= QueueSize,
           ~r.excused => r.told # <<>> /\ Last(r.told) \in Ends
    PROVE  /\ StreamOK(Removed(r)) /\ Removed(r).at = "over"
           /\ ~Removed(r).entry /\ Removed(r).told = EndOf(r.told)
           /\ Removed(r).queue \in {r.queue, <<>>}
<1> DEFINE e == [r EXCEPT !.entry = FALSE]
<1>1. e \in Stream /\ e.told = r.told /\ e.excused = r.excused /\ e.queue = r.queue /\ ~e.entry
  BY DEF Stream
<1> HIDE DEF e
<1> QED
  BY <1>1, EndedOK DEF Removed, e

-----------------------------------------------------------------------------
(* The registry writes to a queue, or finds it full *)

(* e is r with one token more in its queue, or with the mark of a full one. *)
SamePlace(r, e) ==
    /\ e.at = r.at /\ e.told = r.told /\ e.began = r.began
    /\ e.entry => r.entry
    /\ r.excused => e.excused
    /\ r.at = "sending" /\ ~e.entry => e.excused

LEMMA SamePlaceOK ==
    ASSUME NEW r, NEW e, PlaceOK(r), SamePlace(r, e), r.entry
    PROVE  PlaceOK(e) /\ e.at # "idle" /\ (Reading(e) <=> Reading(r))
BY DEF PlaceOK, SamePlace, Reading

LEMMA AppendOK ==
    ASSUME NEW r, StreamOK(r), r.entry, NEW e \in Stream, SamePlace(r, e), e.full = r.full,
           NEW x \in Updates \cup Finals, e.queue = Append(r.queue, x), ~Full(r.queue),
           r.at # "over" => \A j \in DOMAIN r.queue : Ahead(r.queue[j], x),
           Reading(r) => \A j \in DOMAIN r.told : Ahead(r.told[j], x),
           Reading(r) /\ ~r.full /\ x \in Updates => x = Update(Len(r.told) + Len(r.queue) + 1)
    PROVE  StreamOK(e)
<1>1. r.queue \in Seq(Updates \cup Finals) /\ r.told \in Seq(Updates \cup Ends)
  BY DEF StreamOK, Stream
<1>2. PlaceOK(e) /\ (Reading(e) <=> Reading(r))
  BY SamePlaceOK DEF StreamOK
<1>3. /\ Len(e.queue) = Len(r.queue) + 1 /\ DOMAIN e.queue = 1..Len(r.queue) + 1
      /\ \A k \in 1..Len(r.queue) : e.queue[k] = r.queue[k]
      /\ e.queue[Len(r.queue) + 1] = x /\ DOMAIN r.queue = 1..Len(r.queue)
      /\ Len(r.queue) \in Nat /\ Len(r.told) \in Nat
  BY <1>1, AppendProperties
<1>4. Len(e.queue) <= QueueSize
  BY <1>3 DEF Full
<1>5. ToldInOrder(e)
  BY DEF StreamOK, ToldInOrder, SamePlace
<1>6. QueueInOrder(e)
  <2>1. ASSUME e.at # "over", NEW j \in DOMAIN e.queue, NEW k \in DOMAIN e.queue, j < k
        PROVE  Ahead(e.queue[j], e.queue[k])
    <3>1. CASE k = Len(r.queue) + 1
      BY <1>3, <2>1, <3>1 DEF SamePlace
    <3>2. CASE k # Len(r.queue) + 1
      BY <1>3, <2>1, <3>2 DEF SamePlace, StreamOK, QueueInOrder
    <3> QED
      BY <3>1, <3>2
  <2>2. ASSUME Reading(e), NEW j \in DOMAIN e.told, NEW k \in DOMAIN e.queue
        PROVE  Ahead(e.told[j], e.queue[k])
    <3>1. CASE k = Len(r.queue) + 1
      BY <1>2, <1>3, <2>2, <3>1 DEF SamePlace
    <3>2. CASE k # Len(r.queue) + 1
      BY <1>2, <1>3, <2>2, <3>2 DEF SamePlace, StreamOK, QueueInOrder
    <3> QED
      BY <3>1, <3>2
  <2>3. ASSUME Reading(e), ~e.full, NEW k \in DOMAIN e.queue, e.queue[k] \in Updates
        PROVE  e.queue[k] = Update(Len(e.told) + k)
    <3>1. CASE k = Len(r.queue) + 1
      <4>0. e.told = r.told
        BY DEF SamePlace
      <4>1. Len(r.told) + Len(r.queue) + 1 = Len(e.told) + k
        <5>1. \A a, b \in Nat : a + b + 1 = a + (b + 1)
          OBVIOUS
        <5> QED
          BY <1>3, <3>1, <4>0, <5>1
      <4> QED
        BY <1>2, <1>3, <2>3, <3>1, <4>1
    <3>2. CASE k # Len(r.queue) + 1
      BY <1>2, <1>3, <2>3, <3>2 DEF SamePlace, StreamOK, QueueInOrder
    <3> QED
      BY <3>1, <3>2
  <2> QED
    BY <2>1, <2>2, <2>3 DEF QueueInOrder
<1> QED
  BY <1>2, <1>4, <1>5, <1>6 DEF StreamOK

LEMMA MarkedOK ==
    ASSUME NEW r, StreamOK(r), r.entry, NEW e \in Stream, SamePlace(r, e), e.full = TRUE,
           e.queue = r.queue
    PROVE  StreamOK(e)
<1>1. PlaceOK(e) /\ (Reading(e) <=> Reading(r))
  BY SamePlaceOK DEF StreamOK
<1>2. ToldInOrder(e)
  BY DEF StreamOK, ToldInOrder, SamePlace
<1>3. QueueInOrder(e)
  BY <1>1 DEF StreamOK, QueueInOrder, SamePlace
<1> QED
  BY <1>1, <1>2, <1>3 DEF StreamOK

LEMMA PushOK ==
    ASSUME NEW r, StreamOK(r), NEW x \in Updates,
           r.entry /\ r.at # "over" => \A j \in DOMAIN r.queue : Ahead(r.queue[j], x),
           r.entry /\ Reading(r) => \A j \in DOMAIN r.told : Ahead(r.told[j], x),
           r.entry /\ Reading(r) /\ ~r.full => x = Update(Len(r.told) + Len(r.queue) + 1)
    PROVE  StreamOK(push_update(r, x))
<1> DEFINE e == push_update(r, x)
<1>0. r \in Stream /\ r.queue \in Seq(Updates \cup Finals)
  BY DEF StreamOK, Stream
<1>1. CASE ~r.entry
  BY <1>1 DEF push_update
<1>2. CASE r.entry /\ Full(r.queue)
  <2>1. e = [r EXCEPT !.full = TRUE]
    BY <1>2 DEF push_update
  <2>2. e \in Stream /\ SamePlace(r, e) /\ e.full = TRUE /\ e.queue = r.queue
    BY <1>0, <1>2, <2>1 DEF Stream, SamePlace
  <2> QED
    BY <1>2, <2>2, MarkedOK
<1>3. CASE r.entry /\ ~Full(r.queue)
  <2>1. e = [r EXCEPT !.queue = Append(@, x)]
    BY <1>3 DEF push_update
  <2>2. Append(r.queue, x) \in Seq(Updates \cup Finals)
    BY <1>0
  <2>3. e \in Stream /\ SamePlace(r, e) /\ e.full = r.full /\ e.queue = Append(r.queue, x)
    BY <1>0, <1>3, <2>1, <2>2 DEF Stream, SamePlace
  <2> HIDE DEF e
  <2> QED
    BY <1>3, <2>3, AppendOK DEF e
<1> QED
  BY <1>1, <1>2, <1>3

LEMMA CompleteOK ==
    ASSUME NEW r, StreamOK(r), NEW x \in Finals
    PROVE  LET e == complete_streaming(r, x) IN
           /\ StreamOK(e) /\ e.at = r.at /\ e.entry = r.entry /\ e.told = r.told /\ e.began = r.began
           /\ e.excused = r.excused /\ e.queue \in {r.queue, Append(r.queue, x)}
           /\ r.full => e.full
<1> DEFINE e == complete_streaming(r, x)
<1>0. r \in Stream /\ r.queue \in Seq(Updates \cup Finals) /\ x \notin Updates
  BY Tokens DEF StreamOK, Stream
<1>1. CASE ~r.entry \/ r.completed
  BY <1>1 DEF complete_streaming
<1>2. CASE ~(~r.entry \/ r.completed) /\ Full(r.queue)
  <2>1. e = [r EXCEPT !.full = TRUE]
    BY <1>2 DEF complete_streaming
  <2>2. /\ e \in Stream /\ SamePlace(r, e) /\ e.full = TRUE /\ e.queue = r.queue
        /\ e.entry = r.entry /\ e.excused = r.excused
    BY <1>0, <1>2, <2>1 DEF Stream, SamePlace
  <2>3. StreamOK(e)
    BY <1>2, <2>2, MarkedOK
  <2> QED
    BY <2>2, <2>3 DEF SamePlace
<1>3. CASE ~(~r.entry \/ r.completed) /\ ~Full(r.queue)
  <2>1. e = [r EXCEPT !.queue = Append(@, x), !.completed = TRUE]
    BY <1>3 DEF complete_streaming
  <2>2. Append(r.queue, x) \in Seq(Updates \cup Finals)
    BY <1>0
  <2>3. /\ e \in Stream /\ SamePlace(r, e) /\ e.full = r.full /\ e.queue = Append(r.queue, x)
        /\ e.entry = r.entry /\ e.excused = r.excused
    BY <1>0, <1>3, <2>1, <2>2 DEF Stream, SamePlace
  <2>4. \A y : Ahead(y, x)
    BY <1>0 DEF Ahead
  <2> HIDE DEF e
  <2>5. StreamOK(e)
    BY <1>0, <1>3, <2>3, <2>4, AppendOK
  <2> QED
    BY <2>3, <2>5 DEF SamePlace, e
<1> QED
  BY <1>1, <1>2, <1>3

(* cancel_all, for one stream: the reader is told, when there is one.       *)
Cancelled(r) ==
    IF ~r.entry THEN r ELSE IF r.at = "over" THEN Removed(r)
    ELSE [r EXCEPT !.entry = FALSE, !.excused = @ \/ r.at = "sending",
                   !.queue = IF Full(@) THEN @ ELSE Append(@, End("cancelled")),
                   !.full = @ \/ Full(r.queue)]

LEMMA CancelAll == \A c \in Calls : cancel_all[c] = Cancelled(stream[c])
BY DEF cancel_all, Cancelled

LEMMA CancelledOK ==
    ASSUME NEW r, StreamOK(r)
    PROVE  LET e == Cancelled(r) IN
           /\ StreamOK(e) /\ ~e.entry /\ e.at = r.at /\ e.told = r.told
           /\ e.queue \in {<<>>, r.queue, Append(r.queue, End("cancelled"))}
           /\ r.full => e.full \/ e.at = "over"
<1> DEFINE e == Cancelled(r)
           x == End("cancelled")
<1>0. r \in Stream /\ r.queue \in Seq(Updates \cup Finals) /\ x \in Finals /\ x \notin Updates
  BY Tokens DEF StreamOK, Stream, Finals
<1>1. CASE ~r.entry
  BY <1>1 DEF Cancelled
<1>2. CASE r.entry /\ r.at = "over"
  <2>1. e = Removed(r)
    BY <1>2 DEF Cancelled
  <2>2. r.told = EndOf(r.told) /\ (~r.excused => r.told # <<>> /\ Last(r.told) \in Ends)
    BY <1>2 DEF StreamOK, PlaceOK
  <2>3. /\ StreamOK(Removed(r)) /\ Removed(r).at = "over" /\ ~Removed(r).entry
        /\ Removed(r).told = r.told /\ Removed(r).queue \in {r.queue, <<>>}
    BY <1>0, <2>2, RemovedOK DEF StreamOK
  <2> QED
    BY <1>2, <2>1, <2>3
<1>3. CASE r.entry /\ r.at # "over" /\ Full(r.queue)
  <2> DEFINE b == r.excused \/ r.at = "sending"
  <2>1. e = [r EXCEPT !.entry = FALSE, !.excused = b, !.queue = r.queue, !.full = TRUE]
    BY <1>0, <1>3 DEF Cancelled, Stream
  <2>2. b \in BOOLEAN /\ (r.excused => b) /\ (r.at = "sending" => b)
    BY <1>0 DEF Stream
  <2> HIDE DEF b, e
  <2>3. /\ e \in Stream /\ SamePlace(r, e) /\ e.full = TRUE /\ e.queue = r.queue /\ ~e.entry
        /\ e.at = r.at /\ e.told = r.told
    BY <1>0, <1>3, <2>1, <2>2 DEF Stream, SamePlace
  <2>4. StreamOK(e)
    BY <1>3, <2>3, MarkedOK
  <2> QED
    BY <2>3, <2>4 DEF e
<1>4. CASE r.entry /\ r.at # "over" /\ ~Full(r.queue)
  <2> DEFINE b == r.excused \/ r.at = "sending"
             q == Append(r.queue, x)
  <2>1. e = [r EXCEPT !.entry = FALSE, !.excused = b, !.queue = q, !.full = r.full]
    BY <1>0, <1>4 DEF Cancelled, Stream
  <2>2. b \in BOOLEAN /\ (r.excused => b) /\ (r.at = "sending" => b) /\ q \in Seq(Updates \cup Finals)
    BY <1>0 DEF Stream
  <2> HIDE DEF b, e, q
  <2>3. /\ e \in Stream /\ SamePlace(r, e) /\ e.full = r.full /\ e.queue = q /\ ~e.entry
        /\ e.at = r.at /\ e.told = r.told
    BY <1>0, <1>4, <2>1, <2>2 DEF Stream, SamePlace
  <2>4. \A y : Ahead(y, x)
    BY <1>0 DEF Ahead
  <2>5. StreamOK(e)
    BY <1>0, <1>4, <2>3, <2>4, AppendOK DEF q
  <2> QED
    BY <2>3, <2>5 DEF e, q
<1> QED
  BY <1>1, <1>2, <1>3, <1>4

-----------------------------------------------------------------------------
(* The generator moves on *)

LEMMA StreamFields ==
    ASSUME NEW r, StreamOK(r)
    PROVE  /\ r \in Stream /\ r.told \in Seq(Updates \cup Ends) /\ r.queue \in Seq(Updates \cup Finals)
           /\ Len(r.queue) <= QueueSize
BY DEF StreamOK, Stream

(* A generator that ends before it has asked, and what its caller gets.     *)
LEMMA EndsWithOK ==
    ASSUME NEW r \in Stream, Len(r.queue) <= QueueSize, ~(r.began /\ r.entry), NEW y \in Ends
    PROVE  LET e == [Ended(r) EXCEPT !.told = <<y>>] IN
           /\ StreamOK(e) /\ e.at = "over" /\ e.entry = r.entry /\ e.told = <<y>>
           /\ e.queue \in {r.queue, <<>>}
<1> DEFINE g == [r EXCEPT !.told = <<y>>]
<1>1. <<y>> \in Seq(Updates \cup Ends) /\ <<y>> # <<>> /\ Last(<<y>>) \in Ends /\ EndOf(<<y>>) = <<y>>
  BY DEF EndOf, Last
<1>2. /\ g \in Stream /\ g.entry = r.entry /\ g.told = <<y>> /\ g.began = r.began
      /\ g.queue = r.queue /\ g.excused = r.excused
  BY <1>1 DEF Stream
<1>3. /\ StreamOK(Ended(g)) /\ Ended(g).at = "over" /\ Ended(g).entry = g.entry
      /\ Ended(g).told = <<y>> /\ Ended(g).queue \in {g.queue, <<>>}
  BY <1>1, <1>2, EndedOK
<1>4. [Ended(r) EXCEPT !.told = <<y>>] = Ended(g)
  BY <1>1 DEF Ended, Stream
<1> QED
  BY <1>2, <1>3, <1>4

LEMMA RefusedOK ==
    ASSUME NEW r, StreamOK(r), r.at = "idle"
    PROVE  LET e == [Ended(r) EXCEPT !.told = <<End("refused")>>] IN
           StreamOK(e) /\ e.at = "over" /\ ~e.entry /\ e.told = <<End("refused")>> /\ e.queue = <<>>
<1>1. ~r.entry /\ r.queue = <<>> /\ End("refused") \in Ends
  BY DEF StreamOK, PlaceOK, Ends
<1> QED
  BY <1>1, EndsWithOK, StreamFields

LEMMA SubmittedOK ==
    ASSUME NEW r, StreamOK(r), r.at = "idle", NEW s \in Sockets
    PROVE  LET e == [r EXCEPT !.at = "sending", !.on = s, !.entry = TRUE] IN
           StreamOK(e) /\ e.at = "sending" /\ e.entry /\ e.told = <<>> /\ e.queue = <<>>
<1> DEFINE e == [r EXCEPT !.at = "sending", !.on = s, !.entry = TRUE]
<1>1. ~r.entry /\ r.queue = <<>> /\ r.told = <<>> /\ ~r.began
  BY DEF StreamOK, PlaceOK
<1>0. r \in Stream
  BY StreamFields
<1>2. /\ e \in Stream /\ e.at = "sending" /\ e.entry = TRUE /\ e.told = <<>> /\ e.queue = <<>>
      /\ ~e.began
  BY <1>0, <1>1 DEF Stream
<1> HIDE DEF e
<1>3. PlaceOK(e) /\ ToldInOrder(e) /\ QueueInOrder(e)
  BY <1>2 DEF PlaceOK, ToldInOrder, QueueInOrder
<1>4. Len(e.queue) <= QueueSize
  BY <1>2
<1> QED
  BY <1>2, <1>3, <1>4 DEF StreamOK, e

LEMMA FailedOK ==
    ASSUME NEW r, StreamOK(r), r.at = "sending"
    PROVE  LET e == [Ended(complete_streaming(r, End("unknown"))) EXCEPT !.told = <<End("error")>>] IN
           /\ StreamOK(e) /\ e.at = "over" /\ e.entry = r.entry /\ e.told = <<End("error")>>
           /\ e.queue \in {r.queue, <<>>, Append(r.queue, End("unknown"))}
<1> DEFINE f == complete_streaming(r, End("unknown"))
<1>1. End("unknown") \in Finals /\ End("error") \in Ends
  BY DEF Finals, Ends
<1>2. ~r.began
  BY DEF StreamOK, PlaceOK
<1>3. /\ StreamOK(f) /\ f.entry = r.entry /\ ~f.began
      /\ f.queue \in {r.queue, Append(r.queue, End("unknown"))}
  BY <1>1, <1>2, CompleteOK
<1> HIDE DEF f
<1>4. f \in Stream /\ Len(f.queue) <= QueueSize
  BY <1>3, StreamFields
<1> QED
  BY <1>1, <1>3, <1>4, EndsWithOK DEF f

LEMMA BegunOK ==
    ASSUME NEW r, StreamOK(r), r.at = "sending"
    PROVE  LET e == IF r.entry THEN [r EXCEPT !.at = "waiting", !.began = TRUE] ELSE Ended(r) IN
           /\ StreamOK(e) /\ e.at # "idle" /\ e.entry = r.entry /\ e.told = <<>>
           /\ e.queue \in {r.queue, <<>>}
           /\ r.entry => e.queue = r.queue /\ e.full = r.full
<1>0. r \in Stream /\ r.told = <<>> /\ (~r.entry => r.excused) /\ Len(r.queue) <= QueueSize
  BY StreamFields DEF StreamOK, PlaceOK
<1>1. CASE ~r.entry
  <2>1. EndOf(<<>>) = <<>>
    BY DEF EndOf
  <2> QED
    BY <1>0, <1>1, <2>1, EndedOK
<1>2. CASE r.entry
  <2> DEFINE e == [r EXCEPT !.at = "waiting", !.began = TRUE]
  <2>1. /\ e \in Stream /\ e.at = "waiting" /\ e.entry = r.entry /\ e.told = <<>>
        /\ e.queue = r.queue /\ e.full = r.full
    BY <1>0 DEF Stream
  <2> HIDE DEF e
  <2>2. PlaceOK(e) /\ ToldInOrder(e)
    BY <2>1 DEF PlaceOK, ToldInOrder
  <2>3. QueueInOrder(e)
    BY <1>0, <2>1 DEF QueueInOrder, Reading, StreamOK
  <2> QED
    BY <1>0, <1>2, <2>1, <2>2, <2>3 DEF StreamOK, e
<1> QED
  BY <1>1, <1>2

(* What a consumer is told next, an update or an end.                       *)
LEMMA ToldNext ==
    ASSUME NEW r, StreamOK(r), r.at = "waiting", NEW x \in Updates \cup Finals \cup {End("timeout")},
           NEW q \in Seq(Updates \cup Finals), Len(q) <= QueueSize,
           \A j \in DOMAIN r.told : Ahead(r.told[j], x),
           x \in Updates /\ ~r.full => x = Update(Len(r.told) + 1),
           \A j, k \in DOMAIN q : j < k => Ahead(q[j], q[k]),
           x \in Updates => /\ \A j \in DOMAIN Append(r.told, x), k \in DOMAIN q : Ahead(Append(r.told, x)[j], q[k])
                            /\ ~r.full => \A k \in DOMAIN q : q[k] \in Updates => q[k] = Update(Len(r.told) + 1 + k)
    PROVE  LET e == [r EXCEPT !.at = "given", !.queue = q, !.told = Append(@, x)] IN
           StreamOK(e)
<1> DEFINE t == Append(r.told, x)
           e == [r EXCEPT !.at = "given", !.queue = q, !.told = t]
<1>1. r \in Stream /\ r.told \in Seq(Updates \cup Ends) /\ x \in Updates \cup Ends
  BY StreamFields DEF Ends
<1>2. /\ t \in Seq(Updates \cup Ends) /\ t # <<>> /\ Last(t) = x
      /\ Len(t) = Len(r.told) + 1 /\ DOMAIN t = 1..Len(r.told) + 1
      /\ \A k \in 1..Len(r.told) : t[k] = r.told[k]
      /\ t[Len(r.told) + 1] = x /\ DOMAIN r.told = 1..Len(r.told) /\ Len(r.told) \in Nat
  BY <1>1, AppendProperties DEF Last
<1>3. \A k \in DOMAIN r.told : r.told[k] \in Updates
  BY DEF StreamOK, PlaceOK
<1>4. ToldInOrder(r)
  BY DEF StreamOK
<1> HIDE DEF t
<1>5. /\ e \in Stream /\ e.at = "given" /\ e.told = t /\ e.queue = q /\ e.full = r.full
  BY <1>1, <1>2 DEF Stream
<1> HIDE DEF e
<1>6. PlaceOK(e)
  BY <1>2, <1>5 DEF PlaceOK
<1>7. ToldInOrder(e)
  <2>1. ASSUME NEW j \in DOMAIN t, NEW k \in DOMAIN t, j < k
        PROVE  t[j] \in Updates /\ Ahead(t[j], t[k])
    <3>1. j \in DOMAIN r.told /\ t[j] = r.told[j]
      BY <1>2, <2>1
    <3>2. CASE k = Len(r.told) + 1
      BY <1>2, <1>3, <3>1, <3>2
    <3>3. CASE k # Len(r.told) + 1
      BY <1>2, <1>4, <2>1, <3>1, <3>3 DEF ToldInOrder
    <3> QED
      BY <3>2, <3>3
  <2>2. ASSUME ~r.full, NEW k \in DOMAIN t, t[k] \in Updates
        PROVE  t[k] = Update(k)
    <3>1. CASE k = Len(r.told) + 1
      BY <1>2, <2>2, <3>1
    <3>2. CASE k # Len(r.told) + 1
      BY <1>2, <1>4, <2>2, <3>2 DEF ToldInOrder
    <3> QED
      BY <3>1, <3>2
  <2> QED
    BY <1>5, <2>1, <2>2 DEF ToldInOrder
<1>8. QueueInOrder(e)
  BY <1>2, <1>5 DEF QueueInOrder, Reading, t
<1> QED
  BY <1>5, <1>6, <1>7, <1>8 DEF StreamOK, e, t

LEMMA TakenOK ==
    ASSUME NEW r, StreamOK(r), r.at = "waiting", r.queue # <<>>
    PROVE  StreamOK([r EXCEPT !.at = "given", !.queue = Tail(@), !.told = Append(@, Head(r.queue))])
<1> DEFINE x == Head(r.queue)
           q == Tail(r.queue)
           t == Append(r.told, x)
<1>1. /\ r \in Stream /\ r.told \in Seq(Updates \cup Ends) /\ r.queue \in Seq(Updates \cup Finals)
      /\ Len(r.queue) <= QueueSize
  BY StreamFields
<1>2. /\ x = r.queue[1] /\ x \in Updates \cup Finals /\ q \in Seq(Updates \cup Finals)
      /\ Len(r.queue) \in Nat \ {0} /\ Len(q) = Len(r.queue) - 1 /\ DOMAIN q = 1..Len(r.queue) - 1
      /\ DOMAIN r.queue = 1..Len(r.queue)
      /\ \A k \in 1..Len(r.queue) - 1 : q[k] = r.queue[k + 1]
  BY <1>1, HeadTailProperties
<1>3. /\ Len(t) = Len(r.told) + 1 /\ DOMAIN t = 1..Len(r.told) + 1
      /\ \A k \in 1..Len(r.told) : t[k] = r.told[k]
      /\ t[Len(r.told) + 1] = x /\ DOMAIN r.told = 1..Len(r.told) /\ Len(r.told) \in Nat
  BY <1>1, <1>2, AppendProperties
<1>4. /\ \A j, k \in DOMAIN r.queue : j < k => Ahead(r.queue[j], r.queue[k])
      /\ \A j \in DOMAIN r.told, k \in DOMAIN r.queue : Ahead(r.told[j], r.queue[k])
      /\ ~r.full => \A k \in DOMAIN r.queue : r.queue[k] \in Updates => r.queue[k] = Update(Len(r.told) + k)
  BY DEF StreamOK, QueueInOrder, Reading
<1> HIDE DEF x, q, t
<1>5. Len(q) <= QueueSize
  BY <1>1, <1>2
<1>6. \A j \in DOMAIN r.told : Ahead(r.told[j], x)
  BY <1>2, <1>4
<1>7. x \in Updates /\ ~r.full => x = Update(Len(r.told) + 1)
  BY <1>2, <1>4
<1>8. ASSUME NEW j \in DOMAIN q, NEW k \in DOMAIN q, j < k PROVE Ahead(q[j], q[k])
  <2>1. /\ j + 1 \in DOMAIN r.queue /\ q[j] = r.queue[j + 1]
        /\ k + 1 \in DOMAIN r.queue /\ q[k] = r.queue[k + 1] /\ j + 1 < k + 1
    BY <1>2, <1>8
  <2> QED
    BY <1>4, <2>1
<1>9. \A j \in DOMAIN t, k \in DOMAIN q : Ahead(t[j], q[k])
  <2> SUFFICES ASSUME NEW j \in DOMAIN t, NEW k \in DOMAIN q PROVE Ahead(t[j], q[k])
    OBVIOUS
  <2>1. k + 1 \in DOMAIN r.queue /\ q[k] = r.queue[k + 1] /\ 1 \in DOMAIN r.queue /\ 1 < k + 1
    BY <1>2
  <2>2. CASE j = Len(r.told) + 1
    BY <1>2, <1>3, <1>4, <2>1, <2>2
  <2>3. CASE j # Len(r.told) + 1
    BY <1>3, <1>4, <2>1, <2>3
  <2> QED
    BY <2>2, <2>3
<1>10. ~r.full => \A k \in DOMAIN q : q[k] \in Updates => q[k] = Update(Len(r.told) + 1 + k)
  <2> SUFFICES ASSUME ~r.full, NEW k \in DOMAIN q, q[k] \in Updates PROVE q[k] = Update(Len(r.told) + 1 + k)
    OBVIOUS
  <2>1. k + 1 \in DOMAIN r.queue /\ q[k] = r.queue[k + 1]
    BY <1>2
  <2>2. Len(r.told) + 1 + k = Len(r.told) + (k + 1)
    <3>1. k \in Nat /\ \A a, b \in Nat : a + 1 + b = a + (b + 1)
      BY <1>2
    <3> QED
      BY <1>3, <3>1
  <2> QED
    BY <1>4, <2>1, <2>2
<1> QED
  BY <1>2, <1>5, <1>6, <1>7, <1>8, <1>9, <1>10, ToldNext DEF x, q, t

LEMMA TimedOutOK ==
    ASSUME NEW r, StreamOK(r), r.at = "waiting", r.queue = <<>>
    PROVE  StreamOK([r EXCEPT !.at = "given", !.told = Append(@, End("timeout"))])
<1>1. End("timeout") \notin Updates
  BY Tokens DEF Ends
<1>2. r.queue \in Seq(Updates \cup Finals) /\ Len(r.queue) <= QueueSize /\ r \in Stream
  BY StreamFields
<1>3. [r EXCEPT !.at = "given", !.told = Append(@, End("timeout"))]
        = [r EXCEPT !.at = "given", !.queue = r.queue, !.told = Append(@, End("timeout"))]
  BY <1>2 DEF Stream
<1>4. (\A y : Ahead(y, End("timeout"))) /\ DOMAIN r.queue = {}
  BY <1>1, EmptySeq DEF Ahead
<1> QED
  BY <1>1, <1>2, <1>3, <1>4, ToldNext

LEMMA ResumedOK ==
    ASSUME NEW r, StreamOK(r), r.at = "given"
    PROVE  LET e == IF Last(r.told) = End("timeout") THEN Removed(r)
                    ELSE IF Last(r.told) \in Finals THEN [r EXCEPT !.at = "left"]
                    ELSE [r EXCEPT !.at = "waiting"]
           IN /\ StreamOK(e) /\ e.at # "idle" /\ e.told \in {r.told, EndOf(r.told)}
              /\ e.queue \in {r.queue, <<>>} /\ (e.entry => r.entry)
              /\ Reading(e) => Reading(r) /\ e.told = r.told /\ e.queue = r.queue /\ e.full = r.full
<1>1. /\ r \in Stream /\ Len(r.queue) <= QueueSize /\ r.told \in Seq(Updates \cup Ends) /\ r.told # <<>>
      /\ Last(r.told) \in Updates \cup Finals \cup {End("timeout")}
  BY StreamFields DEF StreamOK, PlaceOK
<1>2. CASE Last(r.told) = End("timeout")
  <2>1. Last(r.told) \in Ends
    BY <1>2 DEF Ends
  <2> QED
    BY <1>1, <1>2, <2>1, RemovedOK DEF Reading
<1>3. CASE Last(r.told) # End("timeout") /\ Last(r.told) \in Finals
  <2> DEFINE e == [r EXCEPT !.at = "left"]
  <2>1. /\ e \in Stream /\ e.at = "left" /\ e.told = r.told /\ e.queue = r.queue /\ e.full = r.full
        /\ e.entry = r.entry
    BY <1>1 DEF Stream
  <2> HIDE DEF e
  <2>2. PlaceOK(e) /\ ~Reading(e)
    BY <1>1, <1>3, <2>1 DEF PlaceOK, Ends, Reading
  <2>3. ToldInOrder(e) /\ QueueInOrder(e)
    BY <2>1, <2>2 DEF StreamOK, ToldInOrder, QueueInOrder
  <2> QED
    BY <1>1, <1>3, <2>1, <2>2, <2>3 DEF StreamOK, e
<1>4. CASE Last(r.told) \in Updates
  <2> DEFINE e == [r EXCEPT !.at = "waiting"]
  <2>1. /\ e \in Stream /\ e.at = "waiting" /\ e.told = r.told /\ e.queue = r.queue /\ e.full = r.full
        /\ e.entry = r.entry
    BY <1>1 DEF Stream
  <2>2. Last(r.told) \notin Finals /\ Last(r.told) # End("timeout")
    BY <1>4, Tokens DEF Ends
  <2> HIDE DEF e
  <2>3. \A k \in DOMAIN r.told : r.told[k] \in Updates
    <3>1. /\ DOMAIN r.told = 1..Len(r.told) /\ Len(r.told) \in Nat \ {0} /\ Last(r.told) = r.told[Len(r.told)]
      BY <1>1, LastOf
    <3> QED
      BY <1>4, <3>1 DEF StreamOK, ToldInOrder
  <2>4. PlaceOK(e)
    BY <2>1, <2>3 DEF PlaceOK
  <2>5. ToldInOrder(e) /\ QueueInOrder(e)
    BY <1>4, <2>1 DEF StreamOK, ToldInOrder, QueueInOrder, Reading
  <2> QED
    BY <1>1, <1>4, <2>1, <2>2, <2>4, <2>5 DEF StreamOK, Reading, e
<1> QED
  BY <1>1, <1>2, <1>3, <1>4

LEMMA LeftOK ==
    ASSUME NEW r, StreamOK(r), r.at = "given"
    PROVE  LET e == [r EXCEPT !.at = "left", !.excused = TRUE] IN
           /\ StreamOK(e) /\ e.at = "left" /\ e.told = r.told /\ e.queue = r.queue /\ e.entry = r.entry
<1> DEFINE e == [r EXCEPT !.at = "left", !.excused = TRUE]
<1>1. r \in Stream
  BY StreamFields
<1>2. /\ e \in Stream /\ e.at = "left" /\ e.told = r.told /\ e.queue = r.queue /\ e.full = r.full
      /\ e.entry = r.entry /\ e.excused = TRUE
  BY <1>1 DEF Stream
<1> HIDE DEF e
<1>3. PlaceOK(e) /\ ToldInOrder(e) /\ QueueInOrder(e)
  BY <1>2 DEF PlaceOK, StreamOK, ToldInOrder, QueueInOrder, Reading
<1> QED
  BY <1>2, <1>3, StreamFields DEF StreamOK, e

LEMMA CancelOK ==
    ASSUME NEW r, StreamOK(r), r.at \in {"sending", "waiting"}
    PROVE  LET e == Ended([r EXCEPT !.excused = TRUE, !.entry = @ /\ ~r.began]) IN
           /\ StreamOK(e) /\ e.at = "over" /\ (e.entry => r.entry) /\ e.told = EndOf(r.told)
           /\ e.queue \in {r.queue, <<>>}
<1> DEFINE b == r.entry /\ ~r.began
           d == [r EXCEPT !.excused = TRUE, !.entry = b]
<1>1. r \in Stream /\ Len(r.queue) <= QueueSize
  BY StreamFields
<1>2. b \in BOOLEAN /\ (b => r.entry /\ ~r.began)
  BY <1>1
<1> HIDE DEF b
<1>3. /\ d \in Stream /\ d.entry = b /\ d.began = r.began /\ d.excused = TRUE /\ d.told = r.told
      /\ d.queue = r.queue
  BY <1>1, <1>2 DEF Stream
<1> HIDE DEF d
<1>4. ~(d.began /\ d.entry)
  BY <1>2, <1>3
<1> QED
  BY <1>1, <1>2, <1>3, <1>4, EndedOK DEF d, b

LEMMA FinalisedOK ==
    ASSUME NEW r, StreamOK(r), r.at = "left"
    PROVE  LET e == Removed(r) IN
           /\ StreamOK(e) /\ e.at = "over" /\ ~e.entry /\ e.told = EndOf(r.told)
           /\ e.queue \in {r.queue, <<>>}
BY RemovedOK, StreamFields DEF StreamOK, PlaceOK

-----------------------------------------------------------------------------
(* What a step leaves of the truth about a call *)

(* The step runs no script of c and brings no message about it.             *)
Unmoved(c) ==
    /\ script'[c] = script[c]
    /\ Queued(c)' => Queued(c)
    /\ active' # None /\ active'[1] = c => active # None /\ active[1] = c
    /\ \A s \in Sockets :
          \/ Of(c, s)' = {}
          \/ Of(c, s)' = Of(c, s) /\ \A k \in Of(c, s) : toServer'[s][k] = toServer[s][k]

(* The generator e has moved on from r without new updates.                 *)
Advances(r, e) ==
    /\ e.at = "idle" => r.at = "idle"
    /\ e.entry /\ e.at # "over" =>
          /\ r.entry /\ r.at # "over"
          /\ \A j \in DOMAIN e.queue : \E i \in DOMAIN r.queue : e.queue[j] = r.queue[i]
    /\ e.entry /\ Reading(e) =>
          /\ Reading(r)
          /\ \A j \in DOMAIN e.told : \/ \E i \in DOMAIN r.told : e.told[j] = r.told[i]
                                      \/ \E i \in DOMAIN r.queue : e.told[j] = r.queue[i]
          /\ ~e.full => ~r.full /\ Len(e.told) + Len(e.queue) = Len(r.told) + Len(r.queue)
    /\ \A x \in Given(e) \ Given(r) : x \in Ends /\ x # End("completed")

LEMMA CallMoves ==
    ASSUME LinkTypeOK, NEW c \in Calls, CallOK(c), StreamOK(stream[c]), StreamOK(stream'[c]), Unmoved(c),
           Advances(stream[c], stream'[c]),
           \A x \in Given(stream'[c]) \ Given(stream[c]) : Holds(c, x)
    PROVE  CallOK(c)'
<1> DEFINE r == stream[c]
           e == stream'[c]
<1>1. Once(c)'
  BY DEF CallOK, Once, Unmoved, Advances, At
<1>2. Unheard(c)'
  <2> SUFFICES ASSUME Queued(c)' \/ script'[c] = "running" PROVE
          /\ \A s \in Sockets : Of(c, s)' = {}
          /\ Given(e) \cap Updates = {}
          /\ e.entry /\ e.at # "over" => e.queue = <<>>
    BY DEF Unheard
  <2>1. /\ \A s \in Sockets : Of(c, s) = {}
        /\ Given(r) \cap Updates = {}
        /\ r.entry /\ r.at # "over" => r.queue = <<>>
    BY DEF CallOK, Unheard, Unmoved
  <2>2. \A s \in Sockets : Of(c, s)' = {}
    BY <2>1 DEF Unmoved
  <2>3. Given(e) \cap Updates = {}
    BY <2>1, Tokens DEF Advances
  <2>4. ASSUME e.entry, e.at # "over" PROVE e.queue = <<>>
    <3>1. r.queue = <<>> /\ DOMAIN r.queue = {}
      BY <2>1, <2>4, NoDomain, StreamFields DEF Advances
    <3>2. DOMAIN e.queue = {} /\ e.queue \in Seq(Updates \cup Finals)
      BY <2>4, <3>1, StreamFields DEF Advances
    <3> QED
      BY <3>2, NoDomain
  <2> QED
    BY <2>2, <2>3, <2>4
<1>3. Evidence(c)'
  <2>1. \A x : Holds(c, x) => Holds(c, x)'
    BY DEF Holds, Unmoved
  <2>2. \A x \in Given(e) : Holds(c, x)
    BY DEF CallOK, Evidence
  <2>3. \A s \in Sockets : \A k \in Of(c, s)' : Holds(c, toServer'[s][k].body)
    BY DEF CallOK, Evidence, Unmoved
  <2> QED
    BY <2>1, <2>2, <2>3 DEF Evidence
<1>4. Pending(c)'
  <2>0. Pending(c)
    BY DEF CallOK
  <2> DEFINE P(x) == \A s \in Sockets : \A k \in Of(c, s)' : Ahead(x, toServer'[s][k].body)
  <2>1. \A x : Precedes(c, x) => P(x)
    BY DEF Precedes, Unmoved
  <2>2. \A s, t \in Sockets : Of(c, s)' # {} /\ Of(c, t)' # {} => s = t
    BY <2>0 DEF Pending, Unmoved
  <2>3. \A s \in Sockets : \A j, k \in Of(c, s)' :
           j < k => Ahead(toServer'[s][j].body, toServer'[s][k].body)
    BY <2>0 DEF Pending, Unmoved
  <2>4. e.entry /\ e.at # "over" => \A j \in DOMAIN e.queue : P(e.queue[j])
    <3> HIDE DEF P
    <3> QED
      BY <2>0, <2>1 DEF Pending, Advances
  <2>5. e.entry /\ Reading(e) => \A j \in DOMAIN e.told : P(e.told[j])
    <3>1. (Reading(e) => e.at # "over") /\ (Reading(r) => r.at # "over")
      BY DEF Reading
    <3> HIDE DEF P
    <3> QED
      BY <2>0, <2>1, <3>1 DEF Pending, Advances
  <2>6. End("completed") \in Given(e) => P(End("completed"))
    <3> HIDE DEF P
    <3> QED
      BY <2>0, <2>1 DEF Pending, Advances
  <2>7. ASSUME e.entry, Reading(e), ~e.full, NEW s \in Sockets, NEW k \in Of(c, s)',
               toServer'[s][k].body \in Updates
        PROVE  Continues(c, s, k)'
    <3>1. Of(c, s)' = Of(c, s) /\ \A j \in Of(c, s) : toServer'[s][j] = toServer[s][j]
      BY <2>7 DEF Unmoved
    <3>2. r.entry /\ Reading(r) /\ ~r.full /\ Len(e.told) + Len(e.queue) = Len(r.told) + Len(r.queue)
      BY <2>7 DEF Advances, Reading
    <3>3. Continues(c, s, k)
      BY <2>0, <2>7, <3>1, <3>2 DEF Pending
    <3>4. CASE k > 1 /\ toServer[s][k - 1] = [call |-> c, body |-> Update(toServer[s][k].body[2] - 1)]
      <4>1. k - 1 \in DOMAIN toServer[s]
        BY <3>4, <2>7, <3>1, NoDomain DEF Of, LinkTypeOK
      <4>2. k - 1 \in Of(c, s)
        BY <4>1, <3>4 DEF Of
      <4> QED
        BY <3>1, <3>4, <4>2, <2>7 DEF Continues
    <3>5. CASE /\ \A j \in Of(c, s) : j >= k
               /\ toServer[s][k].body = Update(Len(r.told) + Len(r.queue) + 1)
      BY <3>1, <3>2, <3>5, <2>7 DEF Continues
    <3> QED
      BY <3>3, <3>4, <3>5 DEF Continues
  <2> QED
    BY <2>2, <2>3, <2>4, <2>5, <2>6, <2>7 DEF Pending, Precedes
<1> QED
  BY <1>1, <1>2, <1>3, <1>4 DEF CallOK

-----------------------------------------------------------------------------
(* The steps of a generator *)

(* Nothing but two ends is given in addition.                              *)
LEMMA EndAdvances ==
    ASSUME NEW r, StreamOK(r), NEW e, NEW x \in Ends \ {End("completed")}, NEW y \in Ends \ {End("completed")},
           e.told \in {r.told, EndOf(r.told), <<>>, <<y>>},
           e.queue \in {r.queue, <<>>, Append(r.queue, x)},
           e.at # "idle" \/ e.at = r.at, ~e.entry \/ e.at = "over"
    PROVE  Advances(r, e) /\ Given(e) \subseteq Given(r) \cup {x, y}
<1>1. Given(e) \subseteq Given(r) \cup {x, y}
  <2>1. r.told \in Seq(Updates \cup Ends) /\ r.queue \in Seq(Updates \cup Finals)
    BY StreamFields
  <2>2. \A k \in DOMAIN e.told : e.told[k] \in Given(r) \cup {y}
    <3>1. CASE e.told = r.told
      BY <3>1 DEF Given
    <3>2. CASE e.told = EndOf(r.told)
      <4>1. r.told # <<>> => Last(r.told) \in Given(r)
        BY <2>1, LastOf DEF Given
      <4> QED
        BY <2>1, <3>2, <4>1, EndOfFacts
    <3>3. CASE e.told = <<>> \/ e.told = <<y>>
      BY <3>3
    <3> QED
      BY <3>1, <3>2, <3>3
  <2>3. \A k \in DOMAIN e.queue : e.queue[k] \in Given(r) \cup {x}
    <3>1. CASE e.queue = Append(r.queue, x)
      <4>1. /\ DOMAIN e.queue = 1..Len(r.queue) + 1 /\ DOMAIN r.queue = 1..Len(r.queue) /\ Len(r.queue) \in Nat
            /\ \A k \in 1..Len(r.queue) : e.queue[k] = r.queue[k]
            /\ e.queue[Len(r.queue) + 1] = x
        BY <2>1, <3>1
      <4> QED
        BY <4>1 DEF Given
    <3>2. CASE e.queue = r.queue \/ e.queue = <<>>
      BY <3>2 DEF Given
    <3> QED
      BY <3>1, <3>2
  <2> QED
    BY <2>2, <2>3 DEF Given
<1>2. Reading(e) => e.at # "over"
  BY DEF Reading
<1> QED
  BY <1>1, <1>2 DEF Advances

LEMMA LocalStep ==
    ASSUME StreamsInv, NEW c \in Calls, NEW e, Step(c, e), StreamOK(e), Advances(stream[c], e),
           \A x \in Given(e) \ Given(stream[c]) : Holds(c, x)
    PROVE  StreamsInv'
<1>1. /\ conn' = conn /\ slot' = slot /\ toPanel' = toPanel /\ toServer' = toServer
      /\ active' = active /\ script' = script /\ stream' = [stream EXCEPT ![c] = e]
  BY DEF Step, linkvars, panelvars
<1>2. LinkTypeOK' /\ OneCopy'
  <2>1. DOMAIN stream' = Calls /\ stream' = [d \in Calls |-> stream'[d]]
    BY <1>1 DEF StreamsInv, LinkTypeOK
  <2>2. LinkTypeOK'
    BY <1>1, <2>1 DEF StreamsInv, LinkTypeOK
  <2>3. OneCopy'
    BY <1>1 DEF StreamsInv, OneCopy
  <2> QED
    BY <2>2, <2>3
<1>3. \A d \in Calls : Unmoved(d)
  BY <1>1 DEF Unmoved, Of, Queued
<1>4. stream'[c] = e /\ \A d \in Calls \ {c} : stream'[d] = stream[d]
  BY <1>1 DEF StreamsInv, LinkTypeOK
<1>5. \A r : StreamOK(r) => Advances(r, r)
  BY DEF Advances
<1>6. ASSUME NEW d \in Calls PROVE (StreamOK(stream[d]) /\ CallOK(d))'
  <2>1. LinkTypeOK /\ StreamOK(stream[d]) /\ CallOK(d)
    BY DEF StreamsInv
  <2>2. StreamOK(stream'[d]) /\ Advances(stream[d], stream'[d])
    BY <1>4, <1>5, <2>1
  <2>3. \A x \in Given(stream'[d]) \ Given(stream[d]) : Holds(d, x)
    BY <1>4
  <2> QED
    BY <1>3, <2>1, <2>2, <2>3, CallMoves
<1> QED
  BY <1>2, <1>6 DEF StreamsInv

LEMMA RefuseStep == ASSUME StreamsInv, NEW c \in Calls, Refuse(c) PROVE StreamsInv'
<1> DEFINE r == stream[c]
           y == End("refused")
           e == [Ended(r) EXCEPT !.told = <<y>>]
<1>1. StreamOK(r) /\ r.at = "idle" /\ Once(c)
  BY DEF StreamsInv, Refuse, At, CallOK
<1>2. Step(c, e)
  BY DEF Refuse
<1>3. StreamOK(e) /\ e.at = "over" /\ ~e.entry /\ e.told = <<y>> /\ e.queue = <<>>
  BY <1>1, RefusedOK
<1>4. y \in Ends \ {End("completed")} /\ Holds(c, y)
  BY <1>1, EndsDiffer DEF Ends, Holds, Once, At
<1> HIDE DEF e, y
<1>5. Advances(r, e) /\ Given(e) \subseteq Given(r) \cup {y}
  <2>1. e.queue \in {r.queue, <<>>, Append(r.queue, y)} /\ e.told \in {r.told, EndOf(r.told), <<>>, <<y>>}
    BY <1>3
  <2>2. Advances(r, e) /\ Given(e) \subseteq Given(r) \cup {y, y}
    BY <1>1, <1>3, <1>4, <2>1, EndAdvances
  <2> QED
    BY <2>2
<1> QED
  BY <1>2, <1>3, <1>4, <1>5, LocalStep

LEMMA SendFailsStep == ASSUME StreamsInv, NEW c \in Calls, SendFails(c) PROVE StreamsInv'
<1> DEFINE r == stream[c]
           x == End("unknown")
           y == End("error")
           e == [Ended(complete_streaming(r, x)) EXCEPT !.told = <<y>>]
<1>1. StreamOK(r) /\ r.at = "sending"
  BY DEF StreamsInv, SendFails, At
<1>2. Step(c, e)
  BY DEF SendFails
<1>3. StreamOK(e) /\ e.at = "over" /\ e.told = <<y>> /\ e.queue \in {r.queue, <<>>, Append(r.queue, x)}
  BY <1>1, FailedOK
<1>4. /\ y \in Ends \ {End("completed")} /\ Holds(c, y)
      /\ x \in Ends \ {End("completed")} /\ Holds(c, x)
  BY EndsDiffer DEF Ends, Holds
<1> HIDE DEF e, x, y
<1>5. Advances(r, e) /\ Given(e) \subseteq Given(r) \cup {x, y}
  BY <1>1, <1>3, <1>4, EndAdvances
<1> QED
  BY <1>2, <1>3, <1>4, <1>5, LocalStep

LEMMA SentStep == ASSUME StreamsInv, NEW c \in Calls, Sent(c) PROVE StreamsInv'
<1> DEFINE r == stream[c]
           e == IF r.entry THEN [r EXCEPT !.at = "waiting", !.began = TRUE] ELSE Ended(r)
<1>1. StreamOK(r) /\ r.at = "sending"
  BY DEF StreamsInv, Sent, At
<1>2. Step(c, e)
  BY DEF Sent
<1>3. /\ StreamOK(e) /\ e.at # "idle" /\ e.entry = r.entry /\ e.told = <<>> /\ r.told = <<>>
      /\ e.queue \in {r.queue, <<>>}
      /\ r.entry => e.queue = r.queue /\ e.full = r.full
  BY <1>1, BegunOK DEF StreamOK, PlaceOK
<1> HIDE DEF e
<1>4. Given(e) \subseteq Given(r)
  BY <1>3 DEF Given
<1>5. Advances(r, e)
  BY <1>1, <1>3, <1>4 DEF Advances, Reading
<1> QED
  BY <1>2, <1>3, <1>4, <1>5, LocalStep

LEMMA TakeUpdateStep == ASSUME StreamsInv, NEW c \in Calls, TakeUpdate(c) PROVE StreamsInv'
<1> DEFINE r == stream[c]
           x == Head(r.queue)
           q == Tail(r.queue)
           t == Append(r.told, x)
           e == [r EXCEPT !.at = "given", !.queue = Tail(@), !.told = Append(@, Head(r.queue))]
<1>1. StreamOK(r) /\ r.at = "waiting" /\ r.queue # <<>>
  BY DEF StreamsInv, TakeUpdate, At
<1>2. Step(c, e)
  BY DEF TakeUpdate
<1>3. StreamOK(e)
  BY <1>1, TakenOK
<1>4. /\ r \in Stream /\ r.told \in Seq(Updates \cup Ends) /\ r.queue \in Seq(Updates \cup Finals)
  BY <1>1, StreamFields
<1>5. /\ x = r.queue[1] /\ 1 \in DOMAIN r.queue /\ Len(r.queue) \in Nat
      /\ Len(q) = Len(r.queue) - 1 /\ \A k \in DOMAIN q : k + 1 \in DOMAIN r.queue /\ q[k] = r.queue[k + 1]
  BY <1>1, <1>4, HeadTailProperties
<1>6. /\ Len(t) = Len(r.told) + 1 /\ Len(r.told) \in Nat
      /\ \A k \in DOMAIN t : t[k] = x \/ (k \in DOMAIN r.told /\ t[k] = r.told[k])
  BY <1>4, <1>5, AppendProperties
<1>7. e.at = "given" /\ e.queue = q /\ e.told = t /\ e.full = r.full /\ e.entry = r.entry
  BY <1>4 DEF Stream
<1> HIDE DEF e, x, q, t
<1>8. Given(e) \subseteq Given(r)
  BY <1>5, <1>6, <1>7 DEF Given
<1>9. Len(e.told) + Len(e.queue) = Len(r.told) + Len(r.queue)
  <2>1. \A a, b \in Nat : (a + 1) + (b - 1) = a + b
    OBVIOUS
  <2> QED
    BY <1>5, <1>6, <1>7, <2>1
<1>10. Advances(r, e)
  BY <1>1, <1>5, <1>6, <1>7, <1>8, <1>9 DEF Advances, Reading
<1> QED
  BY <1>2, <1>3, <1>8, <1>10, LocalStep

LEMMA TimesOutStep == ASSUME StreamsInv, NEW c \in Calls, TimesOut(c) PROVE StreamsInv'
<1> DEFINE r == stream[c]
           y == End("timeout")
           t == Append(r.told, y)
           e == [r EXCEPT !.at = "given", !.told = Append(@, End("timeout"))]
<1>1. StreamOK(r) /\ r.at = "waiting" /\ r.queue = <<>>
  BY DEF StreamsInv, TimesOut, At
<1>2. Step(c, e)
  BY DEF TimesOut
<1>3. StreamOK(e)
  BY <1>1, TimedOutOK
<1>4. /\ r \in Stream /\ r.told \in Seq(Updates \cup Ends) /\ y \in Ends /\ y # End("completed")
  BY <1>1, StreamFields, EndsDiffer DEF Ends
<1>5. /\ \A k \in DOMAIN t : t[k] = y \/ (k \in DOMAIN r.told /\ t[k] = r.told[k])
      /\ Last(t) = y
  BY <1>4, AppendProperties DEF Last
<1>6. e.at = "given" /\ e.queue = r.queue /\ e.told = t /\ e.full = r.full /\ e.entry = r.entry
  BY <1>4 DEF Stream
<1>7. y \notin Updates /\ Holds(c, y)
  BY <1>4, Tokens, EndsDiffer DEF Holds
<1> HIDE DEF e, y, t
<1>8. Given(e) \subseteq Given(r) \cup {y}
  BY <1>5, <1>6 DEF Given
<1>9. Advances(r, e)
  BY <1>1, <1>4, <1>5, <1>6, <1>7, <1>8 DEF Advances, Reading
<1> QED
  BY <1>2, <1>3, <1>7, <1>8, <1>9, LocalStep

LEMMA GivenLess ==
    ASSUME NEW r, StreamOK(r), NEW e, StreamOK(e),
           e.told \in {r.told, EndOf(r.told)}, e.queue \in {r.queue, <<>>}
    PROVE  Given(e) \subseteq Given(r)
<1>1. r.told \in Seq(Updates \cup Ends)
  BY StreamFields
<1>2. \A k \in DOMAIN e.told : e.told[k] \in Given(r)
  <2>1. r.told # <<>> => Last(r.told) \in Given(r)
    BY <1>1, LastOf DEF Given
  <2> QED
    BY <1>1, <2>1, EndOfFacts DEF Given
<1> QED
  BY <1>2 DEF Given

LEMMA ResumeStep == ASSUME StreamsInv, NEW c \in Calls, Resume(c) PROVE StreamsInv'
<1> DEFINE r == stream[c]
           e == IF Last(r.told) = End("timeout") THEN Removed(r)
                ELSE IF Last(r.told) \in Finals THEN [r EXCEPT !.at = "left"]
                ELSE [r EXCEPT !.at = "waiting"]
<1>1. StreamOK(r) /\ r.at = "given"
  BY DEF StreamsInv, Resume, At
<1>2. Step(c, e)
  BY DEF Resume
<1>3. /\ StreamOK(e) /\ e.at # "idle" /\ e.told \in {r.told, EndOf(r.told)}
      /\ e.queue \in {r.queue, <<>>} /\ (e.entry => r.entry)
      /\ Reading(e) => Reading(r) /\ e.told = r.told /\ e.queue = r.queue /\ e.full = r.full
  BY <1>1, ResumedOK
<1> HIDE DEF e
<1>4. Given(e) \subseteq Given(r)
  BY <1>1, <1>3, GivenLess
<1>5. Advances(r, e)
  <2>1. \A j \in DOMAIN e.queue : j \in DOMAIN r.queue /\ e.queue[j] = r.queue[j]
    BY <1>3
  <2>2. e.entry /\ e.at # "over" =>
           r.entry /\ r.at # "over" /\ \A j \in DOMAIN e.queue : \E i \in DOMAIN r.queue : e.queue[j] = r.queue[i]
    BY <1>1, <1>3, <2>1
  <2>3. e.entry /\ Reading(e) =>
           /\ Reading(r)
           /\ \A j \in DOMAIN e.told : \/ \E i \in DOMAIN r.told : e.told[j] = r.told[i]
                                       \/ \E i \in DOMAIN r.queue : e.told[j] = r.queue[i]
           /\ ~e.full => ~r.full /\ Len(e.told) + Len(e.queue) = Len(r.told) + Len(r.queue)
    BY <1>3
  <2> QED
    BY <1>3, <1>4, <2>2, <2>3 DEF Advances
<1> QED
  BY <1>2, <1>3, <1>4, <1>5, LocalStep

LEMMA DropStep == ASSUME StreamsInv, NEW c \in Calls, Drop(c) PROVE StreamsInv'
<1> DEFINE r == stream[c]
           e == [r EXCEPT !.at = "left", !.excused = TRUE]
<1>1. StreamOK(r) /\ r.at = "given"
  BY DEF StreamsInv, Drop, At
<1>2. Step(c, e)
  BY DEF Drop
<1>3. StreamOK(e) /\ e.at = "left" /\ e.told = r.told /\ e.queue = r.queue /\ e.entry = r.entry
  BY <1>1, LeftOK
<1> HIDE DEF e
<1>4. Given(e) \subseteq Given(r)
  BY <1>3 DEF Given
<1>5. Advances(r, e)
  BY <1>1, <1>3, <1>4 DEF Advances, Reading
<1> QED
  BY <1>2, <1>3, <1>4, <1>5, LocalStep

LEMMA CancelStep == ASSUME StreamsInv, NEW c \in Calls, Cancel(c) PROVE StreamsInv'
<1> DEFINE r == stream[c]
           e == Ended([r EXCEPT !.excused = TRUE, !.entry = @ /\ ~r.began])
<1>1. StreamOK(r) /\ r.at \in {"sending", "waiting"}
  BY DEF StreamsInv, Cancel
<1>2. Step(c, e)
  BY DEF Cancel
<1>3. /\ StreamOK(e) /\ e.at = "over" /\ (e.entry => r.entry) /\ e.told = EndOf(r.told)
      /\ e.queue \in {r.queue, <<>>}
  BY <1>1, CancelOK
<1> HIDE DEF e
<1>4. Given(e) \subseteq Given(r)
  BY <1>1, <1>3, GivenLess
<1>5. Advances(r, e)
  BY <1>1, <1>3, <1>4 DEF Advances, Reading
<1> QED
  BY <1>2, <1>3, <1>4, <1>5, LocalStep

LEMMA FinaliseStep == ASSUME StreamsInv, NEW c \in Calls, Finalise(c) PROVE StreamsInv'
<1> DEFINE r == stream[c]
           e == Removed(r)
<1>1. StreamOK(r) /\ r.at = "left"
  BY DEF StreamsInv, Finalise, At
<1>2. Step(c, e)
  BY DEF Finalise
<1>3. StreamOK(e) /\ e.at = "over" /\ ~e.entry /\ e.told = EndOf(r.told) /\ e.queue \in {r.queue, <<>>}
  BY <1>1, FinalisedOK
<1> HIDE DEF e
<1>4. Given(e) \subseteq Given(r)
  BY <1>1, <1>3, GivenLess
<1>5. Advances(r, e)
  BY <1>1, <1>3, <1>4 DEF Advances, Reading
<1> QED
  BY <1>2, <1>3, <1>4, <1>5, LocalStep

(* The request goes out: its call is new to the panel.                      *)
LEMMA SubmitStep == ASSUME StreamsInv, NEW c \in Calls, Submit(c) PROVE StreamsInv'
<1> DEFINE r == stream[c]
           e == [r EXCEPT !.at = "sending", !.on = slot, !.entry = TRUE]
<1>1. StreamOK(r) /\ r.at = "idle" /\ LinkTypeOK /\ OneCopy /\ CallOK(c)
  BY DEF StreamsInv, Submit, At
<1>2. /\ conn' = conn /\ slot' = slot /\ toServer' = toServer /\ active' = active /\ script' = script
      /\ toPanel' = [toPanel EXCEPT ![slot] = Append(@, c)] /\ stream' = [stream EXCEPT ![c] = e]
      /\ slot \in Sockets
  BY <1>1 DEF Submit, Connected, linkvars, LinkTypeOK
<1>3. StreamOK(e) /\ e.at = "sending" /\ e.entry /\ e.told = <<>> /\ e.queue = <<>>
  BY <1>1, <1>2, SubmittedOK
<1> HIDE DEF e
<1>4. script[c] = "none" /\ ~Queued(c) /\ \A s \in Sockets : Of(c, s) = {}
  BY <1>1 DEF CallOK, Once, At
<1>5. /\ \A s \in Sockets \ {slot} : toPanel'[s] = toPanel[s]
      /\ toPanel'[slot] = Append(toPanel[slot], c)
      /\ stream'[c] = e /\ \A d \in Calls \ {c} : stream'[d] = stream[d]
  BY <1>1, <1>2 DEF LinkTypeOK
<1>6. \A s \in Sockets : \A k \in DOMAIN toPanel'[s] :
         \/ k \in DOMAIN toPanel[s] /\ toPanel'[s][k] = toPanel[s][k]
         \/ s = slot /\ k = Len(toPanel[slot]) + 1 /\ toPanel'[s][k] = c
  <2>1. toPanel[slot] \in Seq(Calls)
    BY <1>1, <1>2 DEF LinkTypeOK
  <2>2. \A k \in DOMAIN toPanel'[slot] :
           \/ k \in DOMAIN toPanel[slot] /\ toPanel'[slot][k] = toPanel[slot][k]
           \/ k = Len(toPanel[slot]) + 1 /\ toPanel'[slot][k] = c
    BY <1>5, <2>1, AppendProperties
  <2> QED
    BY <1>5, <2>2
<1>7. OneCopy'
  BY <1>1, <1>4, <1>6 DEF OneCopy, Queued
<1>8. LinkTypeOK'
  <2>1. DOMAIN stream' = Calls /\ stream' = [d \in Calls |-> stream'[d]]
    BY <1>1, <1>2 DEF LinkTypeOK
  <2>2. toPanel' \in [Sockets -> Seq(Calls)]
    BY <1>1, <1>2 DEF LinkTypeOK
  <2> QED
    BY <1>1, <1>2, <2>1, <2>2 DEF LinkTypeOK
<1>9. ASSUME NEW d \in Calls \ {c} PROVE (StreamOK(stream[d]) /\ CallOK(d))'
  <2>1. LinkTypeOK /\ StreamOK(stream[d]) /\ CallOK(d) /\ stream'[d] = stream[d]
    BY <1>5 DEF StreamsInv
  <2>2. Unmoved(d)
    BY <1>2, <1>6 DEF Unmoved, Of, Queued
  <2>3. Advances(stream[d], stream'[d])
    BY <2>1 DEF Advances
  <2> QED
    BY <2>1, <2>2, <2>3, CallMoves
<1>10. CallOK(c)'
  <2>1. Given(stream'[c]) = {} /\ stream'[c] = e
    BY <1>3, <1>5 DEF Given
  <2>2. \A s \in Sockets : Of(c, s)' = {}
    BY <1>2, <1>4 DEF Of
  <2>3. Once(c)' /\ Unheard(c)' /\ Evidence(c)'
    BY <1>1, <1>2, <1>3, <1>4, <2>1, <2>2 DEF CallOK, Once, Unheard, Evidence, At
  <2>4. Pending(c)'
    <3>1. \A x : Precedes(c, x)'
      BY <2>2 DEF Precedes
    <3> QED
      BY <2>1, <2>2, <3>1 DEF Pending, Precedes
  <2> QED
    BY <2>3, <2>4 DEF CallOK
<1> QED
  BY <1>3, <1>5, <1>7, <1>8, <1>9, <1>10 DEF StreamsInv

-----------------------------------------------------------------------------
(* The connection *)

(* Nothing happens to the calls, or all entries are cancelled.              *)
LEMMA LinkStep ==
    ASSUME StreamsInv, LinkTypeOK', OneCopy', \A c \in Calls : Unmoved(c),
           stream' = stream \/ stream' = cancel_all
    PROVE  StreamsInv'
<1> DEFINE x == End("cancelled")
<1>1. ASSUME NEW c \in Calls PROVE (StreamOK(stream[c]) /\ CallOK(c))'
  <2> DEFINE r == stream[c]
             e == Cancelled(r)
  <2>1. LinkTypeOK /\ StreamOK(r) /\ CallOK(c) /\ Unmoved(c)
    BY DEF StreamsInv
  <2>2. CASE stream' = stream
    <3>1. Advances(r, r)
      BY DEF Advances
    <3> QED
      BY <2>1, <2>2, <3>1, CallMoves
  <2>3. CASE stream' = cancel_all
    <3>1. stream'[c] = e
      BY <2>3, CancelAll
    <3>2. StreamOK(e) /\ ~e.entry /\ e.at = r.at /\ e.told = r.told /\ e.queue \in {<<>>, r.queue, Append(r.queue, x)}
      BY <2>1, CancelledOK
    <3>3. x \in Ends \ {End("completed")} /\ Holds(c, x)
      BY EndsDiffer DEF Ends, Holds
    <3> HIDE DEF x, e
    <3>4. e.told \in {r.told, EndOf(r.told), <<>>, <<x>>} /\ e.queue \in {r.queue, <<>>, Append(r.queue, x)}
      BY <3>2
    <3>5. Advances(r, e) /\ Given(e) \subseteq Given(r) \cup {x, x}
      BY <2>1, <3>2, <3>3, <3>4, EndAdvances
    <3> QED
      BY <2>1, <3>1, <3>2, <3>3, <3>5, CallMoves
  <2> QED
    BY <2>2, <2>3
<1> QED
  BY <1>1 DEF StreamsInv

LEMMA CancelAllDomain ==
    ASSUME DOMAIN stream = Calls, stream = [c \in Calls |-> stream[c]], stream' = stream \/ stream' = cancel_all
    PROVE  DOMAIN stream' = Calls /\ stream' = [c \in Calls |-> stream'[c]]
BY DEF cancel_all

LEMMA TakeSlotStep == ASSUME StreamsInv, NEW s \in Sockets, TakeSlot(s) PROVE StreamsInv'
<1>1. LinkTypeOK'
  BY DEF StreamsInv, LinkTypeOK, TakeSlot, panelvars
<1>2. OneCopy' /\ \A c \in Calls : Unmoved(c)
  BY DEF StreamsInv, OneCopy, Unmoved, Queued, Of, TakeSlot, panelvars
<1> QED
  BY <1>1, <1>2, LinkStep DEF TakeSlot

LEMMA LoseStep == ASSUME StreamsInv, NEW s \in Sockets, Lose(s) PROVE StreamsInv'
<1>1. LinkTypeOK'
  BY DEF StreamsInv, LinkTypeOK, Lose, panelvars
<1>2. OneCopy' /\ \A c \in Calls : Unmoved(c)
  BY DEF StreamsInv, OneCopy, Unmoved, Queued, Of, Lose, panelvars
<1> QED
  BY <1>1, <1>2, LinkStep DEF Lose

LEMMA WatchdogStep == ASSUME StreamsInv, WatchdogFires PROVE StreamsInv'
<1>1. LinkTypeOK'
  <2>1. DOMAIN stream' = Calls /\ stream' = [c \in Calls |-> stream'[c]]
    BY CancelAllDomain DEF StreamsInv, LinkTypeOK, WatchdogFires
  <2> QED
    BY <2>1 DEF StreamsInv, LinkTypeOK, WatchdogFires, panelvars
<1>2. OneCopy' /\ \A c \in Calls : Unmoved(c)
  BY DEF StreamsInv, OneCopy, Unmoved, Queued, Of, WatchdogFires, panelvars
<1> QED
  BY <1>1, <1>2, LinkStep DEF WatchdogFires

LEMMA HandlerEndsStep == ASSUME StreamsInv, NEW s \in Sockets, HandlerEnds(s) PROVE StreamsInv'
<1>0. LinkTypeOK /\ (stream' = stream \/ stream' = cancel_all)
  BY DEF StreamsInv, HandlerEnds
<1>1. LinkTypeOK'
  <2>1. DOMAIN stream' = Calls /\ stream' = [c \in Calls |-> stream'[c]]
    BY <1>0, CancelAllDomain DEF LinkTypeOK
  <2>2. toServer' \in [Sockets -> Seq(Message)]
    BY <1>0 DEF LinkTypeOK, HandlerEnds
  <2> QED
    BY <1>0, <2>1, <2>2 DEF LinkTypeOK, HandlerEnds
<1>2. OneCopy'
  BY DEF StreamsInv, OneCopy, HandlerEnds
<1>3. ASSUME NEW c \in Calls PROVE Unmoved(c)
  <2>1. toServer'[s] = <<>> /\ \A t \in Sockets \ {s} : toServer'[t] = toServer[t]
    BY <1>0 DEF LinkTypeOK, HandlerEnds
  <2>2. Of(c, s)' = {} /\ \A t \in Sockets \ {s} : Of(c, t)' = Of(c, t)
    BY <2>1 DEF Of
  <2> QED
    BY <2>1, <2>2 DEF Unmoved, Queued, HandlerEnds
<1> QED
  BY <1>0, <1>1, <1>2, <1>3, LinkStep

-----------------------------------------------------------------------------
(* The server reads a message *)

LEMMA ShiftFacts ==
    ASSUME LinkTypeOK, NEW s \in Sockets, toServer[s] # <<>>, toServer' = [toServer EXCEPT ![s] = Tail(@)]
    PROVE  /\ toServer' \in [Sockets -> Seq(Message)]
           /\ Head(toServer[s]) = toServer[s][1] /\ Head(toServer[s]) \in Message /\ 1 \in DOMAIN toServer[s]
           /\ \A t \in Sockets \ {s} : toServer'[t] = toServer[t]
           /\ DOMAIN toServer[s] \subseteq Nat \ {0}
           /\ \A k \in DOMAIN toServer'[s] : /\ k \in Nat \ {0} /\ k + 1 \in DOMAIN toServer[s]
                                             /\ toServer'[s][k] = toServer[s][k + 1]
           /\ \A k \in DOMAIN toServer[s] : k > 1 => k - 1 \in DOMAIN toServer'[s]
<1>1. toServer[s] \in Seq(Message)
  BY DEF LinkTypeOK
<1>2. toServer'[s] = Tail(toServer[s]) /\ \A t \in Sockets \ {s} : toServer'[t] = toServer[t]
  BY DEF LinkTypeOK
<1>3. /\ Head(toServer[s]) = toServer[s][1] /\ Head(toServer[s]) \in Message
      /\ Tail(toServer[s]) \in Seq(Message) /\ Len(toServer[s]) \in Nat \ {0}
      /\ Len(Tail(toServer[s])) = Len(toServer[s]) - 1
      /\ DOMAIN toServer[s] = 1..Len(toServer[s]) /\ DOMAIN Tail(toServer[s]) = 1..Len(toServer[s]) - 1
      /\ \A k \in 1..Len(toServer[s]) - 1 : Tail(toServer[s])[k] = toServer[s][k + 1]
  BY <1>1, HeadTailProperties
<1>4. toServer' \in [Sockets -> Seq(Message)]
  BY <1>3 DEF LinkTypeOK
<1>5. ASSUME NEW k \in DOMAIN toServer'[s]
      PROVE  k \in Nat \ {0} /\ k + 1 \in DOMAIN toServer[s] /\ toServer'[s][k] = toServer[s][k + 1]
  <2>1. \A n \in Nat : \A i \in 1..n - 1 : i \in Nat \ {0} /\ i + 1 \in 1..n
    OBVIOUS
  <2>2. k \in 1..Len(toServer[s]) - 1
    BY <1>2, <1>3
  <2> QED
    BY <1>2, <1>3, <2>1, <2>2
<1>6. ASSUME NEW k \in DOMAIN toServer[s], k > 1 PROVE k - 1 \in DOMAIN toServer'[s]
  <2>1. \A n \in Nat : \A i \in 1..n : i > 1 => i - 1 \in 1..n - 1
    OBVIOUS
  <2>2. k \in 1..Len(toServer[s]) /\ DOMAIN toServer'[s] = 1..Len(toServer[s]) - 1
    BY <1>2, <1>3
  <2> QED
    BY <1>3, <1>6, <2>1, <2>2
<1> QED
  BY <1>2, <1>3, <1>4, <1>5, <1>6

(* The stream e of a call after a message, whose body may be in its queue.  *)
Reads(r, e, b) ==
    /\ e.at = r.at /\ e.entry = r.entry /\ e.told = r.told
    /\ e.queue \in {r.queue, Append(r.queue, b)}
    /\ r.full => e.full

LEMMA ReadsFacts ==
    ASSUME NEW r, StreamOK(r), NEW e, StreamOK(e), NEW b, Reads(r, e, b)
    PROVE  /\ (Reading(e) <=> Reading(r)) /\ Given(e) \subseteq Given(r) \cup {b}
           /\ \A k \in DOMAIN e.queue : e.queue[k] = b \/ (k \in DOMAIN r.queue /\ e.queue[k] = r.queue[k])
<1>1. r.queue \in Seq(Updates \cup Finals)
  BY StreamFields
<1>2. \A k \in DOMAIN e.queue : e.queue[k] = b \/ (k \in DOMAIN r.queue /\ e.queue[k] = r.queue[k])
  <2>1. CASE e.queue = Append(r.queue, b)
    <3>1. /\ DOMAIN e.queue = 1..Len(r.queue) + 1 /\ DOMAIN r.queue = 1..Len(r.queue) /\ Len(r.queue) \in Nat
          /\ \A k \in 1..Len(r.queue) : e.queue[k] = r.queue[k]
          /\ e.queue[Len(r.queue) + 1] = b
      BY <1>1, <2>1
    <3> QED
      BY <3>1
  <2> QED
    BY <2>1 DEF Reads
<1> QED
  BY <1>2 DEF Reads, Reading, Given

(* What may be said of a call while the messages of s move up by one.       *)
LEMMA ShiftedCall ==
    ASSUME StreamsInv, NEW s \in Sockets, toServer[s] # <<>>,
           toServer' = [toServer EXCEPT ![s] = Tail(@)],
           toPanel' = toPanel, active' = active, script' = script,
           NEW c \in Calls, NEW b, b = toServer[s][1].body, StreamOK(stream'[c]),
           \/ stream'[c] = stream[c] /\ toServer[s][1].call # c
           \/ /\ toServer[s][1].call = c /\ Reads(stream[c], stream'[c], b)
              /\ b \in Finals \/ /\ b \in Updates
                                 /\ ~stream'[c].full /\ stream[c].entry =>
                                      stream'[c].queue = Append(stream[c].queue, b)
    PROVE  CallOK(c)'
<1> DEFINE r == stream[c]
           e == stream'[c]
<1>0. LinkTypeOK /\ StreamOK(r) /\ CallOK(c) /\ Once(c) /\ Unheard(c) /\ Evidence(c) /\ Pending(c)
  BY DEF StreamsInv, CallOK
<1>1. /\ toServer' \in [Sockets -> Seq(Message)] /\ 1 \in DOMAIN toServer[s]
      /\ \A t \in Sockets \ {s} : toServer'[t] = toServer[t]
      /\ DOMAIN toServer[s] \subseteq Nat \ {0}
      /\ \A k \in DOMAIN toServer'[s] : /\ k \in Nat \ {0} /\ k + 1 \in DOMAIN toServer[s]
                                        /\ toServer'[s][k] = toServer[s][k + 1]
      /\ \A k \in DOMAIN toServer[s] : k > 1 => k - 1 \in DOMAIN toServer'[s]
  BY <1>0, ShiftFacts
<1>2. \A t \in {s} : \A k \in Of(c, t)' : k \in Nat \ {0} /\ k + 1 \in Of(c, s) /\ toServer'[s][k] = toServer[s][k + 1]
  BY <1>1 DEF Of
<1>3. \A t \in Sockets \ {s} : Of(c, t)' = Of(c, t) /\ \A k \in Of(c, t)' : toServer'[t][k] = toServer[t][k]
  BY <1>1 DEF Of
<1>14. \A t \in Sockets : \A k \in Of(c, t)' :
         \E i \in Of(c, t) : toServer'[t][k] = toServer[t][i] /\ i = IF t = s THEN k + 1 ELSE k
  BY <1>2, <1>3
<1>4. /\ e.at = r.at /\ e.entry = r.entry /\ e.told = r.told /\ (r.full => e.full)
      /\ (Reading(e) <=> Reading(r))
      /\ \A x \in Given(e) \ Given(r) : x = b /\ 1 \in Of(c, s)
      /\ \A k \in DOMAIN e.queue : \/ e.queue[k] = b /\ 1 \in Of(c, s)
                                   \/ k \in DOMAIN r.queue /\ e.queue[k] = r.queue[k]
  <2>1. CASE e = r
    BY <2>1
  <2>2. CASE toServer[s][1].call = c /\ Reads(r, e, b)
    <3>1. 1 \in Of(c, s)
      BY <1>1, <2>2 DEF Of
    <3>2. /\ (Reading(e) <=> Reading(r)) /\ Given(e) \subseteq Given(r) \cup {b}
          /\ \A k \in DOMAIN e.queue : e.queue[k] = b \/ (k \in DOMAIN r.queue /\ e.queue[k] = r.queue[k])
      BY <1>0, <2>2, ReadsFacts
    <3> QED
      BY <2>2, <3>1, <3>2 DEF Reads
  <2> QED
    BY <2>1, <2>2
<1>5. Queued(c)' = Queued(c) /\ \A x : Holds(c, x) => Holds(c, x)'
  BY DEF Queued, Holds
<1>6. \A t \in Sockets : Of(c, t) = {} => Of(c, t)' = {}
  BY <1>2, <1>3
<1>7. Once(c)'
  <2>1. At(c, "idle")' => At(c, "idle")
    BY <1>4 DEF At
  <2> QED
    BY <1>0, <1>5, <1>6, <2>1 DEF Once
<1>8. Unheard(c)'
  <2>1. ASSUME Queued(c)' \/ script'[c] = "running"
        PROVE  /\ \A t \in Sockets : Of(c, t)' = {}
               /\ e = r
               /\ Given(r) \cap Updates = {} /\ (r.entry /\ r.at # "over" => r.queue = <<>>)
    <3>1. \A t \in Sockets : Of(c, t) = {}
      BY <1>0, <1>5, <2>1 DEF Unheard
    <3>2. toServer[s][1].call # c
      BY <1>1, <3>1 DEF Of
    <3> QED
      BY <1>0, <1>5, <1>6, <2>1, <3>1, <3>2 DEF Unheard
  <2> QED
    BY <2>1 DEF Unheard
<1>9. Evidence(c)'
  <2>1. \A x \in Given(e) : Holds(c, x)
    BY <1>0, <1>4 DEF Evidence
  <2>2. \A t \in Sockets : \A k \in Of(c, t)' : Holds(c, toServer'[t][k].body)
    BY <1>0, <1>14 DEF Evidence
  <2> QED
    BY <1>5, <2>1, <2>2 DEF Evidence
<1>10. Pending(c)'
  <2> DEFINE P(x) == \A t \in Sockets : \A k \in Of(c, t)' : Ahead(x, toServer'[t][k].body)
  <2>1. \A x : Precedes(c, x) => P(x)
    BY <1>14 DEF Precedes
  <2>2. \A t, u \in Sockets : Of(c, t)' # {} /\ Of(c, u)' # {} => t = u
    BY <1>0, <1>6 DEF Pending
  <2>3. \A t \in Sockets : \A j, k \in Of(c, t) : j < k => Ahead(toServer[t][j].body, toServer[t][k].body)
    BY <1>0 DEF Pending
  <2>4. \A t \in Sockets : \A j, k \in Of(c, t)' : j < k => Ahead(toServer'[t][j].body, toServer'[t][k].body)
    <3>1. \A j, k \in Of(c, s)' : j < k => Ahead(toServer'[s][j].body, toServer'[s][k].body)
      <4> TAKE j, k \in Of(c, s)'
      <4>1. PICK i \in Of(c, s) : toServer'[s][j] = toServer[s][i] /\ i = j + 1
        BY <1>14
      <4>2. PICK l \in Of(c, s) : toServer'[s][k] = toServer[s][l] /\ l = k + 1
        BY <1>14
      <4>3. j \in Nat /\ k \in Nat
        BY <1>2
      <4>4. j < k => i < l
        BY <4>1, <4>2, <4>3
      <4> QED
        BY <2>3, <4>1, <4>2, <4>4
    <3>2. \A t \in Sockets \ {s} : \A j, k \in Of(c, t)' : j < k => Ahead(toServer'[t][j].body, toServer'[t][k].body)
      BY <1>3, <2>3
    <3> QED
      BY <3>1, <3>2
  <2>5. 1 \in Of(c, s) => P(b)
    <3>1. ASSUME 1 \in Of(c, s), NEW t \in Sockets, NEW k \in Of(c, t)'
          PROVE  Ahead(b, toServer'[t][k].body)
      <4>1. t = s
        BY <1>0, <1>6, <3>1 DEF Pending
      <4>2. PICK i \in Of(c, s) : toServer'[s][k] = toServer[s][i] /\ i = k + 1
        BY <1>14, <3>1, <4>1
      <4>3. k \in Nat \ {0}
        BY <1>2, <3>1, <4>1
      <4>4. 1 < i
        BY <4>2, <4>3
      <4> QED
        BY <2>3, <3>1, <4>1, <4>2, <4>4
    <3> QED
      BY <3>1
  <2>6. e.entry /\ e.at # "over" => \A j \in DOMAIN e.queue : P(e.queue[j])
    <3> HIDE DEF P
    <3> QED
      BY <1>0, <1>4, <2>1, <2>5 DEF Pending
  <2>7. e.entry /\ Reading(e) => \A j \in DOMAIN e.told : P(e.told[j])
    <3> HIDE DEF P
    <3> QED
      BY <1>0, <1>4, <2>1 DEF Pending
  <2>8. End("completed") \in Given(e) => P(End("completed"))
    <3> HIDE DEF P
    <3> QED
      BY <1>0, <1>4, <2>1, <2>5 DEF Pending
  <2>9. ASSUME e.entry, Reading(e), ~e.full, NEW t \in Sockets, NEW k \in Of(c, t)',
               toServer'[t][k].body \in Updates
        PROVE  Continues(c, t, k)'
    <3>0. r.entry /\ Reading(r) /\ ~r.full
      BY <1>4, <2>9
    <3>1. CASE t # s
      <4>1. k \in Of(c, t) /\ toServer'[t] = toServer[t] /\ Of(c, t)' = Of(c, t)
        BY <1>1, <1>3, <2>9, <3>1
      <4>2. Continues(c, t, k)
        BY <1>0, <2>9, <3>0, <4>1 DEF Pending
      <4>3. 1 \notin Of(c, s)
        BY <1>0, <2>9, <3>1, <4>1 DEF Pending
      <4>4. e = r
        BY <1>1, <4>3 DEF Of
      <4> QED
        BY <4>1, <4>2, <4>4 DEF Continues
    <3>2. CASE t = s
      <4>1. k \in Nat \ {0} /\ k + 1 \in Of(c, s) /\ toServer'[s][k] = toServer[s][k + 1]
        BY <1>2, <2>9, <3>2
      <4>2. Continues(c, s, k + 1)
        BY <1>0, <2>9, <3>0, <3>2, <4>1 DEF Pending
      <4>3. (k + 1) - 1 = k
        BY <4>1
      <4>4. CASE toServer[s][k] = [call |-> c, body |-> Update(toServer[s][k + 1].body[2] - 1)] /\ k > 1
        <5>1. toServer'[s][k - 1] = toServer[s][k]
          <6>1. k \in DOMAIN toServer[s]
            BY <1>1, <4>1, NoDomain DEF Of, LinkTypeOK
          <6>2. k - 1 \in DOMAIN toServer'[s] /\ (k - 1) + 1 = k
            BY <1>1, <4>1, <4>4, <6>1
          <6> QED
            BY <1>1, <6>2
        <5> QED
          BY <3>2, <4>1, <4>4, <5>1 DEF Continues
      <4>5. CASE toServer[s][k] = [call |-> c, body |-> Update(toServer[s][k + 1].body[2] - 1)] /\ k = 1
        <5>1. 1 \in Of(c, s) /\ b = Update(toServer[s][2].body[2] - 1)
          BY <1>1, <4>5 DEF Of
        <5>2. b \in Updates /\ e.queue = Append(r.queue, b)
          <6>1. b \notin Finals
            BY <5>1 DEF Update, Finals, End
          <6> QED
            BY <1>1, <2>9, <3>0, <5>1, <6>1 DEF Of
        <5>3. Continues(c, s, 1)
          BY <1>0, <3>0, <5>1, <5>2 DEF Pending
        <5>4. b = Update(Len(r.told) + Len(r.queue) + 1)
          <6>1. ~(1 > 1)
            OBVIOUS
          <6> QED
            BY <5>3, <6>1 DEF Continues
        <5>5. /\ r.told \in Seq(Updates \cup Ends) /\ r.queue \in Seq(Updates \cup Finals)
              /\ Len(e.queue) = Len(r.queue) + 1 /\ Len(r.told) \in Nat /\ Len(r.queue) \in Nat
          BY <1>0, <5>2, StreamFields
        <5>6. toServer[s][2].body = Update(Len(e.told) + Len(e.queue) + 1)
          <6> DEFINE n == toServer[s][2].body[2]
                     a == Len(r.told)
                     q == Len(r.queue)
          <6>1. toServer[s][2].body = Update(n) /\ n \in Nat
            <7>1. toServer'[s][1] = toServer[s][2] /\ toServer'[s][1].body \in Updates
              <8>1. 1 + 1 = 2
                OBVIOUS
              <8> QED
                BY <2>9, <3>2, <4>1, <4>5, <8>1
            <7> QED
              BY <7>1, Tokens
          <6>2. n - 1 = a + q + 1
            <7>1. \A i : Update(i)[2] = i
              BY DEF Update
            <7>2. Update(n - 1) = Update(a + q + 1)
              BY <5>1, <5>4
            <7> QED
              BY <7>1, <7>2
          <6>3. Len(e.told) = a /\ Len(e.queue) = q + 1 /\ a \in Nat /\ q \in Nat
            BY <1>4, <5>5
          <6> HIDE DEF n, a, q
          <6>4. n = a + (q + 1) + 1
            BY <6>1, <6>2, <6>3
          <6> QED
            BY <6>1, <6>3, <6>4
        <5>7. \A j \in Of(c, s)' : j >= k
          BY <1>2, <4>5
        <5>8. toServer'[s][1] = toServer[s][2]
          <6>1. 1 + 1 = 2
            OBVIOUS
          <6> QED
            BY <4>1, <4>5, <6>1
        <5> QED
          BY <3>2, <4>5, <5>6, <5>7, <5>8 DEF Continues
      <4>6. CASE /\ \A j \in Of(c, s) : j >= k + 1
                 /\ toServer[s][k + 1].body = Update(Len(r.told) + Len(r.queue) + 1)
        <5>1. 1 \notin Of(c, s)
          BY <4>1, <4>6
        <5>2. e = r
          BY <1>1, <5>1 DEF Of
        <5>3. \A j \in Of(c, s)' : j >= k
          <6> TAKE j \in Of(c, s)'
          <6>1. j \in Nat /\ j + 1 \in Of(c, s)
            BY <1>2
          <6> QED
            BY <4>1, <4>6, <6>1
        <5> QED
          BY <3>2, <4>1, <4>6, <5>2, <5>3 DEF Continues
      <4>7. \/ toServer[s][k] = [call |-> c, body |-> Update(toServer[s][k + 1].body[2] - 1)]
            \/ /\ \A j \in Of(c, s) : j >= k + 1
               /\ toServer[s][k + 1].body = Update(Len(r.told) + Len(r.queue) + 1)
        BY <4>2, <4>3 DEF Continues
      <4>8. k = 1 \/ k > 1
        BY <4>1
      <4> QED
        BY <4>4, <4>5, <4>6, <4>7, <4>8
    <3> QED
      BY <3>1, <3>2
  <2> QED
    BY <2>2, <2>4, <2>6, <2>7, <2>8, <2>9 DEF Pending, Precedes
<1> QED
  BY <1>7, <1>8, <1>9, <1>10 DEF CallOK

LEMMA ReadMessageStep == ASSUME StreamsInv, NEW s \in Sockets, ReadMessage(s) PROVE StreamsInv'
<1> DEFINE m == Head(toServer[s])
           c == m.call
           b == m.body
           r == stream[c]
<1>0. LinkTypeOK /\ OneCopy
  BY DEF StreamsInv
<1>1. /\ toServer[s] # <<>> /\ toServer' = [toServer EXCEPT ![s] = Tail(@)]
      /\ conn' = conn /\ slot' = slot /\ toPanel' = toPanel /\ active' = active /\ script' = script
  BY DEF ReadMessage, linkvars
<1>2. /\ toServer' \in [Sockets -> Seq(Message)] /\ m = toServer[s][1] /\ m \in Message
      /\ 1 \in DOMAIN toServer[s]
  BY <1>0, <1>1, ShiftFacts
<1>3. c \in Calls /\ b \in Updates \cup Finals /\ 1 \in Of(c, s)
  BY <1>2 DEF Message, Of
<1>4. StreamOK(r) /\ Pending(c)
  BY <1>3 DEF StreamsInv, CallOK
<1>5. ASSUME b \in Updates
      PROVE  /\ StreamOK(push_update(r, b)) /\ Reads(r, push_update(r, b), b)
             /\ ~push_update(r, b).full /\ r.entry => push_update(r, b).queue = Append(r.queue, b)
  <2> HIDE DEF r, c
  <2>1. \A x : Precedes(c, x) => Ahead(x, b)
    BY <1>2, <1>3 DEF Precedes
  <2>2. r.entry /\ r.at # "over" => \A j \in DOMAIN r.queue : Ahead(r.queue[j], b)
    BY <1>4, <2>1 DEF Pending, r
  <2>3. r.entry /\ Reading(r) => \A j \in DOMAIN r.told : Ahead(r.told[j], b)
    BY <1>4, <2>1 DEF Pending, r
  <2>4. r.entry /\ Reading(r) /\ ~r.full => b = Update(Len(r.told) + Len(r.queue) + 1)
    <3>1. r.entry /\ Reading(r) /\ ~r.full => Continues(c, s, 1)
      BY <1>2, <1>3, <1>4, <1>5 DEF Pending, r
    <3>2. ~(1 > 1)
      OBVIOUS
    <3> QED
      BY <1>2, <3>1, <3>2 DEF Continues, r
  <2>5. StreamOK(push_update(r, b))
    BY <1>4, <1>5, <2>2, <2>3, <2>4, PushOK
  <2>6. r \in Stream
    BY <1>4, StreamFields
  <2>7. Reads(r, push_update(r, b), b)
    BY <2>6 DEF Reads, push_update, Stream
  <2>8. ~push_update(r, b).full /\ r.entry => push_update(r, b).queue = Append(r.queue, b)
    BY <2>6 DEF push_update, Stream
  <2> QED
    BY <2>5, <2>7, <2>8
<1>6. ASSUME b \in Finals
      PROVE  StreamOK(complete_streaming(r, b)) /\ Reads(r, complete_streaming(r, b), b)
  <2> HIDE DEF r
  <2> QED
    BY <1>4, <1>6, CompleteOK DEF Reads
<1>7. Reads(r, r, b)
  BY DEF Reads
<1>8. \E e : /\ stream' = [stream EXCEPT ![c] = e] /\ StreamOK(e) /\ Reads(r, e, b)
             /\ b \in Finals \/ (b \in Updates /\ (~e.full /\ r.entry => e.queue = Append(r.queue, b)))
  <2>1. CASE b \in Updates /\ stream' = [stream EXCEPT ![c] = push_update(@, b)]
    BY <1>5, <2>1
  <2>2. CASE b \in Finals /\ stream' = [stream EXCEPT ![c] = complete_streaming(@, b)]
    BY <1>6, <2>2
  <2>3. CASE b = End("completed") /\ stream' = stream
    <3>1. stream' = [stream EXCEPT ![c] = r]
      BY <1>0, <2>3 DEF LinkTypeOK
    <3>2. b \in Finals
      BY <2>3 DEF Finals
    <3> QED
      BY <1>4, <1>7, <3>1, <3>2
  <2> QED
    BY <2>1, <2>2, <2>3 DEF ReadMessage
<1>9. PICK e : /\ stream' = [stream EXCEPT ![c] = e] /\ StreamOK(e) /\ Reads(r, e, b)
               /\ b \in Finals \/ (b \in Updates /\ (~e.full /\ r.entry => e.queue = Append(r.queue, b)))
  BY <1>8
<1>10. stream'[c] = e /\ \A d \in Calls \ {c} : stream'[d] = stream[d]
  BY <1>0, <1>3, <1>9 DEF LinkTypeOK
<1>11. LinkTypeOK'
  <2>1. DOMAIN stream' = Calls /\ stream' = [d \in Calls |-> stream'[d]]
    BY <1>0, <1>9 DEF LinkTypeOK
  <2> QED
    BY <1>0, <1>1, <1>2, <2>1 DEF LinkTypeOK
<1>12. OneCopy'
  BY <1>0, <1>1 DEF OneCopy
<1>13. ASSUME NEW d \in Calls PROVE (StreamOK(stream[d]) /\ CallOK(d))'
  <2>1. StreamOK(stream'[d])
    BY <1>9, <1>10 DEF StreamsInv
  <2>2. \/ stream'[d] = stream[d] /\ toServer[s][1].call # d
        \/ /\ toServer[s][1].call = d /\ Reads(stream[d], stream'[d], b)
           /\ b \in Finals \/ /\ b \in Updates
                              /\ ~stream'[d].full /\ stream[d].entry =>
                                   stream'[d].queue = Append(stream[d].queue, b)
    BY <1>2, <1>9, <1>10
  <2>3. b = toServer[s][1].body
    BY <1>2
  <2> HIDE DEF b
  <2> QED
    BY <1>1, <2>1, <2>2, <2>3, ShiftedCall
<1> QED
  BY <1>11, <1>12, <1>13 DEF StreamsInv

-----------------------------------------------------------------------------
(* The panel *)

LEMMA TakenUp ==
    ASSUME LinkTypeOK, OneCopy, NEW s \in Sockets, toPanel[s] # <<>>,
           toPanel' = [toPanel EXCEPT ![s] = Tail(@)], NEW c, c = First(s)
    PROVE  /\ toPanel' \in [Sockets -> Seq(Calls)] /\ OneCopy' /\ c \in Calls
           /\ Queued(c) /\ ~Queued(c)' /\ \A d : Queued(d)' => Queued(d)
<1>1. toPanel[s] \in Seq(Calls)
  BY DEF LinkTypeOK
<1>2. toPanel'[s] = Tail(toPanel[s]) /\ \A t \in Sockets \ {s} : toPanel'[t] = toPanel[t]
  BY DEF LinkTypeOK
<1>3. /\ c = toPanel[s][1] /\ c \in Calls
      /\ Tail(toPanel[s]) \in Seq(Calls) /\ Len(toPanel[s]) \in Nat \ {0}
      /\ DOMAIN toPanel[s] = 1..Len(toPanel[s]) /\ DOMAIN Tail(toPanel[s]) = 1..Len(toPanel[s]) - 1
      /\ \A k \in 1..Len(toPanel[s]) - 1 : Tail(toPanel[s])[k] = toPanel[s][k + 1]
  BY <1>1, HeadTailProperties DEF First
<1>4. toPanel' \in [Sockets -> Seq(Calls)]
  BY <1>3 DEF LinkTypeOK
<1>5. 1 \in DOMAIN toPanel[s]
  BY <1>3
<1>6. ASSUME NEW k \in DOMAIN toPanel'[s]
      PROVE  k \in Nat \ {0} /\ \E i \in DOMAIN toPanel[s] : i = k + 1 /\ i # 1 /\ toPanel'[s][k] = toPanel[s][i]
  <2>1. \A n \in Nat : \A i \in 1..n - 1 : i \in Nat \ {0} /\ i + 1 \in 1..n /\ i + 1 # 1
    OBVIOUS
  <2>2. k \in 1..Len(toPanel[s]) - 1
    BY <1>2, <1>3
  <2> QED
    BY <1>2, <1>3, <2>1, <2>2
<1>7. \A t \in Sockets : \A k \in DOMAIN toPanel'[t] : \E i \in DOMAIN toPanel[t] :
         /\ toPanel'[t][k] = toPanel[t][i] /\ (t = s => i # 1 /\ i = k + 1 /\ k \in Nat) /\ (t # s => i = k)
  BY <1>2, <1>6
<1>8. OneCopy'
  <2> SUFFICES ASSUME NEW t \in Sockets, NEW u \in Sockets, NEW k \in DOMAIN toPanel'[t],
                      NEW l \in DOMAIN toPanel'[u], toPanel'[t][k] = toPanel'[u][l]
               PROVE  t = u /\ k = l
    BY DEF OneCopy
  <2>1. PICK i \in DOMAIN toPanel[t] :
           toPanel'[t][k] = toPanel[t][i] /\ (t = s => i = k + 1 /\ k \in Nat) /\ (t # s => i = k)
    BY <1>7
  <2>2. PICK j \in DOMAIN toPanel[u] :
           toPanel'[u][l] = toPanel[u][j] /\ (u = s => j = l + 1 /\ l \in Nat) /\ (u # s => j = l)
    BY <1>7
  <2>3. t = u /\ i = j
    BY <2>1, <2>2 DEF OneCopy
  <2>4. \A x, y \in Nat : x + 1 = y + 1 => x = y
    OBVIOUS
  <2> QED
    BY <2>1, <2>2, <2>3, <2>4
<1>9. Queued(c) /\ \A d : Queued(d)' => Queued(d)
  BY <1>3, <1>5, <1>7 DEF Queued
<1>10. ~Queued(c)'
  <2>1. ASSUME NEW t \in Sockets, NEW k \in DOMAIN toPanel'[t], toPanel'[t][k] = c PROVE FALSE
    BY <1>3, <1>5, <1>7, <2>1 DEF OneCopy
  <2> QED
    BY <2>1 DEF Queued
<1> QED
  BY <1>3, <1>4, <1>8, <1>9, <1>10

(* What the panel sends about a script, at once: updates from the first on, *)
(* and an end.                                                              *)
Burst(bodies) ==
    /\ bodies \in Seq(Updates \cup Finals)
    /\ \A j, k \in DOMAIN bodies : j < k => Ahead(bodies[j], bodies[k])
    /\ \A k \in DOMAIN bodies : bodies[k] \in Updates => bodies[k] = Update(k)

LEMMA OneMessage == ASSUME NEW x \in Finals PROVE Burst(<<x>>) /\ \A k \in DOMAIN <<x>> : <<x>>[k] = x
<1>1. x \notin Updates
  BY Tokens
<1>2. <<x>> \in Seq(Updates \cup Finals) /\ DOMAIN <<x>> = {1} /\ <<x>>[1] = x
  OBVIOUS
<1> QED
  BY <1>1, <1>2 DEF Burst

LEMMA AllMessages ==
    ASSUME NEW n \in UpdateCounts, NEW x \in Finals
    PROVE  LET bodies == [k \in 1..n |-> Update(k)] \o <<x>> IN
           Burst(bodies) /\ \A k \in DOMAIN bodies : bodies[k] \in Updates \/ bodies[k] = x
<1> DEFINE u == [k \in 1..n |-> Update(k)]
           bodies == u \o <<x>>
<1>1. n \in Nat /\ x \notin Updates
  BY Tokens
<1>2. \A k \in 1..n : Update(k) \in Updates
  BY Tokens
<1>3. u \in Seq(Updates \cup Finals) /\ Len(u) = n
  BY <1>1, <1>2
<1>4. /\ bodies \in Seq(Updates \cup Finals) /\ DOMAIN bodies = 1..n + 1
      /\ \A k \in 1..n : bodies[k] = Update(k)
      /\ bodies[n + 1] = x
  BY <1>1, <1>3, ConcatProperties
<1> HIDE DEF bodies
<1>5. \A k \in DOMAIN bodies : k \in 1..n \/ k = n + 1
  BY <1>1, <1>4
<1>6. \A j, k \in DOMAIN bodies : j < k => Ahead(bodies[j], bodies[k])
  <2> SUFFICES ASSUME NEW j \in DOMAIN bodies, NEW k \in DOMAIN bodies, j < k PROVE Ahead(bodies[j], bodies[k])
    OBVIOUS
  <2>1. j \in 1..n /\ bodies[j] = Update(j)
    BY <1>1, <1>4, <1>5
  <2>2. CASE k = n + 1
    BY <1>1, <1>4, <2>2 DEF Ahead
  <2>3. CASE k \in 1..n
    <3>1. bodies[k] = Update(k) /\ Update(j)[2] = j /\ Update(k)[2] = k
      BY <1>4, <2>3 DEF Update
    <3> QED
      BY <1>2, <2>1, <2>3, <3>1 DEF Ahead
  <2> QED
    BY <1>5, <2>2, <2>3
<1>7. \A k \in DOMAIN bodies : bodies[k] \in Updates => bodies[k] = Update(k)
  BY <1>1, <1>4, <1>5
<1>8. \A k \in DOMAIN bodies : bodies[k] \in Updates \/ bodies[k] = x
  BY <1>2, <1>4, <1>5
<1>9. Burst(bodies)
  BY <1>4, <1>6, <1>7 DEF Burst
<1> QED
  BY <1>8, <1>9 DEF bodies

LEMMA RespondFacts ==
    ASSUME LinkTypeOK, NEW s \in Sockets, NEW c \in Calls, NEW bodies \in Seq(Updates \cup Finals),
           Respond(s, bodies, c), \A t \in Sockets : Of(c, t) = {}
    PROVE  /\ toServer' \in [Sockets -> Seq(Message)]
           /\ \A d \in Calls \ {c} : \A t \in Sockets :
                 Of(d, t)' = Of(d, t) /\ \A k \in Of(d, t) : toServer'[t][k] = toServer[t][k]
           /\ \A t \in Sockets : \A k \in Of(c, t)' :
                 /\ t = s /\ k - Len(toServer[s]) \in DOMAIN bodies
                 /\ toServer'[t][k].body = bodies[k - Len(toServer[s])]
           /\ \A t \in Sockets : \A k \in Of(c, t)' : k - Len(toServer[s]) # 1 =>
                 \E i \in DOMAIN bodies, j \in Of(c, t)' :
                    /\ i = k - Len(toServer[s]) - 1 /\ j = k - 1 /\ k > 1
                    /\ toServer'[t][j] = [call |-> c, body |-> bodies[i]]
<1> DEFINE n == Len(toServer[s])
           ms == [k \in DOMAIN bodies |-> [call |-> c, body |-> bodies[k]]]
<1>1. CASE conn[s] # "open"
  <2>1. toServer' = toServer
    BY <1>1 DEF Respond
  <2>2. \A d : \A t \in Sockets : Of(d, t)' = Of(d, t)
    BY <2>1 DEF Of
  <2> QED
    BY <2>1, <2>2 DEF LinkTypeOK
<1>2. CASE conn[s] = "open"
  <2>1. toServer[s] \in Seq(Message) /\ n \in Nat /\ DOMAIN toServer[s] = 1..n
    BY DEF LinkTypeOK
  <2>2. DOMAIN bodies = 1..Len(bodies) /\ Len(bodies) \in Nat
    BY LenProperties
  <2>3. ms \in Seq(Message) /\ Len(ms) = Len(bodies)
    BY <2>2 DEF Message
  <2>4. toServer' = [toServer EXCEPT ![s] = @ \o ms]
    BY <1>2 DEF Respond
  <2>5. toServer'[s] = toServer[s] \o ms /\ \A t \in Sockets \ {s} : toServer'[t] = toServer[t]
    BY <2>4 DEF LinkTypeOK
  <2>6. /\ toServer'[s] \in Seq(Message) /\ DOMAIN toServer'[s] = 1..n + Len(bodies)
        /\ \A k \in 1..n : toServer'[s][k] = toServer[s][k]
        /\ \A k \in 1..n + Len(bodies) : k > n => toServer'[s][k] = ms[k - n]
    BY <2>1, <2>2, <2>3, <2>5, ConcatProperties
  <2>7. toServer' \in [Sockets -> Seq(Message)]
    <3>1. toServer[s] \o ms \in Seq(Message)
      BY <2>5, <2>6
    <3> QED
      BY <2>4, <3>1 DEF LinkTypeOK
  <2> HIDE DEF n
  <2>8. \A k \in DOMAIN toServer'[s] : \/ k \in 1..n /\ toServer'[s][k] = toServer[s][k]
                                       \/ /\ k \in Nat /\ k > n /\ k - n \in DOMAIN bodies
                                          /\ toServer'[s][k] = [call |-> c, body |-> bodies[k - n]]
    <3> SUFFICES ASSUME NEW k \in DOMAIN toServer'[s], k \notin 1..n
                 PROVE  /\ k \in Nat /\ k > n /\ k - n \in DOMAIN bodies
                        /\ toServer'[s][k] = [call |-> c, body |-> bodies[k - n]]
      BY <2>6
    <3>1. \A a, b \in Nat : \A i \in 1..a + b : i \notin 1..a => i \in Nat /\ i > a /\ i - a \in 1..b
      OBVIOUS
    <3>2. k \in Nat /\ k > n /\ k - n \in 1..Len(bodies) /\ k \in 1..n + Len(bodies)
      BY <2>1, <2>2, <2>6, <3>1
    <3> QED
      BY <2>2, <2>6, <3>2
  <2>9. ASSUME NEW d \in Calls \ {c}, NEW t \in Sockets
        PROVE  Of(d, t)' = Of(d, t) /\ \A k \in Of(d, t) : toServer'[t][k] = toServer[t][k]
    <3>1. CASE t = s
      <4>1. ASSUME NEW k \in DOMAIN toServer'[s], toServer'[s][k].call = d PROVE k \in DOMAIN toServer[s]
        <5>1. \A x : [call |-> c, body |-> x].call # d
          OBVIOUS
        <5>2. k \in 1..n \/ toServer'[s][k] = [call |-> c, body |-> bodies[k - n]]
          BY <2>8
        <5> QED
          BY <2>1, <4>1, <5>1, <5>2
      <4>2. DOMAIN toServer[s] \subseteq DOMAIN toServer'[s]
        BY <2>1, <2>2, <2>6
      <4> QED
        BY <2>1, <2>6, <3>1, <4>1, <4>2 DEF Of
    <3>2. CASE t # s
      BY <2>5, <3>2 DEF Of
    <3> QED
      BY <3>1, <3>2
  <2>10. ASSUME NEW t \in Sockets, NEW k \in Of(c, t)'
         PROVE  /\ t = s /\ k \in Nat /\ k > n /\ k - n \in DOMAIN bodies
                /\ toServer'[t][k].body = bodies[k - n]
    <3>1. t = s
      BY <2>5 DEF Of
    <3>2. k \in DOMAIN toServer'[s] /\ k \notin 1..n
      BY <2>1, <2>6, <3>1 DEF Of
    <3>3. \A x : [call |-> c, body |-> x].body = x
      OBVIOUS
    <3>4. k \in Nat /\ k > n /\ k - n \in DOMAIN bodies /\ toServer'[s][k] = [call |-> c, body |-> bodies[k - n]]
      BY <2>8, <3>2
    <3> QED
      BY <3>1, <3>3, <3>4
  <2>11. ASSUME NEW t \in Sockets, NEW k \in Of(c, t)', k - n # 1
         PROVE  \E i \in DOMAIN bodies, j \in Of(c, t)' :
                   /\ i = k - n - 1 /\ j = k - 1 /\ k > 1
                   /\ toServer'[t][j] = [call |-> c, body |-> bodies[i]]
    <3>1. /\ t = s /\ k \in Nat /\ k > n /\ k - n \in 1..Len(bodies)
      BY <2>2, <2>10
    <3>2. \A a, b \in Nat : \A i \in Nat : i > a /\ i - a \in 1..b /\ i - a # 1 =>
             i > 1 /\ i - 1 \in 1..a + b /\ i - 1 > a /\ (i - 1) - a = i - a - 1 /\ i - a - 1 \in 1..b
      OBVIOUS
    <3>3. /\ k > 1 /\ k - 1 \in 1..n + Len(bodies) /\ k - 1 > n /\ (k - 1) - n = k - n - 1
          /\ k - n - 1 \in 1..Len(bodies)
      BY <2>1, <2>2, <2>11, <3>1, <3>2
    <3>4. k - 1 \in DOMAIN toServer'[s] /\ k - 1 \notin 1..n
      BY <2>1, <2>6, <3>3
    <3>5. toServer'[s][k - 1] = [call |-> c, body |-> bodies[k - n - 1]]
      BY <2>8, <3>3, <3>4
    <3>6. k - 1 \in Of(c, t)'
      BY <3>1, <3>4, <3>5 DEF Of
    <3> QED
      BY <2>2, <3>1, <3>3, <3>5, <3>6
  <2>12. \A t \in Sockets : \A k \in Of(c, t)' : t = s /\ k - n \in DOMAIN bodies /\ toServer'[t][k].body = bodies[k - n]
    BY <2>10
  <2> QED
    BY <2>7, <2>9, <2>11, <2>12 DEF n
<1> QED
  BY <1>1, <1>2

(* Before its script has ended, nothing is claimed of a call.               *)
LEMMA NoClaim ==
    ASSUME NEW c \in Calls, StreamOK(stream[c]), CallOK(c), Queued(c) \/ script[c] = "running"
    PROVE  LET r == stream[c] IN
           /\ r.at # "idle"
           /\ \A x \in Given(r) : x \notin {End("completed"), End("not_started"), End("refused")}
           /\ Given(r) \cap Updates = {} /\ (r.entry /\ r.at # "over" => r.queue = <<>>)
           /\ Reading(r) => r.told = <<>>
           /\ \A t \in Sockets : Of(c, t) = {}
<1> DEFINE r == stream[c]
<1>1. r.at # "idle"
  BY DEF CallOK, Once, At
<1>2. script[c] \in {"none", "running"}
  BY DEF CallOK, Once
<1>3. \A x \in Given(r) : x \notin {End("completed"), End("not_started"), End("refused")}
  BY <1>2 DEF CallOK, Evidence, Holds
<1>4. Given(r) \cap Updates = {} /\ (r.entry /\ r.at # "over" => r.queue = <<>>) /\ \A t \in Sockets : Of(c, t) = {}
  BY DEF CallOK, Unheard
<1>5. ASSUME Reading(r), r.told # <<>> PROVE FALSE
  <2>1. r.told \in Seq(Updates \cup Ends)
    BY StreamFields
  <2>2. Last(r.told) \in Given(r) /\ Len(r.told) \in DOMAIN r.told /\ Last(r.told) = r.told[Len(r.told)]
    BY <1>5, <2>1, LastOf DEF Given
  <2>3. Last(r.told) \in Updates
    BY <1>5, <2>2 DEF StreamOK, PlaceOK, Reading
  <2> QED
    BY <1>4, <2>2, <2>3
<1> QED
  BY <1>1, <1>3, <1>4, <1>5

LEMMA StartedCall ==
    ASSUME StreamsInv, NEW c \in Calls, stream' = stream, toServer' = toServer,
           Queued(c), ~Queued(c)', script'[c] = "running"
    PROVE  CallOK(c)'
<1> DEFINE r == stream[c]
<1>0. StreamOK(r) /\ CallOK(c)
  BY DEF StreamsInv
<1>1. /\ r.at # "idle"
      /\ \A x \in Given(r) : x \notin {End("completed"), End("not_started"), End("refused")}
      /\ Given(r) \cap Updates = {} /\ (r.entry /\ r.at # "over" => r.queue = <<>>)
      /\ \A t \in Sockets : Of(c, t) = {}
  BY <1>0, NoClaim
<1>2. \A t \in Sockets : Of(c, t)' = {}
  BY <1>1 DEF Of
<1>3. Once(c)' /\ Unheard(c)' /\ Evidence(c)'
  BY <1>1, <1>2 DEF Once, Unheard, Evidence, Holds, At
<1>4. \A x : Precedes(c, x)'
  BY <1>2 DEF Precedes
<1>5. Pending(c)'
  BY <1>2, <1>4 DEF Pending, Precedes
<1> QED
  BY <1>3, <1>5 DEF CallOK

LEMMA RespondedCall ==
    ASSUME StreamsInv, NEW s \in Sockets, NEW c \in Calls, NEW bodies, Burst(bodies), Respond(s, bodies, c),
           stream' = stream, Queued(c) \/ script[c] = "running", ~Queued(c)', script'[c] # "running",
           ~(active' # None /\ active'[1] = c), \A k \in DOMAIN bodies : Holds(c, bodies[k])'
    PROVE  CallOK(c)'
<1> DEFINE r == stream[c]
           n == Len(toServer[s])
<1>0. LinkTypeOK /\ StreamOK(r) /\ CallOK(c) /\ bodies \in Seq(Updates \cup Finals)
  BY DEF StreamsInv, Burst
<1>1. /\ r.at # "idle"
      /\ \A x \in Given(r) : x \notin {End("completed"), End("not_started"), End("refused")}
      /\ Given(r) \cap Updates = {} /\ (r.entry /\ r.at # "over" => r.queue = <<>>)
      /\ Reading(r) => r.told = <<>>
      /\ \A t \in Sockets : Of(c, t) = {}
  BY <1>0, NoClaim
<1>2. /\ toServer' \in [Sockets -> Seq(Message)]
      /\ \A t \in Sockets : \A k \in Of(c, t)' :
            t = s /\ k - n \in DOMAIN bodies /\ toServer'[t][k].body = bodies[k - n]
      /\ \A t \in Sockets : \A k \in Of(c, t)' : k - n # 1 =>
            \E i \in DOMAIN bodies, j \in Of(c, t)' :
               /\ i = k - n - 1 /\ j = k - 1 /\ k > 1
               /\ toServer'[t][j] = [call |-> c, body |-> bodies[i]]
  <2>1. /\ LinkTypeOK /\ Respond(s, bodies, c) /\ \A t \in Sockets : Of(c, t) = {}
        /\ bodies \in Seq(Updates \cup Finals)
    BY <1>0, <1>1
  <2> HIDE DEF r
  <2>2. toServer' \in [Sockets -> Seq(Message)]
    BY <2>1, RespondFacts
  <2>3. \A t \in Sockets : \A k \in Of(c, t)' :
           t = s /\ k - n \in DOMAIN bodies /\ toServer'[t][k].body = bodies[k - n]
    BY <2>1, RespondFacts
  <2>4. \A t \in Sockets : \A k \in Of(c, t)' : k - n # 1 =>
            \E i \in DOMAIN bodies, j \in Of(c, t)' :
               /\ i = k - n - 1 /\ j = k - 1 /\ k > 1
               /\ toServer'[t][j] = [call |-> c, body |-> bodies[i]]
    BY <2>1, RespondFacts
  <2> QED
    BY <2>2, <2>3, <2>4
<1>3. n \in Nat /\ DOMAIN bodies = 1..Len(bodies) /\ Len(bodies) \in Nat
  BY <1>0, LenProperties DEF LinkTypeOK
<1>4. \A t \in Sockets : \A k \in Of(c, t)' : k \in Nat
  BY <1>2 DEF Of
<1> HIDE DEF n
<1>5. Once(c)' /\ Unheard(c)'
  BY <1>1 DEF Once, Unheard, At
<1>6. Evidence(c)'
  <2> DEFINE H(x) == /\ x = End("completed") => script'[c] = "done"
                     /\ x \in {End("not_started"), End("refused")} => script'[c] = "none" /\ ~Queued(c)'
  <2>1. \A x \in Given(r) : H(x)
    BY <1>1
  <2>2. \A k \in DOMAIN bodies : H(bodies[k])
    BY DEF Holds
  <2> HIDE DEF H
  <2>3. \A t \in Sockets : \A k \in Of(c, t)' : H(toServer'[t][k].body)
    BY <1>2, <2>2
  <2> QED
    BY <2>1, <2>3 DEF Evidence, Holds, H
<1>7. Pending(c)'
  <2>1. \A t, u \in Sockets : Of(c, t)' # {} /\ Of(c, u)' # {} => t = u
    BY <1>2
  <2>2. \A t \in Sockets : \A j, k \in Of(c, t)' : j < k => Ahead(toServer'[t][j].body, toServer'[t][k].body)
    <3> SUFFICES ASSUME NEW t \in Sockets, NEW j \in Of(c, t)', NEW k \in Of(c, t)', j < k
                 PROVE  Ahead(toServer'[t][j].body, toServer'[t][k].body)
      OBVIOUS
    <3>1. j - n \in DOMAIN bodies /\ k - n \in DOMAIN bodies
      BY <1>2
    <3>2. j - n < k - n
      BY <1>3, <1>4
    <3> QED
      BY <1>2, <3>1, <3>2 DEF Burst
  <2>3. r.entry /\ r.at # "over" => DOMAIN r.queue = {}
    BY <1>1
  <2>4. r.entry /\ Reading(r) => DOMAIN r.told = {}
    BY <1>1
  <2>5. End("completed") \notin Given(r)
    BY <1>1
  <2>6. ASSUME r.entry, Reading(r), NEW t \in Sockets, NEW k \in Of(c, t)', toServer'[t][k].body \in Updates
        PROVE  Continues(c, t, k)'
    <3>1. /\ k - n \in DOMAIN bodies /\ toServer'[t][k].body = bodies[k - n]
          /\ bodies[k - n] = Update(k - n) /\ k \in Nat
      BY <1>2, <1>4, <2>6 DEF Burst
    <3>2. CASE k - n = 1
      <4>1. \A j \in Of(c, t)' : j >= k
        <5> TAKE j \in Of(c, t)'
        <5>1. j \in Nat /\ j - n \in 1..Len(bodies)
          BY <1>2, <1>3, <1>4
        <5> QED
          BY <1>3, <3>1, <3>2, <5>1
      <4>2. Len(r.told) + Len(r.queue) + 1 = 1
        <5>1. r.told = <<>> /\ r.queue = <<>>
          BY <1>1, <2>6 DEF Reading
        <5> QED
          BY <5>1
      <4> HIDE DEF r
      <4>3. toServer'[t][k].body = Update(Len(r.told) + Len(r.queue) + 1)
        BY <3>1, <3>2, <4>2
      <4> QED
        BY <4>1, <4>3 DEF Continues, r
    <3>3. CASE k - n # 1
      <4>1. PICK i \in DOMAIN bodies, j \in Of(c, t)' :
               /\ i = k - n - 1 /\ j = k - 1 /\ k > 1
               /\ toServer'[t][j] = [call |-> c, body |-> bodies[i]]
        BY <1>2, <3>3
      <4>2. i < k - n
        BY <1>3, <3>1, <4>1
      <4>3. bodies[i] = Update(i)
        BY <2>6, <3>1, <4>2 DEF Burst, Ahead
      <4>4. toServer'[t][k].body[2] - 1 = k - n - 1
        <5>1. \A x : Update(x)[2] = x
          BY DEF Update
        <5> QED
          BY <3>1, <5>1
      <4> QED
        BY <4>1, <4>3, <4>4 DEF Continues
    <3> QED
      BY <3>2, <3>3
  <2> QED
    BY <2>1, <2>2, <2>3, <2>4, <2>5, <2>6 DEF Pending, Precedes
<1> QED
  BY <1>5, <1>6, <1>7 DEF CallOK

LEMMA PanelStep ==
    ASSUME StreamsInv, LinkTypeOK', OneCopy', stream' = stream, NEW c \in Calls, CallOK(c)',
           \A d \in Calls \ {c} : Unmoved(d)
    PROVE  StreamsInv'
<1>1. ASSUME NEW d \in Calls \ {c} PROVE CallOK(d)'
  <2>1. LinkTypeOK /\ StreamOK(stream[d]) /\ CallOK(d)
    BY DEF StreamsInv
  <2>2. Advances(stream[d], stream[d])
    BY DEF Advances
  <2> QED
    BY <2>1, <2>2, CallMoves
<1> QED
  BY <1>1 DEF StreamsInv

(* One message answers a request that the panel has taken up.               *)
LEMMA AnsweredStep ==
    ASSUME StreamsInv, NEW s \in Sockets, toPanel[s] # <<>>, NEW c, c = First(s), NEW x \in Finals,
           toPanel' = [toPanel EXCEPT ![s] = Tail(@)], Respond(s, <<x>>, c),
           conn' = conn, slot' = slot, active' = active, stream' = stream,
           \/ script' = script /\ x # End("completed")
           \/ script' = [script EXCEPT ![c] = "thrown"] /\ x = End("unknown")
    PROVE  StreamsInv'
<1>0. LinkTypeOK /\ OneCopy
  BY DEF StreamsInv
<1>1. /\ toPanel' \in [Sockets -> Seq(Calls)] /\ OneCopy' /\ c \in Calls
      /\ Queued(c) /\ ~Queued(c)' /\ \A d : Queued(d)' => Queued(d)
  BY <1>0, TakenUp
<1>2. StreamOK(stream[c]) /\ CallOK(c) /\ script[c] = "none" /\ ~(active # None /\ active[1] = c)
  BY <1>1 DEF StreamsInv, CallOK, Once
<1>3. Burst(<<x>>) /\ \A k \in DOMAIN <<x>> : <<x>>[k] = x
  BY OneMessage
<1> DEFINE bodies == <<x>>
<1> HIDE DEF bodies
<1>4. bodies \in Seq(Updates \cup Finals) /\ \A t \in Sockets : Of(c, t) = {}
  BY <1>1, <1>2, <1>3, NoClaim DEF Burst, bodies
<1>5. /\ toServer' \in [Sockets -> Seq(Message)]
      /\ \A d \in Calls \ {c} : \A t \in Sockets :
            Of(d, t)' = Of(d, t) /\ \A k \in Of(d, t) : toServer'[t][k] = toServer[t][k]
  <2>1. LinkTypeOK /\ Respond(s, bodies, c) /\ c \in Calls
    BY <1>0, <1>1 DEF bodies
  <2>2. toServer' \in [Sockets -> Seq(Message)]
    BY <2>1, <1>4, RespondFacts
  <2>3. \A d \in Calls \ {c} : \A t \in Sockets :
           Of(d, t)' = Of(d, t) /\ \A k \in Of(d, t) : toServer'[t][k] = toServer[t][k]
    BY <2>1, <1>4, RespondFacts
  <2> QED
    BY <2>2, <2>3
<1>6. /\ script' \in [Calls -> {"none", "running", "done", "thrown"}]
      /\ script'[c] \in {"none", "thrown"} /\ \A d \in Calls \ {c} : script'[d] = script[d]
      /\ script'[c] = "none" \/ x = End("unknown")
  BY <1>0, <1>1, <1>2 DEF LinkTypeOK
<1>7. LinkTypeOK'
  BY <1>0, <1>1, <1>5, <1>6 DEF LinkTypeOK
<1>8. Holds(c, x)'
  BY <1>1, <1>6, EndsDiffer DEF Holds
<1>9. CallOK(c)'
  <2>1. \A k \in DOMAIN bodies : Holds(c, bodies[k])'
    BY <1>3, <1>8 DEF bodies, Holds
  <2> QED
    BY <1>1, <1>2, <1>3, <1>6, <2>1, RespondedCall DEF bodies
<1>10. \A d \in Calls \ {c} : Unmoved(d)
  BY <1>1, <1>5, <1>6 DEF Unmoved
<1> QED
  BY <1>1, <1>7, <1>9, <1>10, PanelStep

LEMMA RejectRequestStep == ASSUME StreamsInv, NEW s \in Sockets, RejectRequest(s) PROVE StreamsInv'
<1>1. End("not_started") \in Finals /\ End("not_started") # End("completed")
  BY EndsDiffer
<1> QED
  BY <1>1, AnsweredStep DEF RejectRequest, linkvars

LEMMA EvalThrowsStep == ASSUME StreamsInv, NEW s \in Sockets, EvalThrows(s) PROVE StreamsInv'
<1>1. End("unknown") \in Finals
  BY EndsDiffer
<1> QED
  BY <1>1, AnsweredStep DEF EvalThrows, linkvars

LEMMA StartScriptStep == ASSUME StreamsInv, NEW s \in Sockets, StartScript(s) PROVE StreamsInv'
<1> DEFINE c == First(s)
<1>0. LinkTypeOK /\ OneCopy
  BY DEF StreamsInv
<1> SUFFICES ASSUME NEW d, d = c PROVE StreamsInv'
  OBVIOUS
<1>1. /\ conn' = conn /\ slot' = slot /\ toServer' = toServer /\ stream' = stream
      /\ toPanel[s] # <<>> /\ toPanel' = [toPanel EXCEPT ![s] = Tail(@)]
      /\ active' = <<d, s>> /\ script' = [script EXCEPT ![d] = "running"]
  BY DEF StartScript, linkvars
<1>2. /\ toPanel' \in [Sockets -> Seq(Calls)] /\ OneCopy' /\ d \in Calls
      /\ Queued(d) /\ ~Queued(d)' /\ \A a : Queued(a)' => Queued(a)
  BY <1>0, <1>1, TakenUp
<1>3. /\ script' \in [Calls -> {"none", "running", "done", "thrown"}]
      /\ script'[d] = "running" /\ \A a \in Calls \ {d} : script'[a] = script[a]
  BY <1>0, <1>1, <1>2 DEF LinkTypeOK
<1>4. LinkTypeOK'
  BY <1>0, <1>1, <1>2, <1>3 DEF LinkTypeOK
<1>5. CallOK(d)'
  BY <1>1, <1>2, <1>3, StartedCall
<1>6. \A a \in Calls \ {d} : Unmoved(a)
  BY <1>1, <1>2, <1>3 DEF Unmoved, Of
<1> QED
  BY <1>1, <1>2, <1>4, <1>5, <1>6, PanelStep

LEMMA ScriptReturnsStep == ASSUME StreamsInv, ScriptReturns PROVE StreamsInv'
<1>0. LinkTypeOK /\ OneCopy
  BY DEF StreamsInv
<1> DEFINE c == active[1]
           s == active[2]
<1>1. /\ conn' = conn /\ slot' = slot /\ toPanel' = toPanel /\ stream' = stream
      /\ active # None /\ active' = None /\ script' = [script EXCEPT ![c] = "done"]
  BY DEF ScriptReturns, linkvars
<1>2. c \in Calls /\ s \in Sockets
  BY <1>0, <1>1 DEF LinkTypeOK
<1>3. StreamOK(stream[c]) /\ CallOK(c) /\ script[c] = "running" /\ ~Queued(c)
  BY <1>1, <1>2 DEF StreamsInv, CallOK, Once
<1>4. \E bodies : /\ Burst(bodies) /\ Respond(s, bodies, c)
                  /\ \A k \in DOMAIN bodies : bodies[k] \in Updates \cup {End("completed"), End("unknown")}
  <2>1. End("completed") \in Finals /\ End("unknown") \in Finals
    BY EndsDiffer
  <2>2. CASE Respond(s, <<End("unknown")>>, c)
    BY <2>1, <2>2, OneMessage
  <2>3. ASSUME NEW n \in UpdateCounts, Respond(s, [k \in 1..n |-> Update(k)] \o <<End("completed")>>, c)
        PROVE  \E bodies : /\ Burst(bodies) /\ Respond(s, bodies, c)
                           /\ \A k \in DOMAIN bodies : bodies[k] \in Updates \cup {End("completed"), End("unknown")}
    <3> DEFINE bodies == [k \in 1..n |-> Update(k)] \o <<End("completed")>>
    <3>1. Burst(bodies) /\ \A k \in DOMAIN bodies : bodies[k] \in Updates \/ bodies[k] = End("completed")
      BY <2>1, AllMessages
    <3>2. Respond(s, bodies, c)
      BY <2>3
    <3> HIDE DEF bodies
    <3> QED
      BY <3>1, <3>2
  <2> QED
    BY <2>2, <2>3 DEF ScriptReturns
<1>5. PICK bodies : /\ Burst(bodies) /\ Respond(s, bodies, c)
                    /\ \A k \in DOMAIN bodies : bodies[k] \in Updates \cup {End("completed"), End("unknown")}
  BY <1>4
<1> HIDE DEF s
<1> SUFFICES ASSUME NEW d, d = c PROVE StreamsInv'
  OBVIOUS
<1>6. /\ script' \in [Calls -> {"none", "running", "done", "thrown"}]
      /\ script'[d] = "done" /\ \A a \in Calls \ {d} : script'[a] = script[a]
  BY <1>0, <1>1, <1>2 DEF LinkTypeOK
<1>7. bodies \in Seq(Updates \cup Finals) /\ \A t \in Sockets : Of(d, t) = {}
  BY <1>2, <1>3, <1>5, NoClaim DEF Burst
<1>8. /\ toServer' \in [Sockets -> Seq(Message)]
      /\ \A a \in Calls \ {d} : \A t \in Sockets :
            Of(a, t)' = Of(a, t) /\ \A k \in Of(a, t) : toServer'[t][k] = toServer[t][k]
  BY <1>0, <1>2, <1>5, <1>7, RespondFacts
<1>9. LinkTypeOK' /\ OneCopy'
  BY <1>0, <1>1, <1>6, <1>8 DEF LinkTypeOK, OneCopy
<1>10. ~Queued(d)' /\ \A a : Queued(a)' => Queued(a)
  BY <1>1, <1>3 DEF Queued
<1>11. \A k \in DOMAIN bodies : Holds(d, bodies[k])'
  <2>1. \A x \in Updates \cup {End("completed"), End("unknown")} : x \notin {End("not_started"), End("refused")}
    BY EndsDiffer, Tokens DEF Ends
  <2> QED
    BY <1>5, <1>6, <2>1 DEF Holds
<1>12. CallOK(d)'
  BY <1>1, <1>2, <1>3, <1>5, <1>6, <1>10, <1>11, RespondedCall
<1>13. \A a \in Calls \ {d} : Unmoved(a)
  BY <1>1, <1>6, <1>8, <1>10 DEF Unmoved
<1> QED
  BY <1>1, <1>2, <1>9, <1>12, <1>13, PanelStep

-----------------------------------------------------------------------------
(* The invariant holds *)

LEMMA StreamsInvInit == Init => StreamsInv
<1> SUFFICES ASSUME Init PROVE StreamsInv
  OBVIOUS
<1>1. LinkTypeOK
  BY DEF Init, LinkTypeOK
<1>2. OneCopy /\ \A c \in Calls : ~Queued(c) /\ \A s \in Sockets : Of(c, s) = {}
  BY DEF Init, OneCopy, Queued, Of
<1>3. ASSUME NEW c \in Calls PROVE StreamOK(stream[c])
  <2> DEFINE r == stream[c]
  <2>1. /\ r = [at |-> "idle", on |-> None, entry |-> FALSE, completed |-> FALSE, queue |-> <<>>,
                told |-> <<>>, began |-> FALSE, excused |-> FALSE, full |-> FALSE]
    BY DEF Init
  <2>2. r \in Stream
    BY <2>1 DEF Stream
  <2>3. r.at = "idle" /\ ~r.entry /\ r.queue = <<>> /\ r.told = <<>> /\ ~r.began
    BY <2>1
  <2> HIDE DEF r
  <2>4. Len(r.queue) <= QueueSize
    BY <2>3
  <2>5. PlaceOK(r) /\ ToldInOrder(r) /\ QueueInOrder(r)
    BY <2>3 DEF PlaceOK, ToldInOrder, QueueInOrder
  <2> QED
    BY <2>2, <2>4, <2>5 DEF StreamOK, r
<1>4. ASSUME NEW c \in Calls PROVE CallOK(c)
  <2>1. At(c, "idle") /\ script[c] = "none" /\ active = None /\ stream[c].told = <<>> /\ stream[c].queue = <<>>
    BY DEF Init, At
  <2>2. Given(stream[c]) = {}
    BY <2>1 DEF Given
  <2>3. \A x : Precedes(c, x)
    BY <1>2 DEF Precedes
  <2>4. Once(c) /\ Unheard(c) /\ Evidence(c)
    BY <1>2, <2>1, <2>2 DEF Once, Unheard, Evidence
  <2>5. Pending(c)
    BY <1>2, <2>2, <2>3 DEF Pending
  <2> QED
    BY <2>4, <2>5 DEF CallOK
<1> QED
  BY <1>1, <1>2, <1>3, <1>4 DEF StreamsInv

LEMMA StreamsInvNext == StreamsInv /\ [Next]_vars => StreamsInv'
<1> SUFFICES ASSUME StreamsInv, [Next]_vars PROVE StreamsInv'
  OBVIOUS
<1>1. ASSUME NEW s \in Sockets,
             TakeSlot(s) \/ Lose(s) \/ HandlerEnds(s) \/ ReadMessage(s)
      PROVE  StreamsInv'
  BY <1>1, TakeSlotStep, LoseStep, HandlerEndsStep, ReadMessageStep
<1>2. ASSUME NEW s \in Sockets, RejectRequest(s) \/ StartScript(s) \/ EvalThrows(s)
      PROVE  StreamsInv'
  BY <1>2, RejectRequestStep, StartScriptStep, EvalThrowsStep
<1>3. CASE WatchdogFires
  BY <1>3, WatchdogStep
<1>4. CASE ScriptReturns
  BY <1>4, ScriptReturnsStep
<1>5. ASSUME NEW c \in Calls, Refuse(c) \/ Submit(c) \/ SendFails(c) \/ Sent(c) \/ TakeUpdate(c)
      PROVE  StreamsInv'
  BY <1>5, RefuseStep, SubmitStep, SendFailsStep, SentStep, TakeUpdateStep
<1>6. ASSUME NEW c \in Calls, TimesOut(c) \/ Resume(c) \/ Drop(c) \/ Cancel(c) \/ Finalise(c)
      PROVE  StreamsInv'
  BY <1>6, TimesOutStep, ResumeStep, DropStep, CancelStep, FinaliseStep
<1>7. CASE UNCHANGED vars
  <2>1. LinkTypeOK' /\ OneCopy' /\ stream' = stream
    BY <1>7 DEF vars, StreamsInv, LinkTypeOK, OneCopy
  <2>2. \A c \in Calls : Unmoved(c)
    BY <1>7 DEF vars, Unmoved, Of, Queued
  <2> QED
    BY <2>1, <2>2, LinkStep
<1> QED
  BY <1>1, <1>2, <1>3, <1>4, <1>5, <1>6, <1>7 DEF Next

(* However calls, connections and the panel interleave, StreamsInv holds:    *)
(* entries, messages and scripts of one call tell the same story.            *)
THEOREM StreamsInvariant == Spec => []StreamsInv
<1>1. Init => StreamsInv
  BY StreamsInvInit
<1>2. StreamsInv /\ [Next]_vars => StreamsInv'
  BY StreamsInvNext
<1> QED
  BY <1>1, <1>2, PTL DEF Spec

-----------------------------------------------------------------------------
(* What it says *)

(* Registry entries, queues, connections and scripts are always what their  *)
(* types say; a queue never holds more than its maxsize.                    *)
THEOREM StreamsTyped == Spec => []StreamsTypeOK
<1>1. ASSUME StreamsInv PROVE StreamsTypeOK
  <2>1. LinkTypeOK /\ \A c \in Calls : stream[c] \in Stream /\ Len(stream[c].queue) <= QueueSize
    BY <1>1 DEF StreamsInv, StreamOK
  <2>2. stream \in [Calls -> Stream]
    BY <2>1 DEF LinkTypeOK
  <2> QED
    BY <2>1, <2>2 DEF LinkTypeOK, StreamsTypeOK
<1> QED
  BY <1>1, StreamsInvariant, PTL

(* Whatever is lost, cancelled, replaced or timed out, a consumer gets the  *)
(* updates of its script in order, without a gap unless its queue was full, *)
(* and the result after all of them.                                        *)
THEOREM UpdatesArriveInOrder == Spec => []UpdatesInOrder
<1>1. ASSUME StreamsInv, NEW c \in Calls
      PROVE  LET t == stream[c].told
                 under(s) == \E k \in DOMAIN toServer[s] :
                                toServer[s][k].call = c /\ toServer[s][k].body \in Updates
             IN /\ \A j, k \in DOMAIN t : j < k => t[j] \in Updates /\ (t[k] \in Updates => t[j][2] < t[k][2])
                /\ ~stream[c].full => \A k \in DOMAIN t : t[k] \in Updates => t[k] = Update(k)
                /\ End("completed") \in Range(t) => \A s \in Sockets : ~under(s)
  <2>1. ToldInOrder(stream[c]) /\ Pending(c)
    BY <1>1 DEF StreamsInv, StreamOK, CallOK
  <2>2. End("completed") \in Range(stream[c].told) => Precedes(c, End("completed"))
    BY <2>1 DEF Pending, Given, Range
  <2>3. End("completed") \notin Updates
    BY Tokens, EndsDiffer
  <2>4. ASSUME End("completed") \in Range(stream[c].told), NEW s \in Sockets, NEW k \in DOMAIN toServer[s],
               toServer[s][k].call = c, toServer[s][k].body \in Updates
        PROVE  FALSE
    BY <2>2, <2>3, <2>4 DEF Precedes, Of, Ahead
  <2> QED
    BY <2>1, <2>4 DEF ToldInOrder, Ahead
<1>2. StreamsInv => UpdatesInOrder
  BY <1>1 DEF UpdatesInOrder
<1> QED
  BY <1>2, StreamsInvariant, PTL

(* A result is never a lie: what is told completed has returned, and what   *)
(* is told not_started or refused has not run and is not on its way.        *)
THEOREM ResultsAreTrue == Spec => []FinalIsTrue
<1>1. ASSUME StreamsInv, NEW c \in Calls
      PROVE  LET t == Range(stream[c].told) IN
             /\ End("completed") \in t => script[c] = "done"
             /\ t \cap {End("not_started"), End("refused")} # {} =>
                  script[c] = "none" /\ \A s \in Sockets : c \notin Range(toPanel[s])
  <2>1. \A x \in Range(stream[c].told) : Holds(c, x)
    BY <1>1 DEF StreamsInv, CallOK, Evidence, Given, Range
  <2>2. ~Queued(c) => \A s \in Sockets : c \notin Range(toPanel[s])
    BY DEF Queued, Range
  <2> QED
    BY <2>1, <2>2 DEF Holds
<1>2. StreamsInv => FinalIsTrue
  BY <1>1 DEF FinalIsTrue
<1> QED
  BY <1>2, StreamsInvariant, PTL

(* A generator that its consumer did not leave has told how the stream      *)
(* ended.                                                                   *)
THEOREM EndIsTold == Spec => []ToldTheEnd
<1>1. StreamsInv => ToldTheEnd
  BY DEF StreamsInv, StreamOK, PlaceOK, ToldTheEnd
<1> QED
  BY <1>1, StreamsInvariant, PTL

(* No entry outlives the generator that would have removed it.              *)
THEOREM EntriesHaveReaders == Spec => []EntryHasReader
<1>1. StreamsInv => EntryHasReader
  BY DEF StreamsInv, StreamOK, PlaceOK, EntryHasReader
<1> QED
  BY <1>1, StreamsInvariant, PTL

-----------------------------------------------------------------------------
(* Streams implements ScriptCall: what a consumer is told, by where its      *)
(* generator is, and what Illustrator has done with its script, change as    *)
(* they do for a plain call.                                                 *)

LEMMA VerdictOf ==
    \A x \in Ends : /\ x = End(x[1])
                    /\ Verdict(x[1]) \in {"completed", "not_started", "unknown"}
                    /\ Verdict(x[1]) = "completed" => x = End("completed")
                    /\ Verdict(x[1]) = "not_started" => x \in {End("not_started"), End("refused")}
<1>1. \A how : End(how)[1] = how
  BY DEF End
<1>2. \A x \in Ends : \E how : x = End(how)
  BY DEF Ends, Finals
<1>3. \A x \in Ends : x = End(x[1])
  BY <1>1, <1>2
<1> QED
  BY <1>3 DEF Verdict

LEMMA ToldIs ==
    ASSUME NEW r, StreamOK(r)
    PROVE  /\ r.at = "idle" => ToldTo(r) = "idle"
           /\ r.at # "idle" => ToldTo(r) \in {"open", "completed", "not_started", "unknown"}
           /\ r.at \in {"sending", "waiting"} => ToldTo(r) = "open"
           /\ r.at = "given" /\ Last(r.told) \in Updates => ToldTo(r) = "open"
           /\ r.at # "idle" /\ r.told # <<>> /\ Last(r.told) \in Ends => ToldTo(r) = Verdict(Last(r.told)[1])
           /\ r.at \in {"left", "over"} /\ (r.told = <<>> \/ Last(r.told) \in Updates) => ToldTo(r) = "unknown"
           /\ ToldTo(r) = "completed" => End("completed") \in Given(r)
           /\ ToldTo(r) = "not_started" => End("not_started") \in Given(r) \/ End("refused") \in Given(r)
<1> DEFINE x == Last(r.told)
<1>1. r \in Stream /\ r.told \in Seq(Updates \cup Ends)
  BY StreamFields
<1>2. r.told # <<>> => x \in Updates \cup Ends /\ x \in Given(r)
  BY <1>1, LastOf DEF Given
<1>3. Updates \cap Ends = {}
  BY Tokens
<1>4. r.at \in {"sending", "waiting"} => r.told = <<>> \/ x \in Updates
  BY <1>1, LastOf DEF StreamOK, PlaceOK
<1>5. r.at = "given" => r.told # <<>>
  BY DEF StreamOK, PlaceOK
<1>6. r.told # <<>> /\ x \in Ends =>
         /\ Verdict(x[1]) \in {"completed", "not_started", "unknown"}
         /\ Verdict(x[1]) = "completed" => End("completed") \in Given(r)
         /\ Verdict(x[1]) = "not_started" => End("not_started") \in Given(r) \/ End("refused") \in Given(r)
  BY <1>2, VerdictOf
<1>7. ToldTo(r) = IF r.at = "idle" THEN "idle"
                  ELSE IF r.told # <<>> /\ x \notin Updates THEN Verdict(x[1])
                  ELSE IF r.at \in {"left", "over"} THEN "unknown" ELSE "open"
  BY DEF ToldTo
<1> HIDE DEF x
<1>8. r.told # <<>> /\ x \notin Updates => x \in Ends
  BY <1>2
<1>9. r.at # "idle" => ToldTo(r) \in {"open", "completed", "not_started", "unknown"}
  BY <1>6, <1>7, <1>8
<1>10. /\ ToldTo(r) = "completed" => End("completed") \in Given(r)
       /\ ToldTo(r) = "not_started" => End("not_started") \in Given(r) \/ End("refused") \in Given(r)
  BY <1>6, <1>7, <1>8
<1>11. /\ r.at \in {"sending", "waiting"} => ToldTo(r) = "open"
       /\ r.at = "given" /\ x \in Updates => ToldTo(r) = "open"
       /\ r.at \in {"left", "over"} /\ (r.told = <<>> \/ x \in Updates) => ToldTo(r) = "unknown"
  BY <1>4, <1>5, <1>7
<1>12. r.at # "idle" /\ r.told # <<>> /\ x \in Ends => ToldTo(r) = Verdict(x[1])
  BY <1>3, <1>7
<1> QED
  BY <1>7, <1>9, <1>10, <1>11, <1>12 DEF x

(* What is told depends on the place of a generator and on its history.      *)
LEMMA SameTold ==
    ASSUME NEW r, NEW e, e.at = r.at, e.told = r.told PROVE ToldTo(e) = ToldTo(r)
BY DEF ToldTo

LEMMA StreamStutters ==
    ASSUME script' = script, \A c \in Calls : ToldTo(stream'[c]) = ToldTo(stream[c])
    PROVE  UNCHANGED Promise!vars
BY DEF Promise!vars, ToldConsumer, SeenScript

(* One consumer is told something.                                           *)
LEMMA TellImplements ==
    ASSUME StreamsInv, StreamsInv', NEW c \in Calls, NEW e,
           stream' = [stream EXCEPT ![c] = e], script' = script,
           \/ ToldTo(e) = ToldTo(stream[c])
           \/ ToldTo(stream[c]) = "open" /\ e.at # "idle"
           \/ ToldTo(stream[c]) = "idle" /\ ToldTo(e) \in {"open", "not_started"}
    PROVE  Promise!Next \/ UNCHANGED Promise!vars
<1> DEFINE v == ToldTo(e)
           old == ToldTo(stream[c])
<1>1. stream'[c] = e /\ \A d \in Calls \ {c} : stream'[d] = stream[d]
  BY DEF StreamsInv, LinkTypeOK
<1>2. StreamOK(e) /\ Evidence(c)' /\ SeenScript' = SeenScript /\ SeenScript[c] = Progress[script[c]]
  BY <1>1 DEF StreamsInv, CallOK, SeenScript
<1>3. /\ v = "completed" => SeenScript[c] = "finished"
      /\ v = "not_started" => SeenScript[c] = "fresh"
  <2>1. \A x \in Given(e) : /\ x = End("completed") => script[c] = "done"
                            /\ x \in {End("not_started"), End("refused")} => script[c] = "none"
    BY <1>1, <1>2 DEF Evidence, Holds
  <2>2. (v = "completed" => script[c] = "done") /\ (v = "not_started" => script[c] = "none")
    BY <1>2, <2>1, ToldIs
  <2> QED
    BY <1>2, <2>2 DEF Progress
<1>4. ToldConsumer[c] = old /\ \A d \in Calls : ToldConsumer'[d] = IF d = c THEN v ELSE ToldConsumer[d]
  BY <1>1 DEF ToldConsumer
<1>5. /\ ToldConsumer' = [ToldConsumer EXCEPT ![c] = v]
      /\ ToldConsumer' = [d \in Calls |-> IF d \in {c} THEN v ELSE ToldConsumer[d]]
  <2>1. ToldConsumer' = [d \in Calls |-> ToldConsumer'[d]] /\ ToldConsumer = [d \in Calls |-> ToldConsumer[d]]
    BY DEF ToldConsumer
  <2> HIDE DEF v
  <2> QED
    BY <1>4, <2>1
<1>6. e.at # "idle" => v \in {"open", "completed", "not_started", "unknown"}
  BY <1>2, ToldIs
<1>7. \/ v = old
      \/ old = "open" /\ e.at # "idle"
      \/ old = "idle" /\ v \in {"open", "not_started"}
  OBVIOUS
<1>8. CASE v = old
  <2>1. \A d \in Calls : ToldTo(stream'[d]) = ToldTo(stream[d])
    BY <1>1, <1>8
  <2> QED
    BY <2>1, StreamStutters
<1> HIDE DEF v, old
<1>9. CASE old = "idle" /\ v = "open"
  BY <1>2, <1>4, <1>5, <1>9 DEF Promise!Next, Promise!Submit
<1>10. CASE old \in {"idle", "open"} /\ v = "not_started"
  BY <1>2, <1>3, <1>4, <1>5, <1>10 DEF Promise!Next, Promise!Refuse
<1>11. CASE old = "open" /\ v = "completed"
  BY <1>2, <1>3, <1>4, <1>5, <1>11 DEF Promise!Next, Promise!Complete
<1>12. CASE old = "open" /\ v = "unknown"
  <2>1. Promise!GiveUp({c})
    BY <1>2, <1>4, <1>5, <1>12 DEF Promise!GiveUp
  <2> QED
    BY <2>1 DEF Promise!Next
<1> QED
  BY <1>6, <1>7, <1>8, <1>9, <1>10, <1>11, <1>12

LEMMA ConsumerImplements ==
    ASSUME StreamsInv, StreamsInv', NEW c \in Calls, NEW e, Step(c, e),
           \/ ToldTo(e) = ToldTo(stream[c])
           \/ ToldTo(stream[c]) = "open" /\ e.at # "idle"
           \/ ToldTo(stream[c]) = "idle" /\ ToldTo(e) = "not_started"
    PROVE  Promise!Next \/ UNCHANGED Promise!vars
BY TellImplements DEF Step, panelvars

(* A generator that is left, ended or finalised leaves its consumer with what *)
(* was told, or with nothing.                                                *)
LEMMA RemovedTold ==
    ASSUME NEW r, StreamOK(r), r.at \in {"given", "left"}, r.at = "given" => Last(r.told) \in Ends
    PROVE  ToldTo(Removed(r)) = ToldTo(r)
<1> DEFINE e == Removed(r)
<1>1. /\ r \in Stream /\ Len(r.queue) <= QueueSize /\ r.told \in Seq(Updates \cup Ends)
  BY StreamFields
<1>2. ~r.excused => r.told # <<>> /\ Last(r.told) \in Ends
  BY DEF StreamOK, PlaceOK
<1>3. StreamOK(e) /\ e.at = "over" /\ e.told = EndOf(r.told)
  BY <1>1, <1>2, RemovedOK
<1> HIDE DEF e
<1>4. CASE r.told # <<>> /\ Last(r.told) \in Ends
  <2>1. e.told # <<>> /\ Last(e.told) = Last(r.told)
    BY <1>1, <1>3, <1>4, EndOfFacts
  <2> QED
    BY <1>3, <1>4, <2>1, ToldIs DEF e
<1>5. CASE ~(r.told # <<>> /\ Last(r.told) \in Ends)
  <2>1. e.told = <<>>
    BY <1>3, <1>5 DEF EndOf
  <2>2. r.at = "left" /\ (r.told = <<>> \/ Last(r.told) \in Updates)
    BY <1>1, <1>5, LastOf DEF StreamOK, PlaceOK
  <2> QED
    BY <1>3, <2>1, <2>2, ToldIs DEF e
<1> QED
  BY <1>4, <1>5

LEMMA GeneratorImplements ==
    ASSUME StreamsInv, StreamsInv', NEW c \in Calls,
           Refuse(c) \/ Submit(c) \/ SendFails(c) \/ Sent(c) \/ TakeUpdate(c)
             \/ TimesOut(c) \/ Resume(c) \/ Drop(c) \/ Cancel(c) \/ Finalise(c)
    PROVE  Promise!Next \/ UNCHANGED Promise!vars
<1> DEFINE r == stream[c]
<1>0. StreamOK(r) /\ r \in Stream
  BY StreamFields DEF StreamsInv
<1>1. CASE Refuse(c)
  <2> DEFINE e == [Ended(r) EXCEPT !.told = <<End("refused")>>]
  <2>1. r.at = "idle" /\ Step(c, e)
    BY <1>1 DEF Refuse, At
  <2>2. StreamOK(e) /\ e.at = "over" /\ e.told = <<End("refused")>>
    BY <1>0, <2>1, RefusedOK
  <2> HIDE DEF e
  <2>3. e.told # <<>> /\ Last(e.told) = End("refused") /\ End("refused") \in Ends /\ End("refused")[1] = "refused"
    BY <2>2 DEF Last, Ends, End
  <2>4. ToldTo(e) = Verdict("refused")
    BY <2>2, <2>3, ToldIs
  <2>5. ToldTo(r) = "idle" /\ ToldTo(e) = "not_started"
    BY <1>0, <2>1, <2>4, ToldIs DEF Verdict
  <2> QED
    BY <2>1, <2>5, ConsumerImplements
<1>2. CASE Submit(c)
  <2> DEFINE e == [r EXCEPT !.at = "sending", !.on = slot, !.entry = TRUE]
  <2>1. r.at = "idle" /\ stream' = [stream EXCEPT ![c] = e] /\ script' = script /\ slot \in Sockets
    BY <1>2 DEF Submit, At, Connected, StreamsInv, LinkTypeOK
  <2>2. StreamOK(e) /\ e.at = "sending"
    BY <1>0, <2>1, SubmittedOK
  <2> HIDE DEF e
  <2>3. ToldTo(r) = "idle" /\ ToldTo(e) = "open"
    BY <1>0, <2>1, <2>2, ToldIs
  <2> QED
    BY <2>1, <2>3, TellImplements
<1>3. ASSUME r.at \in {"sending", "waiting"}, NEW e, Step(c, e), e.at # "idle"
      PROVE  Promise!Next \/ UNCHANGED Promise!vars
  BY <1>0, <1>3, ToldIs, ConsumerImplements
<1>4. CASE SendFails(c)
  BY <1>0, <1>3, <1>4, FailedOK DEF SendFails, At
<1>5. CASE Sent(c)
  BY <1>0, <1>3, <1>5, BegunOK DEF Sent, At
<1>6. CASE TakeUpdate(c)
  BY <1>0, <1>3, <1>6 DEF TakeUpdate, At, Stream
<1>7. CASE TimesOut(c)
  BY <1>0, <1>3, <1>7 DEF TimesOut, At, Stream
<1>8. CASE Cancel(c)
  BY <1>0, <1>3, <1>8 DEF Cancel, Ended, Stream
<1>9. ASSUME r.at = "given" PROVE r.told # <<>> /\ Last(r.told) \in Updates \cup Finals \cup {End("timeout")}
  BY <1>0, <1>9 DEF StreamOK, PlaceOK
<1>10. /\ Updates \cap Ends = {} /\ Finals \subseteq Ends /\ End("timeout") \in Ends /\ End("timeout") \notin Finals
  BY Tokens, EndsDiffer DEF Ends
<1>11. ASSUME r.at = "given", Last(r.told) \in Ends, NEW e, StreamOK(e), e.at # "idle", e.told = r.told
       PROVE  ToldTo(e) = ToldTo(r)
  BY <1>0, <1>9, <1>11, ToldIs
<1>12. ASSUME NEW e, Step(c, e) PROVE StreamOK(e)
  <2>1. stream'[c] = e
    BY <1>12 DEF Step, StreamsInv, LinkTypeOK
  <2> QED
    BY <2>1 DEF StreamsInv
<1>13. CASE Resume(c)
  <2>1. CASE Last(r.told) = End("timeout")
    <3>1. Step(c, Removed(r)) /\ r.at = "given"
      BY <1>13, <2>1 DEF Resume, At
    <3>2. ToldTo(Removed(r)) = ToldTo(r)
      BY <1>0, <1>10, <2>1, <3>1, RemovedTold
    <3> QED
      BY <3>1, <3>2, ConsumerImplements
  <2>2. CASE Last(r.told) \in Finals
    <3> DEFINE e == [r EXCEPT !.at = "left"]
    <3>1. Step(c, e) /\ r.at = "given" /\ e.at = "left" /\ e.told = r.told
      BY <1>0, <1>10, <1>13, <2>2 DEF Resume, At, Stream
    <3> HIDE DEF e
    <3>2. ToldTo(e) = ToldTo(r)
      BY <1>10, <1>11, <1>12, <2>2, <3>1
    <3> QED
      BY <3>1, <3>2, ConsumerImplements
  <2>3. CASE Last(r.told) \in Updates
    <3> DEFINE e == [r EXCEPT !.at = "waiting"]
    <3>1. Step(c, e) /\ r.at = "given" /\ e.at = "waiting"
      BY <1>0, <1>10, <1>13, <2>3 DEF Resume, At, Stream
    <3> HIDE DEF e
    <3>2. ToldTo(r) = "open"
      BY <1>0, <2>3, <3>1, ToldIs
    <3> QED
      BY <3>1, <3>2, ConsumerImplements
  <2> QED
    BY <1>9, <1>13, <2>1, <2>2, <2>3 DEF Resume, At
<1>14. CASE Drop(c)
  <2> DEFINE e == [r EXCEPT !.at = "left", !.excused = TRUE]
  <2>1. Step(c, e) /\ r.at = "given" /\ e.at = "left" /\ e.told = r.told
    BY <1>0, <1>14 DEF Drop, At, Stream
  <2> HIDE DEF e
  <2>2. CASE Last(r.told) \in Updates
    <3>1. ToldTo(r) = "open"
      BY <1>0, <2>1, <2>2, ToldIs
    <3> QED
      BY <2>1, <3>1, ConsumerImplements
  <2>3. CASE Last(r.told) \in Ends
    <3>1. ToldTo(e) = ToldTo(r)
      BY <1>11, <1>12, <2>1, <2>3
    <3> QED
      BY <2>1, <3>1, ConsumerImplements
  <2> QED
    BY <1>9, <1>10, <2>1, <2>2, <2>3
<1>15. CASE Finalise(c)
  <2>1. Step(c, Removed(r)) /\ r.at = "left"
    BY <1>15 DEF Finalise, At
  <2>2. ToldTo(Removed(r)) = ToldTo(r)
    BY <1>0, <2>1, RemovedTold
  <2> QED
    BY <2>1, <2>2, ConsumerImplements
<1> QED
  BY <1>1, <1>2, <1>4, <1>5, <1>6, <1>7, <1>8, <1>13, <1>14, <1>15

(* The connections and the reading of messages tell a consumer nothing yet.  *)
LEMMA LinkImplements ==
    ASSUME StreamsInv,
           \/ WatchdogFires
           \/ \E s \in Sockets : TakeSlot(s) \/ Lose(s) \/ HandlerEnds(s) \/ ReadMessage(s)
    PROVE  UNCHANGED Promise!vars
<1>1. script' = script
  BY DEF WatchdogFires, TakeSlot, Lose, HandlerEnds, ReadMessage, panelvars
<1>2. ASSUME NEW c \in Calls, stream' = cancel_all PROVE ToldTo(stream'[c]) = ToldTo(stream[c])
  <2>1. stream'[c] = Cancelled(stream[c]) /\ StreamOK(stream[c])
    BY <1>2, CancelAll DEF StreamsInv
  <2>2. stream'[c].at = stream[c].at /\ stream'[c].told = stream[c].told
    BY <2>1, CancelledOK
  <2> QED
    BY <2>2, SameTold
<1>3. ASSUME NEW s \in Sockets, ReadMessage(s), NEW c \in Calls PROVE ToldTo(stream'[c]) = ToldTo(stream[c])
  <2> DEFINE m == Head(toServer[s])
             r == stream[c]
  <2>0. DOMAIN stream = Calls /\ r \in Stream
    BY StreamFields DEF StreamsInv, LinkTypeOK
  <2>1. stream'[c] \in {r, push_update(r, m.body), complete_streaming(r, m.body)}
    BY <1>3, <2>0 DEF ReadMessage
  <2> HIDE DEF m
  <2>2. \A e \in {r, push_update(r, m.body), complete_streaming(r, m.body)} : e.at = r.at /\ e.told = r.told
    BY <2>0 DEF push_update, complete_streaming, Stream
  <2> QED
    BY <2>1, <2>2, SameTold
<1>4. \/ stream' = stream \/ stream' = cancel_all \/ \E s \in Sockets : ReadMessage(s)
  BY DEF WatchdogFires, TakeSlot, Lose, HandlerEnds
<1>5. \A c \in Calls : ToldTo(stream'[c]) = ToldTo(stream[c])
  BY <1>2, <1>3, <1>4
<1> QED
  BY <1>1, <1>5, StreamStutters

(* The panel takes a request up: its consumer was not told that it would not. *)
LEMMA StartsImplements ==
    ASSUME StreamsInv, NEW c \in Calls, Queued(c), NEW how \in {"running", "thrown"},
           script' = [script EXCEPT ![c] = how], stream' = stream
    PROVE  Promise!Next
<1>1. /\ StreamOK(stream[c]) /\ Once(c) /\ Evidence(c) /\ script[c] = "none"
      /\ script \in [Calls -> {"none", "running", "done", "thrown"}]
  BY DEF StreamsInv, CallOK, Once, LinkTypeOK
<1>2. stream[c].at # "idle"
  BY <1>1 DEF Once, At
<1>3. ToldTo(stream[c]) \in {"open", "unknown"}
  <2>1. \A x \in Given(stream[c]) : x \notin {End("completed"), End("not_started"), End("refused")}
    BY <1>1 DEF Evidence, Holds
  <2> QED
    BY <1>1, <1>2, <2>1, ToldIs
<1>4. ToldConsumer[c] = ToldTo(stream[c]) /\ ToldConsumer' = ToldConsumer
  BY DEF ToldConsumer
<1>5. SeenScript[c] = "fresh" /\ SeenScript' = [SeenScript EXCEPT ![c] = "running"]
  <2>1. Progress["none"] = "fresh" /\ Progress[how] = "running"
    BY DEF Progress
  <2> HIDE DEF Progress
  <2>2. \A d \in Calls : script'[d] = IF d = c THEN how ELSE script[d]
    BY <1>1
  <2>3. \A d \in Calls : SeenScript'[d] = IF d = c THEN "running" ELSE SeenScript[d]
    BY <2>1, <2>2 DEF SeenScript
  <2>4. SeenScript = [d \in Calls |-> SeenScript[d]] /\ SeenScript' = [d \in Calls |-> SeenScript'[d]]
    BY DEF SeenScript
  <2>5. SeenScript[c] = "fresh"
    BY <1>1, <2>1 DEF SeenScript
  <2> QED
    BY <2>3, <2>4, <2>5
<1> QED
  BY <1>3, <1>4, <1>5 DEF Promise!Next, Promise!Start

LEMMA PanelImplements ==
    ASSUME StreamsInv,
           \/ ScriptReturns
           \/ \E s \in Sockets : RejectRequest(s) \/ StartScript(s) \/ EvalThrows(s)
    PROVE  Promise!Next \/ UNCHANGED Promise!vars
<1>0. LinkTypeOK
  BY DEF StreamsInv
<1>1. ASSUME NEW s \in Sockets, RejectRequest(s) PROVE UNCHANGED Promise!vars
  BY <1>1, StreamStutters DEF RejectRequest
<1>2. ASSUME NEW s \in Sockets, StartScript(s) \/ EvalThrows(s) PROVE Promise!Next
  <2> DEFINE c == First(s)
  <2>1. toPanel[s] \in Seq(Calls) /\ toPanel[s] # <<>>
    BY <1>0, <1>2 DEF LinkTypeOK, StartScript, EvalThrows
  <2>2. c \in Calls /\ c = toPanel[s][1] /\ 1 \in DOMAIN toPanel[s]
    BY <2>1, EmptySeq DEF First
  <2>3. Queued(c)
    BY <2>2 DEF Queued
  <2>4. \E how \in {"running", "thrown"} : script' = [script EXCEPT ![c] = how] /\ stream' = stream
    BY <1>2 DEF StartScript, EvalThrows
  <2> HIDE DEF c
  <2> QED
    BY <2>2, <2>3, <2>4, StartsImplements
<1>3. CASE ScriptReturns
  <2> DEFINE c == active[1]
  <2>1. stream' = stream /\ active # None /\ script' = [script EXCEPT ![c] = "done"]
    BY <1>3 DEF ScriptReturns
  <2>2. c \in Calls
    BY <1>0, <2>1 DEF LinkTypeOK
  <2>3. script[c] = "running" /\ script \in [Calls -> {"none", "running", "done", "thrown"}]
    BY <1>0, <2>1, <2>2 DEF StreamsInv, CallOK, Once, LinkTypeOK
  <2> HIDE DEF c
  <2>4. ToldConsumer' = ToldConsumer
    BY <2>1 DEF ToldConsumer
  <2>5. SeenScript[c] = "running" /\ SeenScript' = [SeenScript EXCEPT ![c] = "finished"]
    <3>1. Progress["running"] = "running" /\ Progress["done"] = "finished"
      BY DEF Progress
    <3> HIDE DEF Progress
    <3>2. \A d \in Calls : script'[d] = IF d = c THEN "done" ELSE script[d]
      BY <2>1, <2>2, <2>3
    <3>3. \A d \in Calls : SeenScript'[d] = IF d = c THEN "finished" ELSE SeenScript[d]
      BY <3>1, <3>2 DEF SeenScript
    <3>4. SeenScript = [d \in Calls |-> SeenScript[d]] /\ SeenScript' = [d \in Calls |-> SeenScript'[d]]
      BY DEF SeenScript
    <3>5. SeenScript[c] = "running"
      BY <2>2, <2>3, <3>1 DEF SeenScript
    <3> QED
      BY <2>2, <3>3, <3>4, <3>5
  <2> QED
    BY <2>2, <2>4, <2>5 DEF Promise!Next, Promise!Finish
<1> QED
  BY <1>1, <1>2, <1>3

(* A stream keeps the promise of a plain call: its end is told once and is   *)
(* true, and its script runs at most once and never after "not_started".     *)
THEOREM StreamsKeepPromise == Spec => StreamPromiseKept
<1>1. Init => Promise!Init
  <2> SUFFICES ASSUME Init PROVE Promise!Init
    OBVIOUS
  <2>1. \A c \in Calls : stream[c].at = "idle" /\ script[c] = "none"
    BY DEF Init
  <2>2. \A c \in Calls : ToldTo(stream[c]) = "idle" /\ Progress[script[c]] = "fresh"
    BY <2>1 DEF ToldTo, Progress
  <2> QED
    BY <2>2 DEF Promise!Init, ToldConsumer, SeenScript
<1>2. ASSUME StreamsInv, StreamsInv', [Next]_vars
      PROVE  [Promise!Next]_(Promise!vars)
  <2>1. ASSUME NEW s \in Sockets,
               \/ TakeSlot(s) \/ Lose(s) \/ HandlerEnds(s) \/ ReadMessage(s)
               \/ RejectRequest(s) \/ StartScript(s) \/ EvalThrows(s)
        PROVE  Promise!Next \/ UNCHANGED Promise!vars
    BY <1>2, <2>1, LinkImplements, PanelImplements
  <2>2. CASE WatchdogFires \/ ScriptReturns
    BY <1>2, <2>2, LinkImplements, PanelImplements
  <2>3. ASSUME NEW c \in Calls,
               Refuse(c) \/ Submit(c) \/ SendFails(c) \/ Sent(c) \/ TakeUpdate(c)
                 \/ TimesOut(c) \/ Resume(c) \/ Drop(c) \/ Cancel(c) \/ Finalise(c)
        PROVE  Promise!Next \/ UNCHANGED Promise!vars
    BY <1>2, <2>3, GeneratorImplements
  <2>4. CASE UNCHANGED vars
    BY <2>4, StreamStutters DEF vars
  <2> QED
    BY <1>2, <2>1, <2>2, <2>3, <2>4 DEF Next
<1> QED
  BY <1>1, <1>2, StreamsInvariant, PTL DEF Spec, StreamPromiseKept, Promise!Spec
=============================================================================
