---------------------------- MODULE BridgeProofs ----------------------------
(***************************************************************************)
(* Bridge for every set of calls and sockets, every history bound and any  *)
(* number of restarts: types, at most one registered request, no future    *)
(* without an entry, and the safety of retrying.                           *)
(***************************************************************************)
EXTENDS Bridge, TLAPS

-----------------------------------------------------------------------------
(* The execution history: what recording and reading guarantee, for every   *)
(* history and every bound.                                                 *)

(* A status that is reported was recorded.                                  *)
LEMMA StatusRecorded ==
    ASSUME NEW h, NEW i, Status(h, i) # "none"
    PROVE  \E k \in DOMAIN h : h[k].id = i /\ h[k].state = Status(h, i)
BY DEF Status

(* Only a request without a record reads as "none".                         *)
LEMMA StatusNone ==
    ASSUME NEW h \in Seq(Evidence), NEW i, Status(h, i) = "none"
    PROVE  \A k \in DOMAIN h : h[k].id # i
<1>1. SUFFICES ASSUME \E k \in DOMAIN h : h[k].id = i PROVE FALSE
  OBVIOUS
<1>2. PICK k \in DOMAIN h : Status(h, i) = h[k].state
  BY <1>1 DEF Status
<1>3. h[k] \in Evidence
  OBVIOUS
<1> QED
  BY <1>2, <1>3 DEF Evidence, States

(* Put writes at one key and leaves the other records as they were.         *)
LEMMA PutContent ==
    ASSUME NEW h \in Seq(Evidence), NEW i \in Nat, NEW st \in States
    PROVE  /\ Put(h, i, st) \in Seq(Evidence)
           /\ Len(Put(h, i, st)) <= Len(h) + 1
           /\ \A k \in DOMAIN Put(h, i, st) :
                 \/ Put(h, i, st)[k] = [id |-> i, state |-> st]
                 \/ \E j \in DOMAIN h : Put(h, i, st)[k] = h[j]
<1> DEFINE new == [id |-> i, state |-> st]
<1>1. new \in Evidence
  BY DEF Evidence
<1>2. CASE \E k \in DOMAIN h : h[k].id = i
  <2> DEFINE g == [k \in DOMAIN h |-> IF h[k].id = i THEN new ELSE h[k]]
  <2>1. Put(h, i, st) = g
    BY <1>2 DEF Put
  <2>2. g \in [1..Len(h) -> Evidence]
    BY <1>1
  <2>3. g \in Seq(Evidence) /\ Len(g) = Len(h)
    BY <2>2
  <2> QED
    BY <2>1, <2>3
<1>3. CASE ~\E k \in DOMAIN h : h[k].id = i
  <2>1. Put(h, i, st) = Append(h, new)
    BY <1>3 DEF Put
  <2> QED
    BY <1>1, <2>1
<1> QED
  BY <1>2, <1>3

(* record_execution keeps a bounded history of well-formed records; each is *)
(* an old one, or the new one, which is never "unknown" over settled news.  *)
LEMMA RecordContent ==
    ASSUME NEW h \in Seq(Evidence), NEW i \in Nat, NEW st \in States,
           NEW limit \in Nat \ {0}, Len(h) <= limit
    PROVE  /\ Record(h, i, st, limit) \in Seq(Evidence)
           /\ Len(Record(h, i, st, limit)) <= limit
           /\ \A k \in DOMAIN Record(h, i, st, limit) :
                 \/ Record(h, i, st, limit)[k] = [id |-> i, state |-> st]
                 \/ \E j \in DOMAIN h : Record(h, i, st, limit)[k] = h[j]
<1> DEFINE g == Put(h, i, st)
           r == Record(h, i, st, limit)
<1>1. CASE st = "unknown" /\ Settled(h, i)
  BY <1>1 DEF Record
<1>2. CASE ~(st = "unknown" /\ Settled(h, i)) /\ ~(Len(g) > limit)
  <2>1. r = g
    BY <1>2 DEF Record
  <2>2. /\ g \in Seq(Evidence)
        /\ \A k \in DOMAIN g : \/ g[k] = [id |-> i, state |-> st]
                               \/ \E j \in DOMAIN h : g[k] = h[j]
    BY PutContent
  <2> HIDE DEF g, r
  <2>3. Len(g) <= limit
    BY <1>2, <2>2
  <2>4. /\ r \in Seq(Evidence)
        /\ Len(r) <= limit
        /\ \A k \in DOMAIN r : \/ r[k] = [id |-> i, state |-> st]
                               \/ \E j \in DOMAIN h : r[k] = h[j]
    BY <2>1, <2>2, <2>3
  <2> QED
    BY <2>4 DEF r
<1>3. CASE ~(st = "unknown" /\ Settled(h, i)) /\ Len(g) > limit
  <2>1. r = Tail(g)
    BY <1>3 DEF Record
  <2>2. g \in Seq(Evidence) /\ Len(g) <= limit + 1 /\ g # <<>>
    BY <1>3, PutContent
  <2> HIDE DEF g
  <2>3. /\ Tail(g) \in Seq(Evidence)
        /\ Len(Tail(g)) <= limit
        /\ \A k \in DOMAIN Tail(g) : k + 1 \in DOMAIN g /\ Tail(g)[k] = g[k + 1]
    BY <2>2
  <2> USE DEF g
  <2>4. \A k \in DOMAIN g : \/ g[k] = [id |-> i, state |-> st]
                            \/ \E j \in DOMAIN h : g[k] = h[j]
    BY PutContent
  <2> QED
    BY <2>1, <2>3, <2>4
<1> QED
  BY <1>1, <1>2, <1>3

(* The keys of a dictionary.                                                *)
Distinct(h) == \A k, l \in DOMAIN h : h[k].id = h[l].id => k = l

LEMMA RecordDistinct ==
    ASSUME NEW h \in Seq(Evidence), Distinct(h), NEW i \in Nat, NEW st \in States, NEW limit
    PROVE  Distinct(Record(h, i, st, limit))
<1> DEFINE g == Put(h, i, st)
           new == [id |-> i, state |-> st]
<1>1. g \in Seq(Evidence)
  BY PutContent
<1>2. Distinct(g)
  <2>1. CASE \E k \in DOMAIN h : h[k].id = i
    <3>1. g = [k \in DOMAIN h |-> IF h[k].id = i THEN new ELSE h[k]]
      BY <2>1 DEF Put
    <3>2. \A k \in DOMAIN h : g[k].id = h[k].id
      BY <3>1
    <3> QED
      BY <3>1, <3>2 DEF Distinct
  <2>2. CASE ~\E k \in DOMAIN h : h[k].id = i
    <3>1. g = Append(h, new)
      BY <2>2 DEF Put
    <3>2. \A k \in DOMAIN g : \/ k \in DOMAIN h /\ g[k] = h[k] /\ g[k].id # i
                              \/ k = Len(h) + 1 /\ g[k].id = i
      BY <2>2, <3>1
    <3> HIDE DEF g
    <3> QED
      BY <3>2 DEF Distinct
  <2> QED
    BY <2>1, <2>2
<1> HIDE DEF g
<1>3. CASE g # <<>>
  <2>1. \A k \in DOMAIN Tail(g) :
           k \in Nat /\ k + 1 \in DOMAIN g /\ Tail(g)[k] = g[k + 1]
    BY <1>1, <1>3
  <2>2. Distinct(Tail(g))
    <3> SUFFICES ASSUME NEW k \in DOMAIN Tail(g), NEW l \in DOMAIN Tail(g),
                        Tail(g)[k].id = Tail(g)[l].id
                 PROVE  k = l
      BY DEF Distinct
    <3>1. k + 1 = l + 1
      BY <1>2, <2>1 DEF Distinct
    <3> QED
      BY <2>1, <3>1
  <2> QED
    BY <1>2, <2>2 DEF Record, g
<1>4. g # <<>>
  <2>1. CASE \E k \in DOMAIN h : h[k].id = i
    <3>1. DOMAIN g = DOMAIN h
      BY <2>1 DEF g, Put
    <3> QED
      BY <1>1, <2>1, <3>1
  <2>2. CASE ~\E k \in DOMAIN h : h[k].id = i
    <3>1. g = Append(h, new)
      BY <2>2 DEF g, Put
    <3> QED
      BY <3>1
  <2> QED
    BY <2>1, <2>2
<1> QED
  BY <1>3, <1>4

(* What is read back after a recording is the news, or as before, or gone.  *)
LEMMA RecordStatus ==
    ASSUME NEW h \in Seq(Evidence), Distinct(h), NEW i \in Nat, NEW st \in States,
           NEW limit \in Nat \ {0}, Len(h) <= limit, NEW j
    PROVE  /\ Status(Record(h, i, st, limit), j) \in {st, Status(h, j), "none"}
           /\ j # i => Status(Record(h, i, st, limit), j) \in {Status(h, j), "none"}
           /\ j = i /\ st = "unknown" /\ Settled(h, i)
                 => Status(Record(h, i, st, limit), j) = Status(h, j)
<1> DEFINE r == Record(h, i, st, limit)
<1>1. \A k \in DOMAIN r : \/ r[k] = [id |-> i, state |-> st]
                          \/ \E l \in DOMAIN h : r[k] = h[l]
  BY RecordContent
<1>2. ASSUME NEW l \in DOMAIN h, h[l].id = j PROVE Status(h, j) = h[l].state
  BY <1>2 DEF Status, Distinct
<1>3. st = "unknown" /\ Settled(h, i) => r = h
  BY DEF Record
<1> HIDE DEF r
<1>4. Status(r, j) # "none" => \/ Status(r, j) = Status(h, j)
                               \/ j = i /\ Status(r, j) = st
  BY <1>1, <1>2, StatusRecorded
<1> QED
  BY <1>3, <1>4 DEF r

-----------------------------------------------------------------------------
(* The bridge *)

USE NoneAssumption, HostsAssumption, HistoryAssumption

(* What recording news about a request leaves in the history.               *)
LEMMA RememberContent ==
    ASSUME TypeOK, NEW i \in Nat, NEW st \in States
    PROVE  /\ Remember(i, st) \in Seq(Evidence)
           /\ Len(Remember(i, st)) <= HistoryLimit
           /\ \A k \in DOMAIN Remember(i, st) :
                 \/ Remember(i, st)[k] = [id |-> i, state |-> st]
                 \/ \E j \in DOMAIN execution : Remember(i, st)[k] = execution[j]
<1>1. execution \in Seq(Evidence) /\ Len(execution) <= HistoryLimit
  BY DEF TypeOK
<1> QED
  BY <1>1, RecordContent DEF Remember

(* What a caller is told is an execution state.                             *)
LEMMA ToldType ==
    ASSUME NEW h \in Seq(Evidence), NEW i \in Nat
    PROVE  Told(h, i) \in States
<1>1. CASE Status(h, i) = "none"
  BY <1>1 DEF Told, States
<1>2. CASE Status(h, i) # "none"
  <2>1. PICK k \in DOMAIN h : h[k].state = Status(h, i)
    BY <1>2, StatusRecorded
  <2>2. h[k] \in Evidence
    OBVIOUS
  <2> QED
    BY <1>2, <2>1, <2>2 DEF Told, Evidence
<1> QED
  BY <1>1, <1>2

(* The head and the rest of a non-empty channel.                            *)
LEMMA ChannelHead ==
    ASSUME NEW M, NEW q \in Seq(M), q # <<>>
    PROVE  /\ Head(q) \in M
           /\ Head(q) = q[1]
           /\ 1 \in DOMAIN q
           /\ Tail(q) \in Seq(M)
           /\ \A k \in DOMAIN Tail(q) : k + 1 \in DOMAIN q /\ Tail(q)[k] = q[k + 1]
OBVIOUS

Messages == Heartbeat \cup Completion

LEMMA HeartbeatType == Idle \in Messages /\ Busy \in Messages
BY DEF Messages, Heartbeat, Idle, Busy

LEMMA CompletionType ==
    ASSUME NEW m, m.id \in Nat, m.script \in Calls, NEW st \in States
    PROVE  Complete(m, st) \in Messages
BY DEF Messages, Completion, Complete

(* Sending well-formed messages keeps the channels well-formed.             *)
LEMMA SendType ==
    ASSUME TypeOK, NEW s \in Sockets, NEW ms \in Seq(Messages), Send(s, ms)
    PROVE  toServer' \in [Sockets -> Seq(Messages)]
<1>1. toServer \in [Sockets -> Seq(Messages)]
  BY DEF TypeOK, Messages
<1>2. toServer[s] \o ms \in Seq(Messages)
  BY <1>1
<1> QED
  BY <1>1, <1>2 DEF Send

(***************************************************************************)
(* Every variable keeps its type, and the history its bound.               *)
(***************************************************************************)
LEMMA ReturnType ==
    ASSUME TypeOK, NEW c \in Calls, NEW st \in States, Return(c, st)
    PROVE  /\ pc' \in [Calls -> {"idle", "done", "lost"} \cup InFlight]
           /\ answer' \in [Calls -> States \cup {"none"}]
           /\ future' \in [Calls -> {"none", "pending", "done", "failed", "cancelled"}]
           /\ via' \in [Calls -> Sockets \cup {None}]
           /\ result' \in [Calls -> Calls \cup {None}]
BY DEF Return, TypeOK

LEMMA ReturnFailureType ==
    ASSUME TypeOK, NEW c \in Calls, ReturnFailure(c)
    PROVE  TypeOK'
<1>1. id[c] \in Nat /\ "unknown" \in States
  BY DEF TypeOK, States
<1>2. execution' \in Seq(Evidence) /\ Len(execution') <= HistoryLimit
  BY <1>1, RememberContent DEF ReturnFailure
<1>3. Return(c, Told(execution', id[c])) /\ Told(execution', id[c]) \in States
  BY <1>1, <1>2, ToldType DEF ReturnFailure
<1> HIDE DEF Remember
<1> QED
  BY <1>2, <1>3, ReturnType
  DEF ReturnFailure, TypeOK, panelVars, netVars

LEMMA CallType ==
    ASSUME TypeOK, NEW c \in Calls, CallNext(c)
    PROVE  TypeOK'
<1>1. CASE Refuse(c)
  BY <1>1 DEF Refuse, TypeOK, States, serverVars, panelVars, netVars
<1>2. CASE Submit(c)
  <2>1. slot \in Sockets /\ requestId' \in Nat
    BY <1>2 DEF Submit, Connected, TypeOK
  <2>2. execution' \in Seq(Evidence) /\ Len(execution') <= HistoryLimit
    BY <1>2, <2>1, RememberContent DEF Submit, States
  <2>3. toPanel' \in [Sockets -> Seq(Request)]
    <3>1. [id |-> requestId', script |-> c] \in Request
      BY <2>1 DEF Request
    <3> QED
      BY <1>2, <2>1, <3>1 DEF Submit, TypeOK
  <2> QED
    BY <1>2, <2>1, <2>2, <2>3 DEF Submit, TypeOK, InFlight, panelVars
<1>3. CASE Sent(c)
  BY <1>3 DEF Sent, TypeOK, InFlight, serverVars, panelVars, netVars
<1>4. CASE SendFails(c) \/ ResumeCancelled(c) \/ TimesOut(c)
  BY <1>4, ReturnFailureType DEF SendFails, ResumeCancelled, TimesOut
<1>5. CASE Resume(c)
  <2>1. Told(execution, id[c]) \in States
    BY ToldType DEF TypeOK
  <2>2. Return(c, Told(execution, id[c]))
    BY <1>5 DEF Resume
  <2> QED
    BY <1>5, <2>1, <2>2, ReturnType DEF Resume, TypeOK, serverVars, panelVars, netVars
<1>6. CASE TimerFires(c)
  BY <1>6 DEF TimerFires, TypeOK, InFlight, serverVars, panelVars, netVars
<1> QED
  BY <1>1, <1>2, <1>3, <1>4, <1>5, <1>6 DEF CallNext

LEMMA DisconnectType ==
    ASSUME TypeOK, OnDisconnect
    PROVE  /\ pending' \in SUBSET Calls
           /\ future' \in [Calls -> {"none", "pending", "done", "failed", "cancelled"}]
           /\ hbSeen' \in BOOLEAN
           /\ hbBusy' \in BOOLEAN
BY DEF OnDisconnect, CancelAll, TypeOK

LEMMA ServerType ==
    ASSUME TypeOK, NEW s \in Sockets, ServerNext(s)
    PROVE  TypeOK'
<1>1. CASE RejectSecondClient(s)
  BY <1>1 DEF RejectSecondClient, TypeOK, callVars, panelVars
<1>2. CASE FindStaleClient(s)
  BY <1>2 DEF FindStaleClient, TypeOK, callVars, panelVars, netVars
<1>3. CASE TakeSlot(s)
  BY <1>3 DEF TakeSlot, TypeOK, callVars, panelVars, netVars
<1>4. CASE LinkLost(s)
  BY <1>4 DEF LinkLost, TypeOK, callVars, panelVars, netVars
<1>5. CASE HandlerEnds(s)
  BY <1>5, DisconnectType DEF HandlerEnds, TypeOK, panelVars
<1>6. CASE ReadHeartbeat(s)
  <2>1. Tail(toServer[s]) \in Seq(Heartbeat \cup Completion)
    BY <1>6 DEF ReadHeartbeat, TypeOK
  <2>2. Head(toServer[s]) \in Heartbeat \cup Completion
    BY <1>6 DEF ReadHeartbeat, TypeOK
  <2>3. Head(toServer[s]).busy \in BOOLEAN
    BY <1>6, <2>2 DEF ReadHeartbeat, Heartbeat, Completion
  <2> QED
    BY <1>6, <2>1, <2>3 DEF ReadHeartbeat, TypeOK, callVars, panelVars
<1>7. CASE ReadCompletion(s)
  <2> DEFINE m == Head(toServer[s])
  <2>1. Tail(toServer[s]) \in Seq(Heartbeat \cup Completion)
    BY <1>7 DEF ReadCompletion, TypeOK
  <2>2. m \in Heartbeat \cup Completion
    BY <1>7 DEF ReadCompletion, TypeOK
  <2>3. m.id \in Nat /\ m.script \in Calls /\ m.state \in States
    BY <1>7, <2>2 DEF ReadCompletion, Heartbeat, Completion
  <2>4. CompleteRequest(m)
    BY <1>7 DEF ReadCompletion
  <2> HIDE DEF m
  <2>5. execution' \in Seq(Evidence) /\ Len(execution') <= HistoryLimit
    BY <2>3, <2>4, RememberContent DEF CompleteRequest, TypeOK
  <2>6. /\ pending' \in SUBSET Calls
        /\ future' \in [Calls -> {"none", "pending", "done", "failed", "cancelled"}]
        /\ result' \in [Calls -> Calls \cup {None}]
    BY <2>3, <2>4 DEF CompleteRequest, TypeOK
  <2> QED
    BY <1>7, <2>1, <2>5, <2>6 DEF ReadCompletion, TypeOK, panelVars
<1>8. CASE DropOversized(s)
  <2>1. Tail(toServer[s]) \in Seq(Heartbeat \cup Completion)
    BY <1>8 DEF DropOversized, TypeOK
  <2> QED
    BY <1>8, <2>1 DEF DropOversized, TypeOK, serverVars, callVars, panelVars
<1> QED
  BY <1>1, <1>2, <1>3, <1>4, <1>5, <1>6, <1>7, <1>8 DEF ServerNext

(* Taking a request off an open socket.                                     *)
LEMMA ReceiveType ==
    ASSUME TypeOK, NEW s \in Sockets, Receive(s)
    PROVE  /\ Head(toPanel[s]) \in Request
           /\ toPanel' \in [Sockets -> Seq(Request)]
<1>1. toPanel[s] \in Seq(Request) /\ toPanel[s] # <<>>
  BY DEF Receive, TypeOK
<1>2. Head(toPanel[s]) \in Request /\ Tail(toPanel[s]) \in Seq(Request)
  BY <1>1
<1> QED
  BY <1>2 DEF Receive, TypeOK

LEMMA PanelType ==
    ASSUME TypeOK, NEW s \in Sockets, PanelNext(s)
    PROVE  TypeOK'
<1> DEFINE m == Head(toPanel[s])
<1>0. \A st \in States : m \in Request => Complete(m, st) \in Messages
  BY CompletionType DEF Request
<1>1. CASE Connect(s)
  <2>1. <<IF active = None THEN Idle ELSE Busy>> \in Seq(Heartbeat \cup Completion)
    BY HeartbeatType DEF Messages
  <2> QED
    BY <1>1, <2>1 DEF Connect, StartHeartbeat, TypeOK, callVars
<1>2. CASE Close(s)
  BY <1>2 DEF Close, StopHeartbeat, TypeOK, serverVars, callVars
<1>3. CASE PeriodicHeartbeat(s)
  <2>1. <<IF active = None THEN Idle ELSE Busy>> \in Seq(Messages)
    BY HeartbeatType
  <2>2. toServer' \in [Sockets -> Seq(Messages)]
    BY <1>3, <2>1, SendType DEF PeriodicHeartbeat
  <2> QED
    BY <1>3, <2>2 DEF PeriodicHeartbeat, TypeOK, Messages, serverVars, callVars, panelVars
<1>4. CASE RejectBusy(s)
  <2>1. m \in Request /\ toPanel' \in [Sockets -> Seq(Request)]
    BY <1>4, ReceiveType DEF RejectBusy
  <2>2. <<Complete(m, "not_started")>> \in Seq(Messages)
    BY <1>0, <2>1 DEF States
  <2>3. toServer' \in [Sockets -> Seq(Messages)]
    BY <1>4, <2>2, SendType DEF RejectBusy
  <2> QED
    BY <1>4, <2>1, <2>3 DEF RejectBusy, TypeOK, Messages, serverVars, callVars, panelVars
<1>5. CASE NoHost(s)
  <2>1. m \in Request /\ toPanel' \in [Sockets -> Seq(Request)]
    BY <1>5, ReceiveType DEF NoHost
  <2>2. <<Busy, Idle, Complete(m, "not_started")>> \in Seq(Messages)
    BY <1>0, <2>1, HeartbeatType DEF States
  <2>3. toServer' \in [Sockets -> Seq(Messages)]
    BY <1>5, <2>2, SendType DEF NoHost
  <2> QED
    BY <1>5, <2>1, <2>3 DEF NoHost, TypeOK, Messages, serverVars, callVars, panelVars
<1>6. CASE StartScript(s)
  <2>1. Receive(s) /\ Send(s, <<Busy>>)
    BY <1>6 DEF StartScript
  <2>2. m \in Request /\ toPanel' \in [Sockets -> Seq(Request)]
    BY <2>1, ReceiveType
  <2>3. <<Busy>> \in Seq(Messages)
    BY HeartbeatType
  <2>4. toServer' \in [Sockets -> Seq(Messages)]
    BY <2>1, <2>3, SendType
  <2>5. /\ active' \in [id : Nat, script : Calls, socket : Sockets] \cup {None}
        /\ script' \in [Calls -> {"fresh", "running", "finished"}]
    BY <1>6, <2>2 DEF StartScript, Request, TypeOK
  <2> QED
    BY <1>6, <2>2, <2>4, <2>5 DEF StartScript, TypeOK, Messages, serverVars, callVars
<1>7. CASE EvalThrows(s)
  <2>1. Receive(s) /\ Send(s, <<Busy, Idle, Complete(m, "unknown")>>)
    BY <1>7 DEF EvalThrows
  <2>2. m \in Request /\ toPanel' \in [Sockets -> Seq(Request)]
    BY <2>1, ReceiveType
  <2>3. <<Busy, Idle, Complete(m, "unknown")>> \in Seq(Messages)
    BY <1>0, <2>2, HeartbeatType DEF States
  <2>4. toServer' \in [Sockets -> Seq(Messages)]
    BY <2>1, <2>3, SendType
  <2>5. script' \in [Calls -> {"fresh", "running", "finished"}]
    BY <1>7, <2>2 DEF EvalThrows, Request, TypeOK
  <2> QED
    BY <1>7, <2>2, <2>4, <2>5 DEF EvalThrows, TypeOK, Messages, serverVars, callVars, panelVars
<1> QED
  BY <1>1, <1>2, <1>3, <1>4, <1>5, <1>6, <1>7 DEF PanelNext

LEMMA ScriptReturnsType ==
    ASSUME TypeOK, NEW st \in {"completed", "unknown"}, ScriptReturns(st)
    PROVE  TypeOK'
<1>1. active \in [id : Nat, script : Calls, socket : Sockets]
  BY DEF ScriptReturns, TypeOK
<1>2. <<Idle, Complete(active, st)>> \in Seq(Messages)
  BY <1>1, HeartbeatType, CompletionType DEF States
<1>3. toServer' \in [Sockets -> Seq(Messages)]
  BY <1>1, <1>2, SendType DEF ScriptReturns
<1>4. script' \in [Calls -> {"fresh", "running", "finished"}]
  BY <1>1 DEF ScriptReturns, TypeOK
<1> QED
  BY <1>3, <1>4 DEF ScriptReturns, TypeOK, Messages, serverVars, callVars

LEMMA EmptyChannels ==
    /\ <<>> \in Seq(Evidence) /\ Len(<<>>) <= HistoryLimit
    /\ [s \in Sockets |-> <<>>] \in [Sockets -> Seq(Request)]
    /\ [s \in Sockets |-> <<>>] \in [Sockets -> Seq(Heartbeat \cup Completion)]
<1>1. ASSUME NEW M PROVE <<>> \in Seq(M)
  OBVIOUS
<1>2. Len(<<>>) = 0 /\ 0 <= HistoryLimit
  OBVIOUS
<1>3. ASSUME NEW M PROVE [s \in Sockets |-> <<>>] \in [Sockets -> Seq(M)]
  BY <1>1
<1> QED
  BY <1>1, <1>2, <1>3

LEMMA InitType == Init => TypeOK
<1> SUFFICES ASSUME Init PROVE TypeOK
  OBVIOUS
<1>1. /\ execution \in Seq(Evidence) /\ Len(execution) <= HistoryLimit
      /\ toPanel \in [Sockets -> Seq(Request)]
      /\ toServer \in [Sockets -> Seq(Heartbeat \cup Completion)]
  BY EmptyChannels DEF Init
<1>2. /\ slot \in Sockets \cup {None}
      /\ link \in [Sockets -> {"none", "open", "closed"}]
      /\ handler \in [Sockets -> {"none", "start", "stale", "reading", "done"}]
      /\ requestId \in Nat
      /\ pending \in SUBSET Calls
      /\ hbSeen \in BOOLEAN
      /\ hbBusy \in BOOLEAN
      /\ restarts \in Nat
  BY DEF Init
<1>3. /\ pc \in [Calls -> {"idle", "done", "lost"} \cup InFlight]
      /\ id \in [Calls -> Nat]
      /\ via \in [Calls -> Sockets \cup {None}]
      /\ future \in [Calls -> {"none", "pending", "done", "failed", "cancelled"}]
      /\ result \in [Calls -> Calls \cup {None}]
      /\ answer \in [Calls -> States \cup {"none"}]
      /\ script \in [Calls -> {"fresh", "running", "finished"}]
  BY DEF Init
<1>4. /\ host \in Hosts
      /\ readyState \in [Sockets -> {"none", "open", "closed"}]
      /\ active \in [id : Nat, script : Calls, socket : Sockets] \cup {None}
      /\ beating \in SUBSET Sockets /\ interval \in Sockets \cup {None}
  BY DEF Init
<1> QED
  BY <1>1, <1>2, <1>3, <1>4 DEF TypeOK

LEMMA StepType == TypeOK /\ [Next]_vars => TypeOK'
<1> SUFFICES ASSUME TypeOK, [Next]_vars PROVE TypeOK'
  OBVIOUS
<1>1. ASSUME NEW c \in Calls, CallNext(c) PROVE TypeOK'
  BY <1>1, CallType
<1>2. ASSUME NEW s \in Sockets, ServerNext(s) \/ PanelNext(s) PROVE TypeOK'
  BY <1>2, ServerType, PanelType
<1>3. ASSUME NEW st \in {"completed", "unknown"}, ScriptReturns(st) PROVE TypeOK'
  BY <1>3, ScriptReturnsType
<1>4. CASE WatchdogFires
  BY <1>4, DisconnectType DEF WatchdogFires, TypeOK, panelVars, netVars
<1>5. CASE Restart
  <2>1. /\ execution' \in Seq(Evidence) /\ Len(execution') <= HistoryLimit
        /\ toServer' \in [Sockets -> Seq(Heartbeat \cup Completion)]
    BY <1>5, EmptyChannels DEF Restart
  <2>2. /\ link' \in [Sockets -> {"none", "open", "closed"}]
        /\ handler' \in [Sockets -> {"none", "start", "stale", "reading", "done"}]
        /\ restarts' \in Nat
        /\ pc' \in [Calls -> {"idle", "done", "lost"} \cup InFlight]
    BY <1>5 DEF Restart, TypeOK
  <2> QED
    BY <1>5, <2>1, <2>2 DEF Restart, TypeOK, panelVars
<1>6. CASE StrayClose
  BY <1>6 DEF StrayClose, StopHeartbeat, TypeOK, serverVars, callVars, netVars
<1>7. CASE UNCHANGED vars
  BY <1>7 DEF TypeOK, vars, serverVars, callVars, panelVars, netVars
<1> QED
  BY <1>1, <1>2, <1>3, <1>4, <1>5, <1>6, <1>7 DEF Next

(* Every reachable state is well formed, with at most HistoryLimit records  *)
(* in the execution history.                                                *)
THEOREM TypeCorrect == Spec => []TypeOK
BY InitType, StepType, PTL DEF Spec

(***************************************************************************)
(* Only Submit registers a request, and only when none is registered.      *)
(***************************************************************************)
LEMMA StepOneInFlight == TypeOK /\ OneInFlight /\ [Next]_vars => OneInFlight'
<1> SUFFICES ASSUME TypeOK, OneInFlight, [Next]_vars PROVE OneInFlight'
  OBVIOUS
<1>1. ASSUME NEW c \in Calls, Submit(c) PROVE OneInFlight'
  BY <1>1 DEF Submit, PanelBusy, OneInFlight
<1>2. CASE pending' \subseteq pending
  BY <1>2 DEF OneInFlight
<1>3. ASSUME NEW c \in Calls, CallNext(c), ~Submit(c) PROVE pending' \subseteq pending
  BY <1>3 DEF CallNext, Refuse, Sent, SendFails, Resume, ResumeCancelled, TimerFires, TimesOut,
              ReturnFailure, serverVars
<1>4. ASSUME NEW s \in Sockets, ServerNext(s) PROVE pending' \subseteq pending
  BY <1>4 DEF ServerNext, RejectSecondClient, FindStaleClient, TakeSlot, LinkLost, HandlerEnds,
              ReadHeartbeat, ReadCompletion, DropOversized, CompleteRequest, OnDisconnect,
              CancelAll, serverVars
<1>5. ASSUME NEW s \in Sockets, PanelNext(s) PROVE pending' \subseteq pending
  BY <1>5 DEF PanelNext, Connect, Close, PeriodicHeartbeat, RejectBusy, NoHost, StartScript,
              EvalThrows, serverVars
<1>6. ASSUME NEW st, ScriptReturns(st) PROVE pending' \subseteq pending
  BY <1>6 DEF ScriptReturns, serverVars
<1>7. CASE StrayClose \/ WatchdogFires \/ Restart \/ UNCHANGED vars
  BY <1>7 DEF StrayClose, WatchdogFires, OnDisconnect, CancelAll, Restart, OneInFlight, vars,
              serverVars
<1> QED
  BY <1>1, <1>2, <1>3, <1>4, <1>5, <1>6, <1>7 DEF Next

(* The bridge never has two registered requests.                            *)
THEOREM AtMostOneInFlight == Spec => []OneInFlight
<1>1. Init => OneInFlight
  BY DEF Init, OneInFlight
<1> QED
  BY <1>1, TypeCorrect, StepOneInFlight, PTL DEF Spec

(***************************************************************************)
(* Whoever removes an entry resolves its future, or is its own coroutine   *)
(* on the way out.                                                         *)
(***************************************************************************)
LEMMA StepNoHangingFuture == TypeOK /\ NoHangingFuture /\ [Next]_vars => NoHangingFuture'
<1> SUFFICES ASSUME TypeOK, NoHangingFuture, [Next]_vars PROVE NoHangingFuture'
  OBVIOUS
<1>1. ASSUME NEW c \in Calls, CallNext(c) PROVE NoHangingFuture'
  BY <1>1 DEF CallNext, Refuse, Submit, Sent, SendFails, Resume, ResumeCancelled, TimerFires,
              TimesOut, ReturnFailure, Return, serverVars, NoHangingFuture, TypeOK
<1>2. ASSUME NEW s \in Sockets, ServerNext(s) PROVE NoHangingFuture'
  BY <1>2 DEF ServerNext, RejectSecondClient, FindStaleClient, TakeSlot, LinkLost, HandlerEnds,
              ReadHeartbeat, ReadCompletion, DropOversized, CompleteRequest, OnDisconnect,
              CancelAll, serverVars, callVars, NoHangingFuture, TypeOK
<1>3. ASSUME NEW s \in Sockets, PanelNext(s) PROVE NoHangingFuture'
  BY <1>3 DEF PanelNext, Connect, Close, PeriodicHeartbeat, RejectBusy, NoHost, StartScript,
              EvalThrows, serverVars, callVars, NoHangingFuture
<1>4. ASSUME NEW st, ScriptReturns(st) PROVE NoHangingFuture'
  BY <1>4 DEF ScriptReturns, serverVars, callVars, NoHangingFuture
<1>5. CASE StrayClose \/ WatchdogFires \/ Restart \/ UNCHANGED vars
  BY <1>5 DEF StrayClose, WatchdogFires, OnDisconnect, CancelAll, Restart, NoHangingFuture, vars,
              serverVars, callVars, TypeOK
<1> QED
  BY <1>1, <1>2, <1>3, <1>4, <1>5 DEF Next

(* No future is left pending without an entry that can resolve it.          *)
THEOREM NoFutureHangs == Spec => []NoHangingFuture
<1>1. Init => NoHangingFuture
  BY DEF Init, NoHangingFuture
<1> QED
  BY <1>1, TypeCorrect, StepNoHangingFuture, PTL DEF Spec
=============================================================================
