------------------------------- MODULE Bridge -------------------------------
(***************************************************************************)
(* The path of a script from a tool call to Illustrator and back:          *)
(*   - WebSocketServer, its single client slot and one _handle_client      *)
(*     coroutine per connection                    (bridge/server.py);     *)
(*   - WebSocketBridge, the calls, the heartbeat state and the watchdog    *)
(*                                                 (websocket_bridge.py);  *)
(*   - RequestRegistry, pending futures and history                        *)
(*                                       (bridge/request_registry.py);     *)
(*   - the CEP panel, its socket, busy guard and evalScript (useMCP.ts).   *)
(*                                                                         *)
(* All Python code here runs on one asyncio loop, so a handler is atomic   *)
(* from one await to the next; everything between two awaits is one action.*)
(* The panel is event driven in the same way.  The two halves share only   *)
(* the FIFO channels of each socket, which lose what is in flight when     *)
(* either side closes.                                                     *)
(***************************************************************************)
EXTENDS Naturals, Sequences, FiniteSets, ExecutionHistory

CONSTANTS Calls,          \* the execute_script_async calls that will be made
          Sockets,        \* the WebSockets the panel may open
          None,           \* no socket, no script
          Hosts,          \* the kinds of machine considered, see host
          HistoryLimit,   \* records kept by the execution history (64)
          MaxRestarts,    \* bound: how often the server process may die
          HeartbeatRoom   \* bound: a periodic heartbeat is not queued behind
                          \* this many undelivered messages; with 0 there
                          \* are none and no interval is set

ASSUME NoneAssumption == None \notin Calls \cup Sockets
ASSUME HostsAssumption == Hosts \subseteq {"blocking", "async", "unavailable"}
ASSUME HistoryAssumption == HistoryLimit \in Nat \ {0}

VARIABLES
    \* the server process
    slot,         \* WebSocketServer.client
    link,         \* State of each server-side connection; only "open" is OPEN
    handler,      \* where the _handle_client coroutine of each connection is
    requestId,    \* RequestRegistry._request_id
    pending,      \* calls whose entry is in RequestRegistry._pending
    execution,    \* RequestRegistry._execution
    hbSeen,       \* _last_heartbeat # 0.0
    hbBusy,       \* _panel_busy
    restarts,     \* how often the process has been replaced
    \* the calls: execute_script_async
    pc,           \* where the coroutine of each call is
    id,           \* its request id, 0 when it has none in this process
    via,          \* the connection its request was sent on
    future,       \* its asyncio future
    result,       \* the script whose result the future holds
    answer,       \* the execution state the caller was given, "none" before
    \* the panel
    host,         \* how evalScript behaves on this machine
    readyState,   \* state of each WebSocket object of the panel
    active,       \* isExecuting, activeRequestId and the closure's socket
    beating,      \* the sockets whose setInterval(sendHeartbeat) is running
    interval,     \* the socket whose interval heartbeatTimer.current names
    \* the network
    toPanel, toServer,
    \* history variable: what Illustrator has done with each script
    script

serverVars == <<slot, link, handler, requestId, pending, execution, hbSeen, hbBusy, restarts>>
callVars   == <<pc, id, via, future, result, answer>>
panelVars  == <<host, readyState, active, beating, interval>>
netVars    == <<toPanel, toServer>>
vars       == <<serverVars, callVars, panelVars, netVars, script>>

-----------------------------------------------------------------------------
(* Messages.  A request carries the script itself; a completion carries the *)
(* result of the script that ran, which is how a result delivered to the    *)
(* wrong call shows.                                                        *)

Request == [id : Nat, script : Calls]
Heartbeat == [type : {"heartbeat"}, busy : BOOLEAN]
Completion == [type : {"complete"}, id : Nat, script : Calls, state : States]
Idle == [type |-> "heartbeat", busy |-> FALSE]
Busy == [type |-> "heartbeat", busy |-> TRUE]
Complete(m, st) == [type |-> "complete", id |-> m.id, script |-> m.script, state |-> st]

InFlight == {"sending", "waiting", "timingOut"}

TypeOK ==
    /\ slot \in Sockets \cup {None}
    /\ link \in [Sockets -> {"none", "open", "closed"}]
    /\ handler \in [Sockets -> {"none", "start", "stale", "reading", "done"}]
    /\ requestId \in Nat
    /\ pending \in SUBSET Calls
    /\ execution \in Seq(Evidence) /\ Len(execution) <= HistoryLimit
    /\ hbSeen \in BOOLEAN
    /\ hbBusy \in BOOLEAN
    /\ restarts \in Nat
    /\ pc \in [Calls -> {"idle", "done", "lost"} \cup InFlight]
    /\ id \in [Calls -> Nat]
    /\ via \in [Calls -> Sockets \cup {None}]
    /\ future \in [Calls -> {"none", "pending", "done", "failed", "cancelled"}]
    /\ result \in [Calls -> Calls \cup {None}]
    /\ answer \in [Calls -> States \cup {"none"}]
    /\ host \in Hosts
    /\ readyState \in [Sockets -> {"none", "open", "closed"}]
    /\ active \in [id : Nat, script : Calls, socket : Sockets] \cup {None}
    /\ beating \in SUBSET Sockets
    /\ interval \in Sockets \cup {None}
    /\ toPanel \in [Sockets -> Seq(Request)]
    /\ toServer \in [Sockets -> Seq(Heartbeat \cup Completion)]
    /\ script \in [Calls -> {"fresh", "running", "finished"}]

Init ==
    /\ slot = None
    /\ link = [s \in Sockets |-> "none"]
    /\ handler = [s \in Sockets |-> "none"]
    /\ requestId = 0
    /\ pending = {}
    /\ execution = <<>>
    /\ hbSeen = FALSE
    /\ hbBusy = FALSE
    /\ restarts = 0
    /\ pc = [c \in Calls |-> "idle"]
    /\ id = [c \in Calls |-> 0]
    /\ via = [c \in Calls |-> None]
    /\ future = [c \in Calls |-> "none"]
    /\ result = [c \in Calls |-> None]
    /\ answer = [c \in Calls |-> "none"]
    /\ host \in Hosts
    /\ readyState = [s \in Sockets |-> "none"]
    /\ active = None
    /\ beating = {}
    /\ interval = None
    /\ toPanel = [s \in Sockets |-> <<>>]
    /\ toServer = [s \in Sockets |-> <<>>]
    /\ script = [c \in Calls |-> "fresh"]

-----------------------------------------------------------------------------
(* Shared pieces of the server.                                             *)

Connected == slot # None /\ link[slot] = "open"

(* Recording news about a request; its answer reads the record back.  An    *)
(* evicted record reads as None, which the envelope turns into "unknown".   *)
Remember(i, st) == Record(execution, i, st, HistoryLimit)
Told(h, i) == IF Status(h, i) = "none" THEN "unknown" ELSE Status(h, i)

(* Mutant: the futures are looked up after the dictionary was cleared.      *)
CancelAllTooLate == pending' = {} /\ UNCHANGED future

(* cancel_all: the dictionary is emptied, then every future still pending   *)
(* gets a ConnectionError.                                                  *)
CancelAll ==
    /\ pending' = {}
    /\ future' = [c \in Calls |-> IF c \in pending /\ future[c] = "pending"
                                  THEN "failed" ELSE future[c]]

(* _handle_disconnect *)
OnDisconnect ==
    /\ CancelAll
    /\ hbSeen' = FALSE
    /\ hbBusy' = FALSE

(* complete_request, for the calls registered under the message's id: none  *)
(* or one.  The history is updated even when the call has timed out.        *)
CompleteRequest(m) ==
    LET hit == {c \in pending : id[c] = m.id}
        wake == {c \in hit : future[c] = "pending"}
    IN  /\ pending' = pending \ hit
        /\ execution' = IF Status(execution, m.id) = "none"
                        THEN execution ELSE Remember(m.id, m.state)
        /\ future' = [c \in Calls |-> IF c \in wake THEN "done" ELSE future[c]]
        /\ result' = [c \in Calls |-> IF c \in wake THEN m.script ELSE result[c]]

-----------------------------------------------------------------------------
(* The calls.                                                               *)

(* Mutant: only the panel's own report counts.                              *)
PanelBusyByHeartbeat == hbBusy

(* execute_script_async when nothing may be sent: no client, or an earlier  *)
(* script is pending or reported running (_busy_error).                     *)
PanelBusy == hbBusy \/ pending # {}

Refuse(c) ==
    /\ pc[c] = "idle"
    /\ ~Connected \/ PanelBusy
    /\ pc' = [pc EXCEPT ![c] = "done"]
    /\ answer' = [answer EXCEPT ![c] = "not_started"]
    /\ UNCHANGED <<serverVars, id, via, future, result, panelVars, netVars, script>>

(* The rest of its first segment: create_request, record_execution, send.   *)
(* No await separates the checks from the registration and the write.  A    *)
(* frame written to a peer that is gone is lost.                            *)
Submit(c) ==
    /\ pc[c] = "idle"
    /\ Connected
    /\ ~PanelBusy
    /\ requestId' = requestId + 1
    /\ id' = [id EXCEPT ![c] = requestId']
    /\ pending' = pending \cup {c}
    /\ future' = [future EXCEPT ![c] = "pending"]
    /\ execution' = Remember(requestId', "unknown")
    /\ via' = [via EXCEPT ![c] = slot]
    /\ pc' = [pc EXCEPT ![c] = "sending"]
    /\ toPanel' = IF readyState[slot] = "open"
                  THEN [toPanel EXCEPT ![slot] = Append(@, [id |-> requestId', script |-> c])]
                  ELSE toPanel
    /\ UNCHANGED <<slot, link, handler, hbSeen, hbBusy, restarts, result, answer,
                   panelVars, toServer, script>>

(* await ws.send returns once the transport has drained; wait_for starts    *)
(* its timer only then.                                                     *)
Sent(c) ==
    /\ pc[c] = "sending"
    /\ pc' = [pc EXCEPT ![c] = "waiting"]
    /\ UNCHANGED <<serverVars, id, via, future, result, answer, panelVars, netVars, script>>

(* A coroutine that returns takes its future and its locals with it.        *)
Return(c, st) ==
    /\ pc' = [pc EXCEPT ![c] = "done"]
    /\ answer' = [answer EXCEPT ![c] = st]
    /\ future' = [future EXCEPT ![c] = "none"]
    /\ via' = [via EXCEPT ![c] = None]
    /\ result' = [result EXCEPT ![c] = None]

(* The except branches: fail_request drops the entry, the record becomes    *)
(* "unknown" unless evidence has arrived, and the caller is told what the   *)
(* record says.                                                             *)
ReturnFailure(c) ==
    /\ pending' = pending \ {c}
    /\ execution' = Remember(id[c], "unknown")
    /\ Return(c, Told(execution', id[c]))
    /\ UNCHANGED <<slot, link, handler, requestId, hbSeen, hbBusy, restarts,
                   id, panelVars, netVars, script>>

(* Mutant: a failed write is taken for a script that never left.            *)
SendFailsUnsent(c) ==
    /\ pc[c] = "sending"
    /\ link[via[c]] = "closed"
    /\ pending' = pending \ {c}
    /\ execution' = Remember(id[c], "not_started")
    /\ Return(c, "not_started")
    /\ UNCHANGED <<slot, link, handler, requestId, hbSeen, hbBusy, restarts,
                   id, panelVars, netVars, script>>

(* The connection goes away while the write is being drained.               *)
SendFails(c) ==
    /\ pc[c] = "sending"
    /\ link[via[c]] = "closed"
    /\ ReturnFailure(c)

(* The coroutine resumes with a result.                                     *)
Resume(c) ==
    /\ pc[c] = "waiting"
    /\ future[c] = "done"
    /\ Return(c, Told(execution, id[c]))
    /\ UNCHANGED <<serverVars, id, panelVars, netVars, script>>

(* The coroutine resumes with the ConnectionError of cancel_all.            *)
ResumeCancelled(c) ==
    /\ pc[c] = "waiting"
    /\ future[c] = "failed"
    /\ ReturnFailure(c)

(* Mutant: no timeout while the panel reports busy.                         *)
TimerSparesBusyPanel(c) ==
    /\ pc[c] = "waiting"
    /\ ~hbBusy
    /\ pc' = [pc EXCEPT ![c] = "timingOut"]
    /\ future' = [future EXCEPT ![c] = IF @ = "pending" THEN "cancelled" ELSE @]
    /\ UNCHANGED <<serverVars, id, via, result, answer, panelVars, netVars, script>>

(* The timer of wait_for goes off and cancels the future; the except branch *)
(* runs on a later pass of the loop, and other callbacks may run between.   *)
(* A timer that goes off after set_result but before the task wakes wins.   *)
TimerFires(c) ==
    /\ pc[c] = "waiting"
    /\ pc' = [pc EXCEPT ![c] = "timingOut"]
    /\ future' = [future EXCEPT ![c] = IF @ = "pending" THEN "cancelled" ELSE @]
    /\ UNCHANGED <<serverVars, id, via, result, answer, panelVars, netVars, script>>

TimesOut(c) ==
    /\ pc[c] = "timingOut"
    /\ ReturnFailure(c)

-----------------------------------------------------------------------------
(* Connections, seen from the server.                                       *)

(* _handle_client, up to its first await.  A connection that finds the slot *)
(* taken by a live one is closed with 4001; one that finds a dead client    *)
(* there waits for that client to finish closing.                           *)
RejectSecondClient(s) ==
    /\ handler[s] = "start"
    /\ Connected
    /\ handler' = [handler EXCEPT ![s] = "done"]
    /\ link' = [link EXCEPT ![s] = "closed"]
    /\ toServer' = [toServer EXCEPT ![s] = <<>>]
    /\ UNCHANGED <<slot, requestId, pending, execution, hbSeen, hbBusy, restarts,
                   callVars, panelVars, toPanel, script>>

FindStaleClient(s) ==
    /\ handler[s] = "start"
    /\ slot # None /\ ~Connected
    /\ handler' = [handler EXCEPT ![s] = "stale"]
    /\ UNCHANGED <<slot, link, requestId, pending, execution, hbSeen, hbBusy, restarts,
                   callVars, panelVars, netVars, script>>

(* ... and on to the read loop, from a free slot or after the await.        *)
TakeSlot(s) ==
    /\ \/ handler[s] = "start" /\ slot = None
       \/ handler[s] = "stale"
    /\ slot' = s
    /\ handler' = [handler EXCEPT ![s] = "reading"]
    /\ UNCHANGED <<link, requestId, pending, execution, hbSeen, hbBusy, restarts,
                   callVars, panelVars, netVars, script>>

(* The connection is lost or fails: reset, ping timeout, close frame.       *)
LinkLost(s) ==
    /\ link[s] = "open"
    /\ link' = [link EXCEPT ![s] = "closed"]
    /\ UNCHANGED <<slot, handler, requestId, pending, execution, hbSeen, hbBusy, restarts,
                   callVars, panelVars, netVars, script>>

(* The read loop ends, whatever was still buffered is dropped, and the      *)
(* finally block runs: only the current client's end is a disconnect.       *)
HandlerEnds(s) ==
    /\ handler[s] = "reading"
    /\ link[s] = "closed"
    /\ handler' = [handler EXCEPT ![s] = "done"]
    /\ toServer' = [toServer EXCEPT ![s] = <<>>]
    /\ IF slot = s
       THEN slot' = None /\ OnDisconnect
       ELSE UNCHANGED <<slot, pending, future, hbSeen, hbBusy>>
    /\ UNCHANGED <<link, requestId, execution, restarts, pc, id, via, result, answer,
                   panelVars, toPanel, script>>


(* _handle_message on the next message of a connection being read; messages *)
(* received before the connection closed are still read.                    *)
ReadHeartbeat(s) ==
    /\ handler[s] = "reading"
    /\ toServer[s] # <<>>
    /\ Head(toServer[s]).type = "heartbeat"
    /\ toServer' = [toServer EXCEPT ![s] = Tail(@)]
    /\ hbSeen' = TRUE
    /\ hbBusy' = Head(toServer[s]).busy
    /\ UNCHANGED <<slot, link, handler, requestId, pending, execution, restarts,
                   callVars, panelVars, toPanel, script>>

ReadCompletion(s) ==
    /\ handler[s] = "reading"
    /\ toServer[s] # <<>>
    /\ Head(toServer[s]).type = "complete"
    /\ toServer' = [toServer EXCEPT ![s] = Tail(@)]
    /\ CompleteRequest(Head(toServer[s]))
    /\ UNCHANGED <<slot, link, handler, requestId, hbSeen, hbBusy, restarts,
                   pc, id, via, answer, panelVars, toPanel, script>>

(* A message above max_message_size_mb is dropped without a reply.          *)
DropOversized(s) ==
    /\ handler[s] = "reading"
    /\ toServer[s] # <<>>
    /\ Head(toServer[s]).type = "complete"
    /\ toServer' = [toServer EXCEPT ![s] = Tail(@)]
    /\ UNCHANGED <<serverVars, callVars, panelVars, toPanel, script>>

(* _watchdog_tick.  Time is not modelled: a seen heartbeat may always have  *)
(* become stale.  ws.close leaves state OPEN before its first await.        *)
WatchdogFires ==
    /\ hbSeen
    /\ ~hbBusy
    /\ Connected
    /\ OnDisconnect
    /\ link' = [link EXCEPT ![slot] = "closed"]
    /\ UNCHANGED <<slot, handler, requestId, execution, restarts,
                   pc, id, via, result, answer, panelVars, netVars, script>>

(* The process is killed or shut down and a new one takes its place: only   *)
(* the sockets' far ends and Illustrator survive.                           *)
Restart ==
    /\ restarts < MaxRestarts
    /\ restarts' = restarts + 1
    /\ slot' = None
    /\ link' = [s \in Sockets |-> IF link[s] = "none" THEN "none" ELSE "closed"]
    /\ handler' = [s \in Sockets |-> IF handler[s] = "none" THEN "none" ELSE "done"]
    /\ requestId' = 0
    /\ pending' = {}
    /\ execution' = <<>>
    /\ hbSeen' = FALSE
    /\ hbBusy' = FALSE
    /\ pc' = [c \in Calls |-> IF pc[c] \in InFlight THEN "lost" ELSE pc[c]]
    /\ id' = [c \in Calls |-> 0]
    /\ via' = [c \in Calls |-> None]
    /\ future' = [c \in Calls |-> "none"]
    /\ result' = [c \in Calls |-> None]
    /\ toServer' = [s \in Sockets |-> <<>>]
    /\ UNCHANGED <<answer, panelVars, toPanel, script>>

-----------------------------------------------------------------------------
(* The panel.                                                               *)

(* On macOS evalScript runs inside onmessage: nothing else runs meanwhile.  *)
EventLoopFree == ~(host = "blocking" /\ active # None)

(* socket.send on the socket a closure captured, if it is still OPEN.       *)
Send(s, ms) ==
    toServer' = IF readyState[s] = "open" /\ link[s] = "open"
                THEN [toServer EXCEPT ![s] = @ \o ms] ELSE toServer

(* setInterval.  heartbeatTimer.current is overwritten: the interval it     *)
(* named before runs on, and nothing can clear it any more.                 *)
StartHeartbeat(s) ==
    IF HeartbeatRoom = 0 THEN UNCHANGED <<beating, interval>>
    ELSE beating' = beating \cup {s} /\ interval' = s

(* connect and onopen; the first heartbeat is sent at once.  connect returns *)
(* early while ws.current is OPEN, but the onclose of any socket clears     *)
(* ws.current, so a second socket may open beside a live one (PanelLink).   *)
Connect(s) ==
    /\ EventLoopFree
    /\ readyState[s] = "none"
    /\ readyState' = [readyState EXCEPT ![s] = "open"]
    /\ link' = [link EXCEPT ![s] = "open"]
    /\ handler' = [handler EXCEPT ![s] = "start"]
    /\ toServer' = [toServer EXCEPT ![s] = <<IF active = None THEN Idle ELSE Busy>>]
    /\ StartHeartbeat(s)
    /\ UNCHANGED <<slot, requestId, pending, execution, hbSeen, hbBusy, restarts,
                   callVars, host, active, toPanel, script>>

(* clearInterval(heartbeatTimer.current), whichever socket's interval that  *)
(* is.  The interval of a socket that has gone sends nothing and is not     *)
(* kept.                                                                    *)
StopHeartbeat(gone) ==
    /\ beating' = beating \ (gone \cup {interval})
    /\ interval' = None

(* onclose, or disconnect(): a running evalScript goes on, and so does the  *)
(* busy guard.                                                              *)
Close(s) ==
    /\ EventLoopFree
    /\ readyState[s] = "open"
    /\ readyState' = [readyState EXCEPT ![s] = "closed"]
    /\ toPanel' = [toPanel EXCEPT ![s] = <<>>]
    /\ StopHeartbeat({s})
    /\ UNCHANGED <<serverVars, callVars, host, active, toServer, script>>

(* The same of a socket that carries nothing: the onclose of an attempt that *)
(* never opened, the late onclose of a socket disconnect() closed, or       *)
(* disconnect() after ws.current was cleared.  Another socket may be live.  *)
StrayClose ==
    /\ EventLoopFree
    /\ interval # None
    /\ StopHeartbeat({})
    /\ UNCHANGED <<serverVars, callVars, host, readyState, active, netVars, script>>

(* setInterval(sendHeartbeat), while the interval runs.                     *)
PeriodicHeartbeat(s) ==
    /\ EventLoopFree
    /\ s \in beating
    /\ readyState[s] = "open"
    /\ link[s] = "open"
    /\ Len(toServer[s]) < HeartbeatRoom
    /\ Send(s, <<IF active = None THEN Idle ELSE Busy>>)
    /\ UNCHANGED <<serverVars, callVars, panelVars, toPanel, script>>

(* Mutant: a request stays queued after it was taken.                       *)
ReceiveTwice(s) ==
    /\ EventLoopFree
    /\ readyState[s] = "open"
    /\ toPanel[s] # <<>>
    /\ UNCHANGED toPanel

(* onmessage takes the next request of an open socket.                      *)
Receive(s) ==
    /\ EventLoopFree
    /\ readyState[s] = "open"
    /\ toPanel[s] # <<>>
    /\ toPanel' = [toPanel EXCEPT ![s] = Tail(@)]

RejectBusy(s) ==
    /\ Receive(s)
    /\ active # None
    /\ Send(s, <<Complete(Head(toPanel[s]), "not_started")>>)
    /\ UNCHANGED <<serverVars, callVars, panelVars, script>>

NoHost(s) ==
    /\ Receive(s)
    /\ active = None
    /\ host = "unavailable"
    /\ Send(s, <<Busy, Idle, Complete(Head(toPanel[s]), "not_started")>>)
    /\ UNCHANGED <<serverVars, callVars, panelVars, script>>

StartScript(s) ==
    LET m == Head(toPanel[s])
    IN  /\ Receive(s)
        /\ active = None
        /\ host # "unavailable"
        /\ active' = [id |-> m.id, script |-> m.script, socket |-> s]
        /\ script' = [script EXCEPT ![m.script] = "running"]
        /\ Send(s, <<Busy>>)
        /\ UNCHANGED <<serverVars, callVars, host, readyState, beating, interval>>

(* Mutant: a throw is reported as a script that did not start.              *)
EvalThrowsUnstarted(s) ==
    LET m == Head(toPanel[s])
    IN  /\ Receive(s)
        /\ active = None
        /\ host # "unavailable"
        /\ \/ script' = [script EXCEPT ![m.script] = "running"]
           \/ UNCHANGED script
        /\ Send(s, <<Busy, Idle, Complete(m, "not_started")>>)
        /\ UNCHANGED <<serverVars, callVars, panelVars>>

(* evalScript throws: whether it had started the script is not known.       *)
EvalThrows(s) ==
    LET m == Head(toPanel[s])
    IN  /\ Receive(s)
        /\ active = None
        /\ host # "unavailable"
        /\ \/ script' = [script EXCEPT ![m.script] = "running"]
           \/ UNCHANGED script
        /\ Send(s, <<Busy, Idle, Complete(m, "unknown")>>)
        /\ UNCHANGED <<serverVars, callVars, panelVars>>

(* Mutant: the result goes out on whatever socket is open now.              *)
ScriptReturnsOnCurrent(st) ==
    /\ active # None
    /\ active' = None
    /\ script' = [script EXCEPT ![active.script] = "finished"]
    /\ \E s \in Sockets :
           /\ readyState[s] = "open" \/ \A t \in Sockets : readyState[t] # "open"
           /\ Send(s, <<Idle, Complete(active, st)>>)
    /\ UNCHANGED <<serverVars, callVars, host, readyState, beating, interval, toPanel>>

(* The evalScript callback: the idle heartbeat goes out first, then the     *)
(* result, both on the socket the request came from.  A result the panel    *)
(* cannot parse is reported as "unknown".                                   *)
ScriptReturns(st) ==
    /\ active # None
    /\ active' = None
    /\ script' = [script EXCEPT ![active.script] = "finished"]
    /\ Send(active.socket, <<Idle, Complete(active, st)>>)
    /\ UNCHANGED <<serverVars, callVars, host, readyState, beating, interval, toPanel>>

-----------------------------------------------------------------------------

CallNext(c) == \/ Refuse(c) \/ Submit(c) \/ Sent(c) \/ SendFails(c)
               \/ Resume(c) \/ ResumeCancelled(c) \/ TimerFires(c) \/ TimesOut(c)

ServerNext(s) == \/ RejectSecondClient(s) \/ FindStaleClient(s) \/ TakeSlot(s)
                 \/ LinkLost(s) \/ HandlerEnds(s)
                 \/ ReadHeartbeat(s) \/ ReadCompletion(s) \/ DropOversized(s)

PanelNext(s) == \/ Connect(s) \/ Close(s) \/ PeriodicHeartbeat(s)
                \/ RejectBusy(s) \/ NoHost(s) \/ StartScript(s) \/ EvalThrows(s)

Next == \/ \E c \in Calls : CallNext(c)
        \/ \E s \in Sockets : ServerNext(s) \/ PanelNext(s)
        \/ \E st \in {"completed", "unknown"} : ScriptReturns(st)
        \/ StrayClose
        \/ WatchdogFires
        \/ Restart

Spec == Init /\ [][Next]_vars

(* Fairness.  The asyncio loop runs every callback that stays ready: timers,*)
(* wake-ups, handlers; a write drains or its connection is declared dead by *)
(* the keepalive (ping_interval 30, ping_timeout 10).                       *)
CallFairness == \A c \in Calls : WF_vars(Sent(c)) /\ WF_vars(SendFails(c))
                                 /\ WF_vars(Resume(c)) /\ WF_vars(ResumeCancelled(c))
                                 /\ WF_vars(TimerFires(c)) /\ WF_vars(TimesOut(c))

ServerFairness == \A s \in Sockets :
    /\ WF_vars(RejectSecondClient(s) \/ FindStaleClient(s) \/ TakeSlot(s))
    /\ WF_vars(HandlerEnds(s))
    /\ WF_vars(ReadHeartbeat(s) \/ ReadCompletion(s))
    /\ WF_vars(readyState[s] = "closed" /\ LinkLost(s))

(* The panel's timers run while its event loop does, an interval until it   *)
(* is cleared.  Nothing obliges a script to return, nor the panel to        *)
(* reconnect.                                                               *)
PanelFairness == \A s \in Sockets :
    /\ WF_vars(RejectBusy(s) \/ NoHost(s) \/ StartScript(s))
    /\ WF_vars(PeriodicHeartbeat(s))
    /\ WF_vars(link[s] = "closed" /\ Close(s))

ScriptsReturn == WF_vars(\E st \in {"completed", "unknown"} : ScriptReturns(st))

FairSpec == Spec /\ CallFairness /\ ServerFairness /\ PanelFairness

-----------------------------------------------------------------------------
(* Properties.                                                              *)

NotQueued(c) == \A s \in Sockets : \A k \in DOMAIN toPanel[s] : toPanel[s][k].script # c

(* A caller told "not_started" (safe_to_retry) may submit the same script   *)
(* again: the first copy has not run, and no copy of it is left in any      *)
(* channel that the panel could still run after a reconnect.                *)
RetryIsSafe ==
    \A c \in Calls : answer[c] = "not_started" => script[c] = "fresh" /\ NotQueued(c)

(* What illustrator_inspect reports about a request of this process is      *)
(* true, late answers, timeouts and reconnects notwithstanding.             *)
EvidenceIsTrue ==
    \A c \in Calls, k \in DOMAIN execution : execution[k].id = id[c] =>
        /\ execution[k].state = "completed" => script[c] = "finished"
        /\ execution[k].state = "not_started" => script[c] = "fresh" /\ NotQueued(c)

(* The result a call receives is that of its own script, although request   *)
(* ids start again at 1 in every server process and the panel outlives them.*)
RightResult == \A c \in Calls : result[c] \in {None, c}

(* The bridge never has two registered requests: the check for pending work *)
(* and the registration are one step of the loop.                           *)
OneInFlight == \A c, d \in pending : c = d

(* No lost wake-up: a future somebody still waits for has an entry through  *)
(* which an answer, a timeout or a disconnect reaches it.                   *)
NoHangingFuture == \A c \in Calls : future[c] = "pending" => c \in pending

(* Settled evidence is never taken back by a later timeout, cancellation or *)
(* duplicate; it can only be evicted.                                       *)
EvidenceKept ==
    [][\A c \in Calls : id'[c] = id[c] /\ Settled(execution, id[c]) =>
           Status(execution', id[c]) \in {Status(execution, id[c]), "none"}]_vars

(* The whole path implements the abstract promise made to a caller.         *)
ToldTo(c) == CASE pc[c] = "idle"     -> "idle"
               [] pc[c] \in InFlight -> "open"
               [] pc[c] = "lost"     -> "unknown"
               [] pc[c] = "done"     -> answer[c]
ToldCaller == [c \in Calls |-> ToldTo(c)]
Promise == INSTANCE ScriptCall WITH told <- ToldCaller
PromiseKept == Promise!Spec

(* Every call is answered, whatever the panel and the network do, unless    *)
(* the process dies under it.                                               *)
EveryCallAnswered ==
    \A c \in Calls : pc[c] \in InFlight ~> pc[c] \in {"done", "lost"}

(* The client's last word was "busy" and its interval has been cleared, by  *)
(* the onclose of another socket or by disconnect(): it may never speak     *)
(* again, and the watchdog spares a panel that is busy.                     *)
StuckBusy == hbBusy /\ slot \notin beating

=============================================================================
