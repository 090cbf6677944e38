----------------------------- MODULE PanelLink -----------------------------
(***************************************************************************)
(* How the CEP panel and the server find each other and stay connected:    *)
(*   - server processes, of which more than one can exist around a restart:*)
(*     port, listening, session file       (websocket_bridge.py start and  *)
(*     stop, bridge/session.py, bridge/server.py run);                     *)
(*   - the panel's WebSocket objects, its reconnect timers, and the button *)
(*     of its control panel           (useMCP.ts, MCPControlPanel.tsx);    *)
(*   - the handler of each accepted connection and the client slot it      *)
(*     competes for                   (bridge/server.py _handle_client).   *)
(*                                                                         *)
(* Requests are left out: Bridge models what travels on a connection.      *)
(* Every WebSocket event, timer and click is one task of the panel's event *)
(* loop, and a handler is atomic from one await to the next.  Socket names *)
(* are reused once both ends have finished with them.                      *)
(***************************************************************************)
EXTENDS Naturals, FiniteSets

CONSTANTS Sockets,      \* names for the WebSockets of the panel
          Processes,    \* the server processes that will ever be started
          Ports,        \* the values WS_PORT may have
          None,         \* no socket, no process
          MaxAttempts   \* bound: the user clicks Connect only while fewer
                        \* timers and sockets than this are alive

ASSUME NoneAssumption == None \notin Sockets \cup Processes
ASSUME SocketsAssumption == IsFiniteSet(Sockets)

VARIABLES
    \* the server processes
    proc,      \* life of each process
    port,      \* its WS_PORT
    slot,      \* WebSocketServer.client of each process
    file,      \* whose token and port the session file holds
    \* the server's end of each connection
    peer,      \* the process that accepted it
    link,      \* its State; only "open" is OPEN
    handler,   \* where its _handle_client coroutine is
    \* the panel
    sock,      \* readyState of each WebSocket object; "none" after onclose
    offer,     \* the session each was opened with
    current,   \* ws.current
    manual,    \* manualDisconnect.current
    timer,     \* what reconnectTimeout.current refers to
    orphans,   \* pending reconnect timers it no longer refers to
    status     \* what the control panel shows

procVars   == <<proc, port, slot, file>>
serverVars == <<peer, link, handler>>
panelVars  == <<sock, offer, current, manual, timer, orphans, status>>
vars       == <<procVars, serverVars, panelVars>>

TypeOK ==
    /\ proc \in [Processes -> {"off", "listening", "serving", "failed",
                               "stopping", "unlinking", "gone"}]
    /\ port \in [Processes -> Ports]
    /\ slot \in [Processes -> Sockets \cup {None}]
    /\ file \in Processes \cup {None}
    /\ peer \in [Sockets -> Processes \cup {None}]
    /\ link \in [Sockets -> {"none", "open", "closed"}]
    /\ handler \in [Sockets -> {"none", "start", "stale", "reading"}]
    /\ sock \in [Sockets -> {"none", "connecting", "open", "closing"}]
    /\ offer \in [Sockets -> Processes \cup {None}]
    /\ current \in Sockets \cup {None}
    /\ manual \in BOOLEAN
    /\ timer \in {"null", "pending", "fired"}
    /\ orphans \in Nat
    /\ status \in {"disconnected", "connecting", "connected", "error"}

(* The panel has just been mounted and found no session file.               *)
Init ==
    /\ proc = [p \in Processes |-> "off"]
    /\ port \in [Processes -> Ports]
    /\ slot = [p \in Processes |-> None]
    /\ file = None
    /\ peer = [s \in Sockets |-> None]
    /\ link = [s \in Sockets |-> "none"]
    /\ handler = [s \in Sockets |-> "none"]
    /\ sock = [s \in Sockets |-> "none"]
    /\ offer = [s \in Sockets |-> None]
    /\ current = None
    /\ manual = FALSE
    /\ timer = "pending"
    /\ orphans = 0
    /\ status = "disconnected"

-----------------------------------------------------------------------------
(* The server processes.                                                    *)

Listening(p) == proc[p] \in {"listening", "serving"}
PortTaken(p) == \E q \in Processes : Listening(q) /\ port[q] = port[p]

(* start: the thread binds the port, or reports OSError and the bridge is   *)
(* in state ERROR for the rest of the process.                              *)
Listen(p) ==
    /\ proc[p] = "off"
    /\ proc' = [proc EXCEPT ![p] = IF PortTaken(p) THEN "failed" ELSE "listening"]
    /\ UNCHANGED <<port, slot, file, serverVars, panelVars>>

(* The rest of start: write_session_file replaces the file atomically, or   *)
(* fails, which is logged.                                                  *)
Publish(p) ==
    /\ proc[p] = "listening"
    /\ proc' = [proc EXCEPT ![p] = "serving"]
    /\ file' \in {p, file}
    /\ UNCHANGED <<port, slot, serverVars, panelVars>>

(* The connections of a process end with its server.                        *)
DropAll(p) ==
    /\ slot' = [slot EXCEPT ![p] = None]
    /\ link' = [s \in Sockets |-> IF peer[s] = p /\ link[s] = "open" THEN "closed" ELSE link[s]]
    /\ handler' = [s \in Sockets |-> IF peer[s] = p THEN "none" ELSE handler[s]]

(* stop: the server closes its port and its connections, the thread is      *)
(* joined.                                                                  *)
Stop(p) ==
    /\ proc[p] \in {"serving", "failed"}
    /\ proc' = [proc EXCEPT ![p] = "stopping"]
    /\ DropAll(p)
    /\ UNCHANGED <<port, file, peer, panelVars>>

(* remove_session_file reads the file and compares tokens ...               *)
CheckFile(p) ==
    /\ proc[p] = "stopping"
    /\ proc' = [proc EXCEPT ![p] = IF file = p THEN "unlinking" ELSE "gone"]
    /\ UNCHANGED <<port, slot, file, serverVars, panelVars>>

(* ... and then unlinks whatever is there.                                  *)
Unlink(p) ==
    /\ proc[p] = "unlinking"
    /\ proc' = [proc EXCEPT ![p] = "gone"]
    /\ file' = None
    /\ UNCHANGED <<port, slot, serverVars, panelVars>>

(* The process is killed; its session file stays.                           *)
Crash(p) ==
    /\ proc[p] \notin {"off", "gone"}
    /\ proc' = [proc EXCEPT ![p] = "gone"]
    /\ DropAll(p)
    /\ UNCHANGED <<port, file, peer, panelVars>>

-----------------------------------------------------------------------------
(* Opening a connection.                                                    *)

(* The handshake of a new WebSocket: some process has the port, and the     *)
(* subprotocol it was offered carries its own token.                        *)
Accept(s) ==
    /\ sock[s] = "connecting"
    /\ link[s] = "none"
    /\ Listening(offer[s])
    /\ peer' = [peer EXCEPT ![s] = offer[s]]
    /\ link' = [link EXCEPT ![s] = "open"]
    /\ handler' = [handler EXCEPT ![s] = "start"]
    /\ UNCHANGED <<procVars, panelVars>>

(* Nobody has the port, or _authorize_request answers 401.                  *)
Deny(s) ==
    /\ sock[s] = "connecting"
    /\ link[s] = "none"
    /\ ~Listening(offer[s])
    /\ sock' = [sock EXCEPT ![s] = "closing"]
    /\ UNCHANGED <<procVars, serverVars, offer, current, manual, timer, orphans, status>>

(* _handle_client, up to its first await.                                   *)
Connected(p) == slot[p] # None /\ link[slot[p]] = "open"

RejectSecondClient(s) ==
    /\ handler[s] = "start"
    /\ Connected(peer[s])
    /\ handler' = [handler EXCEPT ![s] = "none"]
    /\ link' = [link EXCEPT ![s] = "closed"]
    /\ UNCHANGED <<procVars, peer, panelVars>>

FindStaleClient(s) ==
    /\ handler[s] = "start"
    /\ slot[peer[s]] # None /\ ~Connected(peer[s])
    /\ handler' = [handler EXCEPT ![s] = "stale"]
    /\ UNCHANGED <<procVars, peer, link, panelVars>>

(* On to the read loop, from a free slot or when the dead client has closed.*)
TakeSlot(s) ==
    /\ \/ handler[s] = "start" /\ slot[peer[s]] = None
       \/ handler[s] = "stale"
    /\ slot' = [slot EXCEPT ![peer[s]] = s]
    /\ handler' = [handler EXCEPT ![s] = "reading"]
    /\ UNCHANGED <<proc, port, file, peer, link, panelVars>>

(* The read loop ends; only the current client's end frees the slot.        *)
HandlerEnds(s) ==
    /\ handler[s] = "reading"
    /\ link[s] = "closed"
    /\ handler' = [handler EXCEPT ![s] = "none"]
    /\ slot' = IF slot[peer[s]] = s THEN [slot EXCEPT ![peer[s]] = None] ELSE slot
    /\ UNCHANGED <<proc, port, file, peer, link, panelVars>>

(* The panel's close frame arrives.                                         *)
PeerCloses(s) ==
    /\ link[s] = "open"
    /\ sock[s] = "closing"
    /\ link' = [link EXCEPT ![s] = "closed"]
    /\ UNCHANGED <<procVars, peer, handler, panelVars>>

(* The connection is lost: reset, keepalive timeout, watchdog.              *)
Lose(s) ==
    /\ link[s] = "open" /\ sock[s] # "closing"
    /\ link' = [link EXCEPT ![s] = "closed"]
    /\ UNCHANGED <<procVars, peer, handler, panelVars>>

-----------------------------------------------------------------------------
(* The panel.                                                               *)

Alive == {s \in Sockets : sock[s] # "none"}

(* Mutant: a timer is set only when none is remembered.                     *)
ArmOnce(t, o) ==
    /\ timer' = IF t = "null" THEN "pending" ELSE t
    /\ orphans' = o

(* reconnectTimeout.current = setTimeout(connect, 3000), when it refers to a*)
(* timer in state t.  A pending one is forgotten, not cleared.              *)
Arm(t, o) ==
    /\ timer' = "pending"
    /\ orphans' = IF t = "pending" THEN o + 1 ELSE o

(* connect, called with the timers in state t and o, finds a session: it    *)
(* opens a socket ...                                                       *)
Open(s, t, o) ==
    /\ sock[s] = "none" /\ handler[s] = "none"
    /\ sock' = [sock EXCEPT ![s] = "connecting"]
    /\ offer' = [offer EXCEPT ![s] = file]
    /\ link' = [link EXCEPT ![s] = "none"]
    /\ peer' = [peer EXCEPT ![s] = None]
    /\ current' = s
    /\ status' = "connecting"
    /\ timer' = t /\ orphans' = o
    /\ UNCHANGED handler

(* ... or new WebSocket throws, for whatever reason, and the catch shows    *)
(* the error.  It sets no timer, and there is no socket whose onclose would.*)
OpenThrows(t, o) ==
    /\ status' = "error"
    /\ timer' = t /\ orphans' = o
    /\ UNCHANGED <<serverVars, sock, offer, current>>

(* Mutant: a missing file ends the attempt.                                 *)
FindNoSessionStops(t, o) ==
    /\ timer' = t /\ orphans' = o
    /\ status' = "disconnected"
    /\ UNCHANGED <<serverVars, sock, offer, current>>

(* A missing or unusable file is tried again later.                         *)
FindNoSession(t, o) ==
    /\ Arm(t, o)
    /\ status' = "disconnected"
    /\ UNCHANGED <<serverVars, sock, offer, current>>

CurrentOpen == current # None /\ sock[current] = "open"

connect(t, o) ==
    \/ /\ CurrentOpen
       /\ timer' = t /\ orphans' = o
       /\ UNCHANGED <<serverVars, sock, offer, current, manual, status>>
    \/ /\ ~CurrentOpen
       /\ manual' = FALSE
       /\ \/ file = None /\ FindNoSession(t, o)
          \/ file # None /\ \E s \in Sockets : Open(s, t, o)
          \/ file # None /\ OpenThrows(t, o)

(* The button of the control panel is Connect, or Stop while the panel is   *)
(* connected; it is disabled while it connects.  The "error" of an onerror  *)
(* is never seen: onclose follows in the same task and overwrites it.       *)
Attempts == orphans + (IF timer = "pending" THEN 1 ELSE 0) + Cardinality(Alive)

ClickConnect ==
    /\ status \in {"disconnected", "error"}
    /\ Attempts < MaxAttempts
    /\ connect(timer, orphans)
    /\ UNCHANGED procVars

(* disconnect: the remembered timer is cleared and ws.current closed.       *)
ClickStop ==
    /\ status = "connected"
    /\ manual' = TRUE
    /\ timer' = "null"
    /\ sock' = IF current = None THEN sock ELSE [sock EXCEPT ![current] = "closing"]
    /\ current' = None
    /\ UNCHANGED <<procVars, serverVars, offer, orphans, status>>

(* Mutants: the timer repeats; the count of forgotten timers runs below zero.*)
TimerRepeats ==
    /\ \/ orphans > 0 /\ connect(timer, orphans - 1)
       \/ orphans = 0 /\ timer = "pending" /\ connect("pending", 0)
    /\ UNCHANGED procVars

TimerFiresUnset ==
    /\ orphans = 0 \/ timer = "pending"
    /\ connect(timer, orphans - 1)
    /\ UNCHANGED procVars

(* Timers all run for 3 s and go off in the order they were set, so a       *)
(* forgotten one before the remembered one.                                 *)
TimerFires ==
    /\ \/ orphans > 0 /\ connect(timer, orphans - 1)
       \/ orphans = 0 /\ timer = "pending" /\ connect("fired", 0)
    /\ UNCHANGED procVars

OnOpen(s) ==
    /\ sock[s] = "connecting"
    /\ link[s] # "none"
    /\ sock' = [sock EXCEPT ![s] = "open"]
    /\ status' = "connected"
    /\ timer' = "null"
    /\ UNCHANGED <<procVars, serverVars, offer, current, manual, orphans>>

(* onclose, of any socket, clears ws.current.                               *)
OnClose(s) ==
    /\ \/ sock[s] = "closing" /\ link[s] # "open"
       \/ sock[s] = "open" /\ link[s] = "closed"
    /\ sock' = [sock EXCEPT ![s] = "none"]
    /\ offer' = [offer EXCEPT ![s] = None]
    /\ current' = None
    /\ status' = "disconnected"
    /\ IF manual THEN UNCHANGED <<timer, orphans>> ELSE Arm(timer, orphans)
    /\ UNCHANGED <<procVars, serverVars, manual>>

-----------------------------------------------------------------------------

ProcessNext(p) == \/ Listen(p) \/ Publish(p) \/ Stop(p) \/ CheckFile(p)
                  \/ Unlink(p) \/ Crash(p)

ServerNext(s) == \/ Accept(s) \/ Deny(s) \/ RejectSecondClient(s) \/ FindStaleClient(s)
                 \/ TakeSlot(s) \/ HandlerEnds(s) \/ PeerCloses(s) \/ Lose(s)

PanelNext == \/ ClickConnect \/ ClickStop \/ TimerFires
             \/ \E s \in Sockets : OnOpen(s) \/ OnClose(s)

Next == \/ \E p \in Processes : ProcessNext(p)
        \/ \E s \in Sockets : ServerNext(s)
        \/ PanelNext

Spec == Init /\ [][Next]_vars

(* Fairness.  Handshakes end, handlers run, close frames arrive, and the    *)
(* panel's events and timers are delivered.  Nothing obliges a process to   *)
(* start or to stop, the user to click, or a connection to be lost.         *)
Fairness ==
    /\ WF_vars(TimerFires)
    /\ \A s \in Sockets :
        /\ WF_vars(Accept(s) \/ Deny(s))
        /\ WF_vars(RejectSecondClient(s) \/ FindStaleClient(s) \/ TakeSlot(s))
        /\ WF_vars(HandlerEnds(s))
        /\ WF_vars(PeerCloses(s))
        /\ WF_vars(OnOpen(s))
        /\ WF_vars(OnClose(s))

FairSpec == Spec /\ Fairness

-----------------------------------------------------------------------------
(* Properties.                                                              *)

(* The panel never gives up behind the user's back: unless the user pressed *)
(* Stop, or it shows the error of an attempt that threw, a reconnect timer  *)
(* is pending or a socket is alive whose onclose will set one.              *)
NeverGivesUpSilently ==
    manual \/ status = "error" \/ timer = "pending" \/ orphans > 0 \/ Alive # {}

(* No reconnect storm: however sockets, timers and servers interleave, only *)
(* a click adds to the attempts under way; rejections, lost connections and *)
(* overlapping sockets never multiply them.                                 *)
NoStorm == [][~ClickConnect => Attempts' <= Attempts]_vars

(* The panel finds its way back: once some process serves for good under    *)
(* the session in the file, the user leaves the panel connected and         *)
(* connections are no longer lost, the panel has a connection that a server *)
(* reads, again and again if it keeps being displaced.  After an attempt    *)
(* that threw this takes a user who clicks until one opens a socket: with   *)
(* no timer left, nothing else may bring the panel back.                    *)
Findable == ~manual /\ \E p \in Processes : proc[p] = "serving" /\ file = p
Attached == \E s \in Sockets : sock[s] = "open" /\ link[s] = "open" /\ handler[s] = "reading"
UserRetries == WF_vars(status = "error" /\ ClickConnect)
Reattaches ==
    UserRetries /\ <>[]Findable /\ <>[][\A s \in Sockets : ~Lose(s)]_vars => []<>Attached

(* A claim of a comment that the code does not keep.                        *)

(* _handle_client rejects a client "if there is already an active           *)
(* connection": one process never reads from two live connections.          *)
OneClient ==
    \A s, t \in Sockets :
        /\ handler[s] = "reading" /\ link[s] = "open"
        /\ handler[t] = "reading" /\ link[t] = "open"
        /\ peer[s] = peer[t]
        => s = t
=============================================================================
