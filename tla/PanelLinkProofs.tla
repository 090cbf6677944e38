-------------------------- MODULE PanelLinkProofs --------------------------
(***************************************************************************)
(* PanelLink for every number of sockets, processes and ports: types, the  *)
(* panel never gives up silently, and only a click adds to its attempts.   *)
(***************************************************************************)
EXTENDS PanelLink, FiniteSetTheorems, TLAPS

USE NoneAssumption, SocketsAssumption

-----------------------------------------------------------------------------
(* Types.                                                                   *)

LEMMA ProcessTypes ==
    ASSUME TypeOK, NEW p \in Processes, ProcessNext(p)
    PROVE  TypeOK'
<1>1. CASE Listen(p)
  BY <1>1 DEF Listen, TypeOK, serverVars, panelVars
<1>2. CASE Publish(p)
  BY <1>2 DEF Publish, TypeOK, serverVars, panelVars
<1>3. CASE Stop(p)
  BY <1>3 DEF Stop, DropAll, TypeOK, panelVars
<1>4. CASE CheckFile(p)
  BY <1>4 DEF CheckFile, TypeOK, serverVars, panelVars
<1>5. CASE Unlink(p)
  BY <1>5 DEF Unlink, TypeOK, serverVars, panelVars
<1>6. CASE Crash(p)
  BY <1>6 DEF Crash, DropAll, TypeOK, panelVars
<1> QED
  BY <1>1, <1>2, <1>3, <1>4, <1>5, <1>6 DEF ProcessNext

LEMMA ServerTypes ==
    ASSUME TypeOK, NEW s \in Sockets, ServerNext(s)
    PROVE  TypeOK'
<1>1. CASE Accept(s)
  BY <1>1 DEF Accept, TypeOK, procVars, panelVars
<1>2. CASE Deny(s)
  BY <1>2 DEF Deny, TypeOK, procVars, serverVars
<1>3. CASE RejectSecondClient(s)
  BY <1>3 DEF RejectSecondClient, TypeOK, procVars, panelVars
<1>4. CASE FindStaleClient(s)
  BY <1>4 DEF FindStaleClient, TypeOK, procVars, panelVars
<1>5. CASE TakeSlot(s)
  BY <1>5 DEF TakeSlot, TypeOK, panelVars
<1>6. CASE HandlerEnds(s)
  BY <1>6 DEF HandlerEnds, TypeOK, panelVars
<1>7. CASE PeerCloses(s)
  BY <1>7 DEF PeerCloses, TypeOK, procVars, panelVars
<1>8. CASE Lose(s)
  BY <1>8 DEF Lose, TypeOK, procVars, panelVars
<1> QED
  BY <1>1, <1>2, <1>3, <1>4, <1>5, <1>6, <1>7, <1>8 DEF ServerNext

LEMMA ConnectTypes ==
    ASSUME TypeOK, NEW t \in {"null", "pending", "fired"}, NEW o \in Nat,
           connect(t, o), UNCHANGED procVars
    PROVE  TypeOK'
<1>1. CASE CurrentOpen
  BY <1>1 DEF connect, TypeOK, procVars, serverVars
<1>2. CASE ~CurrentOpen /\ file = None
  <2>1. timer' = "pending" /\ orphans' \in Nat
    BY <1>2 DEF connect, FindNoSession, Arm
  <2>2. /\ UNCHANGED <<procVars, serverVars, sock, offer, current>>
        /\ manual' = FALSE /\ status' = "disconnected"
    BY <1>2 DEF connect, FindNoSession
  <2> QED
    BY <2>1, <2>2 DEF TypeOK, procVars, serverVars
<1>3. ASSUME ~CurrentOpen, NEW s \in Sockets, Open(s, t, o)
      PROVE  TypeOK'
  BY <1>3 DEF connect, Open, TypeOK, procVars
<1>4. CASE ~CurrentOpen /\ OpenThrows(t, o)
  BY <1>4 DEF connect, OpenThrows, TypeOK, procVars, serverVars
<1> QED
  BY <1>1, <1>2, <1>3, <1>4 DEF connect

LEMMA PanelTypes ==
    ASSUME TypeOK, PanelNext
    PROVE  TypeOK'
<1>1. CASE ClickConnect
  BY <1>1, ConnectTypes DEF ClickConnect, TypeOK
<1>2. CASE ClickStop
  BY <1>2 DEF ClickStop, TypeOK, procVars, serverVars
<1>3. CASE TimerFires
  BY <1>3, ConnectTypes DEF TimerFires, TypeOK
<1>4. ASSUME NEW s \in Sockets, OnOpen(s)
      PROVE  TypeOK'
  BY <1>4 DEF OnOpen, TypeOK, procVars, serverVars
<1>5. ASSUME NEW s \in Sockets, OnClose(s)
      PROVE  TypeOK'
  BY <1>5 DEF OnClose, Arm, TypeOK, procVars, serverVars
<1> QED
  BY <1>1, <1>2, <1>3, <1>4, <1>5 DEF PanelNext

(* Every variable keeps its type.                                           *)
THEOREM TypeCorrect == Spec => []TypeOK
<1>1. Init => TypeOK
  <2> SUFFICES ASSUME Init PROVE TypeOK
    OBVIOUS
  <2>1. /\ proc \in [Processes -> {"off", "listening", "serving", "failed",
                                   "stopping", "unlinking", "gone"}]
        /\ port \in [Processes -> Ports]
        /\ slot \in [Processes -> Sockets \cup {None}]
    BY DEF Init
  <2>2. /\ peer \in [Sockets -> Processes \cup {None}]
        /\ link \in [Sockets -> {"none", "open", "closed"}]
        /\ handler \in [Sockets -> {"none", "start", "stale", "reading"}]
        /\ sock \in [Sockets -> {"none", "connecting", "open", "closing"}]
        /\ offer \in [Sockets -> Processes \cup {None}]
    BY DEF Init
  <2> QED
    BY <2>1, <2>2 DEF Init, TypeOK
<1>2. TypeOK /\ [Next]_vars => TypeOK'
  <2> SUFFICES ASSUME TypeOK, [Next]_vars PROVE TypeOK'
    OBVIOUS
  <2>1. CASE UNCHANGED vars
    BY <2>1 DEF TypeOK, vars, procVars, serverVars, panelVars
  <2> QED
    BY <2>1, ProcessTypes, ServerTypes, PanelTypes DEF Next
<1> QED
  BY <1>1, <1>2, PTL DEF Spec

-----------------------------------------------------------------------------
(* The panel never gives up silently.                                       *)

LEMMA ConnectTries ==
    ASSUME TypeOK, NEW t \in {"null", "pending", "fired"}, NEW o \in Nat,
           connect(t, o)
    PROVE  NeverGivesUpSilently'
<1>1. CASE CurrentOpen
  BY <1>1 DEF connect, CurrentOpen, NeverGivesUpSilently, Alive, TypeOK
<1>2. CASE ~CurrentOpen /\ file = None
  BY <1>2 DEF connect, FindNoSession, Arm, NeverGivesUpSilently
<1>3. ASSUME NEW s \in Sockets, Open(s, t, o)
      PROVE  NeverGivesUpSilently'
  <2>1. s \in Alive'
    BY <1>3 DEF Open, Alive, TypeOK
  <2> QED
    BY <2>1 DEF NeverGivesUpSilently
<1>4. CASE OpenThrows(t, o)
  BY <1>4 DEF OpenThrows, NeverGivesUpSilently
<1> QED
  BY <1>1, <1>2, <1>3, <1>4 DEF connect

LEMMA TriesKeeps ==
    ASSUME TypeOK, NeverGivesUpSilently, [Next]_vars
    PROVE  NeverGivesUpSilently'
<1>1. CASE UNCHANGED <<sock, manual, timer, orphans, status>>
  BY <1>1 DEF NeverGivesUpSilently, Alive
<1>2. ASSUME NEW s \in Sockets, Deny(s)
      PROVE  NeverGivesUpSilently'
  <2>1. s \in Alive'
    BY <1>2 DEF Deny, Alive, TypeOK
  <2> QED
    BY <2>1 DEF NeverGivesUpSilently
<1>3. CASE ClickConnect
  BY <1>3, ConnectTries DEF ClickConnect, TypeOK
<1>4. CASE TimerFires
  BY <1>4, ConnectTries DEF TimerFires, TypeOK
<1>5. CASE ClickStop
  BY <1>5 DEF ClickStop, NeverGivesUpSilently
<1>6. ASSUME NEW s \in Sockets, OnOpen(s)
      PROVE  NeverGivesUpSilently'
  <2>1. s \in Alive'
    BY <1>6 DEF OnOpen, Alive, TypeOK
  <2> QED
    BY <2>1 DEF NeverGivesUpSilently
<1>7. ASSUME NEW s \in Sockets, OnClose(s)
      PROVE  NeverGivesUpSilently'
  BY <1>7 DEF OnClose, Arm, NeverGivesUpSilently
<1>8. ASSUME NEW p \in Processes, ProcessNext(p)
      PROVE  UNCHANGED <<sock, manual, timer, orphans, status>>
  BY <1>8 DEF ProcessNext, Listen, Publish, Stop, CheckFile, Unlink, Crash, panelVars
<1>9. ASSUME NEW s \in Sockets, ServerNext(s), ~Deny(s)
      PROVE  UNCHANGED <<sock, manual, timer, orphans, status>>
  BY <1>9 DEF ServerNext, Accept, RejectSecondClient, FindStaleClient, TakeSlot,
              HandlerEnds, PeerCloses, Lose, panelVars
<1>10. CASE UNCHANGED vars
  BY <1>1, <1>10 DEF vars, panelVars
<1> QED
  BY <1>1, <1>2, <1>3, <1>4, <1>5, <1>6, <1>7, <1>8, <1>9, <1>10 DEF Next, PanelNext

(* Until the user presses Stop, or sees an error, there is always a timer   *)
(* or a socket that leads to another attempt, however many servers come and *)
(* go.                                                                      *)
THEOREM KeepsTrying == Spec => []NeverGivesUpSilently
<1>1. Init => NeverGivesUpSilently
  BY DEF Init, NeverGivesUpSilently
<1> QED
  BY <1>1, TypeCorrect, TriesKeeps, PTL DEF Spec

-----------------------------------------------------------------------------
(* No reconnect storm.                                                      *)

(* ws.current is cleared before its socket is gone.                         *)
CurrentAlive == current # None => current \in Alive

Pending(t) == IF t = "pending" THEN 1 ELSE 0

LEMMA AliveFinite ==
    ASSUME TypeOK
    PROVE  IsFiniteSet(Alive) /\ Cardinality(Alive) \in Nat
<1>1. Alive \in SUBSET Sockets
  BY DEF Alive
<1> QED
  BY <1>1, FS_Subset, FS_CardinalityType

LEMMA CurrentAliveKeeps ==
    ASSUME TypeOK, CurrentAlive, [Next]_vars
    PROVE  CurrentAlive'
<1>1. CASE UNCHANGED <<sock, current>>
  BY <1>1 DEF CurrentAlive, Alive
<1>2. ASSUME NEW s \in Sockets, Deny(s)
      PROVE  CurrentAlive'
  BY <1>2 DEF Deny, CurrentAlive, Alive, TypeOK
<1>3. ASSUME NEW t, NEW o, connect(t, o)
      PROVE  CurrentAlive'
  <2>1. CASE UNCHANGED <<sock, current>>
    BY <1>1, <2>1
  <2>2. ASSUME NEW s \in Sockets, Open(s, t, o)
        PROVE  CurrentAlive'
    BY <2>2 DEF Open, CurrentAlive, Alive, TypeOK
  <2> QED
    BY <1>3, <2>1, <2>2 DEF connect, FindNoSession, OpenThrows
<1>4. CASE ClickConnect \/ TimerFires
  BY <1>3, <1>4 DEF ClickConnect, TimerFires
<1>5. CASE ClickStop
  BY <1>5 DEF ClickStop, CurrentAlive
<1>6. ASSUME NEW s \in Sockets, OnOpen(s)
      PROVE  CurrentAlive'
  BY <1>6 DEF OnOpen, CurrentAlive, Alive, TypeOK
<1>7. ASSUME NEW s \in Sockets, OnClose(s)
      PROVE  CurrentAlive'
  BY <1>7 DEF OnClose, CurrentAlive
<1>8. ASSUME NEW p \in Processes, ProcessNext(p)
      PROVE  UNCHANGED <<sock, current>>
  BY <1>8 DEF ProcessNext, Listen, Publish, Stop, CheckFile, Unlink, Crash, panelVars
<1>9. ASSUME NEW s \in Sockets, ServerNext(s), ~Deny(s)
      PROVE  UNCHANGED <<sock, current>>
  BY <1>9 DEF ServerNext, Accept, RejectSecondClient, FindStaleClient, TakeSlot,
              HandlerEnds, PeerCloses, Lose, panelVars
<1>10. CASE UNCHANGED vars
  BY <1>1, <1>10 DEF vars, panelVars
<1> QED
  BY <1>1, <1>2, <1>4, <1>5, <1>6, <1>7, <1>8, <1>9, <1>10 DEF Next, PanelNext

(* connect replaces the timer that called it by at most one attempt.        *)
LEMMA ConnectAdds ==
    ASSUME TypeOK, NEW t \in {"null", "pending", "fired"}, NEW o \in Nat,
           connect(t, o)
    PROVE  Attempts' <= o + Pending(t) + Cardinality(Alive) + 1
<1>0. Cardinality(Alive) \in Nat
  BY AliveFinite
<1>1. CASE CurrentOpen
  <2>1. Alive' = Alive
    BY <1>1 DEF connect, Alive
  <2> QED
    BY <1>0, <1>1, <2>1 DEF connect, Attempts, Pending
<1>2. CASE ~CurrentOpen /\ file = None
  <2>1. Alive' = Alive /\ timer' = "pending" /\ orphans' = o + Pending(t)
    BY <1>2 DEF connect, FindNoSession, Arm, Alive, Pending
  <2> QED
    BY <1>0, <2>1 DEF Attempts, Pending
<1>3. ASSUME NEW s \in Sockets, Open(s, t, o)
      PROVE  Attempts' <= o + Pending(t) + Cardinality(Alive) + 1
  <2>1. s \notin Alive /\ Alive' = Alive \cup {s}
    BY <1>3 DEF Open, Alive, TypeOK
  <2>2. Cardinality(Alive') = Cardinality(Alive) + 1
    BY <2>1, AliveFinite, FS_AddElement
  <2> QED
    BY <1>0, <1>3, <2>2 DEF Open, Attempts, Pending
<1>4. CASE OpenThrows(t, o)
  <2>1. Alive' = Alive
    BY <1>4 DEF OpenThrows, Alive
  <2> QED
    BY <1>0, <1>4, <2>1 DEF OpenThrows, Attempts, Pending
<1> QED
  BY <1>1, <1>2, <1>3, <1>4 DEF connect

LEMMA NoStormStep ==
    ASSUME TypeOK, CurrentAlive, [Next]_vars, ~ClickConnect
    PROVE  Attempts' <= Attempts
<1>0. Cardinality(Alive) \in Nat /\ orphans \in Nat
  BY AliveFinite DEF TypeOK
<1>1. CASE UNCHANGED <<sock, timer, orphans>>
  <2>1. Alive' = Alive
    BY <1>1 DEF Alive
  <2> QED
    BY <1>0, <1>1, <2>1 DEF Attempts
<1>2. ASSUME NEW s \in Sockets, Deny(s)
      PROVE  Attempts' <= Attempts
  <2>1. Alive' = Alive
    BY <1>2 DEF Deny, Alive, TypeOK
  <2> QED
    BY <1>0, <1>2, <2>1 DEF Deny, Attempts
<1>3. CASE TimerFires
  <2>1. CASE orphans > 0 /\ connect(timer, orphans - 1)
    <3>1. orphans - 1 \in Nat /\ timer \in {"null", "pending", "fired"}
      BY <2>1, <1>0 DEF TypeOK
    <3>2. Attempts' <= (orphans - 1) + Pending(timer) + Cardinality(Alive) + 1
      BY <2>1, <3>1, ConnectAdds
    <3> QED
      BY <1>0, <3>2 DEF Attempts, Pending
  <2>2. CASE orphans = 0 /\ timer = "pending" /\ connect("fired", 0)
    <3>1. Attempts' <= 0 + Pending("fired") + Cardinality(Alive) + 1
      BY <2>2, ConnectAdds
    <3> QED
      BY <1>0, <2>2, <3>1 DEF Attempts, Pending
  <2> QED
    BY <1>3, <2>1, <2>2 DEF TimerFires
<1>4. CASE ClickStop
  <2>1. Alive' = Alive
    BY <1>4 DEF ClickStop, CurrentAlive, Alive, TypeOK
  <2> QED
    BY <1>0, <1>4, <2>1 DEF ClickStop, Attempts
<1>5. ASSUME NEW s \in Sockets, OnOpen(s)
      PROVE  Attempts' <= Attempts
  <2>1. Alive' = Alive
    BY <1>5 DEF OnOpen, Alive, TypeOK
  <2> QED
    BY <1>0, <1>5, <2>1 DEF OnOpen, Attempts
<1>6. ASSUME NEW s \in Sockets, OnClose(s)
      PROVE  Attempts' <= Attempts
  <2>1. s \in Alive /\ Alive' = Alive \ {s}
    BY <1>6 DEF OnClose, Alive, TypeOK
  <2>2. Cardinality(Alive') = Cardinality(Alive) - 1
    BY <2>1, AliveFinite, FS_RemoveElement
  <2> QED
    BY <1>0, <1>6, <2>2 DEF OnClose, Arm, Attempts
<1>8. ASSUME NEW p \in Processes, ProcessNext(p)
      PROVE  UNCHANGED <<sock, timer, orphans>>
  BY <1>8 DEF ProcessNext, Listen, Publish, Stop, CheckFile, Unlink, Crash, panelVars
<1>9. ASSUME NEW s \in Sockets, ServerNext(s), ~Deny(s)
      PROVE  UNCHANGED <<sock, timer, orphans>>
  BY <1>9 DEF ServerNext, Accept, RejectSecondClient, FindStaleClient, TakeSlot,
              HandlerEnds, PeerCloses, Lose, panelVars
<1>10. CASE UNCHANGED vars
  BY <1>1, <1>10 DEF vars, panelVars
<1> QED
  BY <1>1, <1>2, <1>3, <1>4, <1>5, <1>6, <1>8, <1>9, <1>10 DEF Next, PanelNext

(* Only the user's clicks start further attempts: neither rejections, lost  *)
(* connections, restarts nor overlapping sockets multiply them.             *)
THEOREM NoStormEver == Spec => NoStorm
<1>1. Init => CurrentAlive
  BY DEF Init, CurrentAlive
<1>2. TypeOK /\ CurrentAlive /\ [Next]_vars => [~ClickConnect => Attempts' <= Attempts]_vars
  BY NoStormStep
<1> QED
  BY <1>1, <1>2, TypeCorrect, CurrentAliveKeeps, PTL DEF Spec, NoStorm
=============================================================================
