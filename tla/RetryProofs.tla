---------------------------- MODULE RetryProofs ----------------------------
(***************************************************************************)
(* IInv is an inductive invariant of Bridge; with it, what the bridge says *)
(* about a script is true, in the answer to its caller as in the history,  *)
(* and Bridge implements ScriptCall.                                       *)
(***************************************************************************)
EXTENDS BridgeInvariant, BridgeProofs

(***************************************************************************)
(* What a step must keep for every statement about a script to stay true.  *)
(***************************************************************************)
NotQueuedNext(c) == \A s \in Sockets : \A k \in DOMAIN toPanel'[s] : toPanel'[s][k].script # c

Persists ==
    \A c \in Calls :
        /\ script[c] = "fresh" /\ NotQueued(c) => script'[c] = "fresh" /\ NotQueuedNext(c)
        /\ script[c] = "finished" => script'[c] = "finished"

(* Evidenced in the next state, of a call and a statement that may be new.   *)
EvidencedNext(c, st) ==
    /\ st = "completed" => script'[c] = "finished"
    /\ st = "not_started" => script'[c] = "fresh" /\ NotQueuedNext(c)

LEMMA EvidencePersists ==
    ASSUME Persists, NEW c \in Calls, NEW st, Evidenced(c, st)
    PROVE  EvidencedNext(c, st)
BY DEF Persists, Evidenced, EvidencedNext

(* The three parts of IInv that are made of such statements.                *)
LEMMA NextCompletions ==
    CompletionsTrue' <=>
        \A s \in Sockets : \A k \in DOMAIN toServer'[s] :
            toServer'[s][k].type = "complete" =>
                /\ toServer'[s][k].id # 0
                /\ id'[toServer'[s][k].script] = toServer'[s][k].id
                /\ EvidencedNext(toServer'[s][k].script, toServer'[s][k].state)
<1>1. ASSUME NEW s, NEW k
      PROVE  Evidenced(toServer[s][k].script, toServer[s][k].state)'
                <=> EvidencedNext(toServer'[s][k].script, toServer'[s][k].state)
  BY DEF Evidenced, EvidencedNext, NotQueued, NotQueuedNext
<1> QED
  BY <1>1 DEF CompletionsTrue

LEMMA NextEvidence ==
    EvidenceIsTrue' <=>
        \A c \in Calls, k \in DOMAIN execution' : execution'[k].id = id'[c] =>
            EvidencedNext(c, execution'[k].state)
BY DEF EvidenceIsTrue, EvidencedNext, NotQueued, NotQueuedNext

LEMMA NextAnswers == AnswersTrue' <=> \A c \in Calls : EvidencedNext(c, answer'[c])
BY DEF AnswersTrue, Evidenced, EvidencedNext, NotQueued, NotQueuedNext

LEMMA NowEvidence ==
    EvidenceIsTrue <=>
        \A c \in Calls, k \in DOMAIN execution : execution[k].id = id[c] =>
            Evidenced(c, execution[k].state)
BY DEF EvidenceIsTrue, Evidenced

(***************************************************************************)
(* The story: ids, answers and history.  A step may answer calls, settle   *)
(* results and add truthful records.                                       *)
(***************************************************************************)
Story ==
    /\ UNCHANGED <<id, requestId>>
    /\ \A c \in Calls : /\ pc'[c] = "idle" => pc[c] = "idle" /\ answer'[c] = answer[c]
                        /\ pc'[c] \in InFlight => pc[c] \in InFlight
    /\ \A c \in Calls : answer'[c] = answer[c] \/ Evidenced(c, answer'[c])
    /\ \A c \in Calls : result'[c] \in {result[c], None, c}
    /\ \A k \in DOMAIN execution' :
          \/ \E j \in DOMAIN execution : execution'[k] = execution[j]
          \/ /\ execution'[k].id \in 1..requestId
             /\ \A c \in Calls : id[c] = execution'[k].id => Evidenced(c, execution'[k].state)

LEMMA StoryPersists ==
    ASSUME IInv, Persists, Story
    PROVE  IdsUnique' /\ IdleUntouched' /\ EvidenceIsTrue' /\ AnswersTrue' /\ RightResult'
<1>1. IdsUnique'
  <2>1. \A k \in DOMAIN execution' : execution'[k].id \in 1..requestId
    <3>1. \A j \in DOMAIN execution : execution[j].id \in 1..requestId
      BY DEF IInv, IdsUnique
    <3> QED
      BY <3>1 DEF Story
  <2> QED
    BY <2>1 DEF IInv, IdsUnique, Story
<1>2. IdleUntouched'
  BY DEF IInv, IdleUntouched, Persists, NotQueued, NotQueuedNext, Story
<1>3. EvidenceIsTrue'
  <2>1. \A c \in Calls, k \in DOMAIN execution : execution[k].id = id[c]
           => EvidencedNext(c, execution[k].state)
    BY EvidencePersists, NowEvidence DEF IInv
  <2>2. ASSUME NEW c \in Calls, NEW k \in DOMAIN execution', execution'[k].id = id'[c]
        PROVE  EvidencedNext(c, execution'[k].state)
    BY <2>1, <2>2, EvidencePersists DEF Story
  <2> QED
    BY <2>2, NextEvidence
<1>4. AnswersTrue'
  <2>1. \A c \in Calls : Evidenced(c, answer'[c])
    BY DEF IInv, AnswersTrue, Story
  <2> QED
    BY <2>1, EvidencePersists, NextAnswers
<1>5. RightResult'
  BY DEF IInv, RightResult, Story
<1> QED
  BY <1>1, <1>2, <1>3, <1>4, <1>5

(***************************************************************************)
(* Custody of the scripts: a step that at most closes connections and      *)
(* takes messages off the channels to the server.                          *)
(***************************************************************************)
Custody ==
    /\ UNCHANGED <<id, active, toPanel, script, readyState>>
    /\ \A s \in Sockets : /\ Live(s)' => Live(s)
                          /\ link'[s] = "open" \/ toServer'[s] # <<>> => Live(s)'
                          /\ readyState[s] = "none" => handler'[s] = "none"
    /\ \A s \in Sockets : \A k \in DOMAIN toServer'[s] :
          \E l \in DOMAIN toServer[s] : toServer'[s][k] = toServer[s][l]

LEMMA CustodyPersists ==
    ASSUME IInv, Custody
    PROVE  SocketLife' /\ QueuedOnce' /\ ActiveRuns' /\ CompletionsTrue' /\ Persists
<1>1. Persists
  BY DEF Custody, Persists, NotQueued, NotQueuedNext
<1>2. SocketLife'
  BY DEF IInv, SocketLife, Custody
<1>3. QueuedOnce'
  BY DEF IInv, QueuedOnce, Custody
<1>4. ActiveRuns'
  BY DEF IInv, ActiveRuns, TypeOK, Custody
<1>5. CompletionsTrue'
  <2> SUFFICES ASSUME NEW s \in Sockets, NEW k \in DOMAIN toServer'[s],
                      toServer'[s][k].type = "complete"
               PROVE  /\ toServer'[s][k].id # 0
                      /\ id'[toServer'[s][k].script] = toServer'[s][k].id
                      /\ EvidencedNext(toServer'[s][k].script, toServer'[s][k].state)
    BY NextCompletions
  <2>1. PICK l \in DOMAIN toServer[s] : toServer'[s][k] = toServer[s][l]
    BY DEF Custody
  <2>2. toServer[s][l] \in Heartbeat \cup Completion
    BY DEF IInv, TypeOK
  <2>3. toServer[s][l].script \in Calls
    BY <2>1, <2>2 DEF Heartbeat, Completion
  <2> QED
    BY <1>1, <2>1, <2>3, EvidencePersists DEF IInv, CompletionsTrue, Custody
<1> QED
  BY <1>1, <1>2, <1>3, <1>4, <1>5

LEMMA CustodyAndStory ==
    ASSUME IInv, TypeOK', Custody, Story
    PROVE  IInv'
BY CustodyPersists, StoryPersists DEF IInv

(* Connections and messages left alone.                                     *)
LEMMA SameCustody ==
    ASSUME IInv, UNCHANGED <<id, active, toPanel, script, readyState, link, handler, toServer>>
    PROVE  Custody
BY DEF IInv, SocketLife, Custody, Live

(***************************************************************************)
(* The calls.                                                              *)
(***************************************************************************)

(* What a caller is told from a truthful history is true.                   *)
LEMMA ToldTrue ==
    ASSUME NEW h \in Seq(Evidence), NEW c \in Calls,
           \A k \in DOMAIN h : h[k].id = id[c] => Evidenced(c, h[k].state)
    PROVE  Evidenced(c, Told(h, id[c]))
<1>1. CASE Status(h, id[c]) = "none"
  BY <1>1 DEF Told, Evidenced
<1>2. CASE Status(h, id[c]) # "none"
  <2>1. PICK k \in DOMAIN h : h[k].id = id[c] /\ h[k].state = Status(h, id[c])
    BY <1>2, StatusRecorded
  <2> QED
    BY <1>2, <2>1 DEF Told
<1> QED
  BY <1>1, <1>2

(* Answering one call truthfully.                                           *)
LEMMA ReturnStory ==
    ASSUME IInv, NEW c \in Calls, NEW st, Evidenced(c, st), Return(c, st),
           UNCHANGED <<id, requestId>>,
           \A k \in DOMAIN execution' :
              \/ \E j \in DOMAIN execution : execution'[k] = execution[j]
              \/ execution'[k].id = id[c] /\ id[c] # 0 /\ execution'[k].state = "unknown"
    PROVE  Story
<1>1. /\ pc' = [pc EXCEPT ![c] = "done"] /\ pc \in [Calls -> {"idle", "done", "lost"} \cup InFlight]
      /\ answer' = [answer EXCEPT ![c] = st] /\ answer \in [Calls -> States \cup {"none"}]
      /\ result' = [result EXCEPT ![c] = None] /\ result \in [Calls -> Calls \cup {None}]
  BY DEF Return, IInv, TypeOK
<1>2. \A d \in Calls : /\ pc'[d] = "idle" => pc[d] = "idle" /\ answer'[d] = answer[d]
                       /\ pc'[d] \in InFlight => pc[d] \in InFlight
  BY <1>1 DEF InFlight
<1>3. \A d \in Calls : answer'[d] = answer[d] \/ Evidenced(d, answer'[d])
  BY <1>1
<1>4. \A d \in Calls : result'[d] \in {result[d], None, d}
  BY <1>1
<1>5. \A d \in Calls : Evidenced(d, "unknown")
  BY DEF Evidenced
<1>6. id[c] # 0 => id[c] \in 1..requestId
  BY DEF IInv, IdsUnique, TypeOK
<1> QED
  BY <1>2, <1>3, <1>4, <1>5, <1>6 DEF Story

LEMMA ReturnFailureKeeps ==
    ASSUME IInv, NEW c \in Calls, pc[c] \in InFlight, ReturnFailure(c)
    PROVE  IInv'
<1>1. TypeOK /\ TypeOK'
  BY ReturnFailureType DEF IInv
<1>2. id[c] \in Nat /\ id[c] # 0 /\ "unknown" \in States
  BY DEF IInv, IdsUnique, TypeOK, States
<1>3. execution' = Remember(id[c], "unknown") /\ Return(c, Told(execution', id[c]))
  BY DEF ReturnFailure
<1>4. /\ execution' \in Seq(Evidence)
      /\ \A k \in DOMAIN execution' :
            \/ execution'[k] = [id |-> id[c], state |-> "unknown"]
            \/ \E j \in DOMAIN execution : execution'[k] = execution[j]
  BY <1>1, <1>2, <1>3, RememberContent
<1>5. \A k \in DOMAIN execution' : execution'[k].id = id[c] => Evidenced(c, execution'[k].state)
  <2>1. Evidenced(c, "unknown")
    BY DEF Evidenced
  <2> QED
    BY <1>4, <2>1, NowEvidence DEF IInv
<1>6. Evidenced(c, Told(execution', id[c]))
  BY <1>4, <1>5, ToldTrue
<1>7. \A k \in DOMAIN execution' :
         \/ \E j \in DOMAIN execution : execution'[k] = execution[j]
         \/ execution'[k].id = id[c] /\ id[c] # 0 /\ execution'[k].state = "unknown"
  BY <1>2, <1>4
<1>8. UNCHANGED <<id, requestId>>
  BY DEF ReturnFailure
<1>9. Story
  BY <1>3, <1>6, <1>7, <1>8, ReturnStory
<1>10. Custody
  BY SameCustody DEF ReturnFailure, panelVars, netVars
<1> QED
  BY <1>1, <1>9, <1>10, CustodyAndStory

LEMMA CallKeeps ==
    ASSUME IInv, TypeOK', NEW c \in Calls, CallNext(c), ~Submit(c)
    PROVE  IInv'
<1>1. CASE SendFails(c) \/ ResumeCancelled(c) \/ TimesOut(c)
  BY <1>1, ReturnFailureKeeps DEF SendFails, ResumeCancelled, TimesOut, InFlight
<1>2. CASE Resume(c)
  <2>1. Return(c, Told(execution, id[c]))
    BY <1>2 DEF Resume
  <2>2. execution \in Seq(Evidence)
    BY DEF IInv, TypeOK
  <2>3. Evidenced(c, Told(execution, id[c]))
    BY <2>2, ToldTrue, NowEvidence DEF IInv
  <2>4. Story
    BY <1>2, <2>1, <2>3, ReturnStory DEF Resume, serverVars
  <2>5. Custody
    BY <1>2, SameCustody DEF Resume, serverVars, panelVars, netVars
  <2> QED
    BY <2>4, <2>5, CustodyAndStory
<1>3. CASE Refuse(c)
  <2>1. Evidenced(c, "not_started")
    BY <1>3 DEF Refuse, Evidenced, IInv, IdleUntouched
  <2>2. /\ pc' = [pc EXCEPT ![c] = "done"] /\ pc \in [Calls -> {"idle", "done", "lost"} \cup InFlight]
        /\ answer' = [answer EXCEPT ![c] = "not_started"]
        /\ answer \in [Calls -> States \cup {"none"}]
    BY <1>3 DEF Refuse, IInv, TypeOK
  <2>3. \A d \in Calls : /\ pc'[d] = "idle" => pc[d] = "idle" /\ answer'[d] = answer[d]
                         /\ pc'[d] \in InFlight => pc[d] \in InFlight
                         /\ answer'[d] = answer[d] \/ Evidenced(d, answer'[d])
    BY <2>1, <2>2 DEF InFlight
  <2>4. Story
    BY <1>3, <2>3 DEF Refuse, Story, serverVars
  <2>5. Custody
    BY <1>3, SameCustody DEF Refuse, serverVars, panelVars, netVars
  <2> QED
    BY <2>4, <2>5, CustodyAndStory
<1>4. CASE Sent(c) \/ TimerFires(c)
  <2>1. \A d \in Calls : /\ pc'[d] = "idle" => pc[d] = "idle"
                         /\ pc'[d] \in InFlight => pc[d] \in InFlight
    <3>1. pc \in [Calls -> {"idle", "done", "lost"} \cup InFlight]
      BY DEF IInv, TypeOK
    <3>2. pc[c] \in InFlight /\ \E p \in InFlight : pc' = [pc EXCEPT ![c] = p]
      BY <1>4 DEF Sent, TimerFires, InFlight
    <3> QED
      BY <3>1, <3>2 DEF InFlight
  <2>2. Story
    BY <1>4, <2>1 DEF Sent, TimerFires, Story, serverVars
  <2>3. Custody
    BY <1>4, SameCustody DEF Sent, TimerFires, serverVars, panelVars, netVars
  <2> QED
    BY <2>2, <2>3, CustodyAndStory
<1> QED
  BY <1>1, <1>2, <1>3, <1>4 DEF CallNext

(* A new request: a fresh id, a fresh script, one copy of it.               *)
LEMMA SubmitKeeps ==
    ASSUME IInv, TypeOK', NEW c \in Calls, Submit(c)
    PROVE  IInv'
<1> DEFINE i == requestId + 1
<1>1. /\ pc[c] = "idle" /\ id[c] = 0 /\ script[c] = "fresh" /\ NotQueued(c) /\ answer[c] = "none"
  BY DEF Submit, IInv, IdleUntouched
<1>2. /\ slot \in Sockets /\ requestId \in Nat /\ id \in [Calls -> Nat] /\ requestId' = i
      /\ id' = [id EXCEPT ![c] = i]
      /\ pc' = [pc EXCEPT ![c] = "sending"]
      /\ pc \in [Calls -> {"idle", "done", "lost"} \cup InFlight]
      /\ UNCHANGED <<link, handler, answer, result, readyState, active, toServer, script>>
  BY DEF Submit, Connected, IInv, TypeOK, panelVars
<1>3. \A d \in Calls : /\ d = c => id'[d] = i
                       /\ d # c => id'[d] = id[d] /\ id[d] <= requestId
  BY <1>2 DEF IInv, IdsUnique
<1>4. \A s \in Sockets : toPanel'[s] = toPanel[s] \/
         /\ s = slot /\ readyState[s] = "open"
         /\ toPanel'[s] = Append(toPanel[s], [id |-> i, script |-> c])
  BY <1>2 DEF Submit, IInv, TypeOK
<1>5. \A s \in Sockets : \A k \in DOMAIN toPanel'[s] :
         \/ k \in DOMAIN toPanel[s] /\ toPanel'[s][k] = toPanel[s][k]
         \/ /\ s = slot /\ k = Len(toPanel[s]) + 1
            /\ toPanel'[s][k] = [id |-> i, script |-> c]
  <2>1. \A s \in Sockets : toPanel[s] \in Seq(Request)
    BY DEF IInv, TypeOK
  <2> QED
    BY <1>4, <2>1
<1> HIDE DEF i
<1>6. \A d \in Calls : d # c /\ NotQueued(d) => NotQueuedNext(d)
  BY <1>5 DEF NotQueued, NotQueuedNext
<1>7. SocketLife'
  <2>1. \A s \in Sockets : readyState[s] = "none" => handler[s] = "none" /\ toPanel'[s] = <<>>
    BY <1>4 DEF IInv, SocketLife
  <2>2. \A s \in Sockets : Live(s)' <=> Live(s)
    BY <1>2 DEF Live
  <2> QED
    BY <1>2, <2>1, <2>2 DEF IInv, SocketLife
<1>8. IdsUnique'
  <2>1. \A k \in DOMAIN execution' : execution'[k].id \in 1..requestId'
    <3>1. execution' = Remember(i, "unknown") /\ i \in 1..requestId' /\ i \in Nat
      BY <1>2 DEF Submit, i
    <3>2. \A k \in DOMAIN execution' : \/ execution'[k] = [id |-> i, state |-> "unknown"]
                                       \/ \E j \in DOMAIN execution : execution'[k] = execution[j]
      BY <3>1, RememberContent DEF IInv, States
    <3>3. \A j \in DOMAIN execution : execution[j].id \in 1..requestId'
      BY <1>2 DEF IInv, IdsUnique, i
    <3> QED
      BY <3>1, <3>2, <3>3
  <2>2. \A d \in Calls : id'[d] <= requestId'
    BY <1>2, <1>3 DEF i
  <2>3. \A d, e \in Calls : id'[d] = id'[e] /\ id'[d] # 0 => d = e
    BY <1>2, <1>3 DEF i, IInv, IdsUnique
  <2>4. \A d \in Calls : pc'[d] \in InFlight => id'[d] # 0
    BY <1>2, <1>3 DEF i, IInv, IdsUnique
  <2> QED
    BY <2>1, <2>2, <2>3, <2>4 DEF IdsUnique
<1>9. IdleUntouched'
  <2>1. \A d \in Calls : pc'[d] = "idle" => d # c /\ pc[d] = "idle"
    BY <1>2
  <2> QED
    BY <1>2, <1>3, <1>6, <2>1 DEF IInv, IdleUntouched, NotQueued, NotQueuedNext
<1>10. QueuedOnce'
  <2>1. \A s \in Sockets : \A k \in DOMAIN toPanel[s] : toPanel[s][k].script \in Calls \ {c}
    <3>1. \A s \in Sockets : toPanel[s] \in Seq(Request)
      BY DEF IInv, TypeOK
    <3>2. \A s \in Sockets : \A k \in DOMAIN toPanel[s] : toPanel[s][k] \in Request
      BY <3>1
    <3> QED
      BY <1>1, <3>2 DEF NotQueued, Request
  <2>2. i # 0
    BY <1>2 DEF i
  <2>3. \A s \in Sockets : Live(s)' <=> Live(s)
    BY <1>2 DEF Live
  <2>4. ASSUME NEW s \in Sockets, NEW k \in DOMAIN toPanel'[s]
        PROVE  /\ script'[toPanel'[s][k].script] = "fresh"
               /\ toPanel'[s][k].id # 0
               /\ Live(s)' => id'[toPanel'[s][k].script] = toPanel'[s][k].id
    BY <1>1, <1>2, <1>3, <1>5, <2>1, <2>2, <2>3 DEF IInv, QueuedOnce
  <2>5. ASSUME NEW s \in Sockets, NEW t \in Sockets,
               NEW k \in DOMAIN toPanel'[s], NEW l \in DOMAIN toPanel'[t],
               toPanel'[s][k].script = toPanel'[t][l].script
        PROVE  s = t /\ k = l
    BY <1>5, <2>1, <2>5 DEF IInv, QueuedOnce
  <2> QED
    BY <2>4, <2>5 DEF QueuedOnce
<1>11. ActiveRuns'
  <2>1. active # None => active.script \in Calls \ {c}
    BY <1>1 DEF IInv, TypeOK, ActiveRuns
  <2> QED
    BY <1>2, <1>3, <2>1 DEF IInv, ActiveRuns, Live
<1>12. CompletionsTrue'
  <2> SUFFICES ASSUME NEW s \in Sockets, NEW k \in DOMAIN toServer'[s],
                      toServer'[s][k].type = "complete"
               PROVE  /\ toServer'[s][k].id # 0
                      /\ id'[toServer'[s][k].script] = toServer'[s][k].id
                      /\ EvidencedNext(toServer'[s][k].script, toServer'[s][k].state)
    BY NextCompletions
  <2>1. toServer'[s][k] = toServer[s][k] /\ toServer[s][k] \in Heartbeat \cup Completion
    BY <1>2 DEF IInv, TypeOK
  <2>2. /\ toServer[s][k].id # 0
        /\ id[toServer[s][k].script] = toServer[s][k].id
        /\ Evidenced(toServer[s][k].script, toServer[s][k].state)
    BY <1>2, <2>1 DEF IInv, CompletionsTrue
  <2>3. toServer[s][k].script \in Calls \ {c}
    BY <1>1, <2>1, <2>2 DEF Heartbeat, Completion
  <2> QED
    BY <1>2, <1>3, <1>6, <2>1, <2>2, <2>3 DEF Evidenced, EvidencedNext
<1>13. EvidenceIsTrue'
  <2>1. execution' = Remember(i, "unknown") /\ i \in Nat
    BY <1>2 DEF Submit, i
  <2>2. \A k \in DOMAIN execution' : \/ execution'[k] = [id |-> i, state |-> "unknown"]
                                     \/ \E j \in DOMAIN execution : execution'[k] = execution[j]
    BY <2>1, RememberContent DEF IInv, States
  <2>3. ASSUME NEW d \in Calls, NEW j \in DOMAIN execution, execution[j].id = id'[d]
        PROVE  EvidencedNext(d, execution[j].state)
    <3>1. d # c
      BY <1>2, <1>3, <2>3 DEF IInv, IdsUnique, i
    <3>2. Evidenced(d, execution[j].state)
      BY <1>3, <2>3, <3>1, NowEvidence DEF IInv
    <3> QED
      BY <1>2, <1>6, <3>1, <3>2 DEF Evidenced, EvidencedNext
  <2>4. \A d \in Calls : EvidencedNext(d, "unknown")
    BY DEF EvidencedNext
  <2> QED
    BY <2>2, <2>3, <2>4, NextEvidence
<1>14. AnswersTrue'
  <2>1. EvidencedNext(c, answer'[c])
    BY <1>1, <1>2 DEF EvidencedNext
  <2>2. \A d \in Calls \ {c} : EvidencedNext(d, answer'[d])
    BY <1>2, <1>6 DEF IInv, AnswersTrue, Evidenced, EvidencedNext
  <2> QED
    BY <2>1, <2>2, NextAnswers
<1>15. RightResult'
  BY <1>2 DEF IInv, RightResult
<1> QED
  BY <1>7, <1>8, <1>9, <1>10, <1>11, <1>12, <1>13, <1>14, <1>15 DEF IInv

(***************************************************************************)
(* The server's connections.                                               *)
(***************************************************************************)

(* The rest of a channel after its head was read.                           *)
LEMMA TailCustody ==
    ASSUME IInv, NEW s \in Sockets, toServer[s] # <<>>,
           toServer' = [toServer EXCEPT ![s] = Tail(@)],
           UNCHANGED <<id, active, toPanel, script, readyState, link, handler>>
    PROVE  Custody
<1>1. toServer \in [Sockets -> Seq(Messages)]
  BY DEF IInv, TypeOK, Messages
<1>2. \A k \in DOMAIN Tail(toServer[s]) :
         k + 1 \in DOMAIN toServer[s] /\ Tail(toServer[s])[k] = toServer[s][k + 1]
  BY <1>1, ChannelHead
<1>3. \A t \in Sockets : \A k \in DOMAIN toServer'[t] :
         \E l \in DOMAIN toServer[t] : toServer'[t][k] = toServer[t][l]
  BY <1>1, <1>2
<1>4. \A t \in Sockets : toServer'[t] # <<>> => toServer[t] # <<>>
  BY <1>1
<1> QED
  BY <1>3, <1>4 DEF IInv, SocketLife, Custody, Live

LEMMA SameStory ==
    ASSUME UNCHANGED <<id, requestId, pc, answer, result, execution>>
    PROVE  Story
BY DEF Story

(* A completion that is read is about the call whose id it carries.         *)
LEMMA CompletionRead ==
    ASSUME IInv, NEW s \in Sockets, ReadCompletion(s)
    PROVE  LET m == Head(toServer[s])
           IN  /\ m.id \in 1..requestId /\ m.state \in States /\ m.script \in Calls
               /\ Evidenced(m.script, m.state)
               /\ \A c \in Calls : id[c] = m.id => c = m.script
<1> DEFINE m == Head(toServer[s])
<1>1. toServer[s] \in Seq(Messages) /\ toServer[s] # <<>>
  BY DEF ReadCompletion, IInv, TypeOK, Messages
<1>2. m \in Messages /\ 1 \in DOMAIN toServer[s] /\ m = toServer[s][1] /\ m.type = "complete"
  BY <1>1, ChannelHead DEF ReadCompletion
<1>3. m.id # 0 /\ id[m.script] = m.id /\ Evidenced(m.script, m.state)
  BY <1>2 DEF IInv, CompletionsTrue
<1>4. m.id \in Nat /\ m.script \in Calls /\ m.state \in States
  BY <1>2 DEF Messages, Heartbeat, Completion
<1> HIDE DEF m
<1>5. \A c \in Calls : id[c] = m.id => c = m.script
  BY <1>3, <1>4 DEF IInv, IdsUnique
<1>6. m.id \in 1..requestId
  BY <1>3, <1>4 DEF IInv, IdsUnique, TypeOK
<1> QED
  BY <1>3, <1>4, <1>5, <1>6 DEF m

LEMMA ReadCompletionKeeps ==
    ASSUME IInv, TypeOK', NEW s \in Sockets, ReadCompletion(s)
    PROVE  IInv'
<1> DEFINE m == Head(toServer[s])
<1>1. /\ m.id \in 1..requestId /\ m.state \in States /\ m.script \in Calls
      /\ Evidenced(m.script, m.state)
      /\ \A c \in Calls : id[c] = m.id => c = m.script
  BY CompletionRead
<1>2. CompleteRequest(m) /\ UNCHANGED <<id, requestId, pc, answer>> /\ toServer[s] # <<>>
  BY DEF ReadCompletion
<1> HIDE DEF m
<1>0. m.id \in Nat
  BY <1>1 DEF IInv, TypeOK
<1>3. \A c \in Calls : result'[c] \in {result[c], None, c}
  BY <1>1, <1>2 DEF CompleteRequest
<1>4. \A k \in DOMAIN execution' : \/ execution'[k] = [id |-> m.id, state |-> m.state]
                                   \/ \E j \in DOMAIN execution : execution'[k] = execution[j]
  BY <1>0, <1>1, <1>2, RememberContent DEF CompleteRequest, IInv
<1>5. Story
  BY <1>1, <1>2, <1>3, <1>4 DEF Story
<1>6. Custody
  BY <1>2, TailCustody DEF ReadCompletion, panelVars
<1> QED
  BY <1>5, <1>6, CustodyAndStory

LEMMA ServerKeeps ==
    ASSUME IInv, TypeOK', NEW s \in Sockets, ServerNext(s)
    PROVE  IInv'
<1>1. CASE RejectSecondClient(s)
  <2>1. Custody
    BY <1>1 DEF RejectSecondClient, IInv, TypeOK, SocketLife, Custody, Live, callVars, panelVars
  <2>2. Story
    BY <1>1, SameStory DEF RejectSecondClient, callVars
  <2> QED
    BY <2>1, <2>2, CustodyAndStory
<1>2. CASE FindStaleClient(s) \/ TakeSlot(s) \/ LinkLost(s)
  <2>1. Custody
    BY <1>2 DEF FindStaleClient, TakeSlot, LinkLost, IInv, TypeOK, SocketLife, Custody, Live,
                callVars, panelVars, netVars
  <2>2. Story
    BY <1>2, SameStory DEF FindStaleClient, TakeSlot, LinkLost, callVars
  <2> QED
    BY <2>1, <2>2, CustodyAndStory
<1>3. CASE HandlerEnds(s)
  <2>1. Custody
    BY <1>3 DEF HandlerEnds, IInv, TypeOK, SocketLife, Custody, Live, panelVars
  <2>2. Story
    BY <1>3, SameStory DEF HandlerEnds
  <2> QED
    BY <2>1, <2>2, CustodyAndStory
<1>4. CASE ReadHeartbeat(s) \/ DropOversized(s)
  <2>1. Custody
    BY <1>4, TailCustody DEF ReadHeartbeat, DropOversized, serverVars, callVars, panelVars
  <2>2. Story
    BY <1>4, SameStory DEF ReadHeartbeat, DropOversized, serverVars, callVars
  <2> QED
    BY <2>1, <2>2, CustodyAndStory
<1>5. CASE ReadCompletion(s)
  BY <1>5, ReadCompletionKeeps
<1> QED
  BY <1>1, <1>2, <1>3, <1>4, <1>5 DEF ServerNext

LEMMA WatchdogKeeps ==
    ASSUME IInv, TypeOK', WatchdogFires
    PROVE  IInv'
<1>1. Custody
  BY DEF WatchdogFires, IInv, TypeOK, SocketLife, Custody, Live, panelVars, netVars
<1>2. Story
  BY SameStory DEF WatchdogFires
<1> QED
  BY <1>1, <1>2, CustodyAndStory

(* A new process knows nothing, and nothing it did not send reaches it.     *)
LEMMA RestartKeeps ==
    ASSUME IInv, TypeOK', Restart
    PROVE  IInv'
<1>1. Persists
  BY DEF Restart, Persists, NotQueued, NotQueuedNext, panelVars
<1>2. \A s \in Sockets : ~Live(s)' /\ link'[s] # "open" /\ toServer'[s] = <<>>
  BY DEF Restart, Live
<1>3. SocketLife'
  BY <1>2 DEF Restart, IInv, SocketLife, panelVars
<1>4. IdsUnique'
  BY DEF Restart, IInv, TypeOK, IdsUnique, InFlight
<1>5. IdleUntouched'
  BY DEF Restart, IInv, TypeOK, IdleUntouched, NotQueued, InFlight
<1>6. QueuedOnce' /\ ActiveRuns'
  BY <1>2 DEF Restart, IInv, TypeOK, QueuedOnce, ActiveRuns, panelVars
<1>7. CompletionsTrue'
  BY <1>2, NextCompletions
<1>8. EvidenceIsTrue'
  BY NextEvidence DEF Restart
<1>9. AnswersTrue'
  BY <1>1, EvidencePersists, NextAnswers DEF Restart, IInv, AnswersTrue
<1>10. RightResult'
  BY DEF Restart, RightResult
<1> QED
  BY <1>3, <1>4, <1>5, <1>6, <1>7, <1>8, <1>9, <1>10 DEF IInv

(***************************************************************************)
(* The panel.                                                              *)
(***************************************************************************)

TrueMessage(m) ==
    m.type = "complete" => /\ m.id # 0
                           /\ id[m.script] = m.id
                           /\ EvidencedNext(m.script, m.state)

(* At most the head of a queue, or all of it, is gone.                      *)
Dequeues ==
    \A t \in Sockets : \/ toPanel'[t] = toPanel[t]
                       \/ toPanel'[t] = <<>>
                       \/ toPanel[t] # <<>> /\ toPanel'[t] = Tail(toPanel[t])

(* What is new in the channels to the server is true.                       *)
SendsTruth ==
    \A t \in Sockets : \A k \in DOMAIN toServer'[t] :
        \/ \E l \in DOMAIN toServer[t] : toServer'[t][k] = toServer[t][l]
        \/ Live(t) /\ TrueMessage(toServer'[t][k])

PanelFrame == UNCHANGED <<link, handler, requestId, execution, id, pc, result, answer>>

(* What is left of a queue was in it, at the same place or one further on.  *)
LEMMA DequeuesShift ==
    ASSUME IInv, Dequeues, NEW t \in Sockets
    PROVE  \E n \in {0, 1} : \A k \in DOMAIN toPanel'[t] :
              k \in Nat /\ k + n \in DOMAIN toPanel[t] /\ toPanel'[t][k] = toPanel[t][k + n]
<1>1. toPanel[t] \in Seq(Request)
  BY DEF IInv, TypeOK
<1>2. CASE toPanel'[t] = toPanel[t]
  BY <1>1, <1>2
<1>3. CASE toPanel'[t] = <<>>
  BY <1>3
<1>4. CASE toPanel[t] # <<>> /\ toPanel'[t] = Tail(toPanel[t])
  <2>1. \A k \in DOMAIN Tail(toPanel[t]) :
           k \in Nat /\ k + 1 \in DOMAIN toPanel[t] /\ Tail(toPanel[t])[k] = toPanel[t][k + 1]
    BY <1>1, <1>4
  <2> QED
    BY <1>4, <2>1
<1> QED
  BY <1>2, <1>3, <1>4 DEF Dequeues

LEMMA PanelKeeps ==
    ASSUME IInv, TypeOK', PanelFrame, Persists, Dequeues, SendsTruth,
           \A t \in Sockets : readyState'[t] = "none" => readyState[t] = "none",
           active' # None => readyState'[active'.socket] # "none",
           \A c \in Calls : script'[c] = script[c] \/ NotQueuedNext(c),
           ActiveRuns'
    PROVE  IInv'
<1>1. Story
  BY SameStory DEF PanelFrame
<1>2. SocketLife'
  <2>1. \A t \in Sockets : readyState'[t] = "none" => handler'[t] = "none" /\ toPanel'[t] = <<>>
    BY DEF IInv, SocketLife, Dequeues, PanelFrame
  <2>2. \A t \in Sockets : toServer'[t] # <<>> => Live(t)
    <3>1. \A t \in Sockets : toServer'[t] # <<>> => 1 \in DOMAIN toServer'[t]
      BY DEF TypeOK
    <3>2. \A t \in Sockets : toServer[t] # <<>> => Live(t)
      BY DEF IInv, SocketLife
    <3>3. \A t \in Sockets : toServer[t] \in Seq(Messages)
      BY DEF IInv, TypeOK, Messages
    <3>4. \A t \in Sockets : \A l \in DOMAIN toServer[t] : toServer[t] # <<>>
      BY <3>3
    <3> QED
      BY <3>1, <3>2, <3>4 DEF SendsTruth
  <2>3. \A t \in Sockets : Live(t)' <=> Live(t)
    BY DEF Live, PanelFrame
  <2> QED
    BY <2>1, <2>2, <2>3 DEF IInv, SocketLife, PanelFrame
<1>3. QueuedOnce'
  <2>1. \A t \in Sockets : Live(t)' <=> Live(t)
    BY DEF Live, PanelFrame
  <2>2. ASSUME NEW t \in Sockets, NEW k \in DOMAIN toPanel'[t]
        PROVE  /\ script'[toPanel'[t][k].script] = "fresh"
               /\ toPanel'[t][k].id # 0
               /\ Live(t)' => id'[toPanel'[t][k].script] = toPanel'[t][k].id
    <3>1. PICK l \in DOMAIN toPanel[t] : toPanel'[t][k] = toPanel[t][l]
      BY DequeuesShift
    <3>2. toPanel[t][l].script \in Calls
      <4>1. toPanel[t] \in Seq(Request)
        BY DEF IInv, TypeOK
      <4>2. toPanel[t][l] \in Request
        BY <4>1
      <4> QED
        BY <4>2 DEF Request
    <3>3. script'[toPanel'[t][k].script] = script[toPanel[t][l].script]
      BY <3>1, <3>2 DEF NotQueuedNext
    <3> QED
      BY <2>1, <3>1, <3>3 DEF IInv, QueuedOnce, PanelFrame
  <2>3. ASSUME NEW t \in Sockets, NEW u \in Sockets,
               NEW k \in DOMAIN toPanel'[t], NEW l \in DOMAIN toPanel'[u],
               toPanel'[t][k].script = toPanel'[u][l].script
        PROVE  t = u /\ k = l
    <3>1. PICK n \in {0, 1} : \A j \in DOMAIN toPanel'[t] :
             j \in Nat /\ j + n \in DOMAIN toPanel[t] /\ toPanel'[t][j] = toPanel[t][j + n]
      BY DequeuesShift
    <3>2. PICK o \in {0, 1} : \A j \in DOMAIN toPanel'[u] :
             j \in Nat /\ j + o \in DOMAIN toPanel[u] /\ toPanel'[u][j] = toPanel[u][j + o]
      BY DequeuesShift
    <3>3. t = u /\ k + n = l + o
      BY <2>3, <3>1, <3>2 DEF IInv, QueuedOnce
    <3>4. \A j \in DOMAIN toPanel'[u] :
             j \in Nat /\ j + n \in DOMAIN toPanel[u] /\ toPanel'[u][j] = toPanel[u][j + n]
      BY <3>1, <3>3
    <3>5. l + n \in DOMAIN toPanel[u] /\ toPanel[u][l + n] = toPanel[u][l + o]
      BY <3>2, <3>4
    <3>6. l + n = l + o
      BY <3>2, <3>5 DEF IInv, QueuedOnce
    <3> QED
      BY <3>1, <3>2, <3>3, <3>6
  <2> QED
    BY <2>2, <2>3 DEF QueuedOnce
<1>4. CompletionsTrue'
  <2> SUFFICES ASSUME NEW t \in Sockets, NEW k \in DOMAIN toServer'[t],
                      toServer'[t][k].type = "complete"
               PROVE  /\ toServer'[t][k].id # 0
                      /\ id'[toServer'[t][k].script] = toServer'[t][k].id
                      /\ EvidencedNext(toServer'[t][k].script, toServer'[t][k].state)
    BY NextCompletions
  <2>1. CASE TrueMessage(toServer'[t][k])
    BY <2>1 DEF TrueMessage, PanelFrame
  <2>2. ASSUME NEW l \in DOMAIN toServer[t], toServer'[t][k] = toServer[t][l]
        PROVE  TrueMessage(toServer'[t][k])
    <3>1. toServer[t][l] \in Heartbeat \cup Completion
      BY DEF IInv, TypeOK
    <3>2. toServer[t][l].script \in Calls
      BY <2>2, <3>1 DEF Heartbeat, Completion
    <3> QED
      BY <2>2, <3>2, EvidencePersists DEF IInv, CompletionsTrue, TrueMessage
  <2> QED
    BY <2>1, <2>2 DEF SendsTruth
<1> QED
  BY <1>1, <1>2, <1>3, <1>4, StoryPersists DEF IInv

LEMMA SendContent ==
    ASSUME IInv, NEW s \in Sockets, NEW ms \in Seq(Messages), Send(s, ms),
           \A l \in DOMAIN ms : TrueMessage(ms[l])
    PROVE  SendsTruth
<1> SUFFICES ASSUME NEW t \in Sockets, NEW k \in DOMAIN toServer'[t]
             PROVE  \/ \E l \in DOMAIN toServer[t] : toServer'[t][k] = toServer[t][l]
                    \/ Live(t) /\ TrueMessage(toServer'[t][k])
  BY DEF SendsTruth
<1>1. toServer \in [Sockets -> Seq(Messages)]
  BY DEF IInv, TypeOK, Messages
<1>2. CASE toServer'[t] = toServer[t]
  BY <1>2
<1>3. CASE toServer'[t] # toServer[t]
  <2>1. t = s /\ link[s] = "open" /\ toServer'[s] = toServer[s] \o ms
    BY <1>1, <1>3 DEF Send
  <2>2. Live(s)
    BY <2>1 DEF IInv, SocketLife
  <2>3. CASE k \in DOMAIN toServer[s]
    BY <1>1, <2>1, <2>3
  <2>4. CASE k \notin DOMAIN toServer[s]
    <3>1. /\ k - Len(toServer[s]) \in DOMAIN ms
          /\ toServer'[s][k] = ms[k - Len(toServer[s])]
      BY <1>1, <2>1, <2>4
    <3> QED
      BY <2>1, <2>2, <3>1
  <2> QED
    BY <2>3, <2>4
<1> QED
  BY <1>2, <1>3

(* The request taken off a queue: it was the only copy.                     *)
LEMMA Received ==
    ASSUME IInv, NEW s \in Sockets, Receive(s)
    PROVE  LET m == Head(toPanel[s])
           IN  /\ m \in Request /\ m.script \in Calls
               /\ script[m.script] = "fresh"
               /\ ~NotQueued(m.script)
               /\ m.id # 0
               /\ Live(s) => id[m.script] = m.id
               /\ NotQueuedNext(m.script)
               /\ Dequeues
               /\ \A c \in Calls : NotQueued(c) => NotQueuedNext(c)
<1> DEFINE m == Head(toPanel[s])
<1>1. toPanel \in [Sockets -> Seq(Request)] /\ toPanel[s] # <<>>
  BY DEF Receive, IInv, TypeOK
<1>2. m \in Request /\ m = toPanel[s][1] /\ 1 \in DOMAIN toPanel[s]
  BY <1>1, ChannelHead
<1>3. m.script \in Calls
  BY <1>2 DEF Request
<1>4. script[m.script] = "fresh" /\ m.id # 0 /\ (Live(s) => id[m.script] = m.id)
  BY <1>2 DEF IInv, QueuedOnce
<1>5. ~NotQueued(m.script)
  BY <1>2 DEF NotQueued
<1>6. Dequeues
  BY <1>1 DEF Receive, Dequeues
<1>7. \A t \in Sockets : \A k \in DOMAIN toPanel'[t] :
         \E l \in DOMAIN toPanel[t] : toPanel'[t][k] = toPanel[t][l] /\ (t = s => l # 1)
  <2>1. \A k \in DOMAIN Tail(toPanel[s]) :
           /\ k + 1 \in DOMAIN toPanel[s] /\ Tail(toPanel[s])[k] = toPanel[s][k + 1]
           /\ k + 1 # 1
    BY <1>1
  <2> QED
    BY <1>1, <2>1 DEF Receive
<1> HIDE DEF m
<1>8. NotQueuedNext(m.script)
  BY <1>2, <1>7 DEF NotQueuedNext, IInv, QueuedOnce
<1>9. \A c \in Calls : NotQueued(c) => NotQueuedNext(c)
  BY <1>7 DEF NotQueued, NotQueuedNext
<1> QED
  BY <1>2, <1>3, <1>4, <1>5, <1>6, <1>8, <1>9 DEF m

LEMMA TrueHeartbeats == TrueMessage(Idle) /\ TrueMessage(Busy)
BY DEF TrueMessage, Idle, Busy

(* A refusal, or a throw, told on the socket the request came on.           *)
LEMMA ReplyKeeps ==
    ASSUME IInv, TypeOK', NEW s \in Sockets, Receive(s),
           UNCHANGED <<serverVars, callVars, panelVars>>,
           NEW st \in {"not_started", "unknown"},
           NEW ms \in Seq(Messages), Send(s, ms),
           \A l \in DOMAIN ms : ms[l] \in {Idle, Busy, Complete(Head(toPanel[s]), st)},
           \/ UNCHANGED script
           \/ st = "unknown" /\ script' = [script EXCEPT ![Head(toPanel[s]).script] = "running"]
    PROVE  IInv'
<1> DEFINE m == Head(toPanel[s])
<1>1. /\ m.script \in Calls /\ script[m.script] = "fresh" /\ ~NotQueued(m.script)
      /\ m.id # 0 /\ (Live(s) => id[m.script] = m.id)
      /\ NotQueuedNext(m.script) /\ Dequeues
      /\ \A c \in Calls : NotQueued(c) => NotQueuedNext(c)
  BY Received
<1>2. \A c \in Calls : script'[c] = script[c] \/ (c = m.script /\ script'[c] = "running")
  <2>1. script \in [Calls -> {"fresh", "running", "finished"}]
    BY DEF IInv, TypeOK
  <2>2. \/ script' = script
        \/ script' = [script EXCEPT ![m.script] = "running"]
    OBVIOUS
  <2> HIDE DEF m
  <2> QED
    BY <2>1, <2>2
<1> HIDE DEF m
<1>3. Persists
  BY <1>1, <1>2 DEF Persists
<1>4. EvidencedNext(m.script, st)
  BY <1>1, <1>2 DEF EvidencedNext, m
<1>5. SendsTruth
  <2>1. CASE link[s] = "open"
    <3>1. Live(s)
      BY <2>1 DEF IInv, SocketLife
    <3>2. TrueMessage(Complete(m, st))
      BY <1>1, <1>4, <3>1 DEF TrueMessage, Complete
    <3> QED
      BY <3>2, TrueHeartbeats, SendContent DEF m
  <2>2. CASE link[s] # "open"
    BY <2>2 DEF Send, SendsTruth
  <2> QED
    BY <2>1, <2>2
<1>6. active' = active /\ readyState' = readyState /\ PanelFrame
  BY DEF serverVars, callVars, panelVars, PanelFrame
<1>7. ActiveRuns'
  <2>1. active # None => active.script \in Calls /\ active.script # m.script
    BY <1>1 DEF IInv, TypeOK, ActiveRuns
  <2> QED
    BY <1>2, <1>6, <2>1 DEF IInv, ActiveRuns, Live, PanelFrame
<1> QED
  BY <1>1, <1>2, <1>3, <1>5, <1>6, <1>7, PanelKeeps DEF IInv, SocketLife

LEMMA StartKeeps ==
    ASSUME IInv, TypeOK', NEW s \in Sockets, StartScript(s)
    PROVE  IInv'
<1> DEFINE m == Head(toPanel[s])
<1>0. Receive(s) /\ readyState[s] = "open"
  BY DEF StartScript, Receive
<1>1. /\ m.script \in Calls /\ script[m.script] = "fresh" /\ ~NotQueued(m.script)
      /\ m.id # 0 /\ (Live(s) => id[m.script] = m.id)
      /\ NotQueuedNext(m.script) /\ Dequeues
      /\ \A c \in Calls : NotQueued(c) => NotQueuedNext(c)
  BY <1>0, Received
<1>2. \A c \in Calls : script'[c] = IF c = m.script THEN "running" ELSE script[c]
  BY DEF StartScript, IInv, TypeOK
<1>3. /\ active' = [id |-> m.id, script |-> m.script, socket |-> s]
      /\ Send(s, <<Busy>>)
      /\ readyState' = readyState /\ PanelFrame
  BY DEF StartScript, serverVars, callVars, PanelFrame
<1> HIDE DEF m
<1>4. Persists
  BY <1>1, <1>2 DEF Persists
<1>5. SendsTruth
  <2>1. <<Busy>> \in Seq(Messages)
    BY HeartbeatType
  <2>2. \A l \in DOMAIN <<Busy>> : TrueMessage(<<Busy>>[l])
    BY TrueHeartbeats
  <2> QED
    BY <1>3, <2>1, <2>2, SendContent
<1>6. ActiveRuns'
  BY <1>1, <1>2, <1>3 DEF ActiveRuns, Live, PanelFrame
<1>7. \A c \in Calls : script'[c] = script[c] \/ NotQueuedNext(c)
  BY <1>1, <1>2
<1>8. active' # None => readyState'[active'.socket] # "none"
  BY <1>0, <1>3
<1> QED
  BY <1>1, <1>3, <1>4, <1>5, <1>6, <1>7, <1>8, PanelKeeps

LEMMA ScriptReturnsKeeps ==
    ASSUME IInv, TypeOK', NEW st \in {"completed", "unknown"}, ScriptReturns(st)
    PROVE  IInv'
<1>1. /\ active \in [id : Nat, script : Calls, socket : Sockets]
      /\ active' = None
      /\ script' = [script EXCEPT ![active.script] = "finished"]
      /\ script \in [Calls -> {"fresh", "running", "finished"}]
      /\ Send(active.socket, <<Idle, Complete(active, st)>>)
      /\ UNCHANGED <<readyState, toPanel>> /\ PanelFrame
  BY DEF ScriptReturns, IInv, TypeOK, serverVars, callVars, PanelFrame
<1>2. /\ script[active.script] = "running" /\ active.id # 0
      /\ Live(active.socket) => id[active.script] = active.id
  BY DEF ScriptReturns, IInv, ActiveRuns
<1>3. \A c \in Calls : NotQueued(c) => NotQueuedNext(c)
  BY <1>1 DEF NotQueued, NotQueuedNext
<1>4. NotQueuedNext(active.script)
  BY <1>1, <1>2 DEF NotQueuedNext, IInv, QueuedOnce
<1>5. Persists
  BY <1>1, <1>2, <1>3 DEF Persists
<1>6. EvidencedNext(active.script, st)
  BY <1>1 DEF EvidencedNext
<1>7. SendsTruth
  <2>1. CASE link[active.socket] = "open"
    <3>1. Live(active.socket)
      BY <1>1, <2>1 DEF IInv, SocketLife
    <3>2. TrueMessage(Complete(active, st))
      BY <1>2, <1>6, <3>1 DEF TrueMessage, Complete
    <3>3. <<Idle, Complete(active, st)>> \in Seq(Messages)
      BY <1>1, HeartbeatType, CompletionType DEF States
    <3>4. \A l \in DOMAIN <<Idle, Complete(active, st)>> :
             TrueMessage(<<Idle, Complete(active, st)>>[l])
      BY <3>2, TrueHeartbeats
    <3> QED
      BY <1>1, <3>3, <3>4, SendContent
  <2>2. CASE link[active.socket] # "open"
    BY <1>1, <2>2 DEF Send, SendsTruth
  <2> QED
    BY <2>1, <2>2
<1>8. \A c \in Calls : script'[c] = script[c] \/ NotQueuedNext(c)
  BY <1>1, <1>4
<1>9. ActiveRuns' /\ Dequeues
  BY <1>1 DEF ActiveRuns, Dequeues
<1> QED
  BY <1>1, <1>5, <1>7, <1>8, <1>9, PanelKeeps

(* Opening a socket revives nothing: it never carried a message before.     *)
LEMMA ConnectKeeps ==
    ASSUME IInv, TypeOK', NEW s \in Sockets, Connect(s)
    PROVE  IInv'
<1>1. /\ readyState[s] = "none" /\ toPanel[s] = <<>>
      /\ active # None => active.socket \in Sockets \ {s}
  BY DEF Connect, IInv, SocketLife, TypeOK
<1>2. /\ \A t \in Sockets \ {s} : /\ readyState'[t] = readyState[t]
                                  /\ link'[t] = link[t]
                                  /\ handler'[t] = handler[t]
                                  /\ toServer'[t] = toServer[t]
      /\ readyState'[s] = "open" /\ handler'[s] = "start"
      /\ toServer'[s] = <<IF active = None THEN Idle ELSE Busy>>
      /\ UNCHANGED <<requestId, execution, id, pc, result, answer, active, toPanel, script>>
  BY DEF Connect, IInv, TypeOK, callVars
<1>3. \A t \in Sockets \ {s} : Live(t)' <=> Live(t)
  BY <1>2 DEF Live
<1>4. Story /\ Persists
  BY <1>2, SameStory DEF Persists, NotQueued, NotQueuedNext
<1>5. SocketLife'
  BY <1>1, <1>2, <1>3 DEF IInv, SocketLife, Live
<1>6. QueuedOnce'
  BY <1>1, <1>2, <1>3 DEF IInv, QueuedOnce
<1>7. ActiveRuns'
  BY <1>1, <1>2, <1>3 DEF IInv, ActiveRuns
<1>8. CompletionsTrue'
  <2> SUFFICES ASSUME NEW t \in Sockets, NEW k \in DOMAIN toServer'[t],
                      toServer'[t][k].type = "complete"
               PROVE  /\ toServer'[t][k].id # 0
                      /\ id'[toServer'[t][k].script] = toServer'[t][k].id
                      /\ EvidencedNext(toServer'[t][k].script, toServer'[t][k].state)
    BY NextCompletions
  <2>1. t # s
    BY <1>2 DEF Idle, Busy
  <2>2. toServer'[t][k] = toServer[t][k] /\ toServer[t][k] \in Heartbeat \cup Completion
    BY <1>2, <2>1 DEF IInv, TypeOK
  <2>3. toServer[t][k].script \in Calls
    BY <2>2 DEF Heartbeat, Completion
  <2> QED
    BY <1>2, <1>4, <2>1, <2>2, <2>3, EvidencePersists DEF IInv, CompletionsTrue
<1> QED
  BY <1>4, <1>5, <1>6, <1>7, <1>8, StoryPersists DEF IInv

(* Closing a socket loses what was queued on it; a heartbeat adds no claim. *)
LEMMA QuietPanelKeeps ==
    ASSUME IInv, TypeOK', NEW s \in Sockets, Close(s) \/ PeriodicHeartbeat(s)
    PROVE  IInv'
<1>1. /\ UNCHANGED <<active, script>> /\ PanelFrame
      /\ \A t \in Sockets : readyState'[t] = readyState[t] \/ readyState'[t] = "closed"
      /\ Dequeues
  BY DEF Close, PeriodicHeartbeat, Dequeues, PanelFrame, serverVars, callVars, panelVars,
         IInv, TypeOK
<1>2. \A c \in Calls : NotQueued(c) => NotQueuedNext(c)
  BY <1>1, DequeuesShift DEF NotQueued, NotQueuedNext
<1>3. Persists
  BY <1>1, <1>2 DEF Persists
<1>4. SendsTruth
  <2>1. CASE Close(s)
    BY <2>1 DEF Close, SendsTruth
  <2>2. CASE PeriodicHeartbeat(s)
    <3>1. <<IF active = None THEN Idle ELSE Busy>> \in Seq(Messages)
      BY HeartbeatType
    <3>2. \A l \in DOMAIN <<IF active = None THEN Idle ELSE Busy>> :
             TrueMessage(<<IF active = None THEN Idle ELSE Busy>>[l])
      BY TrueHeartbeats
    <3> QED
      BY <2>2, <3>1, <3>2, SendContent DEF PeriodicHeartbeat
  <2> QED
    BY <2>1, <2>2
<1>5. ActiveRuns' /\ (active' # None => readyState'[active'.socket] # "none")
  BY <1>1 DEF IInv, TypeOK, ActiveRuns, SocketLife, Live, PanelFrame
<1> QED
  BY <1>1, <1>3, <1>4, <1>5, PanelKeeps

LEMMA PanelActionsKeep ==
    ASSUME IInv, TypeOK', NEW s \in Sockets, PanelNext(s)
    PROVE  IInv'
<1> DEFINE m == Head(toPanel[s])
<1>1. Receive(s) => \A st \in States : Complete(m, st) \in Messages
  BY Received, CompletionType DEF Request
<1>2. CASE RejectBusy(s)
  <2>1. <<Complete(m, "not_started")>> \in Seq(Messages)
    BY <1>1, <1>2 DEF RejectBusy, States
  <2>2. \A l \in DOMAIN <<Complete(m, "not_started")>> :
           <<Complete(m, "not_started")>>[l] \in {Idle, Busy, Complete(m, "not_started")}
    OBVIOUS
  <2> QED
    BY <1>2, <2>1, <2>2, ReplyKeeps DEF RejectBusy
<1>3. CASE NoHost(s)
  <2>1. <<Busy, Idle, Complete(m, "not_started")>> \in Seq(Messages)
    BY <1>1, <1>3, HeartbeatType DEF NoHost, States
  <2>2. \A l \in DOMAIN <<Busy, Idle, Complete(m, "not_started")>> :
           <<Busy, Idle, Complete(m, "not_started")>>[l]
              \in {Idle, Busy, Complete(m, "not_started")}
    OBVIOUS
  <2> QED
    BY <1>3, <2>1, <2>2, ReplyKeeps DEF NoHost
<1>4. CASE EvalThrows(s)
  <2>1. <<Busy, Idle, Complete(m, "unknown")>> \in Seq(Messages)
    BY <1>1, <1>4, HeartbeatType DEF EvalThrows, States
  <2>2. \A l \in DOMAIN <<Busy, Idle, Complete(m, "unknown")>> :
           <<Busy, Idle, Complete(m, "unknown")>>[l]
              \in {Idle, Busy, Complete(m, "unknown")}
    OBVIOUS
  <2> QED
    BY <1>4, <2>1, <2>2, ReplyKeeps DEF EvalThrows
<1>5. CASE Connect(s)
  BY <1>5, ConnectKeeps
<1>6. CASE Close(s) \/ PeriodicHeartbeat(s)
  BY <1>6, QuietPanelKeeps
<1>7. CASE StartScript(s)
  BY <1>7, StartKeeps
<1> QED
  BY <1>2, <1>3, <1>4, <1>5, <1>6, <1>7 DEF PanelNext

LEMMA StepInv == IInv /\ [Next]_vars => IInv'
<1> SUFFICES ASSUME IInv, [Next]_vars PROVE IInv'
  OBVIOUS
<1>0. TypeOK'
  BY StepType DEF IInv
<1>1. ASSUME NEW c \in Calls, CallNext(c) PROVE IInv'
  BY <1>0, <1>1, CallKeeps, SubmitKeeps
<1>2. ASSUME NEW s \in Sockets, ServerNext(s) \/ PanelNext(s) PROVE IInv'
  BY <1>0, <1>2, ServerKeeps, PanelActionsKeep
<1>3. ASSUME NEW st \in {"completed", "unknown"}, ScriptReturns(st) PROVE IInv'
  BY <1>0, <1>3, ScriptReturnsKeeps
<1>4. CASE WatchdogFires \/ Restart
  BY <1>0, <1>4, WatchdogKeeps, RestartKeeps
<1>5. CASE StrayClose \/ UNCHANGED vars
  BY <1>0, <1>5 DEF StrayClose, vars, serverVars, callVars, panelVars, netVars, IInv, SocketLife,
              IdsUnique, IdleUntouched, QueuedOnce, ActiveRuns, CompletionsTrue, EvidenceIsTrue,
              AnswersTrue, RightResult, Evidenced, NotQueued, Live
<1> QED
  BY <1>1, <1>2, <1>3, <1>4, <1>5 DEF Next

LEMMA InitInv == Init => IInv
<1> SUFFICES ASSUME Init PROVE IInv
  OBVIOUS
<1>1. TypeOK
  BY InitType
<1>2. SocketLife /\ IdsUnique /\ IdleUntouched
  BY DEF Init, SocketLife, IdsUnique, IdleUntouched, NotQueued, InFlight
<1>3. QueuedOnce /\ ActiveRuns /\ CompletionsTrue
  BY DEF Init, QueuedOnce, ActiveRuns, CompletionsTrue
<1>4. EvidenceIsTrue /\ AnswersTrue /\ RightResult
  BY DEF Init, EvidenceIsTrue, AnswersTrue, Evidenced, RightResult
<1> QED
  BY <1>1, <1>2, <1>3, <1>4 DEF IInv

LEMMA Inductive == Spec => []IInv
BY InitInv, StepInv, PTL DEF Spec

(* A caller told "not_started" may retry: the script has not run, and no    *)
(* copy of it is left for the panel to run.                                 *)
THEOREM RetryingIsSafe == Spec => []RetryIsSafe
<1>1. IInv => RetryIsSafe
  BY DEF IInv, AnswersTrue, Evidenced, RetryIsSafe
<1> QED
  BY <1>1, Inductive, PTL

(* What the history says about a request of this process is true.           *)
THEOREM HistoryIsTrue == Spec => []EvidenceIsTrue
<1>1. IInv => EvidenceIsTrue
  BY DEF IInv
<1> QED
  BY <1>1, Inductive, PTL

(* No call receives the result of another one's script.                     *)
THEOREM ResultsAreRight == Spec => []RightResult
<1>1. IInv => RightResult
  BY DEF IInv
<1> QED
  BY <1>1, Inductive, PTL

-----------------------------------------------------------------------------
(* Bridge implements ScriptCall: every step of the calls, the server, the   *)
(* panel and the network is a step of the promise made to the callers, or   *)
(* changes neither what they were told nor what Illustrator did.            *)

(* A call that has returned was told something.                             *)
Answered == \A c \in Calls : pc[c] = "done" => answer[c] # "none"

LEMMA StepAnswered == TypeOK /\ Answered /\ [Next]_vars => Answered'
<1> SUFFICES ASSUME TypeOK, Answered, [Next]_vars PROVE Answered'
  OBVIOUS
<1>1. ASSUME NEW c \in Calls, NEW st \in States, Return(c, st) PROVE Answered'
  BY <1>1 DEF Return, Answered, TypeOK, States
<1>2. ASSUME NEW c \in Calls, ReturnFailure(c) PROVE Answered'
  <2>1. id[c] \in Nat /\ "unknown" \in States
    BY DEF TypeOK, States
  <2>2. execution' \in Seq(Evidence) /\ Return(c, Told(execution', id[c]))
    BY <1>2, <2>1, RememberContent DEF ReturnFailure
  <2> QED
    BY <1>1, <2>1, <2>2, ToldType
<1>3. ASSUME NEW c \in Calls, CallNext(c) PROVE Answered'
  <2>1. CASE Refuse(c)
    BY <2>1 DEF Refuse, Answered, TypeOK
  <2>2. CASE Resume(c)
    <3>1. Told(execution, id[c]) \in States
      BY ToldType DEF TypeOK
    <3> QED
      BY <1>1, <2>2, <3>1 DEF Resume
  <2>3. CASE SendFails(c) \/ ResumeCancelled(c) \/ TimesOut(c)
    BY <1>2, <2>3 DEF SendFails, ResumeCancelled, TimesOut
  <2>4. CASE Submit(c) \/ Sent(c) \/ TimerFires(c)
    BY <2>4 DEF Submit, Sent, TimerFires, Answered, TypeOK
  <2> QED
    BY <1>3, <2>1, <2>2, <2>3, <2>4 DEF CallNext
<1>4. ASSUME UNCHANGED <<pc, answer>> PROVE Answered'
  BY <1>4 DEF Answered
<1>5. ASSUME NEW s \in Sockets, ServerNext(s) PROVE UNCHANGED <<pc, answer>>
  BY <1>5 DEF ServerNext, RejectSecondClient, FindStaleClient, TakeSlot, LinkLost, HandlerEnds,
              ReadHeartbeat, ReadCompletion, DropOversized, callVars
<1>6. ASSUME NEW s \in Sockets, PanelNext(s) PROVE UNCHANGED <<pc, answer>>
  BY <1>6 DEF PanelNext, Connect, Close, PeriodicHeartbeat, RejectBusy, NoHost, StartScript,
              EvalThrows, callVars
<1>7. CASE Restart
  BY <1>7 DEF Restart, Answered, TypeOK
<1> QED
  BY <1>3, <1>4, <1>5, <1>6, <1>7
  DEF Next, ScriptReturns, StrayClose, WatchdogFires, vars, callVars

(* What a caller has been told, by where its coroutine is.                  *)
LEMMA ToldValue ==
    ASSUME TypeOK, NEW c \in Calls
    PROVE  /\ pc[c] = "idle" => ToldCaller[c] = "idle"
           /\ pc[c] \in InFlight => ToldCaller[c] = "open"
           /\ pc[c] = "lost" => ToldCaller[c] = "unknown"
           /\ pc[c] = "done" => ToldCaller[c] = answer[c]
BY DEF ToldCaller, ToldTo, InFlight, TypeOK

LEMMA ToldValueNext ==
    ASSUME TypeOK', NEW c \in Calls
    PROVE  /\ pc'[c] = "idle" => ToldCaller'[c] = "idle"
           /\ pc'[c] \in InFlight => ToldCaller'[c] = "open"
           /\ pc'[c] = "lost" => ToldCaller'[c] = "unknown"
           /\ pc'[c] = "done" => ToldCaller'[c] = answer'[c]
BY DEF ToldCaller, ToldTo, InFlight, TypeOK

(* One caller hears something, the others nothing new.                      *)
LEMMA OneTold ==
    ASSUME NEW c \in Calls, NEW v,
           \A d \in Calls : ToldCaller'[d] = IF d = c THEN v ELSE ToldCaller[d]
    PROVE  ToldCaller' = [ToldCaller EXCEPT ![c] = v]
<1>1. ToldCaller' = [d \in Calls |-> ToldCaller'[d]]
  BY DEF ToldCaller
<1>2. ToldCaller = [d \in Calls |-> ToldCaller[d]]
  BY DEF ToldCaller
<1> QED
  BY <1>1, <1>2

(***************************************************************************)
(* The steps, one by one.                                                  *)
(***************************************************************************)

(* A step the promise does not see.                                         *)
LEMMA Stutters ==
    ASSUME UNCHANGED <<pc, answer, script>>
    PROVE  UNCHANGED Promise!vars
BY DEF Promise!vars, ToldCaller, ToldTo

(* An answer: a refusal, a completion, or nobody knows.                     *)
LEMMA AnswerImplements ==
    ASSUME IInv, AnswersTrue', NEW c \in Calls, NEW st \in States,
           pc[c] \in InFlight \/ (pc[c] = "idle" /\ st = "not_started"),
           pc' = [pc EXCEPT ![c] = "done"], answer' = [answer EXCEPT ![c] = st],
           UNCHANGED script
    PROVE  Promise!Next
<1>0. TypeOK
  BY DEF IInv
<1>1. ToldCaller' = [ToldCaller EXCEPT ![c] = st]
  <2>1. \A d \in Calls : /\ pc'[d] = (IF d = c THEN "done" ELSE pc[d])
                         /\ answer'[d] = (IF d = c THEN st ELSE answer[d])
    BY <1>0 DEF TypeOK
  <2>2. \A d \in Calls : d # c => ToldTo(d)' = ToldTo(d)
    BY <2>1 DEF ToldTo
  <2>3. ToldTo(c)' = st
    BY <2>1 DEF ToldTo, InFlight
  <2>4. \A d \in Calls : ToldCaller'[d] = IF d = c THEN st ELSE ToldCaller[d]
    BY <2>2, <2>3 DEF ToldCaller
  <2> QED
    BY <2>4, OneTold
<1>2. ToldCaller[c] \in {"idle", "open"} /\ (st # "not_started" => ToldCaller[c] = "open")
  BY <1>0, ToldValue
<1>3. answer'[c] = st
  BY <1>0 DEF TypeOK
<1>4. (st = "completed" => script[c] = "finished") /\ (st = "not_started" => script[c] = "fresh")
  BY <1>3, NextAnswers DEF EvidencedNext
<1>5. CASE st = "not_started"
  BY <1>1, <1>2, <1>4, <1>5 DEF Promise!Next, Promise!Refuse
<1>6. CASE st = "completed"
  BY <1>1, <1>2, <1>4, <1>6 DEF Promise!Next, Promise!Complete
<1>7. CASE st = "unknown"
  <2>1. ToldCaller' = [d \in Calls |-> IF d \in {c} THEN "unknown" ELSE ToldCaller[d]]
    BY <1>1, <1>7 DEF ToldCaller
  <2>2. Promise!GiveUp({c})
    BY <1>2, <1>7, <2>1 DEF Promise!GiveUp
  <2> QED
    BY <2>2 DEF Promise!Next
<1> QED
  BY <1>5, <1>6, <1>7 DEF States

LEMMA FailureImplements ==
    ASSUME IInv, AnswersTrue', NEW c \in Calls, pc[c] \in InFlight, ReturnFailure(c)
    PROVE  Promise!Next
<1>1. id[c] \in Nat /\ "unknown" \in States
  BY DEF IInv, TypeOK, States
<1>2. execution' \in Seq(Evidence) /\ Return(c, Told(execution', id[c])) /\ UNCHANGED script
  BY <1>1, RememberContent DEF ReturnFailure, IInv
<1>3. Told(execution', id[c]) \in States
  BY <1>1, <1>2, ToldType
<1> QED
  BY <1>2, <1>3, AnswerImplements DEF Return

LEMMA CallImplements ==
    ASSUME IInv, AnswersTrue', TypeOK', NEW c \in Calls, CallNext(c)
    PROVE  Promise!Next \/ UNCHANGED Promise!vars
<1>1. CASE Refuse(c)
  BY <1>1, AnswerImplements DEF Refuse, States
<1>2. CASE Submit(c)
  <2>1. /\ pc[c] = "idle" /\ pc' = [pc EXCEPT ![c] = "sending"]
        /\ UNCHANGED <<answer, script>>
        /\ pc \in [Calls -> {"idle", "done", "lost"} \cup InFlight]
    BY <1>2 DEF Submit, IInv, TypeOK
  <2>2. \A d \in Calls : ToldCaller'[d] = IF d = c THEN "open" ELSE ToldCaller[d]
    BY <2>1 DEF ToldCaller, ToldTo, InFlight
  <2>3. ToldCaller' = [ToldCaller EXCEPT ![c] = "open"]
    BY <2>2, OneTold
  <2>4. ToldCaller[c] = "idle"
    BY <2>1, ToldValue DEF IInv
  <2> QED
    BY <2>1, <2>3, <2>4 DEF Promise!Next, Promise!Submit
<1>3. CASE Sent(c) \/ TimerFires(c)
  <2>1. UNCHANGED <<answer, script>> /\ \A d \in Calls : pc'[d] = pc[d] \/ (pc[d] \in InFlight /\ pc'[d] \in InFlight)
    BY <1>3 DEF Sent, TimerFires, InFlight, IInv, TypeOK
  <2>2. \A d \in Calls : ToldTo(d)' = ToldTo(d)
    BY <2>1 DEF ToldTo, InFlight
  <2> QED
    BY <2>1, <2>2 DEF Promise!vars, ToldCaller
<1>4. CASE Resume(c)
  <2>1. Told(execution, id[c]) \in States
    BY ToldType DEF IInv, TypeOK
  <2> QED
    BY <1>4, <2>1, AnswerImplements DEF Resume, Return, InFlight
<1>5. CASE SendFails(c) \/ ResumeCancelled(c) \/ TimesOut(c)
  BY <1>5, FailureImplements DEF SendFails, ResumeCancelled, TimesOut, InFlight
<1> QED
  BY <1>1, <1>2, <1>3, <1>4, <1>5 DEF CallNext

(* A queued script may start: its caller has not been told otherwise.       *)
LEMMA StartImplements ==
    ASSUME IInv, Answered, NEW c \in Calls, ~NotQueued(c), script[c] = "fresh",
           script' = [script EXCEPT ![c] = "running"], UNCHANGED <<pc, answer>>
    PROVE  Promise!Next
<1>1. /\ pc[c] # "idle" /\ answer[c] \notin {"not_started", "completed"}
      /\ pc[c] \in {"idle", "done", "lost"} \cup InFlight
      /\ answer[c] \in States \cup {"none"}
  BY DEF IInv, TypeOK, IdleUntouched, AnswersTrue, Evidenced
<1>2. ToldCaller[c] \in {"open", "unknown"}
  BY <1>1, ToldValue DEF IInv, Answered, States
<1>3. UNCHANGED ToldCaller
  BY DEF ToldCaller, ToldTo
<1> QED
  BY <1>2, <1>3 DEF Promise!Next, Promise!Start

LEMMA PanelImplements ==
    ASSUME IInv, Answered, NEW s \in Sockets, PanelNext(s)
    PROVE  Promise!Next \/ UNCHANGED Promise!vars
<1>1. CASE UNCHANGED script
  <2>1. UNCHANGED <<pc, answer>>
    BY DEF PanelNext, Connect, Close, PeriodicHeartbeat, RejectBusy, NoHost, StartScript,
           EvalThrows, callVars
  <2> QED
    BY <1>1, <2>1, Stutters
<1>2. CASE ~UNCHANGED script
  <2>1. /\ Receive(s) /\ UNCHANGED <<pc, answer>>
        /\ script' = [script EXCEPT ![Head(toPanel[s]).script] = "running"]
    BY <1>2 DEF PanelNext, Connect, Close, PeriodicHeartbeat, RejectBusy, NoHost, StartScript,
                EvalThrows, callVars
  <2> QED
    BY <2>1, Received, StartImplements
<1> QED
  BY <1>1, <1>2

LEMMA FinishImplements ==
    ASSUME IInv, NEW st, ScriptReturns(st)
    PROVE  Promise!Next
<1>1. /\ script[active.script] = "running" /\ active.script \in Calls
      /\ script' = [script EXCEPT ![active.script] = "finished"]
      /\ UNCHANGED <<pc, answer>>
  BY DEF ScriptReturns, IInv, TypeOK, ActiveRuns, callVars
<1>2. UNCHANGED ToldCaller
  BY <1>1 DEF ToldCaller, ToldTo
<1> QED
  BY <1>1, <1>2 DEF Promise!Next, Promise!Finish

(* A dying process gives up every call it had open.                         *)
LEMMA RestartImplements ==
    ASSUME IInv, TypeOK', Restart
    PROVE  Promise!Next
<1> DEFINE C == {c \in Calls : pc[c] \in InFlight}
<1>1. \A c \in C : ToldCaller[c] = "open"
  BY ToldValue DEF IInv
<1>2. UNCHANGED <<answer, script>> /\ \A c \in Calls : pc'[c] = IF c \in C THEN "lost" ELSE pc[c]
  BY DEF Restart
<1>3. \A c \in Calls : ToldCaller'[c] = IF c \in C THEN "unknown" ELSE ToldCaller[c]
  <2>1. \A c \in Calls \ C : ToldTo(c)' = ToldTo(c)
    BY <1>2 DEF ToldTo
  <2>2. \A c \in C : ToldTo(c)' = "unknown"
    BY <1>2 DEF ToldTo, InFlight
  <2> HIDE DEF C
  <2> QED
    BY <2>1, <2>2 DEF ToldCaller
<1>4. ToldCaller' = [c \in Calls |-> IF c \in C THEN "unknown" ELSE ToldCaller[c]]
  <2>1. ToldCaller' = [c \in Calls |-> ToldCaller'[c]]
    BY DEF ToldCaller
  <2> HIDE DEF C
  <2> QED
    BY <1>3, <2>1
<1>5. Promise!GiveUp(C)
  BY <1>1, <1>2, <1>4 DEF Promise!GiveUp
<1>6. C \in SUBSET Calls
  OBVIOUS
<1> QED
  BY <1>5, <1>6 DEF Promise!Next

LEMMA ServerStutters ==
    ASSUME NEW s \in Sockets, ServerNext(s)
    PROVE  UNCHANGED Promise!vars
<1>1. UNCHANGED <<pc, answer, script>>
  BY DEF ServerNext, RejectSecondClient, FindStaleClient, TakeSlot, LinkLost, HandlerEnds,
         ReadHeartbeat, ReadCompletion, DropOversized, callVars
<1> QED
  BY <1>1, Stutters

(* Whatever the connection, the panel and the process go through, a caller  *)
(* of execute_script_async is told the truth, and no script runs twice.     *)
THEOREM KeepsPromise == Spec => PromiseKept
<1>1. Init => Promise!Init
  <2> SUFFICES ASSUME Init PROVE Promise!Init
    OBVIOUS
  <2>1. \A c \in Calls : pc[c] = "idle"
    BY DEF Init
  <2>2. \A c \in Calls : ToldCaller[c] = "idle"
    BY <2>1, InitType, ToldValue
  <2>3. ToldCaller = [c \in Calls |-> ToldCaller[c]]
    BY DEF ToldCaller
  <2>4. ToldCaller = [c \in Calls |-> "idle"]
    BY <2>2, <2>3
  <2> QED
    BY <2>4 DEF Init, Promise!Init
<1>2. ASSUME IInv, IInv', Answered, [Next]_vars
      PROVE  [Promise!Next]_(Promise!vars)
  <2>1. TypeOK' /\ AnswersTrue'
    BY <1>2 DEF IInv
  <2>2. ASSUME NEW c \in Calls, CallNext(c) PROVE Promise!Next \/ UNCHANGED Promise!vars
    BY <1>2, <2>1, <2>2, CallImplements
  <2>3. ASSUME NEW s \in Sockets, ServerNext(s) \/ PanelNext(s)
        PROVE  Promise!Next \/ UNCHANGED Promise!vars
    BY <1>2, <2>3, ServerStutters, PanelImplements
  <2>4. ASSUME NEW st, ScriptReturns(st) PROVE Promise!Next
    BY <1>2, <2>4, FinishImplements
  <2>5. CASE Restart
    BY <1>2, <2>1, <2>5, RestartImplements
  <2>6. CASE StrayClose \/ WatchdogFires \/ UNCHANGED vars
    <3>1. UNCHANGED <<pc, answer, script>>
      BY <2>6 DEF StrayClose, WatchdogFires, vars, callVars
    <3> QED
      BY <3>1, Stutters
  <2> QED
    BY <1>2, <2>2, <2>3, <2>4, <2>5, <2>6 DEF Next
<1>3. Spec => []Answered
  <2>1. Init => Answered
    BY DEF Init, Answered
  <2> QED
    BY <2>1, TypeCorrect, StepAnswered, PTL DEF Spec
<1> QED
  BY <1>1, <1>2, <1>3, Inductive, PTL DEF Spec, PromiseKept, Promise!Spec

(***************************************************************************)
(* Settled evidence is kept.                                               *)
(***************************************************************************)

(* Who writes to the history, and what.                                     *)
LEMMA HistorySteps ==
    ASSUME [Next]_vars
    PROVE  \/ UNCHANGED execution
           \/ execution' = <<>>
           \/ \E c \in Calls : Submit(c) /\ execution' = Remember(requestId + 1, "unknown")
           \/ \E c \in Calls : execution' = Remember(id[c], "unknown")
           \/ \E s \in Sockets : ReadCompletion(s) /\ CompleteRequest(Head(toServer[s]))
<1>1. ASSUME NEW c \in Calls, CallNext(c)
      PROVE  \/ UNCHANGED execution
             \/ Submit(c) /\ execution' = Remember(requestId + 1, "unknown")
             \/ execution' = Remember(id[c], "unknown")
  BY <1>1 DEF CallNext, Refuse, Submit, Sent, SendFails, Resume, ResumeCancelled, TimerFires,
              TimesOut, ReturnFailure, serverVars
<1>2. ASSUME NEW s \in Sockets, ServerNext(s)
      PROVE  UNCHANGED execution \/ (ReadCompletion(s) /\ CompleteRequest(Head(toServer[s])))
  BY <1>2 DEF ServerNext, RejectSecondClient, FindStaleClient, TakeSlot, LinkLost, HandlerEnds,
              ReadHeartbeat, ReadCompletion, DropOversized, serverVars
<1>3. ASSUME NEW s \in Sockets, PanelNext(s) PROVE UNCHANGED execution
  BY <1>3 DEF PanelNext, Connect, Close, PeriodicHeartbeat, RejectBusy, NoHost, StartScript,
              EvalThrows, serverVars
<1>4. ASSUME NEW st, ScriptReturns(st) PROVE UNCHANGED execution
  BY <1>4 DEF ScriptReturns, serverVars
<1>5. CASE StrayClose \/ WatchdogFires \/ Restart \/ UNCHANGED vars
  BY <1>5 DEF StrayClose, WatchdogFires, Restart, vars, serverVars
<1> QED
  BY <1>1, <1>2, <1>3, <1>4, <1>5 DEF Next

LEMMA StepDistinct == IInv /\ Distinct(execution) /\ [Next]_vars => Distinct(execution)'
<1> SUFFICES ASSUME IInv, Distinct(execution), [Next]_vars PROVE Distinct(execution')
  BY DEF Distinct
<1>0. /\ execution \in Seq(Evidence) /\ requestId + 1 \in Nat /\ "unknown" \in States
      /\ \A c \in Calls : id[c] \in Nat
  BY DEF IInv, TypeOK, States
<1>1. CASE UNCHANGED execution \/ execution' = <<>>
  BY <1>1 DEF Distinct
<1>2. CASE \E i \in Nat : execution' = Remember(i, "unknown")
  BY <1>0, <1>2, RecordDistinct DEF Remember
<1>3. ASSUME NEW s \in Sockets, ReadCompletion(s), CompleteRequest(Head(toServer[s]))
      PROVE  Distinct(execution')
  BY <1>0, <1>3, CompletionRead, RecordDistinct DEF CompleteRequest, Remember
<1> QED
  BY <1>0, <1>1, <1>2, <1>3, HistorySteps

(* Evidence for a settled call is only ever evicted.                        *)
LEMMA StepKept ==
    ASSUME IInv, Distinct(execution), [Next]_vars,
           NEW c \in Calls, id'[c] = id[c], Settled(execution, id[c])
    PROVE  Status(execution', id[c]) \in {Status(execution, id[c]), "none"}
<1>0. /\ execution \in Seq(Evidence) /\ Len(execution) <= HistoryLimit
      /\ requestId \in Nat /\ "unknown" \in States
      /\ \A d \in Calls : id[d] \in Nat
  BY DEF IInv, TypeOK, States
<1>1. CASE UNCHANGED execution
  BY <1>1
<1>2. CASE execution' = <<>>
  BY <1>2 DEF Status
<1>3. ASSUME NEW d \in Calls, Submit(d), execution' = Remember(requestId + 1, "unknown")
      PROVE  Status(execution', id[c]) \in {Status(execution, id[c]), "none"}
  <2>1. id[c] # requestId + 1 /\ requestId + 1 \in Nat
    BY <1>0 DEF IInv, IdsUnique
  <2> QED
    BY <1>0, <1>3, <2>1, HistoryAssumption, RecordStatus DEF Remember
<1>4. ASSUME NEW d \in Calls, execution' = Remember(id[d], "unknown")
      PROVE  Status(execution', id[c]) \in {Status(execution, id[c]), "none"}
  BY <1>0, <1>4, HistoryAssumption, RecordStatus DEF Remember
<1>5. ASSUME NEW s \in Sockets, ReadCompletion(s), CompleteRequest(Head(toServer[s]))
      PROVE  Status(execution', id[c]) \in {Status(execution, id[c]), "none"}
  <2> DEFINE m == Head(toServer[s])
  <2>1. /\ m.id \in Nat /\ m.state \in States /\ m.script \in Calls
        /\ Evidenced(m.script, m.state)
        /\ \A d \in Calls : id[d] = m.id => d = m.script
    BY <1>5, CompletionRead
  <2>2. execution' = execution \/ execution' = Record(execution, m.id, m.state, HistoryLimit)
    BY <1>5 DEF CompleteRequest, Remember
  <2> HIDE DEF m
  <2>3. /\ Status(execution', id[c]) \in {m.state, Status(execution, id[c]), "none"}
        /\ id[c] # m.id => Status(execution', id[c]) \in {Status(execution, id[c]), "none"}
        /\ id[c] = m.id /\ m.state = "unknown" => Status(execution', id[c]) = Status(execution, id[c])
    BY <1>0, <2>1, <2>2, HistoryAssumption, RecordStatus
  <2>4. CASE id[c] = m.id /\ m.state # "unknown"
    <3>1. c = m.script
      BY <2>1, <2>4
    <3>2. PICK k \in DOMAIN execution :
             execution[k].id = id[c] /\ execution[k].state = Status(execution, id[c])
      BY StatusRecorded DEF Settled
    <3>3. Evidenced(c, Status(execution, id[c]))
      BY <3>2, NowEvidence DEF IInv
    <3>4. Status(execution, id[c]) = m.state
      BY <2>1, <2>4, <3>1, <3>3 DEF Settled, Evidenced, States
    <3> QED
      BY <2>3, <3>4
  <2> QED
    BY <2>3, <2>4
<1> QED
  BY <1>1, <1>2, <1>3, <1>4, <1>5, HistorySteps

(* Settled evidence is never taken back by a later timeout, cancellation or *)
(* duplicate; it can only be evicted.                                       *)
THEOREM EvidenceIsKept == Spec => EvidenceKept
<1>1. Init => Distinct(execution)
  BY DEF Init, Distinct
<1>2. IInv /\ Distinct(execution) /\ [Next]_vars =>
         [\A c \in Calls : id'[c] = id[c] /\ Settled(execution, id[c]) =>
             Status(execution', id[c]) \in {Status(execution, id[c]), "none"}]_vars
  BY StepKept
<1> QED
  BY <1>1, <1>2, Inductive, StepDistinct, PTL DEF Spec, EvidenceKept
=============================================================================
