-------------------------- MODULE BridgeInvariant --------------------------
(***************************************************************************)
(* The inductive strengthening of RetryIsSafe: where the one copy of each  *)
(* request is, and why every statement about it, in a channel, in the      *)
(* history or given to a caller, is true.                                  *)
(***************************************************************************)
EXTENDS Bridge

(* The connection belongs to the present server process and is still read.  *)
Live(s) == handler[s] \in {"start", "stale", "reading"}

(* A socket that was never opened has left no trace, and only connections   *)
(* of the present process carry anything to it.                             *)
SocketLife ==
    /\ \A s \in Sockets : readyState[s] = "none" =>
          handler[s] = "none" /\ toPanel[s] = <<>>
    /\ \A s \in Sockets : link[s] = "open" \/ toServer[s] # <<>> => Live(s)
    /\ active # None => readyState[active.socket] # "none"

(* Request ids identify the calls of the present process.                   *)
IdsUnique ==
    /\ \A c \in Calls : id[c] <= requestId
    /\ \A c, d \in Calls : id[c] = id[d] /\ id[c] # 0 => c = d
    /\ \A k \in DOMAIN execution : execution[k].id \in 1..requestId
    /\ \A c \in Calls : pc[c] \in InFlight => id[c] # 0

(* A call that was not made has left no trace.                              *)
IdleUntouched ==
    \A c \in Calls : pc[c] = "idle" =>
        id[c] = 0 /\ script[c] = "fresh" /\ NotQueued(c) /\ answer[c] = "none"

(* A queued request has not run, is queued once, and carries its call's id  *)
(* if the process that sent it is still there.                              *)
QueuedOnce ==
    /\ \A s \in Sockets : \A k \in DOMAIN toPanel[s] :
          /\ script[toPanel[s][k].script] = "fresh"
          /\ toPanel[s][k].id # 0
          /\ Live(s) => id[toPanel[s][k].script] = toPanel[s][k].id
    /\ \A s, t \in Sockets : \A k \in DOMAIN toPanel[s], l \in DOMAIN toPanel[t] :
          toPanel[s][k].script = toPanel[t][l].script => s = t /\ k = l

ActiveRuns ==
    active # None =>
        /\ script[active.script] = "running"
        /\ active.id # 0
        /\ Live(active.socket) => id[active.script] = active.id

(* What the state st says about the script of call c.                       *)
Evidenced(c, st) ==
    /\ st = "completed" => script[c] = "finished"
    /\ st = "not_started" => script[c] = "fresh" /\ NotQueued(c)

CompletionsTrue ==
    \A s \in Sockets : \A k \in DOMAIN toServer[s] :
        toServer[s][k].type = "complete" =>
            /\ toServer[s][k].id # 0
            /\ id[toServer[s][k].script] = toServer[s][k].id
            /\ Evidenced(toServer[s][k].script, toServer[s][k].state)

AnswersTrue == \A c \in Calls : Evidenced(c, answer[c])

IInv == /\ TypeOK
        /\ SocketLife
        /\ IdsUnique
        /\ IdleUntouched
        /\ QueuedOnce
        /\ ActiveRuns
        /\ CompletionsTrue
        /\ EvidenceIsTrue
        /\ AnswersTrue
        /\ RightResult
=============================================================================
