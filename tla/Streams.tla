------------------------------- MODULE Streams -------------------------------
(* Streaming requests: execute_script_streaming of websocket_bridge.py, the   *)
(* queues of request_registry.py, the panel's callback for them and the       *)
(* connections they travel on.  Each consumer is an asynchronous generator    *)
(* over another one, stream_updates; both stop wherever the consumer stops    *)
(* asking, and are finalised later.                                           *)
EXTENDS Naturals, Sequences, SequencesExt

CONSTANTS Calls,        \* calls of execute_script_streaming; ids are not used twice
          Sockets,      \* connections of the panel
          None,         \* no connection, no script
          QueueSize,    \* maxsize of a queue
          UpdateCounts  \* bound: how many progress updates a script reports

ASSUME StreamsAssumption ==
    /\ None \notin Calls \cup Sockets
    /\ QueueSize \in Nat \ {0} /\ UpdateCounts \subseteq Nat

VARIABLES conn,         \* connections as the server sees them
          slot,         \* server.client
          toPanel,      \* requests under way, by connection
          toServer,     \* responses under way, by connection
          active,       \* the streaming script the panel runs, and for whom
          script,       \* what Illustrator has done with the script of a call
          stream        \* registry entry, queue and consumer of a call

vars == <<conn, slot, toPanel, toServer, active, script, stream>>

(* What a consumer is given: progress, by its number, or the end of a stream. *)
Update(k) == <<"progress", k>>
End(how)  == <<how, 0>>
Updates == {Update(k) : k \in UNION {1..n : n \in UpdateCounts}}
Finals  == {End(how) : how \in {"completed", "not_started", "unknown", "cancelled"}}
Ends    == Finals \cup {End(how) : how \in {"timeout", "error", "refused"}}
Message == [call: Calls, body: Updates \cup Finals]

(* entry: the id is in _streaming; on: the connection it was sent on.  at:    *)
(* where the generator is - draining ws.send, waiting for the queue, suspended *)
(* at a yield, left for the garbage collector, or over.  told, excused and    *)
(* full are history variables: what the consumer was given, whether it lost   *)
(* interest or cancel_all took its entry during the send, and whether a       *)
(* message found the queue full.                                              *)
Stream == [at: {"idle", "sending", "waiting", "given", "left", "over"},
           on: Sockets \cup {None}, entry: BOOLEAN, completed: BOOLEAN, queue: Seq(Updates \cup Finals),
           told: Seq(Updates \cup Ends), began: BOOLEAN, excused: BOOLEAN, full: BOOLEAN]

StreamsTypeOK ==
    /\ conn \in [Sockets -> {"new", "open", "dead", "gone"}]
    /\ slot \in Sockets \cup {None}
    /\ toPanel \in [Sockets -> Seq(Calls)] /\ toServer \in [Sockets -> Seq(Message)]
    /\ active \in {None} \cup (Calls \X Sockets)
    /\ script \in [Calls -> {"none", "running", "done", "thrown"}]
    /\ stream \in [Calls -> Stream]
    /\ \A c \in Calls : Len(stream[c].queue) <= QueueSize

Init ==
    /\ conn = [s \in Sockets |-> "new"] /\ slot = None
    /\ toPanel = [s \in Sockets |-> <<>>] /\ toServer = [s \in Sockets |-> <<>>]
    /\ active = None
    /\ script = [c \in Calls |-> "none"]
    /\ stream = [c \in Calls |->
         [at |-> "idle", on |-> None, entry |-> FALSE, completed |-> FALSE, queue |-> <<>>, told |-> <<>>,
          began |-> FALSE, excused |-> FALSE, full |-> FALSE]]

linkvars  == <<conn, slot>>
panelvars == <<toPanel, toServer, active, script>>

-----------------------------------------------------------------------------
(* The registry *)

(* A generator ends; without an entry its queue is garbage with it.  Of what  *)
(* its consumer was told the end is remembered.                               *)
EndOf(t) == IF t # <<>> /\ Last(t) \in Ends THEN <<Last(t)>> ELSE <<>>
Ended(r) ==
    [r EXCEPT !.at = "over", !.on = None, !.began = @ /\ r.entry, !.full = FALSE,
              !.queue = IF r.entry THEN @ ELSE <<>>,
              !.told = EndOf(@)]
Removed(r) == Ended([r EXCEPT !.entry = FALSE])

Full(q) == Len(q) >= QueueSize

(* Mutant: the queue has no limit. *)
push_update_unbounded(r, update) ==
    IF r.entry THEN [r EXCEPT !.queue = Append(@, update)] ELSE r
push_update(r, update) ==
    IF ~r.entry THEN r
    ELSE IF Full(r.queue) THEN [r EXCEPT !.full = TRUE]
    ELSE [r EXCEPT !.queue = Append(@, update)]

(* Mutant: the entry is removed with the final result. *)
complete_streaming_removes(r, final) ==
    IF ~r.entry \/ r.completed \/ Full(r.queue) THEN r
    ELSE [r EXCEPT !.queue = Append(@, final), !.completed = TRUE, !.entry = FALSE]

(* The final result goes through the queue; the entry is left for the reader  *)
(* of the queue to remove.                                                    *)
complete_streaming(r, final) ==
    IF ~r.entry \/ r.completed THEN r
    ELSE IF Full(r.queue) THEN [r EXCEPT !.full = TRUE]
    ELSE [r EXCEPT !.queue = Append(@, final), !.completed = TRUE]

cancel_all ==
    [c \in Calls |->
        LET r == stream[c] IN
        IF ~r.entry THEN r ELSE IF r.at = "over" THEN Removed(r)
        ELSE [r EXCEPT !.entry = FALSE, !.excused = @ \/ r.at = "sending",
                       !.queue = IF Full(@) THEN @ ELSE Append(@, End("cancelled")),
                       !.full = @ \/ Full(r.queue)]]

-----------------------------------------------------------------------------
(* The connection *)

Connected == slot # None /\ conn[slot] = "open"

(* _handle_client: a second client is rejected, a dead one replaced.  The     *)
(* wait for its close, in which another client can come first, is part of     *)
(* Bridge.                                                                    *)
TakeSlot(s) ==
    /\ conn[s] = "new" /\ ~Connected
    /\ conn' = [conn EXCEPT ![s] = "open"]
    /\ slot' = s
    /\ UNCHANGED <<panelvars, stream>>
Lose(s) ==
    /\ conn[s] = "open"
    /\ conn' = [conn EXCEPT ![s] = "dead"]
    /\ UNCHANGED <<slot, panelvars, stream>>
HandlerEnds(s) ==
    /\ conn[s] = "dead"
    /\ conn' = [conn EXCEPT ![s] = "gone"]
    /\ slot' = IF slot = s THEN None ELSE slot
    /\ stream' = IF slot = s THEN cancel_all ELSE stream
    /\ toServer' = [toServer EXCEPT ![s] = <<>>]
    /\ UNCHANGED <<toPanel, active, script>>
(* The watchdog cancels and closes: the connection is closing before close    *)
(* waits for anything.                                                        *)
WatchdogFires ==
    /\ Connected
    /\ conn' = [conn EXCEPT ![slot] = "dead"]
    /\ stream' = cancel_all
    /\ UNCHANGED <<slot, panelvars>>

(* _handle_message, for the connections whose handler still reads; an         *)
(* oversized result is dropped.                                               *)
ReadMessage(s) ==
    /\ conn[s] \in {"open", "dead"} /\ toServer[s] # <<>>
    /\ LET m == Head(toServer[s]) IN
         \/ m.body \in Updates
            /\ stream' = [stream EXCEPT ![m.call] = push_update(@, m.body)]
         \/ m.body \in Finals
            /\ stream' = [stream EXCEPT ![m.call] = complete_streaming(@, m.body)]
         \/ m.body = End("completed") /\ UNCHANGED stream
    /\ toServer' = [toServer EXCEPT ![s] = Tail(@)]
    /\ UNCHANGED <<linkvars, toPanel, active, script>>

-----------------------------------------------------------------------------
(* execute_script_streaming *)

At(c, place) == stream[c].at = place
Step(c, r) == /\ stream' = [stream EXCEPT ![c] = r]
              /\ UNCHANGED <<linkvars, panelvars>>

(* Not connected, or busy with a stream.  Plain requests and busy heartbeats, *)
(* the other reasons to refuse, are those of Bridge.                          *)
Refuse(c) ==
    /\ At(c, "idle")
    /\ ~Connected \/ \E d \in Calls : stream[d].entry
    /\ Step(c, [Ended(stream[c]) EXCEPT !.told = <<End("refused")>>])

Submit(c) ==
    /\ At(c, "idle")
    /\ Connected
    /\ \A d \in Calls : ~stream[d].entry
    /\ toPanel' = [toPanel EXCEPT ![slot] = Append(@, c)]
    /\ stream' = [stream EXCEPT ![c].at = "sending", ![c].on = slot, ![c].entry = TRUE]
    /\ UNCHANGED <<linkvars, toServer, active, script>>

(* The drain fails with the connection.  The error goes into a queue nobody   *)
(* reads, and to the consumer.                                                *)
SendFails(c) ==
    /\ At(c, "sending")
    /\ conn[stream[c].on] # "open"
    /\ Step(c, [Ended(complete_streaming(stream[c], End("unknown"))) EXCEPT !.told = <<End("error")>>])

(* stream_updates begins: it ends at once if its entry is gone. *)
Sent(c) ==
    /\ At(c, "sending")
    /\ Step(c, IF stream[c].entry THEN [stream[c] EXCEPT !.at = "waiting", !.began = TRUE]
               ELSE Ended(stream[c]))

TakeUpdate(c) ==
    /\ At(c, "waiting") /\ stream[c].queue # <<>>
    /\ Step(c, [stream[c] EXCEPT !.at = "given", !.queue = Tail(@),
                                 !.told = Append(@, Head(stream[c].queue))])
(* Mutant: no timeout while the connection is open. *)
TimesOutUnconnected(c) ==
    /\ At(c, "waiting") /\ stream[c].queue = <<>>
    /\ slot = None
    /\ Step(c, [stream[c] EXCEPT !.at = "given", !.told = Append(@, End("timeout"))])
TimesOut(c) ==
    /\ At(c, "waiting") /\ stream[c].queue = <<>>
    /\ Step(c, [stream[c] EXCEPT !.at = "given", !.told = Append(@, End("timeout"))])

(* Mutant: a timed-out stream ends without its finally clause. *)
ResumeUncleaned(c) ==
    /\ At(c, "given")
    /\ LET last == Last(stream[c].told) IN
         Step(c, IF last = End("timeout") THEN Ended(stream[c])
                 ELSE IF last \in Finals THEN [stream[c] EXCEPT !.at = "left"]
                 ELSE [stream[c] EXCEPT !.at = "waiting"])
(* Mutant: a timeout does not end the loop over the queue. *)
ResumeAfterTimeout(c) ==
    /\ At(c, "given")
    /\ Step(c, IF Last(stream[c].told) \in Finals THEN [stream[c] EXCEPT !.at = "left"]
               ELSE [stream[c] EXCEPT !.at = "waiting"])
(* The consumer asks for more.  After a timeout stream_updates ends and       *)
(* removes the entry; after a final update the outer generator ends first and *)
(* leaves it to its finalisation.                                             *)
Resume(c) ==
    /\ At(c, "given")
    /\ LET last == Last(stream[c].told) IN
         Step(c, IF last = End("timeout") THEN Removed(stream[c])
                 ELSE IF last \in Finals THEN [stream[c] EXCEPT !.at = "left"]
                 ELSE [stream[c] EXCEPT !.at = "waiting"])

(* The consumer loses interest, or its task is cancelled: the finally clause  *)
(* runs if the generator has come that far.                                   *)
Drop(c) ==
    /\ At(c, "given")
    /\ Step(c, [stream[c] EXCEPT !.at = "left", !.excused = TRUE])
Cancel(c) ==
    /\ stream[c].at \in {"sending", "waiting"}
    /\ Step(c, Ended([stream[c] EXCEPT !.excused = TRUE, !.entry = @ /\ ~stream[c].began]))
Finalise(c) ==
    /\ At(c, "left")
    /\ Step(c, Removed(stream[c]))

-----------------------------------------------------------------------------
(* The panel *)

First(s) == Head(toPanel[s])
Respond(s, bodies, c) ==
    toServer' = IF conn[s] # "open" THEN toServer
                ELSE [toServer EXCEPT ![s] = @ \o [k \in DOMAIN bodies |-> [call |-> c, body |-> bodies[k]]]]

(* Busy with this or another script, or without a host. *)
RejectRequest(s) ==
    /\ toPanel[s] # <<>>
    /\ toPanel' = [toPanel EXCEPT ![s] = Tail(@)]
    /\ Respond(s, <<End("not_started")>>, First(s))
    /\ UNCHANGED <<linkvars, active, script, stream>>
StartScript(s) ==
    /\ toPanel[s] # <<>> /\ active = None
    /\ toPanel' = [toPanel EXCEPT ![s] = Tail(@)]
    /\ active' = <<First(s), s>>
    /\ script' = [script EXCEPT ![First(s)] = "running"]
    /\ UNCHANGED <<linkvars, toServer, stream>>
(* Mutant: a host that throws is taken not to have run the script. *)
EvalThrowsNotStarted(s) ==
    /\ toPanel[s] # <<>> /\ active = None
    /\ toPanel' = [toPanel EXCEPT ![s] = Tail(@)]
    /\ Respond(s, <<End("not_started")>>, First(s))
    /\ script' = [script EXCEPT ![First(s)] = "thrown"]
    /\ UNCHANGED <<linkvars, active, stream>>
EvalThrows(s) ==
    /\ toPanel[s] # <<>> /\ active = None
    /\ toPanel' = [toPanel EXCEPT ![s] = Tail(@)]
    /\ Respond(s, <<End("unknown")>>, First(s))
    /\ script' = [script EXCEPT ![First(s)] = "thrown"]
    /\ UNCHANGED <<linkvars, active, stream>>
(* Mutant: the final response is sent before the updates. *)
ScriptReturnsFirst ==
    /\ active # None
    /\ \E n \in UpdateCounts :
         Respond(active[2], <<End("completed")>> \o [k \in 1..n |-> Update(k)], active[1])
    /\ script' = [script EXCEPT ![active[1]] = "done"]
    /\ active' = None
    /\ UNCHANGED <<linkvars, toPanel, stream>>
(* All updates of a script are sent when it has returned, then the result; a  *)
(* return value that cannot be parsed has no updates.                         *)
ScriptReturns ==
    /\ active # None
    /\ \/ \E n \in UpdateCounts :
            Respond(active[2], [k \in 1..n |-> Update(k)] \o <<End("completed")>>, active[1])
       \/ Respond(active[2], <<End("unknown")>>, active[1])
    /\ script' = [script EXCEPT ![active[1]] = "done"]
    /\ active' = None
    /\ UNCHANGED <<linkvars, toPanel, stream>>

Next ==
    \/ \E s \in Sockets :
          \/ TakeSlot(s) \/ Lose(s) \/ HandlerEnds(s) \/ ReadMessage(s)
          \/ RejectRequest(s) \/ StartScript(s) \/ EvalThrows(s)
    \/ WatchdogFires \/ ScriptReturns
    \/ \E c \in Calls :
          \/ Refuse(c) \/ Submit(c) \/ SendFails(c) \/ Sent(c)
          \/ TakeUpdate(c) \/ TimesOut(c) \/ Resume(c) \/ Drop(c) \/ Cancel(c) \/ Finalise(c)

(* A drain ends by the keepalive at the latest, wait_for by its timer;        *)
(* generators are finalised; a consumer that asks in a loop asks again or     *)
(* leaves.                                                                    *)
Fairness(c) == /\ WF_vars(Sent(c) \/ SendFails(c))
               /\ WF_vars(TakeUpdate(c) \/ TimesOut(c))
               /\ WF_vars(Resume(c) \/ Drop(c)) /\ WF_vars(Finalise(c))

Spec == Init /\ [][Next]_vars

-----------------------------------------------------------------------------
(* Correctness *)

(* A consumer gets the updates of its own script in their order, without a    *)
(* gap unless its queue was full, and the result after all of them: none is   *)
(* still under way when the script is reported completed.                     *)
UpdatesInOrder ==
    \A c \in Calls :
        LET t == stream[c].told
            under(s) == \E k \in DOMAIN toServer[s] :
                           toServer[s][k].call = c /\ toServer[s][k].body \in Updates
        IN /\ \A j, k \in DOMAIN t : j < k => t[j] \in Updates /\ (t[k] \in Updates => t[j][2] < t[k][2])
           /\ ~stream[c].full => \A k \in DOMAIN t : t[k] \in Updates => t[k] = Update(k)
           /\ End("completed") \in Range(t) => \A s \in Sockets : ~under(s)

(* A result is true, through lost, replaced and displaced connections: told   *)
(* completed, the script has returned; told not_started or refused, it has    *)
(* not run and no copy of it is on its way.                                   *)
FinalIsTrue ==
    \A c \in Calls :
        LET t == Range(stream[c].told) IN
        /\ End("completed") \in t => script[c] = "done"
        /\ t \cap {End("not_started"), End("refused")} # {} =>
             script[c] = "none" /\ \A s \in Sockets : c \notin Range(toPanel[s])

(* A consumer that keeps asking is told how its stream ended, also when the   *)
(* result was there before it began to read (request_registry.py:177-180),    *)
(* unless cancel_all took the entry while the request was being sent.         *)
ToldTheEnd ==
    \A c \in Calls :
        LET r == stream[c] IN
        r.at = "over" /\ ~r.excused => r.told # <<>> /\ Last(r.told) \in Ends

(* An entry, for which the bridge refuses all other work, belongs to a        *)
(* generator that will still remove it, or to one that ended before it began  *)
(* to read: its send failed or was cancelled.                                 *)
EntryHasReader ==
    \A c \in Calls : stream[c].entry /\ stream[c].began => stream[c].at # "over"

(* A stream keeps the promise of a plain call (ScriptCall): its end is told   *)
(* once and never taken back, "not_started" only for a script that has not    *)
(* run and never will, "completed" only after its end; whoever stops asking,  *)
(* or hears of a timeout, an error or a disconnect, knows nothing; no script  *)
(* runs twice.  Of a script the host threw at, no end is known.               *)
Verdict(how) == IF how = "completed" THEN "completed"
                ELSE IF how \in {"not_started", "refused"} THEN "not_started" ELSE "unknown"
ToldTo(r) == IF r.at = "idle" THEN "idle"
             ELSE IF r.told # <<>> /\ Last(r.told) \notin Updates THEN Verdict(Last(r.told)[1])
             ELSE IF r.at \in {"left", "over"} THEN "unknown" ELSE "open"
ToldConsumer == [c \in Calls |-> ToldTo(stream[c])]
Progress == [none |-> "fresh", running |-> "running", done |-> "finished", thrown |-> "running"]
SeenScript == [c \in Calls |-> Progress[script[c]]]
Promise == INSTANCE ScriptCall WITH told <- ToldConsumer, script <- SeenScript
StreamPromiseKept == Promise!Spec
=============================================================================
