------------------------------ MODULE Broadcasts ------------------------------
(***************************************************************************)
(* Broadcasts of the desktop: the registry behind HTTP and MCP              *)
(* (broadcast.rs of elsewhere-server) and the worker thread of each output  *)
(* (broadcast.rs of elsewhere-stream).  A start is repeated under the       *)
(* client's request id when its answer was lost; the registry remembers a   *)
(* broadcast while it runs, and ten minutes from its start if that is       *)
(* longer.  Stops, the end of a token and a sweep each second work through  *)
(* the entries under the registry's lock; the workers know nothing of it.   *)
(* Stopping is a flag first and a state second, and the worker looks at     *)
(* each on its own.                                                         *)
(*                                                                          *)
(* A request stands for its id and its settings: what is refused for its    *)
(* settings, the limit of 256 entries, and a compositor that is gone are    *)
(* left out, and so is what is encoded.                                     *)
(***************************************************************************)
EXTENDS Integers, FiniteSets

CONSTANTS
  Operator,     \* tokens that manage broadcasts
  RequestId,    \* request ids
  MaxOutput,    \* the bound: how many workers are ever started
  MAX_OUTPUTS   \* Capabilities.max_outputs: 4 in the code

ASSUME BroadcastAssumption == MaxOutput \in Nat /\ MAX_OUTPUTS \in Nat \ {0}

Outputs == 1..MaxOutput

VARIABLES
  entries,   \* Registry.entries: owner, request and attached
  aged,      \* the broadcasts started more than RETAIN ago
  origin,    \* the owner and the request each worker was started for
  thread,      \* where each worker's thread is
  stopped,   \* the workers whose flag is set
  progress,  \* Progress.state
  attached,  \* the sinks the compositor draws for
  good,      \* the tokens that are live
  guard      \* who holds the registry's lock, for what, and the entries it has yet to visit

broadcastVars == <<entries, aged, origin, thread, stopped, progress, attached, good, guard>>
registrySide == <<entries, attached, good, guard>>
workerSide == <<aged, origin, thread, stopped, progress>>

Free == [for |-> "none", todo |-> {}, flagged |-> {}]
Terminal(state) == state \in {"Stopped", "Failed"}
Started == DOMAIN origin
OfOwner(t) == {i \in DOMAIN entries : entries[i].owner = t}

-----------------------------------------------------------------------------
(* What takes the registry's lock. *)

Lock(purpose, todo) ==
  /\ guard = Free
  /\ guard' = [for |-> purpose, todo |-> todo, flagged |-> {}]
  /\ UNCHANGED <<workerSide, entries, attached, good>>

\* App::broadcast_stop
Stop(i) == i \in DOMAIN entries /\ good # {} /\ Lock("stop", {i})

\* stop_token_broadcasts, in a token's cleanup
StopToken(t) == t \notin good /\ Lock("stop", OfOwner(t))

\* broadcast_list, asked for by a client or each second by the sweep
List == Lock("list", DOMAIN entries)

\* broadcast_start is admitted, which holds back the end of its token, and sweeps first.
\* The bound: MaxOutput.
Start(t, r) ==
  /\ t \in good /\ Cardinality(Started) < MaxOutput
  /\ guard = Free
  /\ guard' = [for |-> "start", todo |-> DOMAIN entries, flagged |-> {}, owner |-> t, request |-> r]
  /\ UNCHANGED <<workerSide, entries, attached, good>>

\* Whether the holder of the lock stops an entry
Stops(i) == guard.for = "stop" \/ entries[i].owner \notin good

\* Running::stop: the flag
Flag(i) ==
  /\ i \in guard.todo \ guard.flagged /\ Stops(i)
  /\ stopped' = stopped \cup {i}
  /\ guard' = [guard EXCEPT !.flagged = @ \cup {i}]
  /\ UNCHANGED <<entries, aged, origin, thread, progress, attached, good>>

\* The state; and the sink is taken from the compositor if there will be no more frames:
\* after a stop at once, in a sweep when the worker has ended.
Visit(i) ==
  /\ i \in guard.todo /\ (i \in guard.flagged \/ ~Stops(i))
  /\ LET state == IF i \in guard.flagged /\ ~Terminal(progress[i]) THEN "Stopping" ELSE progress[i]
         detach == guard.for = "stop" \/ Terminal(state)
     IN  /\ progress' = [progress EXCEPT ![i] = state]
         /\ attached' = IF detach /\ entries[i].attached THEN attached \ {i} ELSE attached
         /\ entries' = [entries EXCEPT ![i].attached = @ /\ ~detach]
  /\ guard' = [guard EXCEPT !.todo = @ \ {i}, !.flagged = @ \ {i}]
  /\ UNCHANGED <<aged, origin, thread, stopped, good>>

\* broadcast_sweep_locked: what is remembered
Retained == {i \in DOMAIN entries : ~Terminal(progress[i]) \/ i \notin aged}

\* Running::drop, of what is not: the flag, which a worker that has failed may still read
Forgotten == DOMAIN entries \ Retained

\* The end of a stop
Unlock ==
  /\ guard.for = "stop" /\ guard.todo = {} /\ guard' = Free
  /\ UNCHANGED <<workerSide, entries, attached, good>>

\* and of a list
EndList ==
  /\ guard.for = "list" /\ guard.todo = {} /\ guard' = Free
  /\ entries' = [i \in Retained |-> entries[i]]
  /\ stopped' = stopped \cup Forgotten
  /\ UNCHANGED <<aged, origin, thread, progress, attached, good>>

Busy == Cardinality({i \in Retained : ~Terminal(progress[i])}) >= MAX_OUTPUTS
\* The request is looked for among what runs,
RepeatedRunning ==
  \E i \in Retained : /\ entries[i].owner = guard.owner /\ entries[i].request = guard.request
                      /\ ~Terminal(progress[i])

\* and here among all that is remembered
Repeated == \E i \in Retained : entries[i].owner = guard.owner /\ entries[i].request = guard.request

\* broadcast_start goes on: a request that is known is answered with its broadcast, and
\* nothing is started when too many run; otherwise a worker and a sink are.
Launch ==
  /\ guard.for = "start" /\ guard.todo = {} /\ guard' = Free
  /\ LET i == Cardinality(Started) + 1
         kept == [j \in Retained |-> entries[j]]
         entry == [owner |-> guard.owner, request |-> guard.request, attached |-> TRUE]
     IN  IF Repeated \/ Busy
         THEN entries' = kept /\ UNCHANGED <<aged, origin, thread, progress, attached>>
         ELSE /\ entries' = [j \in Retained \cup {i} |-> IF j = i THEN entry ELSE entries[j]]
              /\ attached' = attached \cup {i}
              /\ origin' = [j \in Started \cup {i} |-> IF j = i THEN <<guard.owner, guard.request>>
                                                       ELSE origin[j]]
              /\ thread' = [thread EXCEPT ![i] = "loop"]
              /\ progress' = [progress EXCEPT ![i] = "Starting"]
              /\ UNCHANGED aged
  /\ stopped' = stopped \cup Forgotten
  /\ UNCHANGED good

\* RETAIN has passed
Age(i) ==
  /\ i \in Started \ aged /\ aged' = aged \cup {i}
  /\ UNCHANGED <<registrySide, origin, thread, stopped, progress>>

\* A token expires, or is cancelled once no start of its own is under way.
EndOwner(t) ==
  /\ t \in good /\ good' = good \ {t}
  /\ UNCHANGED <<workerSide, entries, attached, guard>>

-----------------------------------------------------------------------------
(* A worker's thread (run, and the closure around it). *)

Go(i, from, to) == thread[i] = from /\ thread' = [thread EXCEPT ![i] = to]
Silently == UNCHANGED <<registrySide, aged, origin, stopped, progress>>
Says(i, state) ==
  /\ progress' = [progress EXCEPT ![i] = state]
  /\ UNCHANGED <<registrySide, aged, origin, stopped>>

\* the loop's condition, also after the two to thirty-two seconds of a reconnection,
\* which the flag cuts short
Loop(i) == Go(i, "loop", IF i \in stopped THEN "cancelled" ELSE "connecting") /\ Silently

\* Connection::new; then frames are sent until something fails or the flag is seen
Connect(i) == Go(i, "connecting", "sending") /\ Silently
SeeFlag(i) == i \in stopped /\ Go(i, "sending", "cancelled") /\ Silently

\* The network fails, or what cannot be repaired by connecting again; then the flag is read.
Break(i) ==
  \E from \in {"connecting", "sending"}, to \in {"reconnecting", "failing"} :
    Go(i, from, IF i \in stopped THEN "cancelled" ELSE to) /\ Silently

\* bytes have reached the destination: under the lock of the progress
ReportSending(i) ==
  /\ Go(i, "sending", "sending")
  /\ Says(i, IF progress[i] # "Stopping" THEN "Sending" ELSE "Stopping")

ReportFailed(i) == Go(i, "failing", "ending") /\ Says(i, "Failed")

\* The state is written whatever it is.
ReportAnyway(i) == Go(i, "reconnecting", "loop") /\ Says(i, "Reconnecting")

\* The worker may have been stopped since it read the flag.
ReportReconnecting(i) ==
  /\ Go(i, "reconnecting", "loop")
  /\ Says(i, IF progress[i] # "Stopping" THEN "Reconnecting" ELSE "Stopping")

\* stopped.swap at the end of the thread, after a failure or a panic: its old value tells
\* whether somebody had stopped the worker
Swap(i, from, to) ==
  /\ Go(i, from, IF i \in stopped THEN "cancelled" ELSE to)
  /\ stopped' = stopped \cup {i}
  /\ UNCHANGED <<registrySide, aged, origin, progress>>

EndThread(i) == Swap(i, "ending", "ended")
Panic(i) == \E from \in {"connecting", "sending"} : Swap(i, from, "crashed")

\* the last word: Failed stays, unless somebody had stopped the worker
LastWord(i) ==
  /\ thread[i] \in {"cancelled", "crashed", "ended"}
  /\ thread' = [thread EXCEPT ![i] = "over"]
  /\ Says(i, IF thread[i] = "crashed" \/ (thread[i] = "ended" /\ progress[i] = "Failed")
             THEN "Failed" ELSE "Stopped")

-----------------------------------------------------------------------------
BroadcastInit ==
  /\ entries = [i \in {} |-> Free] /\ origin = [i \in {} |-> Free]
  /\ aged = {} /\ stopped = {} /\ attached = {} /\ good = Operator /\ guard = Free
  /\ thread = [i \in Outputs |-> "none"] /\ progress = [i \in Outputs |-> "Starting"]

\* the holder of the lock
Registers ==
  \/ \E i \in Outputs : Flag(i) \/ (i \in guard.todo /\ Visit(i))
  \/ Unlock \/ EndList \/ Launch

BroadcastNext ==
  \/ \E i \in Outputs :
       \/ Stop(i) \/ Age(i) \/ Loop(i) \/ Connect(i) \/ SeeFlag(i) \/ Break(i) \/ ReportSending(i)
       \/ ReportFailed(i) \/ ReportReconnecting(i) \/ EndThread(i) \/ Panic(i) \/ LastWord(i)
  \/ \E t \in Operator : StopToken(t) \/ EndOwner(t) \/ \E r \in RequestId : Start(t, r)
  \/ List \/ Registers

BroadcastSpec == BroadcastInit /\ [][BroadcastNext]_broadcastVars

-----------------------------------------------------------------------------
(* Properties. *)

\* Every variable keeps its type.
BroadcastTypeOK ==
  /\ DOMAIN entries \subseteq Started /\ Started \subseteq Outputs
  /\ \A i \in DOMAIN entries :
       entries[i] \in [owner : Operator, request : RequestId, attached : BOOLEAN]
  /\ \A i \in Started : origin[i] \in Operator \X RequestId
  /\ aged \subseteq Outputs /\ stopped \subseteq Outputs /\ attached \subseteq Outputs
  /\ progress \in [Outputs -> {"Starting", "Sending", "Reconnecting", "Stopping", "Stopped", "Failed"}]
  /\ good \subseteq Operator

\* A start that is repeated within ten minutes, or while its broadcast runs, never begins
\* a second one, whatever became of the first; and no more of them run than the server
\* allows, those included that were stopped and have not ended.
OneOutputEach ==
  /\ \A i, j \in Started : i < j /\ origin[i] = origin[j] => Terminal(progress[i]) /\ i \in aged
  /\ Cardinality({i \in Started : ~Terminal(progress[i])}) <= MAX_OUTPUTS

\* A broadcast that was stopped never shows itself at work again, and is not revived
\* either, however the flag and the state of Running::stop fall between the worker's own
\* steps.
StopsForGood ==
  [][\A i \in Outputs :
       /\ progress[i] = "Stopping" => progress'[i] \in {"Stopping", "Stopped", "Failed"}
       /\ i \in Started /\ Terminal(progress[i]) => Terminal(progress'[i])]_broadcastVars

\* Stop "detaches frame input" (docs/broadcasts.md:117): the compositor draws for a
\* broadcast only as long as the registry knows of it, and so can take its sink away.
DetachesInput == \A i \in attached : i \in DOMAIN entries /\ entries[i].attached
=============================================================================
