---------------------------- MODULE ViewerStream ----------------------------
(***************************************************************************)
(* The video of one viewer: the compositor offers pictures to a sink, a    *)
(* worker thread encodes the newest one, a channel of two messages carries *)
(* the result to the viewer's session task, and that sends it to the page. *)
(*                                                                         *)
(* The sink, its control handle and the worker share one State under a     *)
(* mutex (crates/elsewhere-stream/src/viewer.rs); every time a thread takes*)
(* that mutex is one action.  A change of source, codec, size or effort    *)
(* restarts the stream in a new epoch, and everything made for an earlier  *)
(* epoch is void.  An epoch opens at most one encoder that is used, so the *)
(* epoch stands for the stream id as well.  An Option is a set of at most  *)
(* one element, or None == 0 for an epoch.                                 *)
(*                                                                         *)
(* Whether the encoder can change its bitrate in place (x264), how long    *)
(* anything takes, and what an encoded frame costs the byte budget are     *)
(* left open.                                                              *)
(***************************************************************************)
EXTENDS Integers, Sequences, FiniteSets

CONSTANTS
  Geometry,     \* what the compositor's output can look like
  Rate,         \* bitrates
  Candidates,   \* codecs in the longest preference list
  Modulus,      \* an encoder's frames are numbered modulo this
  Steady,       \* frames of one attempt that clear its codec's failures
  Budgets       \* bound: for one behaviour, how many changes of geometry, rate, effort
                \* or codecs, how many encoders that fail to open, to change rate or to
                \* encode, and how many frames the page drops because its decoder lags

ASSUME SetAssumption == Geometry # {} /\ Rate # {}
ASSUME CountAssumption ==
  /\ Candidates \in Nat /\ Modulus \in Nat \ {0} /\ Steady \in Nat \ {0}
  /\ Budgets # {} /\ Budgets \subseteq [changes : Nat, faults : Nat, losses : Nat]

Capacity == 2        \* mpsc::channel::<StreamMsg>(2)

Message == [kind : {"info", "frame", "failed"}, epoch : Nat, key : BOOLEAN, n : 0 .. Modulus - 1]
Encoder == [epoch : Nat, source : SUBSET Geometry, rate : Rate, info : BOOLEAN, n : 0 .. Modulus - 1]
Pc == {"idle", "opening", "rating", "taking", "encoding", "reporting",
       "reserving", "full", "blocked", "sending", "budget", "done"}

VARIABLES
  state,      \* State, the record under the mutex
  signal,     \* the permit of the control Notify
  worker,     \* the worker's local variables: its place, its snapshot, what it delivers
  active,     \* the worker's encoder: {} or {encoder}
  channel,    \* messages to the session
  closed,     \* the session's receiver is gone
  due,        \* the compositor will offer a complete picture
  selection,  \* CodecSelection
  accepted,   \* the message the session has taken and not yet acted on: {} or {message}
  info,       \* the stream the session was last told of, None without one
  page,       \* the page's decoder: its stream, whether it waits for a key, what it decoded last
  asked,      \* a REQUEST_KEYFRAME is on its way
  left        \* the changes, faults and losses still to come

shared == <<state, signal>>
session == <<selection, accepted, info>>
browser == <<page, asked>>
vars == <<shared, worker, active, channel, closed, due, session, browser, left>>

None == 0
NoFrame == [epoch |-> None, key |-> FALSE, n |-> 0]
NoPage == [epoch |-> None, awaiting |-> TRUE, last |-> NoFrame]

-----------------------------------------------------------------------------
(* State and the control handle. *)

\* A restart forgets that the output was blocked.
RestartUnderPressure(s) ==
  [s EXCEPT !.epoch = @ + 1, !.pending = {}, !.ready = FALSE, !.started = FALSE,
            !.failed = FALSE, !.inplace = FALSE]

\* A restart keeps the picture that was waiting.
RestartKeepingPicture(s) ==
  [s EXCEPT !.epoch = @ + 1, !.ready = FALSE, !.started = FALSE,
            !.failed = FALSE, !.pressure = FALSE, !.inplace = FALSE]

\* restart: inplace is effort.encoder = "libx264", and the effort is pending again
Restart(s) ==
  [s EXCEPT !.epoch = @ + 1, !.pending = {}, !.ready = FALSE, !.started = FALSE,
            !.failed = FALSE, !.pressure = FALSE, !.inplace = FALSE]

\* A delivery that waits for room does not hear of a restart.
UpdateUnsignalled(s) == state' = (IF state.stop THEN state ELSE s) /\ UNCHANGED signal

\* FfmpegControl::update: nothing once the sink is gone; a restart also wakes a
\* delivery that waits for room.
Update(s) ==
  /\ state' = IF state.stop THEN state ELSE s
  /\ signal' = (signal \/ state'.epoch # state.epoch)

Codec(sel) == sel.index < sel.size

\* set_codec, or pause when no candidate is left
Selected(sel, s) == Restart([s EXCEPT !.paused = ~Codec(sel)])

Spend(what) == left[what] > 0 /\ left' = [left EXCEPT ![what] = @ - 1]

-----------------------------------------------------------------------------
(* The compositor's thread. *)

Attached == state.source # {} /\ ~state.stop

\* start_viewer_stream: the sink learns the output's geometry
Attach ==
  /\ state.source = {} /\ ~state.stop
  /\ \E g \in Geometry : Update(Restart([state EXCEPT !.source = {g}]))
  /\ due' = TRUE
  /\ UNCHANGED <<worker, active, channel, closed, session, browser, left>>

\* resize: output_changed, and a complete picture is due
Resize(g) ==
  /\ Attached /\ g \notin state.source
  /\ Spend("changes")
  /\ Update(Restart([state EXCEPT !.source = {g}]))
  /\ due' = TRUE
  /\ UNCHANGED <<worker, active, channel, closed, session, browser>>

\* A client commits, or the picture settled and is sent once more.
Damage ==
  /\ Attached /\ ~due
  /\ due' = TRUE
  /\ UNCHANGED <<shared, worker, active, channel, closed, session, browser, left>>

\* submit: Deferred while the stream is not ready or its output blocked; else the
\* picture replaces the one that waits, and is offered again (Held) until the
\* stream has started
Submit ==
  /\ Attached /\ due
  /\ IF ~state.ready \/ state.pressure
     THEN due' = FALSE /\ UNCHANGED state
     ELSE due' = ~state.started /\ state' = [state EXCEPT !.pending = state.source]
  /\ UNCHANGED <<signal, worker, active, channel, closed, session, browser, left>>

\* stop_viewer_stream: dropping the sink stops its worker, wherever it waits.
DropSinkQuietly ==
  /\ ~state.stop
  /\ state' = [state EXCEPT !.stop = TRUE, !.pending = {}]
  /\ UNCHANGED <<signal, worker, active, channel, closed, due, session, browser, left>>

DropSink ==
  /\ ~state.stop
  /\ state' = [state EXCEPT !.stop = TRUE, !.pending = {}]
  /\ signal' = TRUE
  /\ UNCHANGED <<worker, active, channel, closed, due, session, browser, left>>

-----------------------------------------------------------------------------
(* The worker: run.  Each step that takes the mutex drops everything made for *)
(* an epoch that is over.                                                     *)

Goto(pc) == worker' = [worker EXCEPT !.pc = pc]
\* back to the top of the loop, without the locals of this turn
Fresh(w) == [w EXCEPT !.pc = "idle", !.source = {}, !.epoch = None, !.key = FALSE, !.batch = <<>>]
Idle == worker' = Fresh(worker)
Done == worker' = [Fresh(worker) EXCEPT !.pc = "done"]
Over == state.stop \/ state.epoch # worker.epoch

outside == <<closed, session, browser>>   \* what no worker step changes

\* The top of the loop: end, or take a snapshot of the settings and go on with it.
\* A lower rate may put the byte budget into debt.
Begin ==
  LET stale == active = {} \/ \E a \in active : a.epoch # state.epoch
      slow == \E a \in active : a.rate # state.rate
  IN  /\ worker.pc = "idle"
      /\ IF state.stop \/ closed THEN Done
         ELSE /\ state.source # {} /\ ~state.paused /\ ~state.failed
              /\ stale \/ slow \/ state.pending # {}
              /\ \E debt \in {worker.debt, worker.debt \/ worker.rate # state.rate} :
                   worker' = [worker EXCEPT
                     !.pc = IF stale THEN "opening" ELSE IF slow THEN "rating" ELSE "taking",
                     !.epoch = state.epoch, !.source = state.source, !.rate = state.rate,
                     !.debt = debt]
      /\ active' = IF worker'.pc \in {"opening", "done"} THEN {} ELSE active
      /\ UNCHANGED <<shared, channel, due, left, outside>>

Fault == Spend("faults")
NoFault == UNCHANGED left
Failure == <<[kind |-> "failed", epoch |-> worker.epoch, key |-> FALSE, n |-> 0]>>

\* the epoch has failed, and its report is delivered next
FailEpoch ==
  /\ state' = [state EXCEPT !.failed = TRUE, !.ready = FALSE, !.pending = {}]
  /\ worker' = [worker EXCEPT !.pc = "reserving", !.batch = Failure]
  /\ UNCHANGED <<signal, channel, due>>

\* The encoder of an epoch that is over is put to use.
OpenLate ==
  /\ worker.pc = "opening" /\ ~state.stop
  /\ NoFault /\ due' = TRUE /\ Idle
  /\ \E x264 \in BOOLEAN :
       state' = [state EXCEPT !.ready = TRUE, !.keyframe = TRUE, !.inplace = x264]
  /\ active' = {[epoch |-> worker.epoch, source |-> worker.source, rate |-> worker.rate,
                  info |-> TRUE, n |-> 0]}
  /\ UNCHANGED <<signal, channel, outside>>

\* Active::open has returned
Open ==
  /\ worker.pc = "opening"
  /\ \/ /\ Over /\ NoFault
        /\ IF state.stop THEN Done ELSE Idle
        /\ UNCHANGED <<shared, channel, active, due>>
     \/ /\ ~Over /\ NoFault /\ due' = TRUE /\ Idle
        /\ \E x264 \in BOOLEAN :
             state' = [state EXCEPT !.ready = TRUE, !.keyframe = TRUE, !.inplace = x264]
        /\ active' = {[epoch |-> worker.epoch, source |-> worker.source, rate |-> worker.rate,
                        info |-> TRUE, n |-> 0]}
        /\ UNCHANGED <<signal, channel>>
     \/ ~Over /\ Fault /\ FailEpoch /\ UNCHANGED active
  /\ UNCHANGED outside

\* set_rate, which only an encoder that was not restarted is asked for
SetRate ==
  /\ worker.pc = "rating"
  /\ \/ /\ NoFault /\ Goto("taking") /\ due' = TRUE
        /\ active' = {[a EXCEPT !.rate = worker.rate] : a \in active}
     \/ Fault /\ active' = {} /\ Goto("reporting") /\ UNCHANGED due
  /\ UNCHANGED <<shared, channel, outside>>

\* A refused picture takes the request for a key frame with it.
TakeEagerly ==
  /\ worker.pc = "taking"
  /\ \/ /\ state.epoch # worker.epoch \/ ~state.ready \/ state.pending = {}
        /\ Idle /\ UNCHANGED state
     \/ /\ state.epoch = worker.epoch /\ state.ready /\ state.pending # {} /\ worker.debt
        /\ state' = [state EXCEPT !.pressure = TRUE, !.pending = {}, !.keyframe = FALSE]
        /\ Goto("budget")
     \/ /\ state.epoch = worker.epoch /\ state.ready /\ state.pending # {}
        /\ state' = [state EXCEPT !.pending = {}, !.keyframe = FALSE]
        /\ worker' = [worker EXCEPT !.pc = "encoding", !.key = state.keyframe]
  /\ UNCHANGED <<signal, active, channel, due, left, outside>>

\* The pending picture goes to the encoder, or waits for the byte budget: then
\* the picture is let go and the output counts as blocked.
Take ==
  /\ worker.pc = "taking"
  /\ \/ /\ state.epoch # worker.epoch \/ ~state.ready \/ state.pending = {}
        /\ Idle /\ UNCHANGED <<state, due>>
     \/ /\ state.epoch = worker.epoch /\ state.ready /\ state.pending # {} /\ worker.debt
        /\ state' = [state EXCEPT !.pressure = TRUE, !.pending = {}]
        /\ Goto("budget") /\ UNCHANGED due
     \/ /\ state.epoch = worker.epoch /\ state.ready /\ state.pending # {}
        /\ state' = [state EXCEPT !.pending = {}, !.keyframe = FALSE]
        /\ IF state.pending = worker.source
           THEN worker' = [worker EXCEPT !.pc = "encoding", !.key = state.keyframe] /\ UNCHANGED due
           ELSE Idle /\ due' = TRUE
  /\ UNCHANGED <<signal, active, channel, left, outside>>

\* wait_for_admission
Budget ==
  /\ worker.pc = "budget"
  /\ \/ /\ Over \/ closed
        /\ Idle /\ UNCHANGED <<state, due>>
     \/ /\ ~Over /\ ~closed
        /\ state' = [state EXCEPT !.pressure = FALSE] /\ due' = TRUE
        /\ worker' = [Fresh(worker) EXCEPT !.debt = FALSE]
  /\ UNCHANGED <<signal, active, channel, left, outside>>

\* convert and encode: one packet for one picture, with the stream's description
\* before the first, which is a key; the encoder may choose a key unasked
Encode ==
  /\ worker.pc = "encoding"
  /\ \/ Fault /\ active' = {} /\ Goto("reporting")
     \/ \E a \in active, key \in BOOLEAN :
          LET frame == [kind |-> "frame", epoch |-> worker.epoch, key |-> key, n |-> a.n]
              description == [kind |-> "info", epoch |-> worker.epoch, key |-> FALSE, n |-> 0]
          IN  /\ NoFault
              /\ worker.key \/ a.info => key
              /\ active' = {[a EXCEPT !.info = FALSE, !.n = (@ + 1) % Modulus]}
              /\ worker' = [worker EXCEPT !.pc = "reserving", !.key = FALSE,
                              !.batch = IF a.info THEN <<description, frame>> ELSE <<frame>>]
  /\ UNCHANGED <<shared, channel, due, outside>>

\* The failure of an encoder is reported, and the epoch goes on.
ReportOnly ==
  /\ worker.pc = "reporting"
  /\ worker' = [worker EXCEPT !.pc = "reserving", !.batch = Failure]
  /\ UNCHANGED <<shared, channel, due, active, left, outside>>

\* report_failure
Report ==
  /\ worker.pc = "reporting"
  /\ IF state.epoch # worker.epoch THEN Idle /\ UNCHANGED <<shared, channel, due>> ELSE FailEpoch
  /\ UNCHANGED <<active, left, outside>>

-----------------------------------------------------------------------------
(* deliver: the batch goes out as a whole, or not at all. *)

Room == Len(channel) + Len(worker.batch) <= Capacity
DeliveryFrame == UNCHANGED <<active, left, outside>>

\* the check and try_reserve_many: only this worker fills the channel, so a
\* reservation is the room it saw
Reserve ==
  /\ worker.pc = "reserving"
  /\ IF Over \/ closed THEN Idle ELSE Goto(IF Room THEN "sending" ELSE "full")
  /\ UNCHANGED <<shared, channel, due>> /\ DeliveryFrame

\* A frame that finds no room is dropped, and the stream goes on.
FullDrops ==
  /\ worker.pc = "full"
  /\ Idle
  /\ UNCHANGED <<shared, channel, due>> /\ DeliveryFrame

\* the output is blocked: let go of the picture that waits
Full ==
  /\ worker.pc = "full"
  /\ IF Over THEN Idle /\ UNCHANGED state
     ELSE state' = [state EXCEPT !.pressure = TRUE, !.pending = {}] /\ Goto("blocked")
  /\ UNCHANGED <<signal, channel, due>> /\ DeliveryFrame

\* select!, biased: a control change is heard before room is
Wake ==
  /\ worker.pc = "blocked"
  /\ \/ signal /\ signal' = FALSE /\ Goto("reserving")
     \/ ~signal /\ closed /\ Idle /\ UNCHANGED signal
     \/ ~signal /\ ~closed /\ Room /\ Goto("sending") /\ UNCHANGED signal
  /\ UNCHANGED <<state, channel, due>> /\ DeliveryFrame

\* The batch is sent under the mutex.  A key starts the stream; an output that was
\* blocked asks for a complete picture; a frame, not a failure, costs budget.
Send ==
  /\ worker.pc = "sending"
  /\ IF Over THEN Idle /\ UNCHANGED <<state, channel, due>>
     ELSE /\ channel' = IF closed THEN channel ELSE channel \o worker.batch
          /\ state' = [state EXCEPT !.pressure = FALSE,
                         !.started = @ \/ \E i \in DOMAIN worker.batch : worker.batch[i].key]
          /\ due' = (due \/ state.pressure)
          /\ \E debt \in BOOLEAN :
               /\ worker.batch = Failure => debt = worker.debt
               /\ worker' = [Fresh(worker) EXCEPT !.debt = debt]
  /\ UNCHANGED signal /\ DeliveryFrame

-----------------------------------------------------------------------------
(* The session's task.  It takes a message, checks its epoch under one lock *)
(* and acts on it under another: the epoch may move in between.             *)

sink == <<worker, active>>   \* what no session step changes

\* accepts: a codec is left, the sink is there and the epoch is the current one
Accepts(m) == Codec(selection) /\ ~state.stop /\ m.epoch = state.epoch

Receive ==
  /\ ~closed /\ accepted = {} /\ channel # <<>>
  /\ channel' = Tail(channel)
  /\ accepted' = {m \in {Head(channel)} : Accepts(m)}
  /\ UNCHANGED <<shared, sink, closed, due, selection, info, browser, left>>

Configure ==
  /\ \E m \in accepted : m.kind = "info" /\ info' = m.epoch
  /\ accepted' = {}
  /\ UNCHANGED <<shared, sink, channel, closed, due, selection, browser, left>>

\* CodecSelection::failed: the second failure in a row moves on to the next codec
Failed(sel) ==
  IF sel.failures = 1 THEN [sel EXCEPT !.index = @ + 1, !.failures = 0, !.frames = 0, !.of = None]
  ELSE [sel EXCEPT !.failures = @ + 1, !.frames = 0, !.of = None]

Recover ==
  /\ \E m \in accepted : m.kind = "failed"
  /\ selection' = Failed(selection)
  /\ Update(Selected(selection', state))
  /\ info' = None /\ due' = TRUE /\ accepted' = {}
  /\ UNCHANGED <<sink, channel, closed, browser, left>>

\* CodecSelection::frame: enough frames of one attempt, over two seconds, clear
\* the failures; whether the time has passed is open
Counted(sel, e) ==
  LET frames == IF sel.of # e THEN 1 ELSE IF sel.frames < Steady THEN sel.frames + 1 ELSE Steady
  IN  {[sel EXCEPT !.of = e, !.frames = frames, !.failures = f] :
         f \in {sel.failures} \cup (IF frames = Steady THEN {0} ELSE {})}

\* What the page makes of a frame after the stream's description, which it gets once
\* per stream: a fresh decoder waits for a key, and every stream but the first asks
\* for one.
Configured(e) ==
  IF page.epoch = e THEN [page |-> page, asked |-> asked]
  ELSE [page |-> [page EXCEPT !.epoch = e, !.awaiting = TRUE],
        asked |-> asked \/ page.epoch # None]

\* decoding a frame, unless it is a delta and the page awaits a key
Shown(p, m) ==
  IF ~m.key /\ p.awaiting THEN p
  ELSE [p EXCEPT !.awaiting = FALSE, !.last = [epoch |-> m.epoch, key |-> m.key, n |-> m.n]]

Present ==
  /\ \E m \in accepted :
       /\ m.kind = "frame"
       /\ selection' \in Counted(selection, m.epoch)
       /\ LET c == Configured(m.epoch) IN
          IF info # m.epoch THEN UNCHANGED <<browser, left>>
          ELSE \/ page' = Shown(c.page, m) /\ asked' = c.asked /\ UNCHANGED left
               \/ \* the decoder lags: a delta is dropped, and a key asked for
                  /\ ~m.key /\ ~c.page.awaiting
                  /\ Spend("losses")
                  /\ page' = [c.page EXCEPT !.awaiting = TRUE] /\ asked' = TRUE
  /\ accepted' = {}
  /\ UNCHANGED <<shared, sink, channel, closed, due, info>>

\* REQUEST_KEYFRAME arrives
RequestKeyframe ==
  /\ asked /\ ~closed /\ accepted = {}
  /\ asked' = FALSE
  /\ Update([state EXCEPT !.keyframe = TRUE])
  /\ due' = TRUE
  /\ UNCHANGED <<sink, channel, closed, session, page, left>>

\* The page's own choices, and the rate controller's
Change == ~closed /\ accepted = {} /\ Spend("changes")

\* apply_choice with a preference list, of which the server supports k codecs
Choose(k) ==
  /\ Change
  /\ selection' = [index |-> 0, size |-> k, failures |-> 0, frames |-> 0, of |-> None]
  /\ Update(Selected(selection', state)) /\ due' = TRUE
  /\ UNCHANGED <<sink, channel, closed, accepted, info, browser>>

\* set_effort or set_size with another value
Retune ==
  /\ Change
  /\ Update(Restart(state)) /\ due' = TRUE
  /\ UNCHANGED <<sink, channel, closed, session, browser>>

\* set_quality: an encoder that can changes its rate in place
SetQuality(r) ==
  /\ r # state.rate /\ Change
  /\ Update(LET s == [state EXCEPT !.rate = r] IN IF state.inplace THEN s ELSE Restart(s))
  /\ UNCHANGED <<sink, channel, closed, due, session, browser>>

\* The session ends, its receiver and the page with it, and the compositor will
\* be told to drop the sink.
Close ==
  /\ ~closed
  /\ closed' = TRUE /\ accepted' = {} /\ channel' = <<>> /\ info' = None
  /\ page' = NoPage /\ asked' = FALSE
  /\ UNCHANGED <<shared, sink, due, selection, left>>

-----------------------------------------------------------------------------
Init ==
  /\ \E r \in Rate, k \in 0 .. Candidates :
       /\ state = [source |-> {}, rate |-> r, epoch |-> 1, pending |-> {}, ready |-> FALSE,
                   started |-> FALSE, pressure |-> FALSE, failed |-> FALSE, stop |-> FALSE,
                   paused |-> k = 0, keyframe |-> TRUE, inplace |-> FALSE]
       /\ selection = [index |-> 0, size |-> k, failures |-> 0, frames |-> 0, of |-> None]
       /\ worker = [pc |-> "idle", source |-> {}, rate |-> r, epoch |-> 0, key |-> FALSE,
                    batch |-> <<>>, debt |-> FALSE]
  /\ signal = TRUE    \* set_codec of the first candidate has restarted the stream
  /\ active = {} /\ channel = <<>> /\ closed = FALSE /\ due = FALSE
  /\ accepted = {} /\ info = None
  /\ page = NoPage /\ asked = FALSE
  /\ left \in Budgets

Compositor == Attach \/ (\E g \in Geometry : Resize(g)) \/ Damage \/ Submit \/ DropSink

Encoding == Begin \/ Open \/ SetRate \/ Take \/ Budget \/ Encode \/ Report
Delivery == Reserve \/ Full \/ Wake \/ Send
Worker == Encoding \/ Delivery

Reading == Receive \/ Configure \/ Recover \/ Present
Choosing == (\E k \in 0 .. Candidates : Choose(k)) \/ Retune \/ (\E r \in Rate : SetQuality(r))
Session == Reading \/ RequestKeyframe \/ Choosing \/ Close

Next == Compositor \/ Worker \/ Session

Spec == Init /\ [][Next]_vars

\* The worker thread runs.
WorkerSpec == Spec /\ WF_vars(Worker)

\* The compositor starts the stream and offers the pictures that are due, and the
\* session reads its channel and its socket: select! polls its branches in random
\* order, so video that is always ready does not keep it from the socket for ever.
\* Nobody has to change anything, to commit anything or to leave.
OthersAreFair ==
  /\ WF_vars(Attach) /\ WF_vars(Submit)
  /\ WF_vars(Reading) /\ SF_vars(RequestKeyframe)
  /\ WF_vars(closed /\ DropSink)

-----------------------------------------------------------------------------
(* Properties. *)

State ==
  [source : SUBSET Geometry, rate : Rate, epoch : Nat, pending : SUBSET Geometry,
   ready : BOOLEAN, started : BOOLEAN, pressure : BOOLEAN, failed : BOOLEAN, stop : BOOLEAN,
   paused : BOOLEAN, keyframe : BOOLEAN, inplace : BOOLEAN]
WorkerState ==
  [pc : Pc, source : SUBSET Geometry, rate : Rate, epoch : Nat, key : BOOLEAN,
   batch : Seq(Message), debt : BOOLEAN]
Selection == [index : Nat, size : Nat, failures : 0 .. 1, frames : 0 .. Steady, of : Nat]

\* Every variable keeps its type.
TypeOK ==
  /\ state \in State /\ worker \in WorkerState
  /\ signal \in BOOLEAN /\ closed \in BOOLEAN /\ due \in BOOLEAN /\ asked \in BOOLEAN
  /\ active \in SUBSET Encoder
  /\ channel \in Seq(Message)
  /\ selection \in Selection
  /\ accepted \in SUBSET Message
  /\ info \in Nat
  /\ page \in [epoch : Nat, awaiting : BOOLEAN, last : [epoch : Nat, key : BOOLEAN, n : 0 .. Modulus - 1]]
  /\ left \in [changes : Nat, faults : Nat, losses : Nat]

\* A picture that waits has the geometry the stream is set to, so the encoder
\* opened for that geometry can take it: submit checks it, a change of geometry
\* clears it, and the worker finds it still true two locks later (viewer.rs:273).
PictureFits ==
  /\ state.pending \subseteq state.source
  /\ state.pending # {} /\ worker.pc = "taking" /\ worker.epoch = state.epoch =>
       state.pending = worker.source

\* Pictures are taken only while an encoder of the current epoch stands ready for
\* them, or its failure is about to be reported.
ReadyIsOpen ==
  state.ready /\ worker.pc # "done" =>
    /\ ~state.failed /\ ~state.paused
    /\ \/ \E a \in active : a.epoch = state.epoch /\ a.source = state.source
       \/ worker.pc = "reporting" /\ worker.epoch = state.epoch

\* A worker that waits, for room in the channel or for its byte budget, keeps no
\* picture of the compositor's waiting with it: the buffers stay free.
BlockedKeepsNoPicture == worker.pc \in {"blocked", "budget"} => state.pending = {}

\* The output counts as blocked only while a worker is there to say when it is not
\* any more; otherwise the sink would defer every picture for ever.
PressureEnds ==
  state.pressure /\ ~closed /\ ~state.stop =>
    worker.epoch = state.epoch /\ worker.pc \in {"reserving", "full", "blocked", "sending", "budget"}

\* One failure of one attempt is counted once, however the two threads interleave.
FailureCountsOnce ==
  LET failure(m) == m.kind = "failed" /\ m.epoch = state.epoch
  IN  /\ Cardinality({i \in DOMAIN channel : failure(channel[i])})
           + Cardinality({m \in accepted : failure(m)})
           + (IF worker.pc \in {"reserving", "full", "blocked", "sending"} /\ worker.batch = Failure
                 /\ worker.epoch = state.epoch THEN 1 ELSE 0) <= 1
      /\ \A i \in DOMAIN channel : failure(channel[i]) => state.failed

\* The page never decodes a delta without the frame before it: neither the worker
\* nor the session drops a frame out of a stream it goes on with.
DeltasFollow ==
  [][page'.last # page.last /\ ~closed' =>
       \/ page'.last.key
       \/ /\ page'.last.epoch = page.last.epoch
          /\ page'.last.n = (page.last.n + 1) % Modulus]_vars

\* A page that waits for a key gets one, unless the stream ends or no codec is left:
\* the worker alone is not enough for that, the compositor and the session have to run.
PageRecovers ==
  OthersAreFair =>
    (page.awaiting ~> (~page.awaiting \/ state.stop \/ closed \/ ~Codec(selection)))

\* The end of the sink or of the session ends the worker, even when nobody reads
\* the full channel it waits on.
WorkerEnds == (state.stop \/ closed) ~> worker.pc = "done"

\* A restart reaches a worker that waits on a full channel, even when nobody reads it.
RestartWakes ==
  (worker.pc = "blocked" /\ worker.epoch # state.epoch) ~> worker.pc # "blocked"
=============================================================================
