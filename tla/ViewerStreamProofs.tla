--------------------------- MODULE ViewerStreamProofs ---------------------------
(***************************************************************************)
(* The safety of the viewer stream, for any geometries, rates, codecs and   *)
(* bounds.  The worker acts on a snapshot of settings that may have moved;  *)
(* the argument is that its epoch tells: as long as the snapshot is of the  *)
(* current epoch it agrees with the settings, and its encoder with both;    *)
(* and what the worker writes down is for the current epoch only.           *)
(*                                                                         *)
(* Its last section is about what is under way from the encoder to the page. *)
(***************************************************************************)
EXTENDS ViewerStream, FiniteSetTheorems, SequenceTheorems, TLAPS

Delivering == {"reserving", "full", "blocked", "sending"}
\* where the worker has an encoder of its own epoch
Equipped == {"rating", "taking", "encoding", "budget"}
\* and where it has not failed yet
Undecided == Equipped \cup {"opening", "reporting"}

CoreTypeOK ==
  /\ state \in State /\ worker \in WorkerState /\ active \in SUBSET Encoder
  /\ signal \in BOOLEAN /\ closed \in BOOLEAN /\ due \in BOOLEAN

\* The worker's snapshot and its encoder, next to the settings
Snapshot ==
  /\ state.epoch >= 1 /\ worker.epoch <= state.epoch
  /\ worker.pc \in {"idle", "done"} => worker.epoch = None
  /\ worker.pc \notin {"idle", "done"} /\ worker.epoch = state.epoch =>
       worker.source = state.source /\ ~state.paused
  /\ worker.pc \in Undecided /\ worker.epoch = state.epoch => ~state.failed
  /\ \A a \in active : a.epoch <= state.epoch /\ (a.epoch = state.epoch => a.source = state.source)
  /\ \A a, b \in active : a = b
  /\ worker.pc \in Equipped => active # {} /\ \A a \in active : a.epoch = worker.epoch
  /\ worker.pc = "opening" => active = {}

\* A picture waits for the geometry that is set, or none does,
WaitingFits == state.pending = {} \/ state.pending = state.source

\* and none where the worker waits: an output that counts as ready counts as blocked.
BlockedDefers ==
  worker.pc \in {"blocked", "budget"} =>
    state.pending = {} /\ (state.ready /\ ~state.stop => state.pressure)

CoreInv == CoreTypeOK /\ Snapshot /\ WaitingFits /\ BlockedDefers /\ ReadyIsOpen /\ PressureEnds

-----------------------------------------------------------------------------
\* Records, one field at a time
LEMMA RestartType ==
  ASSUME NEW s \in State
  PROVE  Restart(s) \in State
<1>1. PICK a : a = [s EXCEPT !.epoch = @ + 1]
  OBVIOUS
<1>2. PICK b : b = [a EXCEPT !.pending = {}]
  OBVIOUS
<1>3. PICK c : c = [b EXCEPT !.ready = FALSE]
  OBVIOUS
<1>4. PICK d : d = [c EXCEPT !.started = FALSE]
  OBVIOUS
<1>5. PICK e : e = [d EXCEPT !.failed = FALSE]
  OBVIOUS
<1>6. PICK f : f = [e EXCEPT !.pressure = FALSE]
  OBVIOUS
<1>7. a \in State
  BY <1>1 DEF State
<1>8. b \in State
  BY <1>2, <1>7 DEF State
<1>9. c \in State
  BY <1>3, <1>8 DEF State
<1>10. d \in State
  BY <1>4, <1>9 DEF State
<1>11. e \in State
  BY <1>5, <1>10 DEF State
<1>12. f \in State
  BY <1>6, <1>11 DEF State
<1>13. [f EXCEPT !.inplace = FALSE] \in State
  BY <1>12 DEF State
<1>14. Restart(s) = [f EXCEPT !.inplace = FALSE]
  BY <1>1, <1>2, <1>3, <1>4, <1>5, <1>6 DEF Restart
<1> QED
  BY <1>13, <1>14

LEMMA RestartIs ==
  ASSUME NEW s \in State
  PROVE  /\ Restart(s).epoch = s.epoch + 1 /\ Restart(s).pending = {} /\ Restart(s).ready = FALSE
         /\ Restart(s).pressure = FALSE /\ Restart(s).stop = s.stop
BY DEF Restart, State

\* A restart makes void whatever the worker is at.
LEMMA RestartKeeps ==
  ASSUME CoreInv, NEW s \in State, s.epoch = state.epoch, s.stop = state.stop,
         Update(Restart(s)), UNCHANGED <<worker, active, closed>>, due' \in BOOLEAN
  PROVE  CoreInv'
<1>1. CASE state.stop
  <2>1. state' = state /\ signal' \in BOOLEAN
    BY <1>1 DEF Update, CoreInv, CoreTypeOK
  <2> QED
    BY <2>1 DEF CoreInv, CoreTypeOK, Snapshot, WaitingFits, BlockedDefers, ReadyIsOpen, PressureEnds
<1>2. CASE ~state.stop
  <2>1. /\ state' = Restart(s) /\ state' \in State /\ state'.epoch = state.epoch + 1
        /\ state'.pending = {} /\ state'.ready = FALSE /\ state'.pressure = FALSE
    BY <1>2, RestartIs, RestartType DEF Update
  <2>2. signal' \in BOOLEAN
    BY DEF Update, CoreInv, CoreTypeOK
  <2>3. state.epoch \in Nat /\ worker.epoch \in Nat /\ \A a \in active : a.epoch \in Nat
    BY DEF CoreInv, CoreTypeOK, State, WorkerState, Encoder
  <2>4. Snapshot'
    BY <2>1, <2>3 DEF CoreInv, Snapshot, None
  <2> QED
    BY <2>1, <2>2, <2>4
    DEF CoreInv, CoreTypeOK, WaitingFits, BlockedDefers, ReadyIsOpen, PressureEnds
<1> QED
  BY <1>1, <1>2

\* So do steps that change neither the settings' epoch nor what hangs on it.
LEMMA DetailKeeps ==
  ASSUME CoreInv, state' \in State, signal' \in BOOLEAN, due' \in BOOLEAN,
         state'.epoch = state.epoch, state'.source = state.source, state'.pending = state.pending,
         state'.ready = state.ready, state'.failed = state.failed, state'.paused = state.paused,
         state'.pressure = state.pressure, state'.stop = state.stop,
         UNCHANGED <<worker, active>>, closed' \in BOOLEAN, closed => closed'
  PROVE  CoreInv'
BY DEF CoreInv, CoreTypeOK, Snapshot, WaitingFits, BlockedDefers, ReadyIsOpen, PressureEnds

LEMMA CompositorKeeps == ASSUME CoreInv, Compositor PROVE CoreInv'
<1>0. state \in State
  BY DEF CoreInv, CoreTypeOK
<1>1. CASE Attach
  <2>1. PICK g \in Geometry : Update(Restart([state EXCEPT !.source = {g}]))
    BY <1>1 DEF Attach
  <2>2. /\ [state EXCEPT !.source = {g}] \in State
        /\ [state EXCEPT !.source = {g}].epoch = state.epoch
        /\ [state EXCEPT !.source = {g}].stop = state.stop
    BY <1>0 DEF State
  <2> QED
    BY <1>1, <2>1, <2>2, RestartKeeps DEF Attach
<1>2. CASE \E g \in Geometry : Resize(g)
  <2>1. PICK g \in Geometry : Resize(g)
    BY <1>2
  <2>2. /\ [state EXCEPT !.source = {g}] \in State
        /\ [state EXCEPT !.source = {g}].epoch = state.epoch
        /\ [state EXCEPT !.source = {g}].stop = state.stop
    BY <1>0 DEF State
  <2> QED
    BY <2>1, <2>2, RestartKeeps DEF Resize
<1>3. CASE Damage
  BY <1>3, DetailKeeps DEF Damage, shared, CoreInv, CoreTypeOK
<1>4. CASE Submit
  <2>1. /\ UNCHANGED <<signal, worker, active, closed>> /\ due' \in BOOLEAN
        /\ \/ state' = state
           \/ state.ready /\ ~state.pressure /\ ~state.stop
              /\ state' = [state EXCEPT !.pending = state.source]
    BY <1>4, <1>0 DEF Submit, State, Attached
  <2>2. CASE state' = state
    BY <2>1, <2>2, DetailKeeps DEF CoreInv, CoreTypeOK
  <2>3. CASE state' # state
    <3>1. state.ready /\ ~state.pressure /\ ~state.stop /\ state' = [state EXCEPT !.pending = state.source]
      BY <2>1, <2>3
    <3>2. state' \in State
      BY <1>0, <3>1 DEF State
    <3> QED
      BY <1>0, <2>1, <3>1, <3>2
      DEF State, CoreInv, CoreTypeOK, Snapshot, WaitingFits, BlockedDefers, ReadyIsOpen, PressureEnds
  <2> QED
    BY <2>2, <2>3
<1>5. CASE DropSink
  BY <1>5, <1>0
  DEF DropSink, State, CoreInv, CoreTypeOK, Snapshot, WaitingFits, BlockedDefers, ReadyIsOpen,
      PressureEnds
<1> QED
  BY <1>1, <1>2, <1>3, <1>4, <1>5 DEF Compositor

LEMMA FreshType ==
  ASSUME NEW w \in WorkerState, NEW d \in BOOLEAN
  PROVE  /\ Fresh(w) \in WorkerState /\ [Fresh(w) EXCEPT !.debt = d] \in WorkerState
         /\ [Fresh(w) EXCEPT !.pc = "done"] \in WorkerState
<1>1. PICK x : x = [w EXCEPT !.pc = "idle"]
  OBVIOUS
<1>2. PICK y : y = [x EXCEPT !.source = {}]
  OBVIOUS
<1>3. PICK z : z = [y EXCEPT !.epoch = None]
  OBVIOUS
<1>4. PICK u : u = [z EXCEPT !.key = FALSE]
  OBVIOUS
<1>5. x \in WorkerState
  BY <1>1 DEF WorkerState, Pc
<1>6. y \in WorkerState
  BY <1>2, <1>5 DEF WorkerState
<1>7. z \in WorkerState
  BY <1>3, <1>6 DEF WorkerState, None
<1>8. u \in WorkerState
  BY <1>4, <1>7 DEF WorkerState
<1>9. PICK v : v = [u EXCEPT !.batch = <<>>]
  OBVIOUS
<1>10. <<>> \in Seq(Message)
  OBVIOUS
<1>11. v \in WorkerState
  BY <1>8, <1>9, <1>10 DEF WorkerState
<1>12. Fresh(w) = v
  BY <1>1, <1>2, <1>3, <1>4, <1>9 DEF Fresh
<1>13. [v EXCEPT !.debt = d] \in WorkerState /\ [v EXCEPT !.pc = "done"] \in WorkerState
  BY <1>11 DEF WorkerState, Pc
<1> QED
  BY <1>11, <1>12, <1>13

LEMMA FreshIs ==
  ASSUME NEW w \in WorkerState, NEW d \in BOOLEAN
  PROVE  /\ Fresh(w).pc = "idle" /\ Fresh(w).epoch = None
         /\ [Fresh(w) EXCEPT !.debt = d].pc = "idle" /\ [Fresh(w) EXCEPT !.debt = d].epoch = None
         /\ [Fresh(w) EXCEPT !.pc = "done"].pc = "done"
         /\ [Fresh(w) EXCEPT !.pc = "done"].epoch = None
         /\ Fresh(w).batch = <<>> /\ [Fresh(w) EXCEPT !.debt = d].batch = <<>>
         /\ [Fresh(w) EXCEPT !.pc = "done"].batch = <<>>
BY DEF Fresh, WorkerState

\* Back to the top of the loop, or to the end of the thread, from a place where neither the
\* failure of the epoch nor the end of its pressure is owed
LEMMA IdleKeeps ==
  ASSUME CoreInv, worker' \in WorkerState, worker'.pc \in {"idle", "done"}, worker'.epoch = None,
         worker'.pc = "idle" => worker.pc # "done",
         worker.pc = "reporting" => worker.epoch # state.epoch,
         state.pressure => closed \/ state.stop \/ worker.epoch # state.epoch,
         UNCHANGED <<state, signal, active, closed>>, due' \in BOOLEAN
  PROVE  CoreInv'
<1>1. state.epoch \in Nat /\ worker.epoch \in Nat /\ state.epoch >= 1
  BY DEF CoreInv, CoreTypeOK, State, WorkerState, Snapshot
<1>2. Snapshot'
  BY <1>1 DEF CoreInv, Snapshot, None, Undecided, Equipped
<1> QED
  BY <1>2
  DEF CoreInv, CoreTypeOK, WaitingFits, BlockedDefers, ReadyIsOpen, PressureEnds

\* The worker goes on to another place with all it has.
LEMMA GotoType ==
  ASSUME NEW w \in WorkerState, NEW p \in Pc
  PROVE  /\ [w EXCEPT !.pc = p] \in WorkerState /\ [w EXCEPT !.pc = p].pc = p
         /\ [w EXCEPT !.pc = p].epoch = w.epoch /\ [w EXCEPT !.pc = p].source = w.source
         /\ [w EXCEPT !.pc = p].batch = w.batch
BY DEF WorkerState

LEMMA DeliveryKeeps == ASSUME CoreInv, Delivery PROVE CoreInv'
<1>0. state \in State /\ worker \in WorkerState /\ state.pressure \in BOOLEAN
  BY DEF CoreInv, CoreTypeOK, State
<1>1. /\ UNCHANGED <<active, closed>> /\ due' \in BOOLEAN /\ signal' \in BOOLEAN
      /\ worker.pc \in Delivering
  BY DEF Delivery, Reserve, Full, Wake, Send, DeliveryFrame, outside, shared, Delivering,
         CoreInv, CoreTypeOK
<1>2. CASE worker' = Fresh(worker) /\ UNCHANGED shared /\ (Over \/ closed)
  BY <1>0, <1>1, <1>2, FreshType, FreshIs, IdleKeeps DEF Over, Delivering, shared
<1>3. CASE /\ \E p \in Delivering : Goto(p) /\ (p = "blocked" => worker.pc = "blocked")
           /\ UNCHANGED state
  <2>1. PICK p \in Delivering : Goto(p) /\ (p = "blocked" => worker.pc = "blocked")
    BY <1>3
  <2>2. /\ worker' \in WorkerState /\ worker'.pc = p
        /\ worker'.epoch = worker.epoch /\ worker'.source = worker.source
    <3>1. p \in Pc
      BY DEF Delivering, Pc
    <3>2. worker' = [worker EXCEPT !.pc = p]
      BY <2>1 DEF Goto
    <3> QED
      BY <1>0, <3>1, <3>2, GotoType
  <2>3. Snapshot'
    BY <1>1, <1>3, <2>1, <2>2 DEF CoreInv, Snapshot, Delivering, Undecided, Equipped
  <2>4. ReadyIsOpen'
    BY <1>1, <1>3, <2>1, <2>2 DEF CoreInv, ReadyIsOpen, Delivering
  <2>5. PressureEnds' /\ BlockedDefers' /\ WaitingFits' /\ CoreTypeOK'
    BY <1>1, <1>3, <2>1, <2>2
    DEF CoreInv, PressureEnds, BlockedDefers, WaitingFits, CoreTypeOK, Delivering
  <2> QED
    BY <2>3, <2>4, <2>5 DEF CoreInv
<1>4. CASE /\ ~Over /\ Goto("blocked") /\ UNCHANGED signal
           /\ state' = [state EXCEPT !.pressure = TRUE, !.pending = {}]
  <2>1. /\ worker' \in WorkerState /\ worker'.pc = "blocked"
        /\ worker'.epoch = worker.epoch /\ worker'.source = worker.source
    BY <1>0, <1>4, GotoType DEF Goto, Pc
  <2>2. state' \in State
    <3>1. PICK s : s = [state EXCEPT !.pressure = TRUE]
      OBVIOUS
    <3>2. s \in State /\ state' = [s EXCEPT !.pending = {}]
      BY <1>0, <1>4, <3>1 DEF State
    <3> QED
      BY <3>2 DEF State
  <2>3. /\ state'.pressure = TRUE /\ state'.pending = {} /\ state'.epoch = state.epoch
        /\ state'.source = state.source /\ state'.ready = state.ready /\ state'.stop = state.stop
        /\ state'.failed = state.failed /\ state'.paused = state.paused
    BY <1>0, <1>4 DEF State
  <2> QED
    BY <1>1, <1>4, <2>1, <2>2, <2>3
    DEF CoreInv, CoreTypeOK, Snapshot, WaitingFits, BlockedDefers, ReadyIsOpen, PressureEnds,
        Delivering, Undecided, Equipped, Over
<1>5. CASE /\ ~Over /\ \E d \in BOOLEAN : worker' = [Fresh(worker) EXCEPT !.debt = d]
           /\ \E b \in BOOLEAN : state' = [state EXCEPT !.pressure = FALSE, !.started = b]
           /\ UNCHANGED signal
  <2>1. worker' \in WorkerState /\ worker'.pc = "idle" /\ worker'.epoch = None
    <3>1. PICK d \in BOOLEAN : worker' = [Fresh(worker) EXCEPT !.debt = d]
      BY <1>5
    <3> QED
      BY <1>0, <3>1, FreshType, FreshIs
  <2>2. PICK b \in BOOLEAN : state' = [state EXCEPT !.pressure = FALSE, !.started = b]
    BY <1>5
  <2>3. state' \in State
    <3>1. PICK s : s = [state EXCEPT !.pressure = FALSE]
      OBVIOUS
    <3>2. s \in State /\ state' = [s EXCEPT !.started = b]
      BY <1>0, <2>2, <3>1 DEF State
    <3> QED
      BY <3>2 DEF State
  <2>4. /\ state'.pressure = FALSE /\ state'.pending = state.pending /\ state'.epoch = state.epoch
        /\ state'.source = state.source /\ state'.ready = state.ready /\ state'.stop = state.stop
        /\ state'.failed = state.failed /\ state'.paused = state.paused
    BY <1>0, <2>2 DEF State
  <2>5. Snapshot'
    <3>1. state.epoch \in Nat /\ state.epoch >= 1
      BY <1>0 DEF State, CoreInv, Snapshot
    <3> QED
      BY <1>1, <2>1, <2>4, <3>1 DEF CoreInv, Snapshot, Undecided, Equipped, None
  <2>6. ReadyIsOpen'
    BY <1>1, <2>1, <2>4 DEF CoreInv, ReadyIsOpen, Delivering
  <2>7. PressureEnds' /\ BlockedDefers' /\ WaitingFits' /\ CoreTypeOK'
    BY <1>1, <2>1, <2>3, <2>4
    DEF CoreInv, PressureEnds, BlockedDefers, WaitingFits, CoreTypeOK
  <2> QED
    BY <2>5, <2>6, <2>7 DEF CoreInv
<1>6. CASE Reserve
  BY <1>2, <1>3, <1>6 DEF Reserve, Idle, Delivering, shared
<1>7. CASE Full
  BY <1>2, <1>4, <1>7 DEF Full, Idle, shared
<1>8. CASE Wake
  <2>1. CASE signal /\ signal' = FALSE /\ Goto("reserving")
    BY <1>3, <1>8, <2>1 DEF Wake, Delivering
  <2>2. CASE closed /\ Idle /\ UNCHANGED signal
    BY <1>2, <1>8, <2>2 DEF Wake, Idle, shared
  <2>3. CASE Goto("sending")
    BY <1>3, <1>8, <2>3 DEF Wake, Delivering
  <2> QED
    BY <1>8, <2>1, <2>2, <2>3 DEF Wake
<1>9. CASE Send
  <2>1. CASE Over
    BY <1>2, <1>9, <2>1 DEF Send, Idle, shared
  <2>2. CASE ~Over
    <3>1. (state.started \/ \E i \in DOMAIN worker.batch : worker.batch[i].key) \in BOOLEAN
      OBVIOUS
    <3>2. \E b \in BOOLEAN : state' = [state EXCEPT !.pressure = FALSE, !.started = b]
      BY <1>9, <2>2 DEF Send
    <3> QED
      BY <1>5, <1>9, <2>2, <3>2 DEF Send
  <2> QED
    BY <2>1, <2>2
<1> QED
  BY <1>6, <1>7, <1>8, <1>9 DEF Delivery

LEMMA BeginKeeps == ASSUME CoreInv, Begin PROVE CoreInv'
<1>0. /\ state \in State /\ worker \in WorkerState /\ worker.pc = "idle" /\ worker.epoch = None
      /\ state.epoch \in Nat /\ state.epoch >= 1
  BY DEF CoreInv, CoreTypeOK, State, WorkerState, Begin, Snapshot
<1>1. UNCHANGED <<state, signal, closed, due>>
  BY DEF Begin, shared, outside
<1>2. state.pressure => closed \/ state.stop
  BY <1>0 DEF CoreInv, PressureEnds
<1>3. CASE state.stop \/ closed
  <2>1. worker' = [Fresh(worker) EXCEPT !.pc = "done"] /\ active' = {}
    BY <1>0, <1>3, FreshIs DEF Begin, Done
  <2>2. worker' \in WorkerState /\ worker'.pc = "done" /\ worker'.epoch = None
    BY <1>0, <2>1, FreshType, FreshIs
  <2>3. Snapshot'
    BY <1>0, <1>1, <2>1, <2>2 DEF CoreInv, Snapshot, Undecided, Equipped, None
  <2>4. ReadyIsOpen' /\ PressureEnds' /\ BlockedDefers' /\ WaitingFits' /\ CoreTypeOK'
    BY <1>1, <1>2, <1>3, <2>1, <2>2
    DEF CoreInv, ReadyIsOpen, PressureEnds, BlockedDefers, WaitingFits, CoreTypeOK
  <2> QED
    BY <2>3, <2>4 DEF CoreInv
<1>4. CASE ~(state.stop \/ closed)
  <2>1. PICK p \in {"opening", "rating", "taking"}, d \in BOOLEAN :
          /\ worker' = [worker EXCEPT !.pc = p, !.epoch = state.epoch, !.source = state.source,
                          !.rate = state.rate, !.debt = d]
          /\ p = "opening" <=> (active = {} \/ \E a \in active : a.epoch # state.epoch)
    BY <1>0, <1>4 DEF Begin, WorkerState
  <2>2. ~state.paused /\ ~state.failed
    BY <1>4 DEF Begin
  <2>3. worker' \in WorkerState
    <3>1. PICK x : x = [worker EXCEPT !.pc = p]
      OBVIOUS
    <3>2. PICK y : y = [x EXCEPT !.epoch = state.epoch]
      OBVIOUS
    <3>3. PICK z : z = [y EXCEPT !.source = state.source]
      OBVIOUS
    <3>4. PICK u : u = [z EXCEPT !.rate = state.rate]
      OBVIOUS
    <3>5. x \in WorkerState
      BY <1>0, <3>1 DEF WorkerState, Pc
    <3>6. y \in WorkerState
      BY <1>0, <3>2, <3>5 DEF WorkerState
    <3>7. state.source \in SUBSET Geometry /\ state.rate \in Rate
      BY <1>0 DEF State
    <3>8. z \in WorkerState
      BY <3>3, <3>6, <3>7 DEF WorkerState
    <3>9. u \in WorkerState
      BY <3>4, <3>7, <3>8 DEF WorkerState
    <3>10. [u EXCEPT !.debt = d] \in WorkerState
      BY <3>9 DEF WorkerState
    <3> QED
      BY <2>1, <3>1, <3>2, <3>3, <3>4, <3>10
  <2>4. worker'.pc = p /\ worker'.epoch = state.epoch /\ worker'.source = state.source
    BY <1>0, <2>1 DEF WorkerState
  <2>5. active' = IF p = "opening" THEN {} ELSE active
    BY <2>1, <2>4 DEF Begin
  <2>6. Snapshot'
    BY <1>0, <1>1, <2>1, <2>2, <2>4, <2>5 DEF CoreInv, Snapshot, Undecided, Equipped
  <2>7. ReadyIsOpen'
    BY <1>0, <1>1, <2>1, <2>4, <2>5 DEF CoreInv, ReadyIsOpen, Snapshot
  <2>8. PressureEnds' /\ BlockedDefers' /\ WaitingFits' /\ CoreTypeOK'
    BY <1>1, <1>2, <2>1, <2>3, <2>4, <2>5
    DEF CoreInv, PressureEnds, BlockedDefers, WaitingFits, CoreTypeOK
  <2> QED
    BY <2>6, <2>7, <2>8 DEF CoreInv
<1> QED
  BY <1>3, <1>4

\* The epoch is written off, with the report under way.
LEMMA FailEpochKeeps ==
  ASSUME CoreInv, FailEpoch, worker.pc \in {"opening", "reporting"},
         worker.epoch = state.epoch, UNCHANGED <<active, closed>>, due' \in BOOLEAN
  PROVE  CoreInv'
<1>0. state \in State /\ worker \in WorkerState
  BY DEF CoreInv, CoreTypeOK
<1>1. state' \in State
  <2>1. PICK x : x = [state EXCEPT !.failed = TRUE]
    OBVIOUS
  <2>2. PICK y : y = [x EXCEPT !.ready = FALSE]
    OBVIOUS
  <2>3. x \in State
    BY <1>0, <2>1 DEF State
  <2>4. y \in State
    BY <2>2, <2>3 DEF State
  <2>5. [y EXCEPT !.pending = {}] \in State
    BY <2>4 DEF State
  <2> QED
    BY <2>1, <2>2, <2>5 DEF FailEpoch
<1>2. /\ state'.failed = TRUE /\ state'.ready = FALSE /\ state'.pending = {}
      /\ state'.epoch = state.epoch /\ state'.source = state.source /\ state'.stop = state.stop
      /\ state'.paused = state.paused /\ state'.pressure = state.pressure
  BY <1>0 DEF FailEpoch, State
<1>3. /\ worker'.pc = "reserving" /\ worker'.epoch = worker.epoch
      /\ worker'.source = worker.source
  BY <1>0 DEF FailEpoch, WorkerState
<1>4. Failure \in Seq(Message)
  <2>1. [kind |-> "failed", epoch |-> worker.epoch, key |-> FALSE, n |-> 0] \in Message
    BY <1>0, CountAssumption DEF Message, WorkerState
  <2> QED
    BY <2>1 DEF Failure
<1>5. worker' \in WorkerState
  <2>1. PICK x : x = [worker EXCEPT !.pc = "reserving"]
    OBVIOUS
  <2>2. x \in WorkerState
    BY <1>0, <2>1 DEF WorkerState, Pc
  <2>3. [x EXCEPT !.batch = Failure] \in WorkerState
    BY <1>4, <2>2 DEF WorkerState
  <2> QED
    BY <2>1, <2>3 DEF FailEpoch
<1>6. Snapshot'
  BY <1>2, <1>3 DEF CoreInv, Snapshot, Undecided, Equipped
<1>7. ReadyIsOpen' /\ PressureEnds' /\ BlockedDefers' /\ WaitingFits' /\ CoreTypeOK'
  BY <1>1, <1>2, <1>3, <1>5
  DEF CoreInv, ReadyIsOpen, PressureEnds, BlockedDefers, WaitingFits, CoreTypeOK, FailEpoch
<1> QED
  BY <1>6, <1>7 DEF CoreInv

LEMMA OpenKeeps == ASSUME CoreInv, Open PROVE CoreInv'
<1>0. state \in State /\ worker \in WorkerState /\ worker.pc = "opening" /\ due \in BOOLEAN
  BY DEF CoreInv, CoreTypeOK, Open
<1>1. CASE Over
  <2>1. /\ worker' \in {Fresh(worker), [Fresh(worker) EXCEPT !.pc = "done"]}
        /\ UNCHANGED <<state, signal, active, closed, due>>
    BY <1>1 DEF Open, Idle, Done, shared, outside
  <2>2. worker' \in WorkerState /\ worker'.pc \in {"idle", "done"} /\ worker'.epoch = None
    BY <1>0, <2>1, FreshType, FreshIs
  <2>3. state.pressure => closed \/ state.stop \/ worker.epoch # state.epoch
    BY <1>0 DEF CoreInv, PressureEnds
  <2> QED
    BY <1>0, <2>1, <2>2, <2>3, IdleKeeps
<1>2. CASE /\ ~Over /\ worker' = Fresh(worker) /\ due' = TRUE /\ UNCHANGED <<signal, closed>>
           /\ \E x264 \in BOOLEAN :
                state' = [state EXCEPT !.ready = TRUE, !.keyframe = TRUE, !.inplace = x264]
           /\ active' = {[epoch |-> worker.epoch, source |-> worker.source, rate |-> worker.rate,
                           info |-> TRUE, n |-> 0]}
  <2>1. PICK x264 \in BOOLEAN :
          state' = [state EXCEPT !.ready = TRUE, !.keyframe = TRUE, !.inplace = x264]
    BY <1>2
  <2>2. state' \in State
    <3>1. PICK x : x = [state EXCEPT !.ready = TRUE]
      OBVIOUS
    <3>2. PICK y : y = [x EXCEPT !.keyframe = TRUE]
      OBVIOUS
    <3>3. x \in State
      BY <1>0, <3>1 DEF State
    <3>4. y \in State
      BY <3>2, <3>3 DEF State
    <3>5. [y EXCEPT !.inplace = x264] \in State
      BY <3>4 DEF State
    <3> QED
      BY <2>1, <3>1, <3>2, <3>5
  <2>3. /\ state'.ready = TRUE /\ state'.failed = state.failed /\ state'.pending = state.pending
        /\ state'.epoch = state.epoch /\ state'.source = state.source /\ state'.stop = state.stop
        /\ state'.paused = state.paused /\ state'.pressure = state.pressure
    BY <1>0, <2>1 DEF State
  <2>4. worker' \in WorkerState /\ worker'.pc = "idle" /\ worker'.epoch = None
    BY <1>0, <1>2, FreshType, FreshIs
  <2>5. PICK a : a = [epoch |-> worker.epoch, source |-> worker.source, rate |-> worker.rate,
                      info |-> TRUE, n |-> 0]
    OBVIOUS
  <2>6. active' = {a} /\ a.epoch = worker.epoch /\ a.source = worker.source /\ a \in Encoder
    BY <1>0, <1>2, <2>5, CountAssumption DEF Encoder, WorkerState
  <2>7. worker.epoch = state.epoch /\ worker.source = state.source /\ ~state.paused /\ ~state.failed
    BY <1>0, <1>2 DEF Over, CoreInv, Snapshot, Undecided
  <2>8. state.epoch \in Nat /\ state.epoch >= 1
    BY <1>0 DEF CoreInv, Snapshot, State
  <2>9. Snapshot'
    BY <2>3, <2>4, <2>6, <2>7, <2>8 DEF Snapshot, Undecided, Equipped, None
  <2>10. ReadyIsOpen'
    BY <2>3, <2>6, <2>7 DEF ReadyIsOpen
  <2>11. PressureEnds' /\ BlockedDefers' /\ WaitingFits' /\ CoreTypeOK'
    BY <1>0, <1>2, <2>2, <2>3, <2>4, <2>6
    DEF CoreInv, PressureEnds, BlockedDefers, WaitingFits, CoreTypeOK
  <2> QED
    BY <2>9, <2>10, <2>11 DEF CoreInv
<1>3. CASE ~Over /\ FailEpoch /\ UNCHANGED <<active, closed>>
  BY <1>0, <1>3, FailEpochKeeps DEF Over, FailEpoch
<1> QED
  BY <1>1, <1>2, <1>3 DEF Open, outside, Idle

\* Only the worker's place, key and batch move, and its encoder is replaced by one of the
\* same epoch and geometry, or lost on the way to a report.
LEMMA EncoderKeeps ==
  ASSUME CoreInv, worker.pc \in {"rating", "encoding"},
         worker' \in WorkerState, worker'.epoch = worker.epoch, worker'.source = worker.source,
         UNCHANGED <<state, signal, closed>>, due' \in BOOLEAN,
         \/ active' = {} /\ worker'.pc = "reporting"
         \/ /\ worker'.pc \in {"taking", "reserving"}
            /\ \E a \in active, b \in Encoder :
                 active' = {b} /\ b.epoch = a.epoch /\ b.source = a.source
  PROVE  CoreInv'
<1>1. \A a \in active : a.epoch = worker.epoch
  BY DEF CoreInv, Snapshot, Equipped
<1>2. active' \subseteq Encoder
  OBVIOUS
<1>3. Snapshot'
  BY <1>1 DEF CoreInv, Snapshot, Undecided, Equipped
<1>4. ReadyIsOpen'
  BY <1>1 DEF CoreInv, ReadyIsOpen, Snapshot
<1>5. PressureEnds' /\ BlockedDefers' /\ WaitingFits' /\ CoreTypeOK'
  BY <1>2 DEF CoreInv, PressureEnds, BlockedDefers, WaitingFits, CoreTypeOK
<1> QED
  BY <1>3, <1>4, <1>5 DEF CoreInv

LEMMA SetRateKeeps == ASSUME CoreInv, SetRate PROVE CoreInv'
<1>0. /\ worker \in WorkerState /\ worker.pc = "rating" /\ active \in SUBSET Encoder
      /\ UNCHANGED <<state, signal, closed>>
  BY DEF CoreInv, CoreTypeOK, SetRate, shared, outside
<1>1. CASE Goto("taking") /\ due' = TRUE /\ active' = {[a EXCEPT !.rate = worker.rate] : a \in active}
  <2>1. PICK a \in active : active = {a}
    BY <1>0 DEF CoreInv, Snapshot, Equipped
  <2>2. PICK b : b = [a EXCEPT !.rate = worker.rate]
    OBVIOUS
  <2>3. b \in Encoder /\ b.epoch = a.epoch /\ b.source = a.source
    BY <1>0, <2>2 DEF Encoder, WorkerState
  <2>4. active' = {b}
    BY <1>1, <2>1, <2>2
  <2>5. /\ worker' \in WorkerState /\ worker'.pc = "taking" /\ worker'.epoch = worker.epoch
        /\ worker'.source = worker.source
    BY <1>0, <1>1, GotoType DEF Goto, Pc
  <2> QED
    BY <1>0, <1>1, <2>3, <2>4, <2>5, EncoderKeeps
<1>2. CASE active' = {} /\ Goto("reporting") /\ UNCHANGED due
  <2>1. /\ worker' \in WorkerState /\ worker'.pc = "reporting" /\ worker'.epoch = worker.epoch
        /\ worker'.source = worker.source
    BY <1>0, <1>2, GotoType DEF Goto, Pc
  <2> QED
    BY <1>0, <1>2, <2>1, EncoderKeeps DEF CoreInv, CoreTypeOK
<1> QED
  BY <1>1, <1>2 DEF SetRate

LEMMA NumbersWrap == \A n \in 0 .. Modulus - 1 : (n + 1) % Modulus \in 0 .. Modulus - 1
BY CountAssumption

LEMMA EncodeKeeps == ASSUME CoreInv, Encode PROVE CoreInv'
<1>0. /\ worker \in WorkerState /\ worker.pc = "encoding" /\ active \in SUBSET Encoder
      /\ UNCHANGED <<state, signal, closed, due>>
  BY DEF CoreInv, CoreTypeOK, Encode, shared, outside
<1>1. CASE active' = {} /\ Goto("reporting")
  <2>1. /\ worker' \in WorkerState /\ worker'.pc = "reporting" /\ worker'.epoch = worker.epoch
        /\ worker'.source = worker.source
    BY <1>0, <1>1, GotoType DEF Goto, Pc
  <2> QED
    BY <1>0, <1>1, <2>1, EncoderKeeps DEF CoreInv, CoreTypeOK
<1>2. ASSUME NEW a \in active, NEW key \in BOOLEAN, NEW b \in Seq(Message),
             active' = {[a EXCEPT !.info = FALSE, !.n = (@ + 1) % Modulus]},
             worker' = [worker EXCEPT !.pc = "reserving", !.key = FALSE, !.batch = b]
      PROVE  CoreInv'
  <2>1. PICK x : x = [a EXCEPT !.info = FALSE]
    OBVIOUS
  <2>2. PICK e : e = [x EXCEPT !.n = (@ + 1) % Modulus]
    OBVIOUS
  <2>3. x \in Encoder /\ x.epoch = a.epoch /\ x.source = a.source
    BY <1>0, <2>1 DEF Encoder
  <2>4. e \in Encoder /\ e.epoch = a.epoch /\ e.source = a.source
    <3>1. (x.n + 1) % Modulus \in 0 .. Modulus - 1
      BY <2>3, NumbersWrap DEF Encoder
    <3> QED
      BY <2>2, <2>3, <3>1 DEF Encoder
  <2>5. active' = {e}
    BY <1>2, <2>1, <2>2
  <2>6. worker' \in WorkerState
    <3>1. PICK y : y = [worker EXCEPT !.pc = "reserving"]
      OBVIOUS
    <3>2. PICK z : z = [y EXCEPT !.key = FALSE]
      OBVIOUS
    <3>3. y \in WorkerState
      BY <1>0, <3>1 DEF WorkerState, Pc
    <3>4. z \in WorkerState
      BY <3>2, <3>3 DEF WorkerState
    <3>5. [z EXCEPT !.batch = b] \in WorkerState
      BY <1>2, <3>4 DEF WorkerState
    <3> QED
      BY <1>2, <3>1, <3>2, <3>5
  <2>7. worker'.pc = "reserving" /\ worker'.epoch = worker.epoch /\ worker'.source = worker.source
    BY <1>0, <1>2 DEF WorkerState
  <2>8. \E q \in active, r \in Encoder : active' = {r} /\ r.epoch = q.epoch /\ r.source = q.source
    BY <2>4, <2>5
  <2>9. due' \in BOOLEAN
    BY <1>0 DEF CoreInv, CoreTypeOK
  <2> QED
    BY <1>0, <2>6, <2>7, <2>8, <2>9, EncoderKeeps
<1>3. ASSUME NEW a \in active, NEW key \in BOOLEAN
      PROVE  LET frame == [kind |-> "frame", epoch |-> worker.epoch, key |-> key, n |-> a.n]
                 description == [kind |-> "info", epoch |-> worker.epoch, key |-> FALSE, n |-> 0]
             IN  <<description, frame>> \in Seq(Message) /\ <<frame>> \in Seq(Message)
  <2>1. [kind |-> "frame", epoch |-> worker.epoch, key |-> key, n |-> a.n] \in Message
    BY <1>0 DEF Message, WorkerState, Encoder
  <2>2. [kind |-> "info", epoch |-> worker.epoch, key |-> FALSE, n |-> 0] \in Message
    BY <1>0, CountAssumption DEF Message, WorkerState
  <2> QED
    BY <2>1, <2>2
<1> QED
  BY <1>1, <1>2, <1>3 DEF Encode

LEMMA ReportKeeps == ASSUME CoreInv, Report PROVE CoreInv'
<1>0. worker.pc = "reporting" /\ UNCHANGED <<active, closed, due>> /\ due \in BOOLEAN
      /\ worker \in WorkerState
  BY DEF CoreInv, CoreTypeOK, Report, outside, FailEpoch
<1>1. state.pressure => closed \/ state.stop
  BY <1>0 DEF CoreInv, PressureEnds
<1>2. CASE state.epoch # worker.epoch
  <2>1. worker' = Fresh(worker) /\ UNCHANGED <<state, signal>>
    BY <1>2 DEF Report, Idle, shared
  <2>2. worker' \in WorkerState /\ worker'.pc = "idle" /\ worker'.epoch = None
    BY <1>0, <2>1, FreshType, FreshIs
  <2> QED
    BY <1>0, <1>1, <1>2, <2>1, <2>2, IdleKeeps
<1>3. CASE state.epoch = worker.epoch
  BY <1>0, <1>3, FailEpochKeeps DEF Report
<1> QED
  BY <1>2, <1>3

LEMMA TakeKeeps == ASSUME CoreInv, Take PROVE CoreInv'
<1>0. /\ state \in State /\ worker \in WorkerState /\ worker.pc = "taking" /\ due \in BOOLEAN
      /\ UNCHANGED <<signal, active, closed>> /\ state.epoch \in Nat /\ state.epoch >= 1
  BY DEF CoreInv, CoreTypeOK, Take, outside, State, Snapshot
<1>1. state.pressure => closed \/ state.stop
  BY <1>0 DEF CoreInv, PressureEnds
<1>2. CASE Idle /\ UNCHANGED <<state, due>>
  <2>1. worker' \in WorkerState /\ worker'.pc = "idle" /\ worker'.epoch = None
    BY <1>0, <1>2, FreshType, FreshIs DEF Idle
  <2> QED
    BY <1>0, <1>1, <1>2, <2>1, IdleKeeps
<1>3. CASE /\ state.epoch = worker.epoch /\ state.ready
           /\ state' = [state EXCEPT !.pressure = TRUE, !.pending = {}]
           /\ Goto("budget") /\ UNCHANGED due
  <2>1. /\ worker' \in WorkerState /\ worker'.pc = "budget" /\ worker'.epoch = worker.epoch
        /\ worker'.source = worker.source
    BY <1>0, <1>3, GotoType DEF Goto, Pc
  <2>2. state' \in State
    <3>1. PICK x : x = [state EXCEPT !.pressure = TRUE]
      OBVIOUS
    <3>2. x \in State /\ state' = [x EXCEPT !.pending = {}]
      BY <1>0, <1>3, <3>1 DEF State
    <3> QED
      BY <3>2 DEF State
  <2>3. /\ state'.pressure = TRUE /\ state'.pending = {} /\ state'.epoch = state.epoch
        /\ state'.source = state.source /\ state'.ready = state.ready /\ state'.stop = state.stop
        /\ state'.failed = state.failed /\ state'.paused = state.paused
    BY <1>0, <1>3 DEF State
  <2>4. Snapshot'
    BY <1>0, <2>1, <2>3 DEF CoreInv, Snapshot, Undecided, Equipped
  <2>5. ReadyIsOpen'
    BY <1>0, <2>1, <2>3 DEF CoreInv, ReadyIsOpen
  <2>6. PressureEnds' /\ BlockedDefers' /\ WaitingFits' /\ CoreTypeOK'
    BY <1>0, <1>3, <2>1, <2>2, <2>3
    DEF CoreInv, PressureEnds, BlockedDefers, WaitingFits, CoreTypeOK
  <2> QED
    BY <2>4, <2>5, <2>6 DEF CoreInv
<1>4. CASE /\ state.epoch = worker.epoch /\ state.ready
           /\ state' = [state EXCEPT !.pending = {}, !.keyframe = FALSE] /\ due' \in BOOLEAN
           /\ \/ worker' = [worker EXCEPT !.pc = "encoding", !.key = state.keyframe]
              \/ Idle
  <2>1. state' \in State
    <3>1. PICK x : x = [state EXCEPT !.pending = {}]
      OBVIOUS
    <3>2. x \in State /\ state' = [x EXCEPT !.keyframe = FALSE]
      BY <1>0, <1>4, <3>1 DEF State
    <3> QED
      BY <3>2 DEF State
  <2>2. /\ state'.pressure = state.pressure /\ state'.pending = {} /\ state'.epoch = state.epoch
        /\ state'.source = state.source /\ state'.ready = state.ready /\ state'.stop = state.stop
        /\ state'.failed = state.failed /\ state'.paused = state.paused
    BY <1>0, <1>4 DEF State
  <2>3. /\ worker' \in WorkerState
        /\ \/ worker'.pc = "encoding" /\ worker'.epoch = worker.epoch /\ worker'.source = worker.source
           \/ worker'.pc = "idle" /\ worker'.epoch = None
    <3>1. CASE worker' = [worker EXCEPT !.pc = "encoding", !.key = state.keyframe]
      <4>1. state.keyframe \in BOOLEAN
        BY <1>0 DEF State
      <4>2. PICK x : x = [worker EXCEPT !.pc = "encoding"]
        OBVIOUS
      <4>3. x \in WorkerState /\ worker' = [x EXCEPT !.key = state.keyframe]
        BY <1>0, <3>1, <4>2 DEF WorkerState, Pc
      <4>4. worker' \in WorkerState
        BY <4>1, <4>3 DEF WorkerState
      <4> QED
        BY <1>0, <3>1, <4>4 DEF WorkerState
    <3>2. CASE Idle
      BY <1>0, <3>2, FreshType, FreshIs DEF Idle
    <3> QED
      BY <1>4, <3>1, <3>2
  <2>4. Snapshot'
    BY <1>0, <2>2, <2>3 DEF CoreInv, Snapshot, Undecided, Equipped, None
  <2>5. ReadyIsOpen'
    BY <1>0, <2>2, <2>3 DEF CoreInv, ReadyIsOpen
  <2>6. PressureEnds' /\ BlockedDefers' /\ WaitingFits' /\ CoreTypeOK'
    BY <1>0, <1>1, <1>4, <2>1, <2>2, <2>3
    DEF CoreInv, PressureEnds, BlockedDefers, WaitingFits, CoreTypeOK
  <2> QED
    BY <2>4, <2>5, <2>6 DEF CoreInv
<1> QED
  BY <1>0, <1>2, <1>3, <1>4 DEF Take

LEMMA BudgetKeeps == ASSUME CoreInv, Budget PROVE CoreInv'
<1>0. /\ state \in State /\ worker \in WorkerState /\ worker.pc = "budget" /\ due \in BOOLEAN
      /\ UNCHANGED <<signal, active, closed>> /\ state.epoch \in Nat /\ state.epoch >= 1
  BY DEF CoreInv, CoreTypeOK, Budget, outside, State, Snapshot
<1>1. CASE (Over \/ closed) /\ Idle /\ UNCHANGED <<state, due>>
  <2>1. worker' \in WorkerState /\ worker'.pc = "idle" /\ worker'.epoch = None
    BY <1>0, <1>1, FreshType, FreshIs DEF Idle
  <2> QED
    BY <1>0, <1>1, <2>1, IdleKeeps DEF Over
<1>2. CASE /\ state' = [state EXCEPT !.pressure = FALSE] /\ due' = TRUE
           /\ worker' = [Fresh(worker) EXCEPT !.debt = FALSE]
  <2>1. worker' \in WorkerState /\ worker'.pc = "idle" /\ worker'.epoch = None
    BY <1>0, <1>2, FreshType, FreshIs
  <2>2. state' \in State
    BY <1>0, <1>2 DEF State
  <2>3. /\ state'.pressure = FALSE /\ state'.pending = state.pending /\ state'.epoch = state.epoch
        /\ state'.source = state.source /\ state'.ready = state.ready /\ state'.stop = state.stop
        /\ state'.failed = state.failed /\ state'.paused = state.paused
    BY <1>0, <1>2 DEF State
  <2>4. Snapshot'
    BY <1>0, <2>1, <2>3 DEF CoreInv, Snapshot, Undecided, Equipped, None
  <2>5. ReadyIsOpen'
    BY <1>0, <2>1, <2>3 DEF CoreInv, ReadyIsOpen
  <2>6. PressureEnds' /\ BlockedDefers' /\ WaitingFits' /\ CoreTypeOK'
    BY <1>0, <1>2, <2>1, <2>2, <2>3
    DEF CoreInv, PressureEnds, BlockedDefers, WaitingFits, CoreTypeOK
  <2> QED
    BY <2>4, <2>5, <2>6 DEF CoreInv
<1> QED
  BY <1>1, <1>2 DEF Budget

LEMMA EncodingKeeps == ASSUME CoreInv, Encoding PROVE CoreInv'
BY BeginKeeps, OpenKeeps, SetRateKeeps, TakeKeeps, BudgetKeeps, EncodeKeeps, ReportKeeps
DEF Encoding

-----------------------------------------------------------------------------
(* The session restarts the stream, or changes a detail of it. *)

LEMMA SelectedKeeps ==
  ASSUME CoreInv, NEW b \in BOOLEAN, Update(Restart([state EXCEPT !.paused = b])),
         UNCHANGED <<worker, active, closed>>, due' \in BOOLEAN
  PROVE  CoreInv'
<1>1. state \in State
  BY DEF CoreInv, CoreTypeOK
<1>2. /\ [state EXCEPT !.paused = b] \in State
      /\ [state EXCEPT !.paused = b].epoch = state.epoch
      /\ [state EXCEPT !.paused = b].stop = state.stop
  BY <1>1 DEF State
<1> QED
  BY <1>2, RestartKeeps

LEMMA SessionKeeps == ASSUME CoreInv, Session PROVE CoreInv'
<1>0. state \in State /\ signal \in BOOLEAN /\ due \in BOOLEAN /\ closed \in BOOLEAN
  BY DEF CoreInv, CoreTypeOK
<1>1. CASE Receive \/ Configure \/ Present \/ Close
  BY <1>0, <1>1, DetailKeeps DEF Receive, Configure, Present, Close, shared, sink
<1>2. CASE Recover
  <2>1. PICK b \in BOOLEAN : b = ~(selection'.index < selection'.size)
    OBVIOUS
  <2>2. Update(Restart([state EXCEPT !.paused = b]))
    <3>1. Update(Restart([state EXCEPT !.paused = ~(selection'.index < selection'.size)]))
      BY <1>2 DEF Recover, Selected, Codec
    <3> QED
      BY <2>1, <3>1
  <2> QED
    BY <1>2, <2>1, <2>2, SelectedKeeps DEF Recover, sink
<1>3. CASE \E k \in 0 .. Candidates : Choose(k)
  <2>1. PICK b \in BOOLEAN : b = ~(selection'.index < selection'.size)
    OBVIOUS
  <2>2. Update(Restart([state EXCEPT !.paused = b]))
    <3>1. Update(Restart([state EXCEPT !.paused = ~(selection'.index < selection'.size)]))
      BY <1>3 DEF Choose, Selected, Codec
    <3> QED
      BY <2>1, <3>1
  <2> QED
    BY <1>3, <2>1, <2>2, SelectedKeeps DEF Choose, sink
<1>4. CASE Retune
  BY <1>0, <1>4, RestartKeeps DEF Retune, sink
<1>5. CASE RequestKeyframe
  <2>1. /\ state' = IF state.stop THEN state ELSE [state EXCEPT !.keyframe = TRUE]
        /\ UNCHANGED <<worker, active, closed>> /\ due' = TRUE
    BY <1>5 DEF RequestKeyframe, Update, sink
  <2>2. /\ state' \in State /\ state'.epoch = state.epoch /\ state'.source = state.source
        /\ state'.pending = state.pending /\ state'.ready = state.ready
        /\ state'.failed = state.failed /\ state'.paused = state.paused
        /\ state'.pressure = state.pressure /\ state'.stop = state.stop
    BY <1>0, <2>1 DEF State
  <2>3. signal' \in BOOLEAN
    BY <1>0, <1>5 DEF RequestKeyframe, Update
  <2> QED
    BY <1>0, <2>1, <2>2, <2>3, DetailKeeps
<1>6. CASE \E r \in Rate : SetQuality(r)
  <2>1. PICK r \in Rate : SetQuality(r)
    BY <1>6
  <2>2. PICK s : s = [state EXCEPT !.rate = r]
    OBVIOUS
  <2>3. /\ s \in State /\ s.epoch = state.epoch /\ s.source = state.source
        /\ s.pending = state.pending /\ s.ready = state.ready /\ s.failed = state.failed
        /\ s.paused = state.paused /\ s.pressure = state.pressure /\ s.stop = state.stop
    BY <1>0, <2>2 DEF State
  <2>4. UNCHANGED <<worker, active, closed, due>>
    BY <2>1 DEF SetQuality, sink
  <2>5. CASE state.inplace
    <3>1. Update(s)
      BY <2>1, <2>2, <2>5 DEF SetQuality
    <3>2. state' \in {state, s} /\ signal' \in BOOLEAN
      BY <1>0, <3>1 DEF Update
    <3> QED
      BY <1>0, <2>3, <2>4, <3>2, DetailKeeps
  <2>6. CASE ~state.inplace
    <3>1. Update(Restart(s))
      BY <2>1, <2>2, <2>6 DEF SetQuality
    <3> QED
      BY <1>0, <2>3, <2>4, <3>1, RestartKeeps
  <2> QED
    BY <2>5, <2>6
<1> QED
  BY <1>1, <1>2, <1>3, <1>4, <1>5, <1>6 DEF Session, Reading, Choosing

LEMMA InitCoreInv == Init => CoreInv
<1> SUFFICES ASSUME Init PROVE CoreInv
  OBVIOUS
<1>1. CoreTypeOK
  <2>1. state \in State
    BY DEF Init, State
  <2>2. worker \in WorkerState
    <3>1. <<>> \in Seq(Message)
      OBVIOUS
    <3> QED
      BY <3>1 DEF Init, WorkerState, Pc
  <2> QED
    BY <2>1, <2>2 DEF Init, CoreTypeOK
<1>2. /\ state.epoch = 1 /\ state.pending = {} /\ ~state.ready /\ ~state.pressure
      /\ worker.pc = "idle" /\ worker.epoch = 0 /\ active = {}
  BY DEF Init
<1> QED
  BY <1>1, <1>2
  DEF CoreInv, Snapshot, WaitingFits, BlockedDefers, ReadyIsOpen, PressureEnds, Undecided, Equipped,
      None

LEMMA NextCoreInv == CoreInv /\ [Next]_vars => CoreInv'
<1> SUFFICES ASSUME CoreInv, [Next]_vars PROVE CoreInv'
  OBVIOUS
<1>1. CASE Next
  BY <1>1, CompositorKeeps, EncodingKeeps, DeliveryKeeps, SessionKeeps DEF Next, Worker
<1>2. CASE UNCHANGED vars
  BY <1>2, DetailKeeps DEF vars, shared, CoreInv, CoreTypeOK
<1> QED
  BY <1>1, <1>2

LEMMA SpecCoreInv == Spec => []CoreInv
BY InitCoreInv, NextCoreInv, PTL DEF Spec

-----------------------------------------------------------------------------
(***************************************************************************)
(* What the worker, the channel and the session have under way.  A failure  *)
(* of the current epoch is at one place at a time, and the epoch is marked  *)
(* as failed as long as it is anywhere; a restart makes all of them void.   *)
(***************************************************************************)

Page == [epoch : Nat, awaiting : BOOLEAN,
         last : [epoch : Nat, key : BOOLEAN, n : 0 .. Modulus - 1]]
Left == [changes : Nat, faults : Nat, losses : Nat]

WayTypeOK ==
  /\ channel \in Seq(Message) /\ accepted \in SUBSET Message
  /\ selection \in Selection /\ info \in Nat
  /\ page \in Page /\ asked \in BOOLEAN /\ left \in Left

Fails(m) == m.kind = "failed" /\ m.epoch = state.epoch
FailingHere == worker.pc \in Delivering /\ worker.batch = Failure /\ worker.epoch = state.epoch

FailuresInv ==
  /\ \A i \in DOMAIN channel : channel[i].epoch <= state.epoch
  /\ \A m \in accepted : m.epoch <= state.epoch
  /\ \A m, n \in accepted : m = n
  /\ \A i \in DOMAIN channel : Fails(channel[i]) => state.failed /\ ~FailingHere
  /\ \A m \in accepted : Fails(m) => state.failed /\ ~FailingHere
  /\ FailingHere => state.failed
  /\ \A i, j \in DOMAIN channel : Fails(channel[i]) /\ Fails(channel[j]) => i = j
  /\ \A m \in accepted, i \in DOMAIN channel : ~(Fails(m) /\ Fails(channel[i]))
  /\ worker.pc \in Delivering /\ worker.batch # Failure =>
       \A i \in DOMAIN worker.batch :
         worker.batch[i].kind # "failed" /\ worker.batch[i].epoch = worker.epoch

\* A step that moves no failure, and reads at most the one the session holds
LEMMA QuietKeeps ==
  ASSUME FailuresInv, state'.epoch = state.epoch, state'.failed = state.failed,
         channel' = channel, accepted' \subseteq accepted, FailingHere' => FailingHere,
         worker'.pc \in Delivering /\ worker'.batch # Failure' =>
           \A i \in DOMAIN worker'.batch :
             worker'.batch[i].kind # "failed" /\ worker'.batch[i].epoch = worker'.epoch
  PROVE  FailuresInv'
BY DEF FailuresInv, Fails

\* A restart
LEMMA VoidKeeps ==
  ASSUME CoreInv, WayTypeOK, FailuresInv, state'.epoch = state.epoch + 1,
         worker' = worker, channel' = channel, accepted' \subseteq accepted
  PROVE  FailuresInv'
<1>1. state.epoch \in Nat /\ worker.epoch \in Nat /\ worker.epoch <= state.epoch
  BY DEF CoreInv, CoreTypeOK, State, WorkerState, Snapshot
<1>2. /\ \A i \in DOMAIN channel : channel[i].epoch \in Nat
      /\ \A m \in accepted : m.epoch \in Nat
  <2>1. \A m \in Message : m.epoch \in Nat
    BY DEF Message
  <2>2. \A i \in DOMAIN channel : channel[i] \in Message
    BY DEF WayTypeOK
  <2> QED
    BY <2>1, <2>2 DEF WayTypeOK
<1>3. ~FailingHere' /\ Failure' = Failure
  <2>1. ~FailingHere'
    BY <1>1 DEF FailingHere
  <2>2. Failure' = Failure
    BY DEF Failure
  <2> QED
    BY <2>1, <2>2
<1>4. /\ \A i \in DOMAIN channel : channel[i].epoch < state'.epoch
      /\ \A m \in accepted' : m.epoch < state'.epoch
  BY <1>1, <1>2 DEF FailuresInv
<1>5. /\ \A i \in DOMAIN channel' : ~Fails(channel[i])'
      /\ \A m \in accepted' : ~(m.kind = "failed" /\ m.epoch = state'.epoch)
  BY <1>1, <1>2, <1>4 DEF Fails
<1>6. /\ \A i \in DOMAIN channel' : channel'[i].epoch <= state'.epoch
      /\ \A m \in accepted' : m.epoch <= state'.epoch
      /\ \A m, n \in accepted' : m = n
  BY <1>1, <1>2, <1>4 DEF FailuresInv
<1>7. worker'.pc \in Delivering /\ worker'.batch # Failure' =>
        \A i \in DOMAIN worker'.batch :
          worker'.batch[i].kind # "failed" /\ worker'.batch[i].epoch = worker'.epoch
  BY <1>3 DEF FailuresInv
<1> QED
  BY <1>3, <1>5, <1>6, <1>7 DEF FailuresInv, Fails

LEMMA AtMostOne ==
  ASSUME NEW S, \A a, b \in S : a = b
  PROVE  Cardinality(S) \in {0, 1} /\ (S = {} <=> Cardinality(S) = 0)
<1>1. CASE S = {}
  BY <1>1, FS_EmptySet
<1>2. CASE S # {}
  <2>1. PICK a \in S : TRUE
    BY <1>2
  <2>2. S = {a}
    BY <2>1
  <2>3. Cardinality({a}) = 1
    BY FS_Singleton
  <2> QED
    BY <1>2, <2>2, <2>3
<1> QED
  BY <1>1, <1>2

LEMMA FailuresCounted ==
  ASSUME FailuresInv
  PROVE  FailureCountsOnce
<1> DEFINE Sent == {i \in DOMAIN channel : Fails(channel[i])}
           Taken == {m \in accepted : Fails(m)}
<1>1. Cardinality(Sent) \in {0, 1} /\ (Sent = {} <=> Cardinality(Sent) = 0)
  BY AtMostOne DEF FailuresInv
<1>2. Cardinality(Taken) \in {0, 1} /\ (Taken = {} <=> Cardinality(Taken) = 0)
  BY AtMostOne DEF FailuresInv
<1>3. Sent = {} \/ Taken = {}
  BY DEF FailuresInv
<1>4. FailingHere => Sent = {} /\ Taken = {}
  BY DEF FailuresInv
<1>5. Cardinality(Sent) + Cardinality(Taken) + (IF FailingHere THEN 1 ELSE 0) <= 1
  BY <1>1, <1>2, <1>3, <1>4
<1>6. \A i \in DOMAIN channel : Fails(channel[i]) => state.failed
  BY DEF FailuresInv
<1> QED
  BY <1>5, <1>6 DEF FailureCountsOnce, Fails, FailingHere, Delivering

-----------------------------------------------------------------------------
(* Types of what is under way *)

LEMMA SpendType ==
  ASSUME WayTypeOK, NEW what \in {"changes", "faults", "losses"}, Spend(what)
  PROVE  left' \in Left
BY DEF WayTypeOK, Spend, Left

LEMMA SelectionFields ==
  ASSUME NEW s \in Selection, NEW f \in 0 .. 1, NEW n \in 0 .. Steady, NEW e \in Nat
  PROVE  /\ [s EXCEPT !.failures = f] \in Selection /\ [s EXCEPT !.frames = n] \in Selection
         /\ [s EXCEPT !.of = e] \in Selection /\ [s EXCEPT !.index = @ + 1] \in Selection
BY DEF Selection

LEMMA FailedType == ASSUME NEW s \in Selection PROVE Failed(s) \in Selection
<1>0. /\ 0 \in 0 .. 1 /\ 0 \in 0 .. Steady /\ None \in Nat /\ s.failures \in 0 .. 1
      /\ s.failures # 1 => s.failures + 1 \in 0 .. 1
  BY CountAssumption DEF Selection, None
<1>1. ASSUME NEW x \in Selection, NEW f \in 0 .. 1
      PROVE  [x EXCEPT !.failures = f, !.frames = 0, !.of = None] \in Selection
  <2>1. PICK y : y = [x EXCEPT !.failures = f]
    OBVIOUS
  <2>2. PICK z : z = [y EXCEPT !.frames = 0]
    OBVIOUS
  <2>3. y \in Selection
    BY <1>0, <1>1, <2>1, SelectionFields
  <2>4. z \in Selection
    BY <1>0, <2>2, <2>3, SelectionFields
  <2>5. [z EXCEPT !.of = None] \in Selection
    BY <1>0, <2>4, SelectionFields
  <2> QED
    BY <2>1, <2>2, <2>5
<1>2. CASE s.failures = 1
  <2>1. PICK x : x = [s EXCEPT !.index = @ + 1]
    OBVIOUS
  <2>2. x \in Selection
    BY <1>0, <2>1, SelectionFields
  <2>3. [x EXCEPT !.failures = 0, !.frames = 0, !.of = None] \in Selection
    BY <1>0, <1>1, <2>2
  <2> QED
    BY <1>2, <2>1, <2>3 DEF Failed
<1>3. CASE s.failures # 1
  <2>1. [s EXCEPT !.failures = s.failures + 1, !.frames = 0, !.of = None] \in Selection
    BY <1>0, <1>1, <1>3
  <2> QED
    BY <1>3, <2>1 DEF Failed
<1> QED
  BY <1>2, <1>3

LEMMA CountedType ==
  ASSUME NEW s \in Selection, NEW e \in Nat
  PROVE  Counted(s, e) \subseteq Selection
<1> SUFFICES ASSUME NEW c \in Counted(s, e) PROVE c \in Selection
  OBVIOUS
<1>0. s.frames \in 0 .. Steady /\ s.failures \in 0 .. 1 /\ Steady \in Nat /\ Steady > 0
  BY CountAssumption DEF Selection
<1>1. PICK n : n = IF s.of # e THEN 1 ELSE IF s.frames < Steady THEN s.frames + 1 ELSE Steady
  OBVIOUS
<1>2. n \in 0 .. Steady
  BY <1>0, <1>1
<1>3. PICK f \in {s.failures} \cup (IF n = Steady THEN {0} ELSE {}) :
        c = [s EXCEPT !.of = e, !.frames = n, !.failures = f]
  BY <1>1 DEF Counted
<1>4. f \in 0 .. 1
  BY <1>0, <1>3
<1>5. PICK x : x = [s EXCEPT !.of = e]
  OBVIOUS
<1>6. PICK y : y = [x EXCEPT !.frames = n]
  OBVIOUS
<1>7. x \in Selection
  BY <1>2, <1>4, <1>5, SelectionFields
<1>8. y \in Selection
  BY <1>2, <1>4, <1>6, <1>7, SelectionFields
<1>9. [y EXCEPT !.failures = f] \in Selection
  BY <1>2, <1>4, <1>8, SelectionFields
<1> QED
  BY <1>3, <1>5, <1>6, <1>9

LEMMA PageTypes ==
  ASSUME NEW p \in Page, NEW e \in Nat, NEW m \in Message
  PROVE  /\ [p EXCEPT !.epoch = e, !.awaiting = TRUE] \in Page
         /\ [p EXCEPT !.awaiting = TRUE] \in Page /\ Shown(p, m) \in Page /\ NoPage \in Page
<1>1. PICK x : x = [p EXCEPT !.epoch = e]
  OBVIOUS
<1>2. x \in Page
  BY <1>1 DEF Page
<1>3. [x EXCEPT !.awaiting = TRUE] \in Page
  BY <1>2 DEF Page
<1>4. PICK y : y = [p EXCEPT !.awaiting = FALSE]
  OBVIOUS
<1>5. y \in Page
  BY <1>4 DEF Page
<1>6. PICK l : l = [epoch |-> m.epoch, key |-> m.key, n |-> m.n]
  OBVIOUS
<1>7. l \in [epoch : Nat, key : BOOLEAN, n : 0 .. Modulus - 1]
  BY <1>6 DEF Message
<1>8. [y EXCEPT !.last = l] \in Page
  BY <1>5, <1>7 DEF Page
<1>9. Shown(p, m) \in Page
  BY <1>4, <1>6, <1>8 DEF Shown
<1>10. [p EXCEPT !.awaiting = TRUE] \in Page
  BY DEF Page
<1>11. NoPage \in Page
  BY CountAssumption DEF NoPage, NoFrame, None, Page
<1> QED
  BY <1>1, <1>3, <1>9, <1>10, <1>11

-----------------------------------------------------------------------------
WayInv == WayTypeOK /\ FailuresInv

\* A step that leaves the worker and its channel alone
LEMMA StateKeeps ==
  ASSUME CoreInv, WayInv, worker' = worker, channel' = channel, accepted' \subseteq accepted,
         \/ state'.epoch = state.epoch + 1
         \/ state'.epoch = state.epoch /\ state'.failed = state.failed
  PROVE  FailuresInv'
<1>1. CASE state'.epoch = state.epoch + 1
  BY <1>1, VoidKeeps DEF WayInv
<1>2. CASE state'.epoch = state.epoch /\ state'.failed = state.failed
  <2>1. FailingHere' => FailingHere
    BY <1>2 DEF FailingHere, Failure
  <2>2. Failure' = Failure
    BY DEF Failure
  <2> QED
    BY <1>2, <2>1, <2>2, QuietKeeps DEF WayInv, FailuresInv
<1> QED
  BY <1>1, <1>2

LEMMA UpdateSteps ==
  ASSUME NEW s \in State, s.epoch = state.epoch, Update(Restart(s))
  PROVE  state'.epoch = state.epoch + 1 \/ state' = state
BY RestartIs DEF Update

LEMMA CompositorWay == ASSUME CoreInv, WayInv, Compositor PROVE WayInv'
<1>0. state \in State
  BY DEF CoreInv, CoreTypeOK
<1>1. /\ UNCHANGED <<worker, channel, accepted, selection, info, page, asked>>
      /\ left' \in Left
  <2>1. CASE \E g \in Geometry : Resize(g)
    BY <2>1, SpendType DEF Resize, session, browser, WayInv
  <2> QED
    BY <2>1 DEF Compositor, Attach, Damage, Submit, DropSink, session, browser, WayInv, WayTypeOK
<1>2. WayTypeOK'
  BY <1>1 DEF WayInv, WayTypeOK
<1>3. \/ state'.epoch = state.epoch + 1
      \/ state'.epoch = state.epoch /\ state'.failed = state.failed
  <2>1. CASE Attach \/ \E g \in Geometry : Resize(g)
    <3>1. PICK g \in Geometry : Update(Restart([state EXCEPT !.source = {g}]))
      BY <2>1 DEF Attach, Resize
    <3>2. [state EXCEPT !.source = {g}] \in State /\ [state EXCEPT !.source = {g}].epoch = state.epoch
      BY <1>0 DEF State
    <3> QED
      BY <3>1, <3>2, UpdateSteps
  <2>2. CASE Damage \/ Submit \/ DropSink
    BY <1>0, <2>2 DEF Damage, Submit, DropSink, shared, State
  <2> QED
    BY <2>1, <2>2 DEF Compositor
<1> QED
  BY <1>1, <1>2, <1>3, StateKeeps DEF WayInv

LEMMA SessionWay == ASSUME CoreInv, WayInv, Session, ~Receive PROVE WayInv'
<1>0. state \in State /\ selection \in Selection /\ accepted \in SUBSET Message /\ info \in Nat
      /\ page \in Page /\ asked \in BOOLEAN /\ left \in Left /\ channel \in Seq(Message)
  BY DEF CoreInv, CoreTypeOK, WayInv, WayTypeOK
<1>1. CASE Close
  <2>1. channel' = <<>> /\ accepted' = {} /\ UNCHANGED <<state, worker>>
    BY <1>1 DEF Close, shared, sink
  <2>2. WayTypeOK'
    <3>1. NoPage \in Page
      BY CountAssumption DEF NoPage, NoFrame, None, Page
    <3>2. <<>> \in Seq(Message) /\ None \in Nat
      BY DEF None
    <3> QED
      BY <1>0, <1>1, <2>1, <3>1, <3>2 DEF Close, WayTypeOK
  <2>3. Failure' = Failure /\ (FailingHere' <=> FailingHere)
    BY <2>1 DEF Failure, FailingHere
  <2>4. FailuresInv'
    BY <2>1, <2>3 DEF WayInv, FailuresInv
  <2> QED
    BY <2>2, <2>4 DEF WayInv
<1>2. CASE Configure \/ Present
  <2>1. UNCHANGED <<state, worker, channel>> /\ accepted' = {}
    BY <1>2 DEF Configure, Present, shared, sink
  <2>2. CASE Configure
    <3>1. info' \in Nat
      BY <1>0, <2>2 DEF Configure, Message
    <3> QED
      BY <1>0, <2>1, <2>2, <3>1, StateKeeps DEF Configure, WayInv, WayTypeOK, browser
  <2>3. CASE Present
    <3>1. PICK m \in accepted :
            /\ selection' \in Counted(selection, m.epoch)
            /\ LET c == Configured(m.epoch) IN
               \/ UNCHANGED <<browser, left>>
               \/ page' = Shown(c.page, m) /\ asked' = c.asked /\ UNCHANGED left
               \/ /\ Spend("losses")
                  /\ page' = [c.page EXCEPT !.awaiting = TRUE] /\ asked' = TRUE
      BY <2>3 DEF Present
    <3>2. m \in Message /\ m.epoch \in Nat
      BY <1>0, <3>1 DEF Message
    <3>3. selection' \in Selection
      BY <1>0, <3>1, <3>2, CountedType
    <3>4. Configured(m.epoch).page \in Page /\ Configured(m.epoch).asked \in BOOLEAN
      BY <1>0, <3>2, PageTypes DEF Configured
    <3>5. page' \in Page /\ asked' \in BOOLEAN /\ left' \in Left
      <4>1. CASE UNCHANGED <<browser, left>>
        BY <1>0, <4>1 DEF browser
      <4>2. CASE page' = Shown(Configured(m.epoch).page, m)
                 /\ asked' = Configured(m.epoch).asked /\ UNCHANGED left
        BY <1>0, <3>2, <3>4, <4>2, PageTypes
      <4>3. CASE /\ Spend("losses") /\ asked' = TRUE
                 /\ page' = [Configured(m.epoch).page EXCEPT !.awaiting = TRUE]
        BY <1>0, <3>2, <3>4, <4>3, PageTypes, SpendType DEF WayInv
      <4> QED
        BY <3>1, <4>1, <4>2, <4>3
    <3>6. info' \in Nat
      BY <1>0, <2>3 DEF Present
    <3> QED
      BY <1>0, <2>1, <3>3, <3>5, <3>6, StateKeeps DEF WayInv, WayTypeOK
  <2> QED
    BY <1>2, <2>2, <2>3
<1>3. CASE Recover \/ \E k \in 0 .. Candidates : Choose(k)
  <2>1. PICK b \in BOOLEAN : Update(Restart([state EXCEPT !.paused = b]))
    <3>1. PICK b \in BOOLEAN : b = ~(selection'.index < selection'.size)
      OBVIOUS
    <3>2. Update(Restart([state EXCEPT !.paused = ~(selection'.index < selection'.size)]))
      BY <1>3 DEF Recover, Choose, Selected, Codec
    <3> QED
      BY <3>1, <3>2
  <2>2. [state EXCEPT !.paused = b] \in State /\ [state EXCEPT !.paused = b].epoch = state.epoch
    BY <1>0 DEF State
  <2>3. state'.epoch = state.epoch + 1 \/ state' = state
    BY <2>1, <2>2, UpdateSteps
  <2>4. UNCHANGED <<worker, channel, page, asked>> /\ accepted' \subseteq accepted /\ info' \in Nat
    BY <1>0, <1>3 DEF Recover, Choose, sink, browser, None
  <2>5. selection' \in Selection /\ left' \in Left
    <3>1. CASE Recover
      BY <1>0, <3>1, FailedType DEF Recover
    <3>2. CASE \E k \in 0 .. Candidates : Choose(k)
      <4>1. \A k \in 0 .. Candidates :
              [index |-> 0, size |-> k, failures |-> 0, frames |-> 0, of |-> None] \in Selection
        BY CountAssumption DEF Selection, None
      <4> QED
        BY <3>2, <4>1, SpendType DEF Choose, Change, WayInv
    <3> QED
      BY <1>3, <3>1, <3>2
  <2> QED
    BY <1>0, <2>3, <2>4, <2>5, StateKeeps DEF WayInv, WayTypeOK
<1>4. CASE RequestKeyframe \/ Retune \/ \E r \in Rate : SetQuality(r)
  <2>1. /\ UNCHANGED <<worker, channel, selection, accepted, info, page>> /\ asked' \in BOOLEAN
        /\ left' \in Left
    BY <1>0, <1>4, SpendType
    DEF RequestKeyframe, Retune, SetQuality, Change, sink, session, browser, WayInv
  <2>2. \/ state'.epoch = state.epoch + 1
        \/ state'.epoch = state.epoch /\ state'.failed = state.failed
    <3>1. CASE RequestKeyframe
      BY <1>0, <3>1 DEF RequestKeyframe, Update, State
    <3>2. CASE Retune
      BY <1>0, <3>2, UpdateSteps DEF Retune
    <3>3. CASE \E r \in Rate : SetQuality(r)
      <4>1. PICK r \in Rate : SetQuality(r)
        BY <3>3
      <4>2. PICK s : s = [state EXCEPT !.rate = r]
        OBVIOUS
      <4>3. s \in State /\ s.epoch = state.epoch /\ s.failed = state.failed
        BY <1>0, <4>2 DEF State
      <4>4. Update(s) \/ Update(Restart(s))
        BY <4>1, <4>2 DEF SetQuality
      <4>5. CASE Update(s)
        BY <4>3, <4>5 DEF Update
      <4> QED
        BY <4>3, <4>4, <4>5, UpdateSteps
    <3> QED
      BY <1>4, <3>1, <3>2, <3>3
  <2> QED
    BY <1>0, <2>1, <2>2, StateKeeps DEF WayInv, WayTypeOK
<1> QED
  BY <1>1, <1>2, <1>3, <1>4 DEF Session, Reading, Choosing

\* The first message is taken: whatever failure is in the channel is the one there is.
LEMMA ReceiveWay == ASSUME CoreInv, WayInv, Receive PROVE WayInv'
<1>0. /\ channel \in Seq(Message) /\ channel # <<>> /\ accepted = {} /\ channel' = Tail(channel)
      /\ accepted' \subseteq {Head(channel)} /\ UNCHANGED <<state, worker>>
      /\ UNCHANGED <<selection, info, page, asked, left>>
  BY DEF WayInv, WayTypeOK, Receive, shared, sink, browser
<1>1. /\ Head(channel) = channel[1] /\ 1 \in DOMAIN channel /\ Head(channel) \in Message
      /\ Tail(channel) \in Seq(Message)
      /\ \A i \in DOMAIN Tail(channel) :
           i + 1 \in DOMAIN channel /\ i + 1 # 1 /\ Tail(channel)[i] = channel[i + 1]
      /\ \A i, j \in DOMAIN Tail(channel) : i + 1 = j + 1 => i = j
  BY <1>0
<1>2. WayTypeOK'
  BY <1>0, <1>1 DEF WayInv, WayTypeOK
<1>3. Failure' = Failure /\ (FailingHere' <=> FailingHere)
  BY <1>0 DEF Failure, FailingHere
<1>4. /\ \A i \in DOMAIN channel' : channel'[i].epoch <= state'.epoch
      /\ \A m \in accepted' : m.epoch <= state'.epoch
      /\ \A m, n \in accepted' : m = n
  BY <1>0, <1>1 DEF WayInv, FailuresInv
<1>5. /\ \A i \in DOMAIN channel' :
           channel'[i].kind = "failed" /\ channel'[i].epoch = state.epoch => state.failed /\ ~FailingHere
      /\ \A m \in accepted' :
           m.kind = "failed" /\ m.epoch = state.epoch => state.failed /\ ~FailingHere
  BY <1>0, <1>1 DEF WayInv, FailuresInv, Fails
<1>6. /\ \A i, j \in DOMAIN channel' :
           channel'[i].kind = "failed" /\ channel'[i].epoch = state.epoch
           /\ channel'[j].kind = "failed" /\ channel'[j].epoch = state.epoch => i = j
      /\ \A m \in accepted', i \in DOMAIN channel' :
           ~(m.kind = "failed" /\ m.epoch = state.epoch
             /\ channel'[i].kind = "failed" /\ channel'[i].epoch = state.epoch)
  BY <1>0, <1>1 DEF WayInv, FailuresInv, Fails
<1>7. FailuresInv'
  BY <1>0, <1>3, <1>4, <1>5, <1>6 DEF WayInv, FailuresInv, Fails
<1> QED
  BY <1>2, <1>7 DEF WayInv

\* The worker's steps but the failure of an epoch and the sending of a batch
LEMMA WorkerWay ==
  ASSUME CoreInv, WayInv, Worker, ~Send, ~((Open \/ Report) /\ FailEpoch)
  PROVE  WayInv'
<1>0. /\ UNCHANGED <<channel, accepted, selection, info, page, asked>> /\ left' \in Left
      /\ worker \in WorkerState /\ state \in State
  <2>1. UNCHANGED <<channel, accepted, selection, info, page, asked>>
    BY DEF Worker, Encoding, Delivery, Begin, Open, SetRate, Take, Budget, Encode, Report, Reserve,
           Full, Wake, DeliveryFrame, outside, session, browser
  <2>2. left' = left \/ Spend("faults")
    BY DEF Worker, Encoding, Delivery, Begin, Open, SetRate, Take, Budget, Encode, Report, Reserve,
           Full, Wake, DeliveryFrame, outside, Fault, NoFault
  <2> QED
    BY <2>1, <2>2, SpendType DEF WayInv, WayTypeOK, CoreInv, CoreTypeOK
<1>1. WayTypeOK'
  BY <1>0 DEF WayInv, WayTypeOK
<1>2. state'.epoch = state.epoch /\ state'.failed = state.failed
  BY <1>0 DEF Worker, Encoding, Delivery, Begin, Open, SetRate, Take, Budget, Encode, Report,
              Reserve, Full, Wake, shared, State
<1>3. \/ worker'.pc \notin Delivering
      \/ worker.pc \in Delivering /\ worker'.epoch = worker.epoch /\ worker'.batch = worker.batch
      \/ Encode
  <2>1. CASE Idle \/ Done
    BY <1>0, <2>1, FreshIs DEF Idle, Done, Delivering
  <2>2. CASE Begin \/ SetRate
    BY <1>0, <2>1, <2>2 DEF Begin, SetRate, Goto, Delivering, WorkerState
  <2>3. CASE Open \/ Report
    BY <1>0, <2>1, <2>3 DEF Open, Report
  <2>4. CASE Take
    BY <1>0, <2>1, <2>4 DEF Take, Goto, Delivering, WorkerState
  <2>5. CASE Budget
    <3>1. CASE worker' = [Fresh(worker) EXCEPT !.debt = FALSE]
      BY <1>0, <3>1, FreshIs DEF Delivering
    <3> QED
      BY <2>1, <2>5, <3>1 DEF Budget
  <2>6. CASE Reserve \/ Full \/ Wake
    BY <1>0, <2>1, <2>6 DEF Reserve, Full, Wake, Goto, Delivering, WorkerState
  <2> QED
    BY <2>2, <2>3, <2>4, <2>5, <2>6 DEF Worker, Encoding, Delivery
<1>4. CASE worker'.pc \notin Delivering
  <2>1. ~FailingHere'
    BY <1>4 DEF FailingHere
  <2> QED
    BY <1>0, <1>1, <1>2, <1>4, <2>1, QuietKeeps DEF WayInv
<1>5. CASE worker.pc \in Delivering /\ worker'.epoch = worker.epoch /\ worker'.batch = worker.batch
  <2>1. Failure' = Failure
    BY <1>5 DEF Failure
  <2>2. FailingHere' => FailingHere
    BY <1>2, <1>5, <2>1 DEF FailingHere
  <2>3. worker'.pc \in Delivering /\ worker'.batch # Failure' =>
          \A i \in DOMAIN worker'.batch :
            worker'.batch[i].kind # "failed" /\ worker'.batch[i].epoch = worker'.epoch
    BY <1>5, <2>1 DEF WayInv, FailuresInv
  <2> QED
    BY <1>0, <1>1, <1>2, <2>2, <2>3, QuietKeeps DEF WayInv
<1>6. CASE Encode /\ worker'.pc \in Delivering
  <2>1. PICK a \in active, key \in BOOLEAN :
          LET frame == [kind |-> "frame", epoch |-> worker.epoch, key |-> key, n |-> a.n]
              description == [kind |-> "info", epoch |-> worker.epoch, key |-> FALSE, n |-> 0]
          IN  worker' = [worker EXCEPT !.pc = "reserving", !.key = FALSE,
                           !.batch = IF a.info THEN <<description, frame>> ELSE <<frame>>]
    <3>1. ~Goto("reporting")
      BY <1>0, <1>6 DEF Goto, Delivering, WorkerState
    <3> QED
      BY <1>6, <3>1 DEF Encode
  <2>a. PICK f : f = [kind |-> "frame", epoch |-> worker.epoch, key |-> key, n |-> a.n]
    OBVIOUS
  <2>b. PICK d : d = [kind |-> "info", epoch |-> worker.epoch, key |-> FALSE, n |-> 0]
    OBVIOUS
  <2>c. worker' = [worker EXCEPT !.pc = "reserving", !.key = FALSE,
                     !.batch = IF a.info THEN <<d, f>> ELSE <<f>>]
    BY <2>1, <2>a, <2>b
  <2>2. worker'.epoch = worker.epoch /\ worker'.batch \in {<<d, f>>, <<f>>}
    BY <1>0, <2>c DEF WorkerState
  <2>3. \A i \in DOMAIN worker'.batch :
          worker'.batch[i].kind # "failed" /\ worker'.batch[i].epoch = worker'.epoch
    BY <2>a, <2>b, <2>2
  <2>4. 1 \in DOMAIN worker'.batch /\ Failure'[1].kind = "failed"
    BY <2>2 DEF Failure
  <2>5. ~FailingHere'
    BY <2>3, <2>4 DEF FailingHere
  <2> QED
    BY <1>0, <1>1, <1>2, <2>3, <2>5, QuietKeeps DEF WayInv
<1> QED
  BY <1>3, <1>4, <1>5, <1>6

\* An epoch fails once: it was not marked, so no failure of it was anywhere.
LEMMA FailEpochWay ==
  ASSUME CoreInv, WayInv, Open \/ Report, FailEpoch
  PROVE  WayInv'
<1>0. /\ worker \in WorkerState /\ state \in State /\ worker.pc \in {"opening", "reporting"}
      /\ UNCHANGED <<channel, accepted, selection, info, page, asked>> /\ left' \in Left
  <2>1. left' = left \/ Spend("faults")
    BY DEF Open, Report, Fault, NoFault
  <2> QED
    BY <2>1, SpendType
    DEF Open, Report, FailEpoch, outside, session, browser, WayInv, WayTypeOK, CoreInv, CoreTypeOK
<1>1. WayTypeOK'
  BY <1>0 DEF WayInv, WayTypeOK
<1>2. /\ worker'.pc = "reserving" /\ worker'.batch = Failure /\ worker'.epoch = worker.epoch
      /\ state'.epoch = state.epoch /\ state'.failed = TRUE
  BY <1>0 DEF FailEpoch, WorkerState, State
<1>3. worker.epoch = state.epoch
  <2>1. worker' # Fresh(worker) /\ worker' # [Fresh(worker) EXCEPT !.pc = "done"]
    BY <1>0, <1>2, FreshIs
  <2> QED
    BY <2>1 DEF Open, Report, Over, Idle, Done
<1>4. ~state.failed
  BY <1>0, <1>3 DEF CoreInv, Snapshot, Undecided
<1>5. /\ \A i \in DOMAIN channel : ~Fails(channel[i])
      /\ \A m \in accepted : ~Fails(m)
  BY <1>4 DEF WayInv, FailuresInv
<1>6. worker'.batch = Failure'
  BY <1>2 DEF Failure
<1>7. FailuresInv'
  BY <1>0, <1>2, <1>5, <1>6 DEF WayInv, FailuresInv, Fails
<1> QED
  BY <1>1, <1>7 DEF WayInv

\* The batch goes to the channel: a failure with it, or none.
LEMMA SendWay == ASSUME CoreInv, WayInv, Send PROVE WayInv'
<1>0. /\ worker \in WorkerState /\ state \in State /\ worker.pc \in Delivering
      /\ UNCHANGED <<accepted, selection, info, page, asked, left>>
      /\ channel \in Seq(Message) /\ worker.batch \in Seq(Message)
  BY DEF Send, DeliveryFrame, outside, session, browser, WayInv, WayTypeOK, CoreInv, CoreTypeOK,
         WorkerState, Delivering
<1>1. state'.epoch = state.epoch /\ state'.failed = state.failed /\ worker'.pc = "idle"
  <2>1. CASE Over
    BY <1>0, <2>1, FreshIs DEF Send, Idle
  <2>2. CASE ~Over
    <3>1. PICK d \in BOOLEAN : worker' = [Fresh(worker) EXCEPT !.debt = d]
      BY <2>2 DEF Send
    <3>2. worker'.pc = "idle"
      BY <1>0, <3>1, FreshIs
    <3> QED
      BY <1>0, <2>2, <3>2 DEF Send, State
  <2> QED
    BY <2>1, <2>2
<1>2. ~FailingHere' /\ worker'.pc \notin Delivering
  BY <1>1 DEF FailingHere, Delivering
<1>3. CASE channel' = channel
  <2>1. WayTypeOK'
    BY <1>0, <1>3 DEF WayInv, WayTypeOK
  <2> QED
    BY <1>0, <1>1, <1>2, <1>3, <2>1, QuietKeeps DEF WayInv
<1>4. CASE channel' = channel \o worker.batch /\ worker.epoch = state.epoch
  <2>1. /\ channel' \in Seq(Message) /\ Len(channel') = Len(channel) + Len(worker.batch)
        /\ Len(channel) \in Nat /\ Len(worker.batch) \in Nat
        /\ DOMAIN channel = 1 .. Len(channel) /\ DOMAIN channel' = 1 .. Len(channel')
        /\ DOMAIN worker.batch = 1 .. Len(worker.batch)
    BY <1>0, <1>4
  <2>2. \A i \in DOMAIN channel' :
          \/ i \in DOMAIN channel /\ channel'[i] = channel[i]
          \/ /\ i > Len(channel) /\ i - Len(channel) \in DOMAIN worker.batch
             /\ channel'[i] = worker.batch[i - Len(channel)]
    BY <1>0, <1>4, <2>1
  <2>3. WayTypeOK'
    BY <1>0, <2>1 DEF WayInv, WayTypeOK
  <2>4. CASE worker.batch = Failure
    <3>1. /\ FailingHere /\ state.failed /\ Len(worker.batch) = 1
          /\ worker.batch[1].epoch = state.epoch
      BY <1>0, <1>4, <2>4 DEF FailingHere, Failure, WayInv, FailuresInv
    <3>2. /\ \A i \in DOMAIN channel : ~Fails(channel[i])
          /\ \A m \in accepted : ~Fails(m)
      BY <3>1 DEF WayInv, FailuresInv
    <3>3. \A i \in DOMAIN channel' :
            \/ i \in DOMAIN channel /\ channel'[i] = channel[i]
            \/ i = Len(channel) + 1 /\ channel'[i].epoch = state.epoch
      BY <2>1, <2>2, <3>1
    <3>4. \A i \in DOMAIN channel' : channel'[i].epoch <= state'.epoch
      BY <1>0, <1>1, <3>3 DEF WayInv, FailuresInv, State
    <3> QED
      BY <1>0, <1>1, <1>2, <2>3, <3>1, <3>2, <3>3, <3>4 DEF WayInv, FailuresInv, Fails
  <2>5. CASE worker.batch # Failure
    <3>1. \A i \in DOMAIN worker.batch :
            worker.batch[i].kind # "failed" /\ worker.batch[i].epoch = worker.epoch
      BY <1>0, <2>5 DEF WayInv, FailuresInv
    <3>2. \A i \in DOMAIN channel' :
            \/ i \in DOMAIN channel /\ channel'[i] = channel[i]
            \/ channel'[i].kind # "failed" /\ channel'[i].epoch = state.epoch
      BY <1>4, <2>2, <3>1
    <3>3. \A i \in DOMAIN channel' : channel'[i].epoch <= state'.epoch
      BY <1>0, <1>1, <3>2 DEF WayInv, FailuresInv, State
    <3> QED
      BY <1>0, <1>1, <1>2, <2>3, <3>2, <3>3 DEF WayInv, FailuresInv, Fails
  <2> QED
    BY <2>4, <2>5
<1> QED
  BY <1>3, <1>4 DEF Send, Over

LEMMA InitWay == Init => WayInv
<1> SUFFICES ASSUME Init PROVE WayInv
  OBVIOUS
<1>1. <<>> \in Seq(Message) /\ NoPage \in Page
  BY CountAssumption DEF NoPage, NoFrame, None, Page
<1>2. selection \in Selection /\ left \in Left
  BY CountAssumption DEF Init, Selection, Left, None
<1>3. WayTypeOK
  BY <1>1, <1>2 DEF Init, WayTypeOK, None
<1>4. channel = <<>> /\ accepted = {} /\ worker.pc = "idle"
  BY DEF Init
<1> QED
  BY <1>3, <1>4 DEF WayInv, FailuresInv, FailingHere, Delivering

LEMMA NextWay == CoreInv /\ WayInv /\ [Next]_vars => WayInv'
<1> SUFFICES ASSUME CoreInv, WayInv, [Next]_vars PROVE WayInv'
  OBVIOUS
<1>1. CASE Next
  BY <1>1, CompositorWay, WorkerWay, FailEpochWay, SendWay, ReceiveWay, SessionWay
  DEF Next
<1>2. CASE UNCHANGED vars
  BY <1>2, StateKeeps DEF vars, shared, session, browser, WayInv, WayTypeOK
<1> QED
  BY <1>1, <1>2

LEMMA SpecWay == Spec => []WayInv
BY InitWay, NextWay, SpecCoreInv, PTL DEF Spec

-----------------------------------------------------------------------------
\* Every reachable state of the stream is well typed.
THEOREM StreamTypeCorrect == Spec => []TypeOK
<1>1. CoreInv /\ WayInv => TypeOK
  BY DEF CoreInv, CoreTypeOK, WayInv, WayTypeOK, TypeOK, Page, Left
<1> QED
  BY <1>1, SpecCoreInv, SpecWay, PTL

\* The picture a worker finds waiting fits the encoder it opened for an earlier snapshot
\* (viewer.rs, run).
THEOREM PicturesFit == Spec => []PictureFits
<1>1. CoreInv => PictureFits
  BY DEF CoreInv, PictureFits, WaitingFits, Snapshot
<1> QED
  BY <1>1, SpecCoreInv, PTL

\* Pictures are taken only for an encoder of the current epoch (viewer.rs, submit and run).
THEOREM ReadyMeansOpen == Spec => []ReadyIsOpen
<1>1. CoreInv => ReadyIsOpen
  BY DEF CoreInv
<1> QED
  BY <1>1, SpecCoreInv, PTL

\* A waiting worker keeps no picture of the compositor's (viewer.rs, deliver).
THEOREM WaitingFreesPictures == Spec => []BlockedKeepsNoPicture
<1>1. CoreInv => BlockedKeepsNoPicture
  BY DEF CoreInv, BlockedKeepsNoPicture, BlockedDefers
<1> QED
  BY <1>1, SpecCoreInv, PTL

\* An output that counts as blocked has a worker that will say when it is not (viewer.rs,
\* deliver and restart).
THEOREM PressureIsOwned == Spec => []PressureEnds
<1>1. CoreInv => PressureEnds
  BY DEF CoreInv
<1> QED
  BY <1>1, SpecCoreInv, PTL

\* A failed attempt is counted once (viewer.rs, report_failure, and the session's Recover).
THEOREM FailuresCountOnce == Spec => []FailureCountsOnce
<1>1. WayInv => FailureCountsOnce
  BY FailuresCounted DEF WayInv
<1> QED
  BY <1>1, SpecWay, PTL

-----------------------------------------------------------------------------
(***************************************************************************)
(* No delta without its reference.  What is under way of the current epoch, *)
(* from the page's decoder back to the encoder, is one line: the stream's   *)
(* description, then frames that count up, with nothing left out.  A batch  *)
(* is dropped only when its epoch is over, and the line of a new epoch is   *)
(* empty.                                                                   *)
(***************************************************************************)

Succ(n) == (n + 1) % Modulus
IsFrame(m, e) == m.kind = "frame" /\ m.epoch = e
IsInfo(m, e) == m.kind = "info" /\ m.epoch = e

\* In epoch e, y comes right behind x, or behind what a page p has and A, which the
\* session has taken.
Linked(x, y, e) ==
  IsFrame(y, e) => x.epoch = e /\ (x.kind = "info" \/ (x.kind = "frame" /\ y.n = Succ(x.n)))
Continues(y, e, p) == IsFrame(y, e) /\ p.epoch = e /\ ~p.awaiting => y.n = Succ(p.last.n)
Meets(y, e, p, A) == (\A m \in A : Linked(m, y, e)) /\ (A = {} => Continues(y, e, p))

\* The description at place i comes before everything else of epoch e.
First(q, i, e, p, A) ==
  p.epoch # e /\ (\A m \in A : m.epoch # e) /\ \A j \in 1 .. i - 1 : q[j].epoch # e

\* The messages q, behind p and A; whether a codec is left decides what the session takes.
InLine(q, e, p, A, codec) ==
  /\ \A i \in 2 .. Len(q) : Linked(q[i - 1], q[i], e)
  /\ \A i \in 1 .. Len(q) : IsInfo(q[i], e) => First(q, i, e, p, A)
  /\ \A i \in 1 .. Len(q) : q[i].kind # "failed" /\ q[i].epoch = e => codec
  /\ q # <<>> => Meets(q[1], e, p, A)

\* What is under way of the current epoch; what the worker holds for another is void.
Sending == worker.pc \in Delivering /\ worker.epoch = state.epoch
Queued == IF Sending THEN channel \o worker.batch ELSE channel

\* The batches that may come next: of the encoder of the current epoch, or of the one
\* that has yet to be opened.
FrameOf(e, n, key) == [kind |-> "frame", epoch |-> e, key |-> key, n |-> n]
InfoOf(e) == [kind |-> "info", epoch |-> e, key |-> FALSE, n |-> 0]
Batch(e, described, n, key) ==
  IF described THEN <<FrameOf(e, n, key)>> ELSE <<InfoOf(e), FrameOf(e, n, key)>>
Unopened ==
  /\ ~state.failed /\ ~state.paused
  /\ ~(worker.pc = "reporting" /\ worker.epoch = state.epoch)
  /\ \A a \in active : a.epoch # state.epoch
Comes(t) ==
  \/ t = <<>>
  \/ \E a \in active, key \in BOOLEAN :
       a.epoch = state.epoch /\ t = Batch(state.epoch, ~a.info, a.n, key)
  \/ Unopened /\ \E key \in BOOLEAN : t = Batch(state.epoch, FALSE, 0, key)

Orderly ==
  ~closed /\ ~state.stop =>
    \A t : Comes(t) => InLine(Queued \o t, state.epoch, page, accepted, Codec(selection))

\* The session and the page agree on the stream,
Knowing ==
  /\ ~state.stop => (state.paused <=> ~Codec(selection))
  /\ page.epoch <= state.epoch /\ (page.awaiting \/ page.last.epoch = page.epoch)
  /\ info = page.epoch \/ page.epoch < state.epoch \/ state.stop

\* and what the session has taken is the next that the page gets.
Taken ==
  \A m \in accepted :
    /\ page.epoch <= m.epoch
    /\ m.kind = "info" => page.epoch # m.epoch
    /\ m.kind = "frame" /\ page.epoch = m.epoch =>
         info = m.epoch /\ (page.awaiting \/ m.n = Succ(page.last.n))

\* The worker's encoder is of its snapshot, and it has none when that has failed.
Own ==
  /\ worker.pc \notin {"idle", "done"} => \A a \in active : a.epoch = worker.epoch
  /\ worker.pc = "reporting" => active = {}

LineInv == Own /\ Knowing /\ Taken /\ Orderly

\* Nothing of epoch e is in any order.
LEMMA NothingInLine ==
  ASSUME NEW q, NEW e, NEW p, NEW A, NEW codec,
         \A i \in 1 .. Len(q) : q[i].epoch # e, q # <<>> => 1 \in 1 .. Len(q), Len(q) \in Nat
  PROVE  InLine(q, e, p, A, codec)
<1>1. \A i \in 1 .. Len(q) : ~IsFrame(q[i], e) /\ ~IsInfo(q[i], e)
  BY DEF IsFrame, IsInfo
<1>2. \A i \in 2 .. Len(q) : i \in 1 .. Len(q)
  OBVIOUS
<1> QED
  BY <1>1, <1>2 DEF InLine, Linked, Meets, Continues

\* One more message at the end of the line
LEMMA LineAppended ==
  ASSUME NEW q \in Seq(Message), NEW y \in Message, NEW e, NEW p, NEW A, NEW codec,
         InLine(q, e, p, A, codec),
         q # <<>> => Linked(q[Len(q)], y, e), q = <<>> => Meets(y, e, p, A),
         IsInfo(y, e) => First(q, Len(q) + 1, e, p, A),
         y.kind # "failed" /\ y.epoch = e => codec
  PROVE  InLine(Append(q, y), e, p, A, codec) /\ Append(q, y) \in Seq(Message)
<1> DEFINE r == Append(q, y)
           n == Len(q)
<1>1. /\ n \in Nat /\ Len(r) = n + 1 /\ r[n + 1] = y /\ \A i \in 1 .. n : r[i] = q[i]
      /\ r # <<>> /\ r \in Seq(Message)
  OBVIOUS
<1>2. \A i \in 1 .. n + 1 : i \in 1 .. n \/ i = n + 1
  BY <1>1
<1> HIDE DEF r, n
<1>3. \A i \in 2 .. Len(r) : Linked(r[i - 1], r[i], e)
  <2> SUFFICES ASSUME NEW i \in 2 .. Len(r) PROVE Linked(r[i - 1], r[i], e)
    OBVIOUS
  <2>1. CASE i = n + 1
    <3>1. n \in 1 .. n /\ i - 1 = n /\ q # <<>>
      BY <1>1, <2>1 DEF n
    <3>2. r[i - 1] = q[n] /\ r[i] = y
      BY <1>1, <2>1, <3>1
    <3> QED
      BY <3>1, <3>2 DEF n
  <2>2. CASE i \in 2 .. n
    <3>1. i \in 1 .. n /\ i - 1 \in 1 .. n
      BY <1>1, <2>2
    <3> QED
      BY <1>1, <2>2, <3>1 DEF InLine, n
  <2> QED
    BY <1>1, <2>1, <2>2
<1>4. \A i \in 1 .. Len(r) : IsInfo(r[i], e) => First(r, i, e, p, A)
  <2> SUFFICES ASSUME NEW i \in 1 .. Len(r), IsInfo(r[i], e) PROVE First(r, i, e, p, A)
    OBVIOUS
  <2>1. \A j \in 1 .. i - 1 : j \in 1 .. n /\ r[j] = q[j]
    BY <1>1
  <2>2. First(q, i, e, p, A)
    BY <1>1, <1>2 DEF InLine, n
  <2> QED
    BY <2>1, <2>2 DEF First
<1>5. \A i \in 1 .. Len(r) : r[i].kind # "failed" /\ r[i].epoch = e => codec
  BY <1>1, <1>2 DEF InLine, n
<1>6. Meets(r[1], e, p, A)
  <2>1. CASE q = <<>>
    <3>1. r[1] = y
      BY <1>1, <2>1 DEF n
    <3> QED
      BY <2>1, <3>1
  <2>2. CASE q # <<>>
    <3>1. 1 \in 1 .. n
      BY <1>1, <2>2 DEF n
    <3> QED
      BY <1>1, <2>2, <3>1 DEF InLine
  <2> QED
    BY <2>1, <2>2
<1>7. InLine(r, e, p, A, codec)
  BY <1>3, <1>4, <1>5, <1>6 DEF InLine
<1> QED
  BY <1>1, <1>7 DEF r

\* The session takes the first message, or drops what it may drop.
LEMMA LineTaken ==
  ASSUME NEW q \in Seq(Message), q # <<>>, NEW e, NEW p, NEW A, NEW codec,
         InLine(q, e, p, {}, codec), A \subseteq {q[1]},
         q[1].kind # "failed" /\ q[1].epoch = e /\ codec => A = {q[1]}
  PROVE  InLine(Tail(q), e, p, A, codec)
<1> DEFINE r == Tail(q)
           n == Len(q)
<1>1. /\ n \in Nat /\ n >= 1 /\ Len(r) = n - 1 /\ \A i \in 1 .. n - 1 : r[i] = q[i + 1]
      /\ r # <<>> => n >= 2
  OBVIOUS
<1> HIDE DEF r, n
<1>2. \A i \in 1 .. Len(r) : i + 1 \in 1 .. n /\ i + 1 \in 2 .. n /\ r[i] = q[i + 1]
  BY <1>1
<1>3. \A i \in 2 .. Len(r) : Linked(r[i - 1], r[i], e)
  <2> SUFFICES ASSUME NEW i \in 2 .. Len(r) PROVE Linked(r[i - 1], r[i], e)
    OBVIOUS
  <2>1. i \in 1 .. Len(r) /\ i - 1 \in 1 .. Len(r) /\ i - 1 + 1 = i /\ i + 1 - 1 = i
    BY <1>1
  <2>2. r[i - 1] = q[i] /\ r[i] = q[i + 1]
    BY <1>2, <2>1
  <2> QED
    BY <1>2, <2>1, <2>2 DEF InLine, n
<1>4. \A i \in 1 .. Len(r) : IsInfo(r[i], e) => First(r, i, e, p, A)
  <2> SUFFICES ASSUME NEW i \in 1 .. Len(r), IsInfo(r[i], e) PROVE First(r, i, e, p, A)
    OBVIOUS
  <2>1. First(q, i + 1, e, p, {})
    BY <1>2 DEF InLine, n
  <2>2. 1 \in 1 .. i + 1 - 1 /\ \A j \in 1 .. i - 1 : j \in 1 .. Len(r) /\ j + 1 \in 1 .. i + 1 - 1
    BY <1>1
  <2>3. p.epoch # e /\ \A j \in 1 .. i + 1 - 1 : q[j].epoch # e
    BY <2>1 DEF First
  <2>4. \A m \in A : m.epoch # e
    BY <2>2, <2>3
  <2>5. \A j \in 1 .. i - 1 : r[j].epoch # e
    BY <1>2, <2>2, <2>3
  <2> QED
    BY <2>3, <2>4, <2>5 DEF First
<1>5. \A i \in 1 .. Len(r) : r[i].kind # "failed" /\ r[i].epoch = e => codec
  BY <1>2 DEF InLine, n
<1>6. r # <<>> => Meets(r[1], e, p, A)
  <2> SUFFICES ASSUME r # <<>> PROVE Meets(r[1], e, p, A)
    OBVIOUS
  <2>1. 1 \in 1 .. Len(r) /\ 1 \in 1 .. n /\ 2 \in 2 .. n /\ 1 + 1 = 2 /\ 2 - 1 = 1
    BY <1>1
  <2>2. r[1] = q[2] /\ Linked(q[1], q[2], e)
    BY <1>2, <2>1 DEF InLine, n
  <2>3. CASE A = {}
    <3>1. q[1].kind # "failed" /\ q[1].epoch = e => codec
      BY <2>1 DEF InLine, n
    <3>2. ~IsFrame(q[2], e)
      BY <2>2, <2>3, <3>1 DEF Linked
    <3> QED
      BY <2>2, <2>3, <3>2 DEF Meets, Continues
  <2>4. CASE A # {}
    BY <2>2, <2>4 DEF Meets
  <2> QED
    BY <2>3, <2>4
<1>7. InLine(r, e, p, A, codec)
  BY <1>3, <1>4, <1>5, <1>6 DEF InLine
<1> QED
  BY <1>7 DEF r

\* The page gets what the session had taken.
LEMMA LineRead ==
  ASSUME NEW q, NEW e, NEW p, NEW r, NEW A, NEW codec, InLine(q, e, p, A, codec),
         r.epoch = e => p.epoch = e \/ \E m \in A : m.epoch = e,
         \A y : Meets(y, e, p, A) => Continues(y, e, r)
  PROVE  InLine(q, e, r, {}, codec)
BY DEF InLine, First, Meets

LEMMA BatchTypes ==
  ASSUME NEW e \in Nat, NEW m \in 0 .. Modulus - 1, NEW key \in BOOLEAN
  PROVE  /\ FrameOf(e, m, key) \in Message /\ IsFrame(FrameOf(e, m, key), e)
         /\ FrameOf(e, m, key).n = m /\ ~IsInfo(FrameOf(e, m, key), e)
         /\ FrameOf(e, m, key).epoch = e /\ FrameOf(e, m, key).kind = "frame"
         /\ InfoOf(e) \in Message /\ ~IsFrame(InfoOf(e), e) /\ InfoOf(e).epoch = e
         /\ InfoOf(e).kind = "info"
BY CountAssumption DEF FrameOf, InfoOf, Message, IsFrame, IsInfo

LEMMA LineTypes ==
  ASSUME CoreInv, WayInv
  PROVE  /\ channel \in Seq(Message) /\ worker.batch \in Seq(Message) /\ Queued \in Seq(Message)
         /\ state.epoch \in Nat /\ worker.epoch \in Nat /\ page.epoch \in Nat
         /\ state.epoch >= 1 /\ worker.epoch <= state.epoch
         /\ \A i \in 1 .. Len(channel) :
              channel[i].epoch \in Nat /\ channel[i].epoch <= state.epoch
         /\ \A m \in accepted : m \in Message /\ m.epoch \in Nat /\ m.epoch <= state.epoch
         /\ \A a \in active : a \in Encoder /\ a.epoch \in Nat /\ a.n \in 0 .. Modulus - 1
         /\ \A a, b \in active : a = b
<1>1. \A m \in Message : m.epoch \in Nat
  BY DEF Message
<1>2. channel \in Seq(Message) /\ worker.batch \in Seq(Message)
  BY DEF CoreInv, CoreTypeOK, WayInv, WayTypeOK, WorkerState
<1>3. \A i \in 1 .. Len(channel) : channel[i] \in Message
  BY <1>2
<1>4. Queued \in Seq(Message)
  BY <1>2 DEF Queued
<1>5. /\ state.epoch \in Nat /\ worker.epoch \in Nat /\ page.epoch \in Nat
      /\ \A a \in active : a \in Encoder /\ a.epoch \in Nat /\ a.n \in 0 .. Modulus - 1
  BY DEF CoreInv, CoreTypeOK, State, WorkerState, Encoder, WayInv, WayTypeOK, Page
<1>6. /\ state.epoch >= 1 /\ worker.epoch <= state.epoch /\ \A a, b \in active : a = b
  BY DEF CoreInv, Snapshot
<1>7. /\ \A i \in 1 .. Len(channel) : channel[i].epoch <= state.epoch
      /\ \A m \in accepted : m \in Message /\ m.epoch <= state.epoch
  BY <1>2 DEF WayInv, WayTypeOK, FailuresInv
<1> QED
  BY <1>1, <1>2, <1>3, <1>4, <1>5, <1>6, <1>7

LEMMA LastAppended ==
  ASSUME NEW q \in Seq(Message), NEW y \in Message
  PROVE  Append(q, y) # <<>> /\ Append(q, y)[Len(Append(q, y))] = y
OBVIOUS

\* The line of an epoch that has just begun
LEMMA VoidLine ==
  ASSUME NEW q \in Seq(Message), NEW e \in Nat, NEW p, NEW A, NEW codec, codec,
         \A i \in 1 .. Len(q) : q[i].epoch # e, p.epoch # e, \A m \in A : m.epoch # e,
         NEW key \in BOOLEAN
  PROVE  InLine(q \o Batch(e, FALSE, 0, key), e, p, A, codec)
<1>1. PICK d : d = InfoOf(e)
  OBVIOUS
<1>2. PICK f : f = FrameOf(e, 0, key)
  OBVIOUS
<1>3. /\ d \in Message /\ d.kind = "info" /\ d.epoch = e
      /\ f \in Message /\ f.kind = "frame" /\ f.epoch = e /\ ~IsInfo(f, e) /\ ~IsFrame(d, e)
  <2>1. 0 \in 0 .. Modulus - 1
    BY CountAssumption
  <2>2. d \in Message /\ d.kind = "info" /\ d.epoch = e /\ ~IsFrame(d, e)
    BY <1>1, <2>1, BatchTypes
  <2>3. f \in Message /\ f.kind = "frame" /\ f.epoch = e /\ ~IsInfo(f, e)
    BY <1>2, <2>1, BatchTypes
  <2> QED
    BY <2>2, <2>3
<1>4. InLine(q, e, p, A, codec)
  <2>1. Len(q) \in Nat /\ (q # <<>> => 1 \in 1 .. Len(q))
    OBVIOUS
  <2> QED
    BY <2>1, NothingInLine
<1>5. InLine(Append(q, d), e, p, A, codec) /\ Append(q, d) \in Seq(Message)
  <2>1. First(q, Len(q) + 1, e, p, A)
    <3>1. Len(q) + 1 - 1 = Len(q)
      OBVIOUS
    <3> QED
      BY <3>1 DEF First
  <2>2. q # <<>> => Linked(q[Len(q)], d, e)
    BY <1>3 DEF Linked
  <2>3. Meets(d, e, p, A)
    BY <1>3 DEF Meets, Linked, Continues
  <2> QED
    BY <1>3, <1>4, <2>1, <2>2, <2>3, LineAppended
<1>6. Append(q, d) # <<>> /\ Append(q, d)[Len(Append(q, d))] = d
  <2>1. d \in Message
    BY <1>3
  <2> QED
    BY <2>1, LastAppended
<1>7. PICK r \in Seq(Message) : r = Append(q, d)
  BY <1>5
<1>8. r # <<>> /\ Linked(r[Len(r)], f, e)
  BY <1>3, <1>6, <1>7 DEF Linked
<1>9. InLine(Append(r, f), e, p, A, codec)
  BY <1>3, <1>5, <1>7, <1>8, LineAppended
<1>10. q \o <<d, f>> = Append(Append(q, d), f)
  BY <1>3
<1> QED
  BY <1>1, <1>2, <1>7, <1>9, <1>10 DEF Batch

\* A restart empties the line.
LEMMA LineVoid ==
  ASSUME CoreInv, WayInv, LineInv, state'.epoch = state.epoch + 1, state'.paused <=> ~Codec(selection'),
         UNCHANGED <<worker, active, channel, page>>, accepted' \subseteq accepted,
         accepted' = {} \/ info' = info
  PROVE  LineInv'
<1> USE LineTypes
<1>1. /\ page.epoch < state'.epoch /\ (\A m \in accepted' : m.epoch # state'.epoch)
      /\ (\A a \in active : a.epoch # state'.epoch) /\ worker.epoch # state'.epoch
      /\ \A i \in 1 .. Len(channel) : channel[i].epoch # state'.epoch
  <2>1. \A a \in active : a.epoch <= state.epoch
    BY DEF CoreInv, Snapshot
  <2> QED
    BY <2>1 DEF LineInv, Knowing
<1>2. Queued' = channel
  BY <1>1 DEF Queued, Sending
<1>3. Orderly'
  <2> SUFFICES ASSUME NEW t, Comes(t)' 
               PROVE  InLine(channel \o t, state'.epoch, page', accepted', Codec(selection)')
    BY <1>2 DEF Orderly
  <2>1. CASE t = <<>>
    <3>1. channel \o t = channel
      BY <2>1
    <3>2. channel # <<>> => 1 \in 1 .. Len(channel)
      OBVIOUS
    <3> QED
      BY <1>1, <3>1, <3>2, NothingInLine
  <2>2. CASE t # <<>>
    <3>1. PICK key \in BOOLEAN : Unopened' /\ t = Batch(state'.epoch, FALSE, 0, key)
      BY <1>1, <2>2 DEF Comes
    <3>2. Codec(selection)'
      BY <3>1 DEF Unopened
    <3>3. state'.epoch \in Nat /\ page'.epoch # state'.epoch /\ accepted' \subseteq accepted
      BY <1>1
    <3> QED
      BY <1>1, <3>1, <3>2, <3>3, VoidLine
  <2> QED
    BY <2>1, <2>2
<1>4. Knowing'
  BY <1>1 DEF LineInv, Knowing
<1>5. Taken'
  BY <1>1 DEF LineInv, Taken
<1>6. Own'
  BY DEF LineInv, Own
<1> QED
  BY <1>3, <1>4, <1>5, <1>6 DEF LineInv

\* Nothing that comes is new.
LEMMA ComesStays ==
  ASSUME state'.epoch = state.epoch, Unopened' => Unopened,
         \A a \in active' : a.epoch = state.epoch =>
           \E b \in active : b.epoch = state.epoch /\ b.info = a.info /\ b.n = a.n,
         NEW t, Comes(t)'
  PROVE  Comes(t)
<1>1. CASE t = <<>>
  BY <1>1 DEF Comes
<1>2. CASE \E a \in active', key \in BOOLEAN :
             a.epoch = state.epoch /\ t = Batch(state.epoch, ~a.info, a.n, key)
  <2>1. PICK a \in active', key \in BOOLEAN :
          a.epoch = state.epoch /\ t = Batch(state.epoch, ~a.info, a.n, key)
    BY <1>2
  <2>2. PICK b \in active : b.epoch = state.epoch /\ b.info = a.info /\ b.n = a.n
    BY <2>1
  <2> QED
    BY <2>1, <2>2 DEF Comes
<1>3. CASE Unopened' /\ \E key \in BOOLEAN : t = Batch(state.epoch, FALSE, 0, key)
  BY <1>3 DEF Comes
<1> QED
  BY <1>1, <1>2, <1>3 DEF Comes

\* A step that leaves the line as it is
LEMMA LineStays ==
  ASSUME LineInv, state'.epoch = state.epoch, state'.paused = state.paused,
         state.stop => state'.stop, closed => closed', Codec(selection') <=> Codec(selection),
         UNCHANGED <<accepted, info, page>>, Own',
         state'.stop \/ closed' \/ (Queued' = Queued /\ \A t : Comes(t)' => Comes(t))
  PROVE  LineInv'
<1>1. Orderly'
  <2>1. CASE state'.stop \/ closed'
    BY <2>1 DEF Orderly
  <2>2. CASE /\ ~(state'.stop \/ closed') /\ Queued' = Queued /\ \A t : Comes(t)' => Comes(t)
    <3> SUFFICES ASSUME NEW t, Comes(t)'
                 PROVE  InLine(Queued \o t, state.epoch, page, accepted, Codec(selection)')
      BY <2>2 DEF Orderly
    <3>1. InLine(Queued \o t, state.epoch, page, accepted, Codec(selection))
      BY <2>2 DEF LineInv, Orderly
    <3> QED
      BY <3>1 DEF InLine
  <2> QED
    BY <2>1, <2>2
<1>2. Knowing'
  BY DEF LineInv, Knowing
<1>3. Taken'
  BY DEF LineInv, Taken
<1> QED
  BY <1>1, <1>2, <1>3 DEF LineInv

-----------------------------------------------------------------------------
\* The worker's steps

\* A step that leaves the settings, the session and the page alone, and takes the worker
\* from one place to another outside a delivery
LEMMA PlaceLine ==
  ASSUME LineInv, state'.epoch = state.epoch, state'.paused = state.paused,
         state'.stop = state.stop, state'.failed = state.failed,
         UNCHANGED <<channel, closed, selection, accepted, info, page>>, Own',
         worker.pc \notin Delivering, worker'.pc \notin Delivering,
         worker.pc = "reporting" /\ worker.epoch = state.epoch =>
           worker'.pc = "reporting" /\ worker'.epoch = state.epoch,
         \/ state.stop \/ closed
         \/ \A a \in active : a.epoch = state.epoch =>
              \/ \E b \in active' : b.epoch = state.epoch
              \/ worker'.pc = "reporting" /\ worker'.epoch = state.epoch,
         \A a \in active' : a.epoch = state.epoch =>
           \E b \in active : b.epoch = state.epoch /\ b.info = a.info /\ b.n = a.n
  PROVE  LineInv'
<1>1. Queued' = Queued
  BY DEF Queued, Sending
<1>2. Codec(selection') <=> Codec(selection)
  OBVIOUS
<1>3. CASE state.stop \/ closed
  BY <1>2, <1>3, LineStays
<1>4. CASE ~(state.stop \/ closed)
  <2>1. Unopened' => Unopened
    BY <1>4 DEF Unopened
  <2>2. ASSUME NEW t, Comes(t)' PROVE Comes(t)
    BY <2>1, <2>2, ComesStays
  <2> QED
    BY <1>1, <1>2, <2>2, LineStays
<1> QED
  BY <1>3, <1>4

\* Back to the top of the loop
LEMMA IdleLine ==
  ASSUME CoreInv, LineInv, UNCHANGED <<state, channel, closed, selection, accepted, info, page, active>>,
         worker'.pc \in {"idle", "done"},
         worker.pc \in Delivering \cup {"reporting"} =>
           state.stop \/ closed \/ worker.epoch # state.epoch
  PROVE  LineInv'
<1>1. Own'
  BY DEF Own
<1>2. CASE state.stop \/ closed
  BY <1>1, <1>2, LineStays
<1>3. CASE ~(state.stop \/ closed)
  <2>1. Queued' = Queued
    BY <1>3 DEF Queued, Sending, Delivering
  <2>2. Unopened' => Unopened
    BY <1>3 DEF Unopened
  <2>3. ASSUME NEW t, Comes(t)' PROVE Comes(t)
    BY <2>2, <2>3, ComesStays
  <2> QED
    BY <1>1, <2>1, <2>3, LineStays
<1> QED
  BY <1>2, <1>3

LEMMA DoneIsIdle ==
  ASSUME CoreInv, Idle \/ Done
  PROVE  worker'.pc \in {"idle", "done"}
<1>1. worker \in WorkerState
  BY DEF CoreInv, CoreTypeOK
<1> QED
  BY <1>1, FreshIs DEF Idle, Done

LEMMA BeginLine == ASSUME CoreInv, WayInv, LineInv, Begin PROVE LineInv'
<1>0. /\ UNCHANGED <<state, channel, closed, selection, accepted, info, page>>
      /\ worker.pc = "idle" /\ worker \in WorkerState
  BY DEF Begin, shared, outside, session, browser, CoreInv, CoreTypeOK
<1>1. CASE state.stop \/ closed
  <2>1. worker'.pc = "done" /\ active' = {}
    BY <1>0, <1>1, FreshIs DEF Begin, Done
  <2>2. Own'
    BY <2>1 DEF Own
  <2> QED
    BY <1>0, <1>1, <2>1, <2>2, LineStays
<1>2. CASE ~(state.stop \/ closed)
  <2>1. PICK p \in {"opening", "rating", "taking"}, d \in BOOLEAN :
          /\ worker' = [worker EXCEPT !.pc = p, !.epoch = state.epoch, !.source = state.source,
                          !.rate = state.rate, !.debt = d]
          /\ p = "opening" <=> (active = {} \/ \E a \in active : a.epoch # state.epoch)
    BY <1>0, <1>2 DEF Begin, WorkerState
  <2>2. worker'.pc = p /\ worker'.epoch = state.epoch
    BY <1>0, <2>1 DEF WorkerState
  <2>3. active' = IF p = "opening" THEN {} ELSE active
    BY <2>1, <2>2 DEF Begin
  <2>4. p = "opening" => \A a \in active : a.epoch # state.epoch
    BY <2>1, LineTypes
  <2>5. Own'
    BY <2>1, <2>2, <2>3 DEF Own
  <2>6. worker'.pc \notin Delivering /\ worker.pc \notin Delivering
    BY <1>0, <2>2 DEF Delivering
  <2> QED
    BY <1>0, <2>2, <2>3, <2>4, <2>5, <2>6, PlaceLine
<1> QED
  BY <1>1, <1>2

\* The encoder is opened that the line waits for.
LEMMA OpenedLine ==
  ASSUME CoreInv, WayInv, LineInv, Open, ~Over, ~FailEpoch PROVE LineInv'
<1>0. /\ worker.pc = "opening" /\ worker \in WorkerState /\ state \in State
      /\ UNCHANGED <<channel, closed, selection, accepted, info, page>>
      /\ active = {} /\ worker.epoch = state.epoch /\ ~state.failed /\ ~state.paused
  BY DEF Open, outside, session, browser, CoreInv, CoreTypeOK, Snapshot, Undecided, Over
<1>a. PICK a : a = [epoch |-> worker.epoch, source |-> worker.source, rate |-> worker.rate,
                   info |-> TRUE, n |-> 0]
  OBVIOUS
<1>1. PICK x \in BOOLEAN :
        /\ Idle /\ state' = [state EXCEPT !.ready = TRUE, !.keyframe = TRUE, !.inplace = x]
        /\ active' = {a}
  BY <1>a DEF Open
<1>2. worker'.pc = "idle"
  BY <1>0, <1>1, FreshIs DEF Idle
<1>3. /\ state'.epoch = state.epoch /\ state'.paused = state.paused /\ state'.stop = state.stop
  BY <1>0, <1>1 DEF State
<1>4. a.epoch = state.epoch /\ a.info = TRUE /\ a.n = 0
  BY <1>0, <1>a
<1>5. Own'
  BY <1>2 DEF Own
<1>6. Queued' = Queued
  BY <1>0, <1>2 DEF Queued, Sending, Delivering
<1>7. Unopened
  BY <1>0 DEF Unopened
<1>8. ASSUME NEW t, Comes(t)' PROVE Comes(t)
  <2>1. CASE t = <<>>
    BY <2>1 DEF Comes
  <2>2. CASE t # <<>>
    <3>1. ~Unopened'
      BY <1>1, <1>3, <1>4 DEF Unopened
    <3>2. PICK b \in active', key \in BOOLEAN :
            t = Batch(state'.epoch, ~b.info, b.n, key)
      BY <1>8, <2>2, <3>1 DEF Comes
    <3>3. t = Batch(state.epoch, FALSE, 0, key)
      BY <1>1, <1>3, <1>4, <3>2
    <3> QED
      BY <1>7, <3>3 DEF Comes
  <2> QED
    BY <2>1, <2>2
<1> QED
  BY <1>0, <1>3, <1>5, <1>6, <1>8, LineStays

\* The epoch fails: nothing follows its failure.
LEMMA FailLine ==
  ASSUME CoreInv, WayInv, LineInv, Open \/ Report, FailEpoch PROVE LineInv'
<1>0. /\ worker \in WorkerState /\ state \in State /\ worker.pc \in {"opening", "reporting"}
      /\ UNCHANGED <<channel, closed, selection, accepted, info, page>>
  BY DEF Open, Report, FailEpoch, outside, session, browser, CoreInv, CoreTypeOK
<1>1. /\ worker'.pc = "reserving" /\ worker'.batch = Failure /\ worker'.epoch = worker.epoch
      /\ state'.epoch = state.epoch /\ state'.failed = TRUE
      /\ state'.paused = state.paused /\ state'.stop = state.stop
  BY <1>0 DEF FailEpoch, WorkerState, State
<1>2. worker.epoch = state.epoch /\ active' = active
  <2>1. worker' # Fresh(worker) /\ worker' # [Fresh(worker) EXCEPT !.pc = "done"]
    BY <1>0, <1>1, FreshIs
  <2> QED
    BY <2>1 DEF Open, Report, Over, Idle, Done
<1>3. active = {} /\ active' = {}
  BY <1>0, <1>2 DEF CoreInv, Snapshot, LineInv, Own
<1>4. PICK f : f = [kind |-> "failed", epoch |-> worker.epoch, key |-> FALSE, n |-> 0]
  OBVIOUS
<1>5. f \in Message /\ f.kind = "failed" /\ Failure = <<f>>
  BY <1>4, LineTypes, CountAssumption DEF Message, Failure
<1>6. Queued = channel /\ Queued' = channel \o <<f>>
  BY <1>0, <1>1, <1>2, <1>5 DEF Queued, Sending, Delivering
<1>7. channel \o <<f>> = Append(channel, f) /\ channel \o <<>> = channel
  BY <1>5, LineTypes
<1>8. Orderly'
  <2> SUFFICES ASSUME ~closed, ~state.stop, NEW t, Comes(t)'
               PROVE  InLine((channel \o <<f>>) \o t, state.epoch, page, accepted, Codec(selection))
    BY <1>0, <1>1, <1>6 DEF Orderly, Codec
  <2>1. t = <<>>
    <3>1. ~Unopened' /\ active' = {}
      BY <1>0, <1>1, <1>3 DEF Unopened
    <3> QED
      BY <3>1 DEF Comes
  <2>2. InLine(channel, state.epoch, page, accepted, Codec(selection))
    <3>1. Comes(<<>>)
      BY DEF Comes
    <3>2. InLine(Queued \o <<>>, state.epoch, page, accepted, Codec(selection))
      BY <3>1 DEF LineInv, Orderly
    <3> QED
      BY <1>6, <1>7, <3>2
  <2>3. /\ channel # <<>> => Linked(channel[Len(channel)], f, state.epoch)
        /\ Meets(f, state.epoch, page, accepted) /\ ~IsInfo(f, state.epoch)
    BY <1>5 DEF Linked, Meets, Continues, IsFrame, IsInfo
  <2>4. InLine(Append(channel, f), state.epoch, page, accepted, Codec(selection))
    BY <1>5, <2>2, <2>3, LineAppended, LineTypes
  <2>5. (channel \o <<f>>) \o t = channel \o <<f>>
    BY <1>5, <2>1, LineTypes
  <2> QED
    BY <1>7, <2>4, <2>5
<1>9. Own'
  BY <1>0, <1>3 DEF Own
<1>10. Knowing' /\ Taken'
  BY <1>0, <1>1 DEF LineInv, Knowing, Taken
<1> QED
  BY <1>8, <1>9, <1>10 DEF LineInv

LEMMA SetRateLine == ASSUME CoreInv, WayInv, LineInv, SetRate PROVE LineInv'
<1>0. /\ UNCHANGED <<state, channel, closed, selection, accepted, info, page>>
      /\ worker.pc = "rating" /\ worker \in WorkerState
      /\ \A a \in active : a.epoch = worker.epoch /\ a \in Encoder
  BY DEF SetRate, shared, outside, session, browser, CoreInv, CoreTypeOK, Snapshot, Equipped
<1>1. CASE Goto("taking") /\ active' = {[a EXCEPT !.rate = worker.rate] : a \in active}
  <2>1. worker'.pc = "taking" /\ worker'.epoch = worker.epoch
    BY <1>0, <1>1, GotoType DEF Goto, Pc
  <2>2. \A a \in active : LET b == [a EXCEPT !.rate = worker.rate]
                          IN  b.epoch = a.epoch /\ b.info = a.info /\ b.n = a.n /\ b \in active'
    BY <1>0, <1>1 DEF Encoder
  <2>3. ASSUME NEW b \in active'
        PROVE  \E a \in active : b.epoch = a.epoch /\ b.info = a.info /\ b.n = a.n
    <3>1. PICK a \in active : b = [a EXCEPT !.rate = worker.rate]
      BY <1>1
    <3> QED
      BY <2>2, <3>1
  <2>4. Own'
    BY <1>0, <2>1, <2>3 DEF Own
  <2>5. worker.pc \notin Delivering /\ worker'.pc \notin Delivering /\ worker.pc # "reporting"
    BY <1>0, <2>1 DEF Delivering
  <2>6. \A a \in active : a.epoch = state.epoch => \E b \in active' : b.epoch = state.epoch
    BY <2>2
  <2>7. \A a \in active' : a.epoch = state.epoch =>
           \E b \in active : b.epoch = state.epoch /\ b.info = a.info /\ b.n = a.n
    BY <2>3
  <2> QED
    BY <1>0, <2>4, <2>5, <2>6, <2>7, PlaceLine
<1>2. CASE Goto("reporting") /\ active' = {}
  <2>1. worker'.pc = "reporting" /\ worker'.epoch = worker.epoch
    BY <1>0, <1>2, GotoType DEF Goto, Pc
  <2>2. Own'
    BY <1>2 DEF Own
  <2>3. worker.pc \notin Delivering /\ worker'.pc \notin Delivering /\ worker.pc # "reporting"
    BY <1>0, <2>1 DEF Delivering
  <2> QED
    BY <1>0, <1>2, <2>1, <2>2, <2>3, PlaceLine
<1> QED
  BY <1>1, <1>2 DEF SetRate

LEMMA TakeLine == ASSUME CoreInv, WayInv, LineInv, Take \/ Budget PROVE LineInv'
<1>0. /\ UNCHANGED <<channel, closed, selection, accepted, info, page, active>>
      /\ worker.pc \in {"taking", "budget"} /\ worker \in WorkerState /\ state \in State
  BY DEF Take, Budget, outside, session, browser, CoreInv, CoreTypeOK
<1>1. /\ state'.epoch = state.epoch /\ state'.paused = state.paused
      /\ state'.stop = state.stop /\ state'.failed = state.failed
  BY <1>0 DEF Take, Budget, State
<1>2. \/ worker'.pc \in {"idle", "done"}
      \/ worker'.pc \in {"budget", "encoding"} /\ worker'.epoch = worker.epoch
  <2>1. CASE Idle
    BY <2>1, DoneIsIdle
  <2>2. CASE Goto("budget")
    BY <1>0, <2>2 DEF Goto, WorkerState
  <2>3. CASE worker' = [worker EXCEPT !.pc = "encoding", !.key = state.keyframe]
    BY <1>0, <2>3 DEF WorkerState
  <2>4. CASE worker' = [Fresh(worker) EXCEPT !.debt = FALSE]
    BY <1>0, <2>4, FreshIs
  <2> QED
    BY <2>1, <2>2, <2>3, <2>4 DEF Take, Budget
<1>3. Own'
  BY <1>0, <1>2 DEF Own, LineInv
<1>4. worker.pc \notin Delivering /\ worker'.pc \notin Delivering /\ worker.pc # "reporting"
  BY <1>0, <1>2 DEF Delivering
<1> QED
  BY <1>0, <1>1, <1>3, <1>4, PlaceLine

LEMMA BatchAppended ==
  ASSUME NEW q \in Seq(Message), NEW d \in Message, NEW f \in Message, NEW t \in {<<f>>, <<d, f>>}
  PROVE  q \o t \in Seq(Message) /\ q \o t # <<>> /\ (q \o t)[Len(q \o t)] = f
<1>1. CASE t = <<f>>
  BY <1>1
<1>2. CASE t = <<d, f>>
  BY <1>2
<1> QED
  BY <1>1, <1>2

\* What was to come is what the encoder makes, and the next frame follows it.
LEMMA EncodedLine ==
  ASSUME CoreInv, WayInv, LineInv, Encode, worker'.pc = "reserving" PROVE LineInv'
<1>0. /\ UNCHANGED <<state, channel, closed, selection, accepted, info, page>>
      /\ worker.pc = "encoding" /\ worker \in WorkerState
      /\ \A a \in active : a.epoch = worker.epoch /\ a \in Encoder
  BY DEF Encode, shared, outside, session, browser, CoreInv, CoreTypeOK, Snapshot, Equipped
<1>1. PICK a \in active, key \in BOOLEAN :
        /\ active' = {[a EXCEPT !.info = FALSE, !.n = (@ + 1) % Modulus]}
        /\ worker' = [worker EXCEPT !.pc = "reserving", !.key = FALSE,
                        !.batch = Batch(worker.epoch, ~a.info, a.n, key)]
  <2>1. ~Goto("reporting")
    BY <1>0 DEF Goto, WorkerState
  <2>2. PICK a \in active, key \in BOOLEAN :
          LET frame == [kind |-> "frame", epoch |-> worker.epoch, key |-> key, n |-> a.n]
              description == [kind |-> "info", epoch |-> worker.epoch, key |-> FALSE, n |-> 0]
          IN  /\ active' = {[a EXCEPT !.info = FALSE, !.n = (@ + 1) % Modulus]}
              /\ worker' = [worker EXCEPT !.pc = "reserving", !.key = FALSE,
                              !.batch = IF a.info THEN <<description, frame>> ELSE <<frame>>]
    BY <2>1 DEF Encode
  <2>3. Batch(worker.epoch, ~a.info, a.n, key) =
          IF a.info THEN <<InfoOf(worker.epoch), FrameOf(worker.epoch, a.n, key)>>
                    ELSE <<FrameOf(worker.epoch, a.n, key)>>
    BY DEF Batch
  <2> QED
    BY <2>2, <2>3 DEF InfoOf, FrameOf
<1>2. PICK b : b = [a EXCEPT !.info = FALSE, !.n = (@ + 1) % Modulus]
  OBVIOUS
<1>3. active' = {b} /\ b.epoch = worker.epoch /\ b.info = FALSE /\ b.n = Succ(a.n)
  BY <1>0, <1>1, <1>2 DEF Encoder, Succ
<1>4. PICK t : t = Batch(worker.epoch, ~a.info, a.n, key)
  OBVIOUS
<1>5. worker'.epoch = worker.epoch /\ worker'.batch = t
  BY <1>0, <1>1, <1>4 DEF WorkerState
<1>6. Own'
  BY <1>3, <1>5 DEF Own
<1>7. Queued = channel
  BY <1>0 DEF Queued, Sending, Delivering
<1>8. CASE worker.epoch # state.epoch
  <2>1. Queued' = channel
    BY <1>0, <1>5, <1>8 DEF Queued, Sending
  <2>2. \A c \in active \cup active' : c.epoch # state.epoch
    BY <1>0, <1>3, <1>8
  <2>3. Unopened' => Unopened
    BY <1>0, <2>2 DEF Unopened
  <2>4. ASSUME NEW u, Comes(u)' PROVE Comes(u)
    BY <1>0, <2>2, <2>3, <2>4, ComesStays
  <2> QED
    BY <1>0, <1>6, <1>7, <2>1, <2>4, LineStays
<1>9. CASE worker.epoch = state.epoch
  <2>1. Queued' = channel \o t
    BY <1>0, <1>5, <1>9 DEF Queued, Sending, Delivering
  <2>2. PICK f : f = FrameOf(state.epoch, a.n, key)
    OBVIOUS
  <2>3. PICK d : d = InfoOf(state.epoch)
    OBVIOUS
  <2>4. f \in Message /\ f.kind = "frame" /\ f.epoch = state.epoch /\ f.n = a.n /\ d \in Message
    BY <1>1, <2>2, <2>3, LineTypes, BatchTypes
  <2>5. t \in {<<f>>, <<d, f>>}
    BY <1>4, <1>9, <2>2, <2>3 DEF Batch
  <2>a. channel \in Seq(Message)
    BY LineTypes
  <2>6. PICK q \in Seq(Message) : q = channel \o t
    BY <2>4, <2>5, <2>a, BatchAppended
  <2>7. q # <<>> /\ q[Len(q)] = f
    <3>1. channel \o t # <<>> /\ (channel \o t)[Len(channel \o t)] = f
      BY <2>4, <2>5, <2>a, BatchAppended
    <3> QED
      BY <2>6, <3>1
  <2>8. ASSUME ~closed, ~state.stop
        PROVE  InLine(q, state.epoch, page, accepted, Codec(selection))
    <3>1. Comes(t)
      <4>1. a \in active /\ a.epoch = state.epoch
        BY <1>0, <1>1, <1>9
      <4>2. t = Batch(state.epoch, ~a.info, a.n, key)
        BY <1>4, <1>9
      <4> QED
        BY <1>1, <4>1, <4>2 DEF Comes
    <3> QED
      BY <1>7, <2>6, <2>8, <3>1 DEF LineInv, Orderly
  <2>9. Orderly'
    <3> SUFFICES ASSUME ~closed, ~state.stop, NEW u, Comes(u)'
                 PROVE  InLine(q \o u, state.epoch, page, accepted, Codec(selection))
      BY <1>0, <2>1, <2>6 DEF Orderly, Codec
    <3>1. CASE u = <<>>
      <4>1. q \o u = q
        BY <3>1
      <4> QED
        BY <2>8, <4>1
    <3>2. CASE u # <<>>
      <4>1. ~Unopened'
        BY <1>0, <1>3, <1>9 DEF Unopened
      <4>2. PICK k \in BOOLEAN : u = Batch(state.epoch, ~b.info, b.n, k)
        BY <1>0, <1>3, <3>2, <4>1 DEF Comes
      <4>3. PICK g : g = FrameOf(state.epoch, b.n, k)
        OBVIOUS
      <4>4. b.n \in 0 .. Modulus - 1
        BY <1>1, <1>3, LineTypes, NumbersWrap DEF Succ
      <4>5. g \in Message /\ IsFrame(g, state.epoch) /\ g.n = b.n /\ ~IsInfo(g, state.epoch)
        BY <4>3, <4>4, LineTypes, BatchTypes
      <4>6. u = <<g>>
        BY <1>3, <4>2, <4>3 DEF Batch
      <4>7. q \o u = Append(q, g)
        BY <4>5, <4>6
      <4>8. Linked(q[Len(q)], g, state.epoch)
        BY <1>3, <2>4, <2>7, <4>5 DEF Linked
      <4>9. Codec(selection)
        <5>1. Len(q) \in 1 .. Len(q)
          BY <2>7
        <5> QED
          BY <2>4, <2>7, <2>8, <5>1 DEF InLine
      <4> QED
        BY <2>7, <2>8, <4>5, <4>7, <4>8, <4>9, LineAppended
    <3> QED
      BY <3>1, <3>2
  <2>10. Knowing' /\ Taken'
    BY <1>0 DEF LineInv, Knowing, Taken, Codec
  <2> QED
    BY <1>6, <2>9, <2>10 DEF LineInv
<1> QED
  BY <1>8, <1>9

LEMMA EncodeLine == ASSUME CoreInv, WayInv, LineInv, Encode PROVE LineInv'
<1>0. /\ UNCHANGED <<state, channel, closed, selection, accepted, info, page>>
      /\ worker.pc = "encoding" /\ worker \in WorkerState
      /\ \A a \in active : a.epoch = worker.epoch
  BY DEF Encode, shared, outside, session, browser, CoreInv, CoreTypeOK, Snapshot, Equipped
<1>1. CASE Goto("reporting") /\ active' = {}
  <2>1. worker'.pc = "reporting" /\ worker'.epoch = worker.epoch
    BY <1>0, <1>1, GotoType DEF Goto, Pc
  <2>2. Own'
    BY <1>1 DEF Own
  <2>3. worker.pc \notin Delivering /\ worker'.pc \notin Delivering /\ worker.pc # "reporting"
    BY <1>0, <2>1 DEF Delivering
  <2> QED
    BY <1>0, <1>1, <2>1, <2>2, <2>3, PlaceLine
<1>2. CASE worker'.pc = "reserving"
  BY <1>2, EncodedLine
<1>3. (Goto("reporting") /\ active' = {}) \/ worker'.pc = "reserving"
  <2>1. CASE ~Goto("reporting")
    BY <1>0, <2>1 DEF Encode, WorkerState
  <2>2. CASE Goto("reporting") /\ ~(active' = {})
    BY <1>0, <2>2 DEF Encode, WorkerState
  <2> QED
    BY <2>1, <2>2
<1> QED
  BY <1>1, <1>2, <1>3

\* A delivery goes on, with its batch
LEMMA KeptLine ==
  ASSUME LineInv, UNCHANGED <<channel, closed, selection, accepted, info, page, active>>,
         state'.epoch = state.epoch, state'.paused = state.paused,
         state'.stop = state.stop, state'.failed = state.failed, worker \in WorkerState,
         worker.pc \in Delivering, NEW p \in Delivering, worker' = [worker EXCEPT !.pc = p]
  PROVE  LineInv'
<1>1. worker'.pc \in Delivering /\ worker'.epoch = worker.epoch /\ worker'.batch = worker.batch
  BY DEF WorkerState
<1>2. Queued' = Queued
  BY <1>1 DEF Queued, Sending
<1>3. Own'
  BY <1>1 DEF LineInv, Own, Delivering
<1>4. Unopened' => Unopened
  BY DEF Unopened, Delivering
<1>5. ASSUME NEW t, Comes(t)' PROVE Comes(t)
  BY <1>4, <1>5, ComesStays
<1> QED
  BY <1>2, <1>3, <1>5, LineStays

\* The batch changes its place in the line for the channel's end, which is the same.
LEMMA SentLine == ASSUME CoreInv, WayInv, LineInv, Send, ~Over PROVE LineInv'
<1>0. /\ UNCHANGED <<closed, selection, accepted, info, page, active>>
      /\ worker.pc = "sending" /\ worker \in WorkerState /\ state \in State
      /\ worker.epoch = state.epoch
  BY DEF Send, DeliveryFrame, outside, session, browser, CoreInv, CoreTypeOK, Over
<1>1. /\ state'.epoch = state.epoch /\ state'.paused = state.paused
      /\ state'.stop = state.stop /\ state'.failed = state.failed
  BY <1>0 DEF Send, State
<1>2. worker'.pc = "idle"
  <2>1. PICK d \in BOOLEAN : worker' = [Fresh(worker) EXCEPT !.debt = d]
    BY DEF Send
  <2> QED
    BY <1>0, <2>1, FreshIs
<1>3. Own'
  BY <1>2 DEF Own
<1>4. CASE closed
  BY <1>0, <1>1, <1>3, <1>4, LineStays
<1>5. CASE ~closed
  <2>1. Queued' = Queued
    BY <1>0, <1>2, <1>5 DEF Send, Queued, Sending, Delivering
  <2>2. Unopened' => Unopened
    BY <1>0, <1>1 DEF Unopened
  <2>3. ASSUME NEW t, Comes(t)' PROVE Comes(t)
    BY <1>0, <1>1, <2>2, <2>3, ComesStays
  <2> QED
    BY <1>0, <1>1, <1>3, <2>1, <2>3, LineStays
<1> QED
  BY <1>4, <1>5

LEMMA DeliveryLine == ASSUME CoreInv, WayInv, LineInv, Delivery PROVE LineInv'
<1>0. worker.pc \in Delivering /\ worker \in WorkerState /\ state \in State
  BY DEF Delivery, Reserve, Full, Wake, Send, Delivering, CoreInv, CoreTypeOK
<1>1. UNCHANGED <<closed, selection, accepted, info, page, active>>
  BY DEF Delivery, Reserve, Full, Wake, Send, DeliveryFrame, outside, session, browser
<1>2. CASE Idle /\ UNCHANGED <<state, channel>> /\ (Over \/ closed)
  BY <1>1, <1>2, DoneIsIdle, IdleLine DEF Over
<1>3. CASE /\ \E p \in Delivering : Goto(p)
           /\ UNCHANGED channel
           /\ state'.epoch = state.epoch /\ state'.paused = state.paused
           /\ state'.stop = state.stop /\ state'.failed = state.failed
  BY <1>0, <1>1, <1>3, KeptLine DEF Goto
<1>4. CASE Reserve
  BY <1>2, <1>3, <1>4 DEF Reserve, shared, Delivering
<1>5. CASE Full
  <2>1. CASE Over
    BY <1>2, <1>5, <2>1 DEF Full
  <2>2. CASE ~Over
    <3>1. /\ state'.epoch = state.epoch /\ state'.paused = state.paused
          /\ state'.stop = state.stop /\ state'.failed = state.failed
      BY <1>0, <1>5, <2>2 DEF Full, State
    <3> QED
      BY <1>3, <1>5, <2>2, <3>1 DEF Full, Delivering
  <2> QED
    BY <2>1, <2>2
<1>6. CASE Wake
  BY <1>2, <1>3, <1>6 DEF Wake, Delivering
<1>7. CASE Send
  <2>1. CASE Over
    BY <1>2, <1>7, <2>1 DEF Send
  <2> QED
    BY <1>7, <2>1, SentLine
<1> QED
  BY <1>4, <1>5, <1>6, <1>7 DEF Delivery

LEMMA WorkerLine == ASSUME CoreInv, WayInv, LineInv, Worker PROVE LineInv'
<1>1. CASE Open
  <2>1. CASE FailEpoch
    BY <1>1, <2>1, FailLine
  <2>2. CASE Over /\ ~FailEpoch
    <3>1. Idle \/ Done
      BY <1>1, <2>2 DEF Open
    <3>2. /\ UNCHANGED <<state, channel, closed, selection, accepted, info, page, active>>
          /\ worker.pc = "opening"
      BY <1>1, <2>2 DEF Open, shared, outside, session, browser
    <3>3. worker.pc \notin Delivering \cup {"reporting"}
      BY <3>2 DEF Delivering
    <3> QED
      BY <3>1, <3>2, <3>3, DoneIsIdle, IdleLine
  <2> QED
    BY <1>1, <2>1, <2>2, OpenedLine
<1>2. CASE Report
  <2>1. CASE FailEpoch
    BY <1>2, <2>1, FailLine
  <2>2. CASE ~FailEpoch
    <3>1. /\ Idle /\ state.epoch # worker.epoch
          /\ UNCHANGED <<state, channel, closed, selection, accepted, info, page, active>>
      BY <1>2, <2>2 DEF Report, shared, outside, session, browser
    <3> QED
      BY <3>1, DoneIsIdle, IdleLine
  <2> QED
    BY <2>1, <2>2
<1> QED
  BY <1>1, <1>2, BeginLine, SetRateLine, TakeLine, EncodeLine, DeliveryLine
  DEF Worker, Encoding

-----------------------------------------------------------------------------
\* The compositor's steps and the session's

\* Settings change, and the line does not.
LEMMA DetailLine ==
  ASSUME LineInv, state'.epoch = state.epoch, state'.paused = state.paused,
         state'.failed = state.failed, state.stop => state'.stop,
         UNCHANGED <<worker, active, channel, closed, selection, accepted, info, page>>
  PROVE  LineInv'
<1>1. Queued' = Queued /\ (Unopened' => Unopened)
  BY DEF Queued, Sending, Unopened
<1>2. Own'
  BY DEF LineInv, Own
<1>3. ASSUME NEW t, Comes(t)' PROVE Comes(t)
  BY <1>1, <1>3, ComesStays
<1> QED
  BY <1>1, <1>2, <1>3, LineStays

\* A restart, which does nothing when the sink is gone
LEMMA RestartLine ==
  ASSUME CoreInv, WayInv, LineInv, NEW s \in State, s.epoch = state.epoch,
         Update(Restart(s)), ~state.stop => (s.paused <=> ~Codec(selection')),
         UNCHANGED <<worker, active, channel, closed, page>>, accepted' \subseteq accepted,
         accepted' = {} \/ info' = info
  PROVE  LineInv'
<1>1. CASE state.stop
  <2>1. state' = state
    BY <1>1 DEF Update
  <2>2. Own' /\ Orderly'
    BY <1>1, <2>1 DEF LineInv, Own, Orderly
  <2>3. Knowing' /\ Taken'
    BY <1>1, <2>1 DEF LineInv, Knowing, Taken
  <2> QED
    BY <2>2, <2>3 DEF LineInv
<1>2. CASE ~state.stop
  <2>1. state' = Restart(s) /\ state'.epoch = state.epoch + 1
    BY <1>2, RestartIs DEF Update
  <2>2. state'.paused = s.paused
    BY <2>1 DEF Restart, State
  <2> QED
    BY <1>2, <2>1, <2>2, LineVoid
<1> QED
  BY <1>1, <1>2

LEMMA CompositorLine == ASSUME CoreInv, WayInv, LineInv, Compositor PROVE LineInv'
<1>0. state \in State /\ UNCHANGED <<worker, active, channel, closed, selection, accepted, info, page>>
  BY DEF Compositor, Attach, Resize, Damage, Submit, DropSink, session, browser, CoreInv, CoreTypeOK
<1>1. CASE Attach \/ \E g \in Geometry : Resize(g)
  <2>1. PICK g \in Geometry : Update(Restart([state EXCEPT !.source = {g}]))
    BY <1>1 DEF Attach, Resize
  <2>2. PICK s : s = [state EXCEPT !.source = {g}]
    OBVIOUS
  <2>3. s \in State /\ s.epoch = state.epoch /\ s.paused = state.paused
    BY <1>0, <2>2 DEF State
  <2>4. ~state.stop => (s.paused <=> ~Codec(selection'))
    BY <1>0, <2>3 DEF LineInv, Knowing
  <2> QED
    BY <1>0, <2>1, <2>2, <2>3, <2>4, RestartLine
<1>2. CASE Damage \/ Submit \/ DropSink
  <2>1. /\ state'.epoch = state.epoch /\ state'.paused = state.paused
        /\ state'.failed = state.failed /\ (state.stop => state'.stop)
    BY <1>0, <1>2 DEF Damage, Submit, DropSink, shared, State
  <2> QED
    BY <1>0, <2>1, DetailLine
<1> QED
  BY <1>1, <1>2 DEF Compositor

LEMMA ComesTypes ==
  ASSUME CoreInv, WayInv, NEW t, Comes(t)
  PROVE  t \in Seq(Message)
<1>1. CASE t = <<>>
  BY <1>1
<1>2. ASSUME NEW m \in 0 .. Modulus - 1, NEW key \in BOOLEAN, NEW b \in BOOLEAN,
             t = Batch(state.epoch, b, m, key)
      PROVE  t \in Seq(Message)
  <2>1. FrameOf(state.epoch, m, key) \in Message /\ InfoOf(state.epoch) \in Message
    BY LineTypes, BatchTypes
  <2> QED
    BY <1>2, <2>1 DEF Batch
<1>3. 0 \in 0 .. Modulus - 1
  BY CountAssumption
<1>4. \A a \in active : a.n \in 0 .. Modulus - 1 /\ (~a.info) \in BOOLEAN
  BY LineTypes
<1> QED
  BY <1>1, <1>2, <1>3, <1>4 DEF Comes

LEMMA NothingJoined ==
  ASSUME NEW q \in Seq(Message) PROVE q \o <<>> = q
OBVIOUS

LEMMA TailJoined ==
  ASSUME NEW q \in Seq(Message), NEW r \in Seq(Message), q # <<>>
  PROVE  /\ Tail(q) \o r = Tail(q \o r) /\ q \o r # <<>> /\ (q \o r)[1] = Head(q)
         /\ q \o r \in Seq(Message)
OBVIOUS

\* The line gives up its first message.
LEMMA ReceiveLine == ASSUME CoreInv, WayInv, LineInv, Receive PROVE LineInv'
<1>0. /\ ~closed /\ accepted = {} /\ channel # <<>> /\ channel' = Tail(channel)
      /\ UNCHANGED <<state, worker, active, closed, selection, info, page>>
      /\ accepted' = {m \in {Head(channel)} : Accepts(m)}
  BY DEF Receive, shared, sink, browser
<1>1. PICK h : h = Head(channel)
  OBVIOUS
<1>2. Queued # <<>> /\ Head(Queued) = h /\ Queued' = Tail(Queued) /\ Queued \in Seq(Message)
  <2>1. channel \in Seq(Message) /\ worker.batch \in Seq(Message)
    BY LineTypes
  <2>2. CASE Sending
    <3>1. Sending' /\ worker' = worker
      BY <1>0, <2>2 DEF Sending
    <3>2. PICK q : q = channel \o worker.batch
      OBVIOUS
    <3>3. Queued = q /\ Queued' = Tail(channel) \o worker.batch
      BY <1>0, <2>2, <3>1, <3>2 DEF Queued
    <3>4. /\ Tail(channel) \o worker.batch = Tail(q) /\ q # <<>> /\ q[1] = Head(channel)
          /\ q \in Seq(Message)
      BY <1>0, <2>1, <3>2, TailJoined
    <3>5. Head(q) = h
      BY <1>1, <3>4
    <3> QED
      BY <3>3, <3>4, <3>5, Zenon
  <2>3. CASE ~Sending
    <3>1. ~Sending'
      BY <1>0, <2>3 DEF Sending
    <3>2. Queued = channel /\ Queued' = Tail(channel)
      <4>1. channel \in Seq(Message) /\ Tail(channel) \in Seq(Message)
        BY <1>0, <2>1
      <4> QED
        BY <1>0, <2>3, <3>1, <4>1, NothingJoined DEF Queued
    <3> QED
      BY <1>0, <1>1, <2>1, <3>2
  <2> QED
    BY <2>2, <2>3
<1>3. ASSUME ~state.stop, NEW t, Comes(t)
      PROVE  /\ InLine(Tail(Queued) \o t, state.epoch, page, accepted', Codec(selection))
             /\ IsInfo(h, state.epoch) => page.epoch # state.epoch
             /\ Continues(h, state.epoch, page)
  <2>1. t \in Seq(Message)
    BY <1>3, ComesTypes
  <2>2. PICK q \in Seq(Message) : q = Queued \o t
    <3>1. Queued \o t \in Seq(Message)
      BY <1>2, <2>1, TailJoined
    <3> QED
      BY <3>1
  <2>3. q # <<>> /\ q[1] = h /\ Tail(Queued) \o t = Tail(q)
    BY <1>2, <2>1, <2>2, TailJoined
  <2>4. InLine(q, state.epoch, page, {}, Codec(selection))
    BY <1>0, <1>3, <2>2 DEF LineInv, Orderly
  <2>5. accepted' \subseteq {q[1]}
    BY <1>0, <1>1, <2>3
  <2>6. q[1].epoch = state.epoch /\ Codec(selection) => accepted' = {q[1]}
    BY <1>0, <1>1, <1>3, <2>3 DEF Accepts
  <2>7. InLine(Tail(q), state.epoch, page, accepted', Codec(selection))
    BY <2>3, <2>4, <2>5, <2>6, LineTaken
  <2>8. 1 \in 1 .. Len(q)
    BY <2>3
  <2> QED
    BY <2>3, <2>4, <2>7, <2>8 DEF InLine, First, Meets
<1>4. Orderly'
  <2> SUFFICES ASSUME ~state.stop, NEW t, Comes(t)'
               PROVE  InLine(Tail(Queued) \o t, state.epoch, page, accepted', Codec(selection))
    BY <1>0, <1>2 DEF Orderly, Codec
  <2>1. Comes(t)
    BY <1>0 DEF Comes, Unopened
  <2> QED
    BY <1>3, <2>1
<1>5. Taken'
  <2> SUFFICES ASSUME Accepts(h)
               PROVE  /\ page.epoch <= h.epoch
                      /\ h.kind = "info" => page.epoch # h.epoch
                      /\ h.kind = "frame" /\ page.epoch = h.epoch =>
                           info = h.epoch /\ (page.awaiting \/ h.n = Succ(page.last.n))
    BY <1>0, <1>1 DEF Taken
  <2>1. ~state.stop /\ h.epoch = state.epoch
    BY DEF Accepts
  <2>2. Comes(<<>>)
    BY DEF Comes
  <2>3. /\ IsInfo(h, state.epoch) => page.epoch # state.epoch
        /\ Continues(h, state.epoch, page)
    BY <1>3, <2>1, <2>2
  <2>4. page.epoch <= state.epoch /\ (info = page.epoch \/ page.epoch < state.epoch)
    BY <2>1 DEF LineInv, Knowing
  <2>5. page.epoch = state.epoch => info = page.epoch
    BY <2>4, LineTypes
  <2> QED
    BY <2>1, <2>3, <2>4, <2>5 DEF IsInfo, IsFrame, Continues
<1>6. Own' /\ Knowing'
  BY <1>0 DEF LineInv, Own, Knowing, Codec
<1> QED
  BY <1>4, <1>5, <1>6 DEF LineInv

\* The page is told of the stream.
LEMMA ConfigureLine == ASSUME CoreInv, WayInv, LineInv, Configure PROVE LineInv'
<1>0. /\ UNCHANGED <<state, worker, active, channel, closed, selection, page>> /\ accepted' = {}
  BY DEF Configure, shared, sink, browser
<1>1. PICK m \in accepted : m.kind = "info" /\ info' = m.epoch
  BY DEF Configure
<1>2. m.epoch \in Nat /\ m.epoch <= state.epoch /\ page.epoch < m.epoch
  <2>1. page.epoch <= m.epoch /\ page.epoch # m.epoch
    BY <1>1 DEF LineInv, Taken
  <2> QED
    BY <2>1, LineTypes
<1>3. Knowing'
  <2>1. page.epoch < state.epoch
    BY <1>2, LineTypes
  <2> QED
    BY <1>0, <2>1 DEF LineInv, Knowing, Codec
<1>4. Orderly'
  <2> SUFFICES ASSUME ~closed, ~state.stop, NEW t, Comes(t)'
               PROVE  InLine(Queued \o t, state.epoch, page, {}, Codec(selection))
    BY <1>0 DEF Orderly, Codec, Queued, Sending
  <2>1. Comes(t)
    BY <1>0 DEF Comes, Unopened
  <2>2. InLine(Queued \o t, state.epoch, page, accepted, Codec(selection))
    BY <2>1 DEF LineInv, Orderly
  <2>3. \A y : Meets(y, state.epoch, page, accepted) => Continues(y, state.epoch, page)
    <3>1. page.epoch # state.epoch
      BY <1>2, LineTypes
    <3> QED
      BY <3>1 DEF Continues
  <2>4. page.epoch = state.epoch => page.epoch = state.epoch \/ \E a \in accepted : a.epoch = state.epoch
    OBVIOUS
  <2> QED
    BY <2>2, <2>3, <2>4, LineRead
<1>5. Own' /\ Taken'
  BY <1>0 DEF LineInv, Own, Taken
<1> QED
  BY <1>3, <1>4, <1>5 DEF LineInv

LEMMA CountedKeeps ==
  ASSUME NEW s \in Selection, NEW e \in Nat, NEW c \in Counted(s, e)
  PROVE  Codec(c) <=> Codec(s)
<1>1. PICK n, f : c = [s EXCEPT !.of = e, !.frames = n, !.failures = f]
  BY DEF Counted
<1>2. PICK x : x = [s EXCEPT !.of = e]
  OBVIOUS
<1>3. PICK y : y = [x EXCEPT !.frames = n]
  OBVIOUS
<1>4. c = [y EXCEPT !.failures = f]
  BY <1>1, <1>2, <1>3
<1>5. c.index = s.index /\ c.size = s.size
  BY <1>2, <1>3, <1>4 DEF Selection
<1> QED
  BY <1>5 DEF Codec

\* What the page is after a frame m of a stream that it is to show
LEMMA ShownIs ==
  ASSUME NEW p \in Page, NEW m \in Message
  PROVE  /\ Shown(p, m).epoch = p.epoch
         /\ Shown(p, m) = p \/ (~Shown(p, m).awaiting /\ Shown(p, m).last.epoch = m.epoch
                                /\ Shown(p, m).last.n = m.n /\ Shown(p, m).last.key = m.key)
<1>1. PICK l : l = [epoch |-> m.epoch, key |-> m.key, n |-> m.n]
  OBVIOUS
<1>2. PICK x : x = [p EXCEPT !.awaiting = FALSE]
  OBVIOUS
<1>3. PICK y : y = [x EXCEPT !.last = l]
  OBVIOUS
<1>4. y.epoch = p.epoch /\ ~y.awaiting /\ y.last = l
  BY <1>2, <1>3 DEF Page
<1>5. Shown(p, m) = p \/ Shown(p, m) = y
  BY <1>1, <1>2, <1>3 DEF Shown
<1> QED
  BY <1>1, <1>4, <1>5

\* What the page can be after a frame of m's stream
LEMMA PresentIs ==
  ASSUME CoreInv, WayInv, LineInv, Present
  PROVE  \E m \in accepted :
           /\ m.kind = "frame" /\ selection' \in Counted(selection, m.epoch)
           /\ \/ info # m.epoch /\ page' = page
              \/ /\ info = m.epoch /\ page'.epoch = m.epoch
                 /\ page'.awaiting \/ (page'.last.epoch = m.epoch /\ page'.last.n = m.n)
                 /\ \/ page'.last = page.last
                    \/ page'.last.key
                    \/ /\ page.epoch = m.epoch /\ ~page.awaiting
                       /\ page'.last.epoch = m.epoch /\ page'.last.n = m.n
<1>0. page \in Page /\ \A m \in accepted : m \in Message /\ m.epoch \in Nat
  BY DEF WayInv, WayTypeOK, Message
<1>1. PICK m \in accepted :
        /\ m.kind = "frame"
        /\ selection' \in Counted(selection, m.epoch)
        /\ LET c == Configured(m.epoch) IN
           IF info # m.epoch THEN UNCHANGED <<browser, left>>
           ELSE \/ page' = Shown(c.page, m) /\ asked' = c.asked /\ UNCHANGED left
                \/ /\ ~m.key /\ ~c.page.awaiting
                   /\ Spend("losses")
                   /\ page' = [c.page EXCEPT !.awaiting = TRUE] /\ asked' = TRUE
  BY DEF Present
<1>2. PICK p : p = Configured(m.epoch).page
  OBVIOUS
<1>3. /\ p \in Page /\ p.epoch = m.epoch /\ p.last = page.last
      /\ (p = page /\ page.epoch = m.epoch) \/ p.awaiting
  <2>1. CASE page.epoch = m.epoch
    BY <1>0, <1>2, <2>1 DEF Configured
  <2>2. CASE page.epoch # m.epoch
    <3>1. PICK x : x = [page EXCEPT !.epoch = m.epoch]
      OBVIOUS
    <3>2. p = [x EXCEPT !.awaiting = TRUE]
      BY <1>2, <2>2, <3>1 DEF Configured
    <3> QED
      BY <1>0, <3>1, <3>2 DEF Page
  <2> QED
    BY <2>1, <2>2
<1>4. CASE info # m.epoch
  BY <1>1, <1>4 DEF browser
<1>5. CASE info = m.epoch
  <2>1. CASE page' = Shown(p, m)
    <3>1. CASE ~m.key /\ p.awaiting
      <4>1. page' = p
        BY <2>1, <3>1 DEF Shown
      <4> QED
        BY <1>1, <1>3, <1>5, <3>1, <4>1
    <3>2. CASE m.key \/ ~p.awaiting
      <4>1. PICK y : y = Shown(p, m)
        OBVIOUS
      <4>2. /\ y.epoch = p.epoch
            /\ y = p \/ (~y.awaiting /\ y.last.epoch = m.epoch /\ y.last.n = m.n
                         /\ y.last.key = m.key)
        BY <1>0, <1>3, <4>1, ShownIs
      <4>3. y.last.epoch = m.epoch /\ y.last.n = m.n /\ y.last.key = m.key
        <5>1. y = [[p EXCEPT !.awaiting = FALSE] EXCEPT
                     !.last = [epoch |-> m.epoch, key |-> m.key, n |-> m.n]]
          BY <3>2, <4>1 DEF Shown
        <5>2. PICK x : x = [p EXCEPT !.awaiting = FALSE]
          OBVIOUS
        <5>3. PICK l : l = [epoch |-> m.epoch, key |-> m.key, n |-> m.n]
          OBVIOUS
        <5>4. y.last = l
          BY <1>3, <5>1, <5>2, <5>3 DEF Page
        <5> QED
          BY <5>3, <5>4
      <4> QED
        BY <1>1, <1>3, <1>5, <2>1, <3>2, <4>1, <4>2, <4>3
    <3> QED
      BY <3>1, <3>2
  <2>2. CASE page' = [p EXCEPT !.awaiting = TRUE]
    <3>1. page'.epoch = p.epoch /\ page'.awaiting /\ page'.last = p.last
      BY <1>3, <2>2 DEF Page
    <3> QED
      BY <1>1, <1>3, <1>5, <3>1
  <2> QED
    BY <1>1, <1>2, <1>5, <2>1, <2>2
<1> QED
  BY <1>4, <1>5

\* A frame of another stream than the one the session told of changes nothing; the
\* page decodes the next one, or waits for a key from here on.
LEMMA PresentLine == ASSUME CoreInv, WayInv, LineInv, Present PROVE LineInv'
<1>0. /\ UNCHANGED <<state, worker, active, channel, closed, info>> /\ accepted' = {}
      /\ selection \in Selection
  BY DEF Present, shared, sink, WayInv, WayTypeOK
<1>1. PICK m \in accepted :
        /\ m.kind = "frame" /\ selection' \in Counted(selection, m.epoch)
        /\ \/ info # m.epoch /\ page' = page
           \/ /\ info = m.epoch /\ page'.epoch = m.epoch
              /\ page'.awaiting \/ (page'.last.epoch = m.epoch /\ page'.last.n = m.n)
  BY PresentIs
<1>2. /\ m.epoch \in Nat /\ m.epoch <= state.epoch /\ page.epoch <= m.epoch
      /\ page.epoch = m.epoch => info = m.epoch
      /\ page.epoch \in Nat /\ state.epoch \in Nat
  BY <1>1, LineTypes DEF LineInv, Taken
<1>3. Codec(selection') <=> Codec(selection)
  BY <1>0, <1>1, <1>2, CountedKeeps
<1>4. Knowing'
  <2>1. ~state'.stop => (state'.paused <=> ~Codec(selection'))
    BY <1>0, <1>3 DEF LineInv, Knowing
  <2>2. CASE page' = page
    BY <1>0, <2>1, <2>2 DEF LineInv, Knowing
  <2>3. CASE /\ info = m.epoch /\ page'.epoch = m.epoch
             /\ page'.awaiting \/ (page'.last.epoch = m.epoch /\ page'.last.n = m.n)
    BY <1>0, <1>2, <2>1, <2>3 DEF Knowing
  <2> QED
    BY <1>1, <2>2, <2>3
<1>5. Orderly'
  <2> SUFFICES ASSUME ~closed, ~state.stop, NEW t, Comes(t)'
               PROVE  InLine(Queued \o t, state.epoch, page', {}, Codec(selection'))
    BY <1>0 DEF Orderly, Queued, Sending
  <2>1. Comes(t)
    BY <1>0 DEF Comes, Unopened
  <2>2. PICK c \in BOOLEAN : (c <=> Codec(selection)) /\ (c <=> Codec(selection'))
    BY <1>3
  <2>3. InLine(Queued \o t, state.epoch, page, accepted, c)
    BY <2>1, <2>2 DEF LineInv, Orderly, InLine
  <2>4. \A y : Meets(y, state.epoch, page, accepted) => Continues(y, state.epoch, page')
    <3> SUFFICES ASSUME NEW y, Linked(m, y, state.epoch)
                 PROVE  Continues(y, state.epoch, page')
      BY <1>1 DEF Meets
    <3> QED
      BY <1>1, <1>2 DEF Linked, Continues
  <2>5. page'.epoch = state.epoch =>
          page.epoch = state.epoch \/ \E a \in accepted : a.epoch = state.epoch
    BY <1>1
  <2>6. InLine(Queued \o t, state.epoch, page', {}, c)
    BY <2>3, <2>4, <2>5, LineRead
  <2> QED
    BY <2>2, <2>6 DEF InLine
<1>6. Own' /\ Taken'
  BY <1>0 DEF LineInv, Own, Taken
<1> QED
  BY <1>4, <1>5, <1>6 DEF LineInv

\* A choice of codecs, or a failure that counts, restarts the stream, and the sink
\* is paused when no codec is left.
LEMMA ChooseLine ==
  ASSUME CoreInv, WayInv, LineInv, Recover \/ \E k \in 0 .. Candidates : Choose(k)
  PROVE  LineInv'
<1>0. /\ state \in State /\ UNCHANGED <<worker, active, channel, closed, page>>
      /\ accepted' \subseteq accepted /\ (accepted' = {} \/ info' = info)
      /\ Update(Restart([state EXCEPT !.paused = ~(selection'.index < selection'.size)]))
  BY DEF Recover, Choose, Change, Selected, Codec, sink, browser, CoreInv, CoreTypeOK
<1>1. PICK b \in BOOLEAN : b = ~(selection'.index < selection'.size)
  OBVIOUS
<1>2. PICK s : s = [state EXCEPT !.paused = b]
  OBVIOUS
<1>3. s \in State /\ s.epoch = state.epoch /\ s.paused = b
  BY <1>0, <1>2 DEF State
<1>4. Update(Restart(s)) /\ (s.paused <=> ~Codec(selection'))
  BY <1>0, <1>1, <1>2, <1>3 DEF Codec
<1> QED
  BY <1>0, <1>3, <1>4, RestartLine

LEMMA TuneLine ==
  ASSUME CoreInv, WayInv, LineInv, RequestKeyframe \/ Retune \/ \E r \in Rate : SetQuality(r)
  PROVE  LineInv'
<1>0. /\ state \in State
      /\ UNCHANGED <<worker, active, channel, closed, selection, accepted, info, page>>
  BY DEF RequestKeyframe, Retune, SetQuality, sink, session, browser, CoreInv, CoreTypeOK
<1>1. ASSUME NEW s \in State, s.epoch = state.epoch, s.paused = state.paused,
             s.failed = state.failed, s.stop = state.stop, Update(s) \/ Update(Restart(s))
      PROVE  LineInv'
  <2>1. CASE Update(s)
    <3>1. /\ state'.epoch = state.epoch /\ state'.paused = state.paused
          /\ state'.failed = state.failed /\ (state.stop => state'.stop)
      BY <1>1, <2>1 DEF Update
    <3> QED
      BY <1>0, <3>1, DetailLine
  <2>2. CASE Update(Restart(s))
    <3>1. ~state.stop => (s.paused <=> ~Codec(selection'))
      BY <1>0, <1>1 DEF LineInv, Knowing
    <3> QED
      BY <1>0, <1>1, <2>2, <3>1, RestartLine
  <2> QED
    BY <1>1, <2>1, <2>2
<1>2. CASE RequestKeyframe
  <2>1. PICK s : s = [state EXCEPT !.keyframe = TRUE]
    OBVIOUS
  <2>2. /\ s \in State /\ s.epoch = state.epoch /\ s.paused = state.paused
        /\ s.failed = state.failed /\ s.stop = state.stop
    BY <1>0, <2>1 DEF State
  <2>3. Update(s)
    BY <1>2, <2>1 DEF RequestKeyframe
  <2> QED
    BY <1>1, <2>2, <2>3
<1>3. CASE Retune
  <2>1. Update(Restart(state))
    BY <1>3 DEF Retune
  <2> QED
    BY <1>0, <1>1, <2>1
<1>4. CASE \E r \in Rate : SetQuality(r)
  <2>0. PICK r \in Rate : SetQuality(r)
    BY <1>4
  <2>1. PICK s : s = [state EXCEPT !.rate = r]
    OBVIOUS
  <2>2. /\ s \in State /\ s.epoch = state.epoch /\ s.paused = state.paused
        /\ s.failed = state.failed /\ s.stop = state.stop
    BY <1>0, <2>1 DEF State
  <2>3. Update(s) \/ Update(Restart(s))
    BY <2>0, <2>1 DEF SetQuality
  <2> QED
    BY <1>1, <2>2, <2>3
<1> QED
  BY <1>2, <1>3, <1>4

\* With the session, everything that is under way ends.
LEMMA CloseLine == ASSUME CoreInv, WayInv, LineInv, Close PROVE LineInv'
<1>0. /\ UNCHANGED <<state, worker, active, selection>> /\ closed' /\ accepted' = {}
      /\ info' = None /\ page' = NoPage
  BY DEF Close, shared, sink
<1>1. page'.epoch = None /\ page'.awaiting
  BY <1>0 DEF NoPage
<1>2. Knowing'
  BY <1>0, <1>1, LineTypes DEF LineInv, Knowing, Codec, None
<1>3. Own' /\ Taken' /\ Orderly'
  BY <1>0 DEF LineInv, Own, Taken, Orderly
<1> QED
  BY <1>2, <1>3 DEF LineInv

LEMMA SessionLine == ASSUME CoreInv, WayInv, LineInv, Session PROVE LineInv'
BY ReceiveLine, ConfigureLine, PresentLine, ChooseLine, TuneLine, CloseLine
DEF Session, Reading, Choosing

-----------------------------------------------------------------------------
\* Nothing is under way, and the first encoder has yet to be opened.
LEMMA InitLine == Init => LineInv
<1> SUFFICES ASSUME Init PROVE LineInv
  OBVIOUS
<1>1. /\ channel = <<>> /\ accepted = {} /\ active = {} /\ worker.pc = "idle"
      /\ page = NoPage /\ info = None /\ state.epoch = 1 /\ ~state.stop
      /\ ~state.failed
  BY DEF Init
<1>2. state.paused <=> ~Codec(selection)
  <2>1. PICK r \in Rate, k \in 0 .. Candidates :
          /\ state = [source |-> {}, rate |-> r, epoch |-> 1, pending |-> {}, ready |-> FALSE,
                      started |-> FALSE, pressure |-> FALSE, failed |-> FALSE, stop |-> FALSE,
                      paused |-> k = 0, keyframe |-> TRUE, inplace |-> FALSE]
          /\ selection = [index |-> 0, size |-> k, failures |-> 0, frames |-> 0, of |-> None]
    BY DEF Init
  <2>2. PICK b \in BOOLEAN : b = (k = 0)
    OBVIOUS
  <2>3. state.paused = b /\ selection.index = 0 /\ selection.size = k
    BY <2>1, <2>2
  <2>4. b <=> ~(0 < k)
    <3>1. k = 0 <=> ~(0 < k)
      BY CountAssumption
    <3>2. b <=> k = 0
      BY <2>2, Zenon
    <3> QED
      BY <3>1, <3>2
  <2> QED
    BY <2>3, <2>4 DEF Codec
<1>3. page.epoch = 0 /\ page.awaiting /\ info = 0
  BY <1>1 DEF NoPage, None
<1>4. Orderly
  <2> SUFFICES ASSUME NEW t, Comes(t)
               PROVE  InLine(Queued \o t, state.epoch, page, accepted, Codec(selection))
    BY DEF Orderly
  <2>1. Queued = <<>>
    BY <1>1 DEF Queued, Sending, Delivering
  <2>2. CASE t = <<>>
    <3>1. Queued \o t = <<>> /\ Len(<<>>) = 0
      BY <2>1, <2>2
    <3> QED
      BY <3>1, NothingInLine
  <2>3. CASE Unopened /\ \E key \in BOOLEAN : t = Batch(state.epoch, FALSE, 0, key)
    <3>1. PICK key \in BOOLEAN : t = Batch(state.epoch, FALSE, 0, key)
      BY <2>3
    <3>2. Codec(selection)
      BY <1>2, <2>3 DEF Unopened
    <3>3. <<>> \in Seq(Message) /\ state.epoch \in Nat /\ Len(<<>>) = 0
      BY <1>1
    <3>4. \A i \in 1 .. Len(<<>>) : <<>>[i].epoch # state.epoch
      BY <3>3
    <3>5. page.epoch # state.epoch /\ \A m \in accepted : m.epoch # state.epoch
      BY <1>1, <1>3
    <3>6. InLine(<<>> \o Batch(state.epoch, FALSE, 0, key), state.epoch, page, accepted,
                 Codec(selection))
      BY <3>2, <3>3, <3>4, <3>5, VoidLine
    <3> QED
      BY <2>1, <3>1, <3>6
  <2> QED
    BY <1>1, <2>2, <2>3 DEF Comes
<1>5. Own /\ Knowing /\ Taken
  BY <1>1, <1>2, <1>3 DEF Own, Knowing, Taken
<1> QED
  BY <1>4, <1>5 DEF LineInv

LEMMA NextLine == CoreInv /\ WayInv /\ LineInv /\ [Next]_vars => LineInv'
<1> SUFFICES ASSUME CoreInv, WayInv, LineInv, [Next]_vars PROVE LineInv'
  OBVIOUS
<1>1. CASE UNCHANGED vars
  <2>1. UNCHANGED <<state, worker, active, channel, closed, selection, accepted, info, page>>
    BY <1>1 DEF vars, shared, session, browser
  <2> QED
    BY <2>1, DetailLine
<1> QED
  BY <1>1, CompositorLine, WorkerLine, SessionLine DEF Next

LEMMA SpecLine == Spec => []LineInv
BY SpecCoreInv, SpecWay, InitLine, NextLine, PTL DEF Spec

\* The page never decodes a delta without the frame before it (DeltasFollow): neither
\* the worker nor the session drops a frame out of a stream it goes on with.
THEOREM DeltasAlwaysFollow == Spec => DeltasFollow
<1> DEFINE Follows == page'.last # page.last /\ ~closed' =>
             \/ page'.last.key
             \/ /\ page'.last.epoch = page.last.epoch
                /\ page'.last.n = (page.last.n + 1) % Modulus
<1>1. CoreInv /\ WayInv /\ LineInv /\ [Next]_vars => [Follows]_vars
  <2> SUFFICES ASSUME CoreInv, WayInv, LineInv, Next PROVE Follows
    OBVIOUS
  <2>1. CASE Present
    <3>1. PICK m \in accepted :
            /\ m.kind = "frame"
            /\ \/ info # m.epoch /\ page' = page
               \/ /\ page'.last = page.last
               \/ page'.last.key
               \/ /\ page.epoch = m.epoch /\ ~page.awaiting
                  /\ page'.last.epoch = m.epoch /\ page'.last.n = m.n
      BY <2>1, PresentIs
    <3>2. page.epoch = m.epoch /\ ~page.awaiting =>
            page.last.epoch = m.epoch /\ m.n = Succ(page.last.n)
      BY <3>1 DEF LineInv, Taken, Knowing
    <3> QED
      BY <3>1, <3>2 DEF Succ
  <2>2. CASE Close
    BY <2>2 DEF Close
  <2>3. CASE ~Present /\ ~Close
    <3>1. page' = page
      BY <2>3 DEF Next, Compositor, Attach, Resize, Damage, Submit, DropSink, Worker, Encoding,
        Delivery, Begin, Open, SetRate, Take, Budget, Encode, Report, Reserve, Full, Wake, Send,
        DeliveryFrame, outside, Session, Reading, Receive, Configure, Recover, RequestKeyframe,
        Choosing, Choose, Retune, SetQuality, browser
    <3> QED
      BY <3>1
  <2> QED
    BY <2>1, <2>2, <2>3
<1> QED
  BY <1>1, SpecCoreInv, SpecWay, SpecLine, PTL DEF Spec, DeltasFollow
=============================================================================
