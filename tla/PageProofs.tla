------------------------------- MODULE PageProofs -------------------------------
(***************************************************************************)
(* Four parts of the page that share nothing, each with its own inductive   *)
(* invariant: the window list's thumbnails, the microphone and webcam, the  *)
(* clipboard panel, and the keyboard.                                       *)
(***************************************************************************)
EXTENDS Thumbnails, PageCapture, PageClipboard, PageKeys, TLAPS

--------------------------------------------------------------------------------
(***************************************************************************)
(* No row of the window list is forgotten, for any rows, sizes and changes. *)
(* Every handler but five of them ends in a pump, and whatever a pump finds *)
(* it leaves a row that is looked after; the others touch nothing of it.    *)
(***************************************************************************)
\* A row is looked after, and a running capture has an attempt left to lose.
LookedAfter(x) == Needed(x, TRUE) /\ ~x.refused => x.pending \/ x.timer
Attempts(x) == x.request # "none" => x.failures < FAILURES

\* The inductive invariant.
RowsInv ==
  /\ ThumbnailTypeOK
  /\ \A r \in Row : LookedAfter(row[r]) /\ Attempts(row[r])

LEMMA FailuresType == FAILURES \in Nat /\ FAILURES > 0
BY ThumbnailAssumption

LEMMA KeysType == FirstKey \in Key /\ NoPicture \in Key \cup {NoPicture}
<1>1. (CHOOSE s \in Sizing : TRUE) \in Sizing
  BY ThumbnailAssumption
<1>2. 0 \in 0..MaxRevision
  BY ThumbnailAssumption
<1> QED
  BY <1>1, <1>2 DEF FirstKey, Key

\* What a pump makes of a row.
LEMMA PumpKeeps ==
  ASSUME NEW x \in RowState, NEW visible \in BOOLEAN
  PROVE  /\ Pump(x, visible) \in RowState
         /\ LookedAfter(Pump(x, visible))
         /\ Attempts(x) => Attempts(Pump(x, visible))
<1>1. CASE x.pending \/ x.timer
  BY <1>1 DEF Pump, RowState, LookedAfter, Attempts
<1>2. CASE ~(x.pending \/ x.timer) /\ ~Needed(x, visible)
  <2>1. Pump(x, visible) = [x EXCEPT !.refused = ~visible]
    BY <1>2 DEF Pump
  <2> QED
    BY <1>2, <2>1 DEF RowState, LookedAfter, Attempts, Needed
<1>3. CASE ~(x.pending \/ x.timer) /\ Needed(x, visible) /\ x.rested
  <2>1. Pump(x, visible) = [x EXCEPT !.pending = TRUE]
    BY <1>3 DEF Pump
  <2> QED
    BY <2>1 DEF RowState, LookedAfter, Attempts
<1>4. CASE ~(x.pending \/ x.timer) /\ Needed(x, visible) /\ ~x.rested
  <2>1. Pump(x, visible) = [x EXCEPT !.timer = TRUE]
    BY <1>4 DEF Pump
  <2> QED
    BY <2>1 DEF RowState, LookedAfter, Attempts
<1> QED
  BY <1>1, <1>2, <1>3, <1>4

\* One row changes to a good state and the queue stays a queue.
LEMMA RowKeeps ==
  ASSUME RowsInv, NEW r \in Row, NEW x \in RowState, LookedAfter(x), Attempts(x),
         row' = [row EXCEPT ![r] = x], jobs' \in Seq(Row), UNCHANGED inView
  PROVE  RowsInv'
<1>1. row' \in [Row -> RowState]
  BY DEF RowsInv, ThumbnailTypeOK
<1>2. ThumbnailTypeOK'
  BY <1>1 DEF RowsInv, ThumbnailTypeOK
<1>3. ASSUME NEW q \in Row PROVE row'[q] = IF q = r THEN x ELSE row[q]
  BY DEF RowsInv, ThumbnailTypeOK
<1>4. ASSUME NEW q \in Row PROVE LookedAfter(row'[q]) /\ Attempts(row'[q])
  BY <1>3 DEF RowsInv
<1> QED
  BY <1>2, <1>4 DEF RowsInv, LookedAfter, Attempts, Needed

LEMMA PumpedKeeps ==
  ASSUME RowsInv, NEW r \in Row, NEW x \in RowState, Attempts(x), NEW queue \in Seq(Row),
         Pumped(r, x, queue), UNCHANGED inView
  PROVE  RowsInv'
<1> DEFINE y == Pump(x, inView[r])
<1>1. y \in RowState /\ LookedAfter(y) /\ Attempts(y)
  <2>1. inView[r] \in BOOLEAN
    BY DEF RowsInv, ThumbnailTypeOK
  <2> QED
    BY <2>1, PumpKeeps
<1>2. row' = [row EXCEPT ![r] = y] /\ jobs' \in Seq(Row)
  BY DEF Pumped
<1> HIDE DEF y
<1> QED
  BY <1>1, <1>2, RowKeeps

LEMMA FinishKeeps ==
  ASSUME RowsInv, NEW r \in Row, NEW x \in RowState, Running(r), Finish(r, x), UNCHANGED inView
  PROVE  RowsInv'
<1> DEFINE y == [x EXCEPT !.pending = FALSE, !.request = "none", !.selected = NoPicture]
<1>1. y \in RowState /\ Attempts(y)
  BY KeysType DEF RowState, Attempts
<1>2. Tail(jobs) \in Seq(Row)
  BY DEF RowsInv, ThumbnailTypeOK, Running
<1>3. Pumped(r, y, Tail(jobs))
  BY DEF Finish
<1> HIDE DEF y
<1> QED
  BY <1>1, <1>2, <1>3, PumpedKeeps

LEMMA UpdateKeeps ==
  ASSUME RowsInv, NEW r \in Row, NEW key \in Key, NEW eligible \in BOOLEAN, Update(r, key, eligible)
  PROVE  RowsInv'
<1> DEFINE x == row[r]
           supersedes == ~eligible \/ key.sizing # x.current.sizing
           fresh == key # x.current \/ (eligible /\ ~x.eligible)
           failures == IF fresh THEN 0 ELSE x.failures
           timer == x.timer /\ ~supersedes
           request == IF supersedes THEN Aborted(x) ELSE x.request
           y == [x EXCEPT !.current = key, !.eligible = eligible, !.refused = FALSE,
                          !.failures = failures, !.timer = timer, !.request = request]
<1>1. x \in RowState /\ Attempts(x)
  BY DEF RowsInv, ThumbnailTypeOK
<1>2. Pumped(r, y, jobs) /\ UNCHANGED inView
  BY DEF Update
<1>3. jobs \in Seq(Row)
  BY DEF RowsInv, ThumbnailTypeOK
<1>4. fresh \in BOOLEAN /\ supersedes \in BOOLEAN
  OBVIOUS
<1> HIDE DEF x, fresh, supersedes
<1>5. /\ failures \in 0..FAILURES
      /\ timer \in BOOLEAN
      /\ request \in {"none", "live", "superseded"}
      /\ request # "none" => failures < FAILURES
  BY <1>1, <1>4, FailuresType DEF RowState, Aborted, Attempts
<1> HIDE DEF failures, timer, request
<1>6. y \in RowState /\ Attempts(y)
  BY <1>1, <1>5 DEF RowState, Attempts
<1> HIDE DEF y
<1> QED
  BY <1>2, <1>3, <1>5, <1>6, PumpedKeeps

\* Each step keeps the invariant.
LEMMA StepKeeps ==
  ASSUME RowsInv, NEW r \in Row, ThumbnailStep(r)
  PROVE  RowsInv'
<1> DEFINE x == row[r]
<1>t. x \in RowState /\ LookedAfter(x) /\ Attempts(x) /\ jobs \in Seq(Row)
  BY DEF RowsInv, ThumbnailTypeOK
<1>1. CASE \E key \in Key, eligible \in BOOLEAN : Update(r, key, eligible)
  BY <1>1, UpdateKeeps
<1>2. CASE Dispose(r)
  <2> DEFINE y == [x EXCEPT !.disposed = TRUE, !.timer = FALSE, !.request = Aborted(x)]
  <2>1. row' = [row EXCEPT ![r] = y] /\ UNCHANGED <<jobs, inView>>
    BY <1>2 DEF Dispose
  <2> HIDE DEF x
  <2>2. y \in RowState /\ LookedAfter(y) /\ Attempts(y)
    BY <1>t DEF RowState, LookedAfter, Attempts, Needed, Aborted
  <2> HIDE DEF y
  <2> QED
    BY <1>t, <2>1, <2>2, RowKeeps
<1>3. CASE Fire(r)
  <2> DEFINE y == [x EXCEPT !.timer = FALSE]
  <2>1. Pumped(r, y, jobs) /\ UNCHANGED inView
    BY <1>3 DEF Fire
  <2> HIDE DEF x
  <2>2. y \in RowState /\ Attempts(y)
    BY <1>t DEF RowState, Attempts
  <2> HIDE DEF y
  <2> QED
    BY <1>t, <2>1, <2>2, PumpedKeeps
<1>4. CASE Rest(r)
  <2> DEFINE y == [x EXCEPT !.rested = TRUE]
  <2>1. row' = [row EXCEPT ![r] = y] /\ UNCHANGED <<jobs, inView>>
    BY <1>4, <1>t DEF Rest
  <2> HIDE DEF x
  <2>2. y \in RowState /\ LookedAfter(y) /\ Attempts(y)
    BY <1>t DEF RowState, LookedAfter, Attempts, Needed
  <2> HIDE DEF y
  <2> QED
    BY <1>t, <2>1, <2>2, RowKeeps
<1>5. CASE Scroll(r)
  BY <1>5 DEF Scroll, RowsInv, ThumbnailTypeOK, LookedAfter, Attempts, Needed
<1>6. CASE Skip(r)
  BY <1>6, <1>t, FinishKeeps DEF Skip
<1>7. CASE Begin(r)
  <2> DEFINE y == [x EXCEPT !.request = "live", !.rested = FALSE, !.selected = x.current]
  <2>1. /\ row' = [row EXCEPT ![r] = y] /\ UNCHANGED <<jobs, inView>>
        /\ x.failures < FAILURES
    BY <1>7 DEF Begin, Needed
  <2> HIDE DEF x
  <2>2. y \in RowState /\ LookedAfter(y) /\ Attempts(y)
    BY <1>t, <2>1 DEF RowState, LookedAfter, Attempts, Needed
  <2> HIDE DEF y
  <2> QED
    BY <1>t, <2>1, <2>2, RowKeeps
<1>8. CASE Captured(r)
  <2> DEFINE y == IF x.request = "live" /\ x.eligible
                  THEN [x EXCEPT !.captured = x.selected, !.failures = 0] ELSE x
  <2>1. Running(r) /\ Finish(r, y) /\ UNCHANGED inView
    BY <1>8 DEF Captured
  <2> HIDE DEF x
  <2>2. y \in RowState
    <3>1. 0 \in 0..FAILURES /\ x.selected \in Key \cup {NoPicture}
      BY <1>t, FailuresType DEF RowState
    <3>2. [x EXCEPT !.captured = x.selected, !.failures = 0] \in RowState
      BY <1>t, <3>1 DEF RowState
    <3> QED
      BY <1>t, <3>2
  <2> HIDE DEF y
  <2> QED
    BY <2>1, <2>2, FinishKeeps
<1>9. CASE Failed(r)
  <2> DEFINE y == IF x.request = "live" /\ x.selected = x.current
                  THEN [x EXCEPT !.failures = @ + 1] ELSE x
  <2>1. Running(r) /\ Finish(r, y) /\ UNCHANGED inView
    BY <1>9 DEF Failed
  <2> HIDE DEF x
  <2>2. y \in RowState
    BY <1>t, FailuresType DEF RowState, Attempts
  <2> HIDE DEF y
  <2> QED
    BY <2>1, <2>2, FinishKeeps
<1> QED
  BY <1>1, <1>2, <1>3, <1>4, <1>5, <1>6, <1>7, <1>8, <1>9 DEF ThumbnailStep

LEMMA RowsInitInv == ThumbnailInit => RowsInv
<1> SUFFICES ASSUME ThumbnailInit PROVE RowsInv
  OBVIOUS
<1>1. row \in [Row -> RowState]
  BY KeysType, FailuresType DEF ThumbnailInit, RowState
<1>2. \A r \in Row : LookedAfter(row[r]) /\ Attempts(row[r])
  BY DEF ThumbnailInit, LookedAfter, Attempts, Needed
<1>3. jobs \in Seq(Row) /\ inView \in [Row -> BOOLEAN]
  BY DEF ThumbnailInit
<1> QED
  BY <1>1, <1>2, <1>3 DEF RowsInv, ThumbnailTypeOK

LEMMA RowsNextInv == RowsInv /\ [ThumbnailNext]_thumbnailVars => RowsInv'
<1> SUFFICES ASSUME RowsInv, [ThumbnailNext]_thumbnailVars PROVE RowsInv'
  OBVIOUS
<1>1. CASE ThumbnailNext
  BY <1>1, StepKeeps DEF ThumbnailNext
<1>2. CASE UNCHANGED thumbnailVars
  BY <1>2 DEF thumbnailVars, RowsInv, ThumbnailTypeOK, LookedAfter, Attempts, Needed
<1> QED
  BY <1>1, <1>2

LEMMA RowsSpecInv == ThumbnailSpec => []RowsInv
BY RowsInitInv, RowsNextInv, PTL DEF ThumbnailSpec

\* Every variable keeps its type, for any number of rows; no row counts more failures
\* than it has attempts.
THEOREM ThumbnailsTypeCorrect == ThumbnailSpec => []ThumbnailTypeOK
<1>1. RowsInv => ThumbnailTypeOK
  BY DEF RowsInv
<1> QED
  BY <1>1, RowsSpecInv, PTL

\* thumbnails.js: a row that needs a picture has a job or a timer, or was found off the
\* screen when it last looked.
THEOREM RowsAreNeverForgotten == ThumbnailSpec => []NeverForgotten
<1>1. RowsInv => NeverForgotten
  BY DEF RowsInv, NeverForgotten, LookedAfter
<1> QED
  BY <1>1, RowsSpecInv, PTL

--------------------------------------------------------------------------------
(***************************************************************************)
(* The page holds a microphone or a webcam only while it may, for any       *)
(* number of starts.  A device's live tracks are those of its current       *)
(* capture, and a capture is current only while control lasts; for the      *)
(* webcam, whose button says off while the browser asks, it takes more: a   *)
(* current capture is the newest start, and no longer waits to be granted.  *)
(***************************************************************************)
\* The current capture of a device is one the page may have, and alone has live tracks.
Current(d) ==
  /\ tracks[d] \subseteq {capturing[d]}
  /\ capturing[d] # 0 => May(d) /\ switched[d]

\* The webcam's current capture is its newest start, and has been granted.
Granted ==
  capturing["cam"] # 0 =>
    /\ generation["cam"] = capturing["cam"]
    /\ stage["cam"][capturing["cam"]] \in {"running", "over"}

\* The inductive invariant.
CaptureInv ==
  /\ CaptureTypeOK
  /\ Current("mic") /\ Current("cam")
  /\ Granted

USE DEF Device, Captures

LEMMA CapturesAreNumbers == Captures \subseteq Nat /\ 0 \notin Captures
BY CaptureAssumption

\* What a stop makes of one device, and what it leaves of the other.
LEMMA StoppedKeeps ==
  ASSUME CaptureTypeOK, NEW D \in SUBSET Device, Stopped(D)
  PROVE  /\ switched' \in [Device -> BOOLEAN]
         /\ tracks' \in [Device -> SUBSET Captures]
         /\ capturing' \in [Device -> {0} \cup Captures]
         /\ generation' \in [Device -> {0} \cup Captures]
         /\ \A d \in Device :
              IF d \in D
              THEN capturing'[d] = 0 /\ (Current(d) => tracks'[d] = {})
              ELSE /\ capturing'[d] = capturing[d] /\ tracks'[d] = tracks[d]
                   /\ generation'[d] = generation[d] /\ switched'[d] = switched[d]
BY DEF CaptureTypeOK, Stopped, Current

\* A capture's start goes on; what it stops is stopped, and nobody loses control.
LEMMA StopKeeps ==
  ASSUME CaptureInv, NEW D \in SUBSET Device, Stopped(D), UNCHANGED <<control, offered>>,
         NEW e \in Device, NEW i \in Captures, NEW s \in {"running", "over", "resuming"},
         Move(e, i, s), e = "cam" => s # "resuming"
  PROVE  CaptureInv'
<1>1. CaptureTypeOK'
  BY StoppedKeeps DEF CaptureInv, CaptureTypeOK, Move
<1>2. ASSUME NEW d \in Device PROVE Current(d)'
  BY StoppedKeeps DEF CaptureInv, Current, May
<1>3. Granted'
  BY StoppedKeeps, CapturesAreNumbers DEF CaptureInv, CaptureTypeOK, Granted, Move
<1> QED
  BY <1>1, <1>2, <1>3 DEF CaptureInv

\* The same where nothing is stopped.
LEMMA StayKeeps ==
  ASSUME CaptureInv, StaysOn, UNCHANGED <<control, offered>>,
         NEW e \in Device, NEW i \in Captures, NEW s \in {"running", "over", "resuming"},
         Move(e, i, s), e = "cam" => s # "resuming"
  PROVE  CaptureInv'
<1>1. CaptureTypeOK'
  BY DEF CaptureInv, CaptureTypeOK, Move, StaysOn
<1>2. Current("mic")' /\ Current("cam")'
  BY DEF CaptureInv, Current, May, StaysOn
<1>3. Granted'
  BY CapturesAreNumbers DEF CaptureInv, CaptureTypeOK, Granted, Move, StaysOn
<1> QED
  BY <1>1, <1>2, <1>3 DEF CaptureInv

LEMMA HearRoleKeeps ==
  ASSUME CaptureInv, NEW drive \in BOOLEAN, NEW features \in SUBSET Device, HearRole(drive, features)
  PROVE  CaptureInv'
<1> DEFINE D == {d \in Device : ~drive \/ d \notin features}
<1>1. Stopped(D) /\ D \in SUBSET Device
  BY DEF HearRole
<1>2. control' = drive /\ offered' = [d \in Device |-> d \in features] /\ stage' = stage
  BY DEF HearRole
<1>3. CaptureTypeOK'
  BY <1>1, <1>2, StoppedKeeps DEF CaptureInv, CaptureTypeOK
<1>4. ASSUME NEW d \in Device PROVE Current(d)'
  <2>1. CASE d \in D
    BY <1>1, <2>1, StoppedKeeps DEF CaptureInv, Current
  <2>2. CASE d \notin D
    <3>1. May(d)'
      BY <1>2, <2>2 DEF May
    <3> QED
      BY <1>1, <2>2, <3>1, StoppedKeeps DEF CaptureInv, Current
  <2> QED
    BY <2>1, <2>2
<1>5. Granted'
  BY <1>1, <1>2, StoppedKeeps DEF CaptureInv, Granted
<1> QED
  BY <1>3, <1>4, <1>5 DEF CaptureInv

\* The microphone's steps keep the invariant.
LEMMA MicKeeps ==
  ASSUME CaptureInv, NEW i \in Captures,
         MicStart(i) \/ MicGranted(i) \/ MicLoaded(i) \/ MicResumed(i) \/ MicFails(i)
  PROVE  CaptureInv'
<1>1. CASE MicStart(i)
  <2>1. CaptureTypeOK'
    BY <1>1 DEF MicStart, Move, CaptureInv, CaptureTypeOK
  <2>2. capturing["mic"] = 0 /\ tracks["mic"] = {}
    BY <1>1, CapturesAreNumbers DEF MicStart, CaptureInv, Current, CaptureTypeOK
  <2>3. Current("mic")' /\ Current("cam")'
    BY <1>1, <2>2 DEF MicStart, CaptureInv, Current, CaptureTypeOK, May
  <2>4. Granted'
    BY <1>1 DEF MicStart, Move, CaptureInv, Granted, CaptureTypeOK
  <2> QED
    BY <2>1, <2>3, <2>4 DEF CaptureInv
<1>2. CASE MicGranted(i)
  <2>1. CaptureTypeOK'
    BY <1>2 DEF MicGranted, Move, CaptureInv, CaptureTypeOK
  <2>2. Current("mic")' /\ Current("cam")'
    BY <1>2 DEF MicGranted, CaptureInv, Current, CaptureTypeOK, May
  <2>3. Granted'
    BY <1>2 DEF MicGranted, Move, CaptureInv, Granted, CaptureTypeOK
  <2> QED
    BY <2>1, <2>2, <2>3 DEF CaptureInv
<1>3. CASE MicLoaded(i)
  BY <1>3, StayKeeps DEF MicLoaded
<1>4. CASE MicResumed(i)
  BY <1>4, StayKeeps, StopKeeps DEF MicResumed
<1>5. CASE MicFails(i)
  BY <1>5, StayKeeps, StopKeeps DEF MicFails
<1> QED
  BY <1>1, <1>2, <1>3, <1>4, <1>5

\* The webcam's steps keep the invariant.
LEMMA CamKeeps ==
  ASSUME CaptureInv, NEW i \in Captures, CamStart(i) \/ CamGranted(i) \/ CamDenied(i) \/ CamEnds(i)
  PROVE  CaptureInv'
<1>1. CASE CamStart(i)
  <2>1. CaptureTypeOK'
    BY <1>1 DEF CamStart, Move, CaptureInv, CaptureTypeOK
  <2>2. Current("mic")' /\ Current("cam")'
    BY <1>1 DEF CamStart, CaptureInv, Current, May
  <2>3. Granted'
    BY <1>1 DEF CamStart, CaptureInv, Current, Granted
  <2> QED
    BY <2>1, <2>2, <2>3 DEF CaptureInv
<1>2. CASE CamGranted(i)
  <2>1. CASE ~May("cam")
    BY <1>2, <2>1, StopKeeps DEF CamGranted
  <2>2. CASE May("cam") /\ generation["cam"] # i
    <3>1. CaptureTypeOK'
      BY <1>2, <2>2 DEF CamGranted, Move, CaptureInv, CaptureTypeOK
    <3>2. Current("mic")' /\ Current("cam")'
      BY <1>2, <2>2 DEF CamGranted, CaptureInv, Current, CaptureTypeOK, May
    <3>3. Granted'
      BY <1>2, <2>2 DEF CamGranted, Move, CaptureInv, Granted, CaptureTypeOK
    <3> QED
      BY <3>1, <3>2, <3>3 DEF CaptureInv
  <2>3. CASE May("cam") /\ generation["cam"] = i
    <3>1. capturing["cam"] = 0 /\ tracks["cam"] = {}
      <4>1. stage["cam"][i] = "asking"
        BY <1>2 DEF CamGranted
      <4> QED
        BY <4>1, <2>3, CapturesAreNumbers DEF CaptureInv, Granted, Current, CaptureTypeOK
    <3>t. /\ stage' = [stage EXCEPT !["cam"][i] = "running"]
          /\ switched' = [switched EXCEPT !["cam"] = TRUE]
          /\ capturing' = [capturing EXCEPT !["cam"] = i]
          /\ tracks' = [tracks EXCEPT !["cam"] = @ \cup {i}]
          /\ UNCHANGED <<control, offered, generation>>
      BY <1>2, <2>3 DEF CamGranted, Move
    <3>2. CaptureTypeOK'
      <4>1. capturing' \in [Device -> {0} \cup Captures] /\ tracks' \in [Device -> SUBSET Captures]
        BY <3>t DEF CaptureInv, CaptureTypeOK
      <4>2. stage' \in [Device -> [Captures -> {"none", "asking", "loading", "resuming", "running", "over"}]]
        BY <3>t DEF CaptureInv, CaptureTypeOK
      <4> QED
        BY <3>t, <4>1, <4>2 DEF CaptureInv, CaptureTypeOK
    <3>3. Current("mic")' /\ Current("cam")'
      BY <1>2, <2>3, <3>1 DEF CamGranted, CaptureInv, Current, CaptureTypeOK, May
    <3>4. Granted'
      <4>1. capturing'["cam"] = i /\ generation'["cam"] = i /\ stage'["cam"][i] = "running"
        BY <2>3, <3>t DEF CaptureInv, CaptureTypeOK
      <4> QED
        BY <4>1 DEF Granted
    <3> QED
      BY <3>2, <3>3, <3>4 DEF CaptureInv
  <2> QED
    BY <2>1, <2>2, <2>3
<1>3. CASE CamDenied(i)
  <2>1. CaptureTypeOK'
    BY <1>3 DEF CamDenied, Move, CaptureInv, CaptureTypeOK
  <2>2. Current("mic")' /\ Current("cam")'
    BY <1>3 DEF CamDenied, CaptureInv, Current, May
  <2>3. Granted'
    BY <1>3 DEF CamDenied, Move, CaptureInv, CaptureTypeOK, Granted
  <2> QED
    BY <2>1, <2>2, <2>3 DEF CaptureInv
<1>4. CASE CamEnds(i)
  BY <1>4, StayKeeps, StopKeeps DEF CamEnds
<1> QED
  BY <1>1, <1>2, <1>3, <1>4

LEMMA CaptureInitInv == CaptureInit => CaptureInv
<1> SUFFICES ASSUME CaptureInit PROVE CaptureInv
  OBVIOUS
<1>1. control \in BOOLEAN /\ offered \in [Device -> BOOLEAN] /\ switched \in [Device -> BOOLEAN]
  BY DEF CaptureInit
<1>2. /\ tracks \in [Device -> SUBSET Captures]
      /\ capturing \in [Device -> {0} \cup Captures] /\ generation \in [Device -> {0} \cup Captures]
  BY DEF CaptureInit
<1>3. stage \in [Device -> [Captures -> {"none", "asking", "loading", "resuming", "running", "over"}]]
  BY DEF CaptureInit
<1>4. Current("mic") /\ Current("cam") /\ Granted
  BY DEF CaptureInit, Current, Granted
<1> QED
  BY <1>1, <1>2, <1>3, <1>4 DEF CaptureInv, CaptureTypeOK

LEMMA CaptureNextInv == CaptureInv /\ [CaptureNext]_captureVars => CaptureInv'
<1> SUFFICES ASSUME CaptureInv, [CaptureNext]_captureVars PROVE CaptureInv'
  OBVIOUS
<1>1. ASSUME NEW i \in Captures,
             \/ MicStart(i) \/ MicGranted(i) \/ MicLoaded(i) \/ MicResumed(i) \/ MicFails(i)
             \/ CamStart(i) \/ CamGranted(i) \/ CamDenied(i) \/ CamEnds(i)
      PROVE  CaptureInv'
  BY <1>1, MicKeeps, CamKeeps
<1>2. ASSUME NEW d \in Device, PressStop(d) PROVE CaptureInv'
  <2>1. Stopped({d}) /\ {d} \in SUBSET Device /\ UNCHANGED <<control, offered, stage>>
    BY <1>2 DEF PressStop
  <2>2. CaptureTypeOK'
    BY <2>1, StoppedKeeps DEF CaptureInv, CaptureTypeOK
  <2>3. ASSUME NEW e \in Device PROVE Current(e)'
    BY <2>1, StoppedKeeps DEF CaptureInv, Current, May
  <2>4. Granted'
    BY <2>1, StoppedKeeps DEF CaptureInv, Granted
  <2> QED
    BY <2>2, <2>3, <2>4 DEF CaptureInv
<1>3. CASE CloseSocket
  BY <1>3, HearRoleKeeps DEF CloseSocket
<1>4. CASE UNCHANGED captureVars
  BY <1>4 DEF captureVars, CaptureInv, CaptureTypeOK, Current, Granted, May
<1> QED
  BY <1>1, <1>2, <1>3, <1>4, HearRoleKeeps DEF CaptureNext

LEMMA CaptureSpecInv == CaptureSpec => []CaptureInv
BY CaptureInitInv, CaptureNextInv, PTL DEF CaptureSpec

\* mic.js, cam.js: whatever is stopped, lost or started again while the browser asks,
\* live tracks mean control of a desktop that takes them and a button that says so.
THEOREM CaptureObeysControl == CaptureSpec => []CaptureFollowsControl
<1>1. CaptureInv => CaptureFollowsControl
  BY CapturesAreNumbers DEF CaptureInv, CaptureTypeOK, Current, CaptureFollowsControl
<1> QED
  BY <1>1, CaptureSpecInv, PTL

--------------------------------------------------------------------------------
(***************************************************************************)
(* The page never shows or copies a text under another selection's name,    *)
(* for any number of selections, events and reads.  An observation names    *)
(* one content for good; so it suffices that whatever is under way or shown *)
(* has its content from `name`, and that a body is read for the selection   *)
(* the panel names, as every change of the panel gives the read up.         *)
(***************************************************************************)
\* What is known of a selection is what its observation was made of.
Right(name, s) == s.observation <= selection.observation /\ s.content = name[s.observation]

Answers == {"answered", "body", "fetched"}
RightRead(name, f) == f.is \in Answers => f.meta \in Selection /\ Right(name, f.meta)

\* The body under way is of the selection the panel names.
ReadsPanel == flight.is \in {"body", "fetched"} => flight.meta.observation = panel.observation

Named(name) ==
  /\ Right(name, selection)
  /\ \A k \in DOMAIN events : Right(name, events[k])
  /\ panel.observation # 0 => Right(name, panel)
  /\ RightRead(name, flight) /\ RightRead(name, late)

Names == [Observations -> Contents]

\* The inductive invariant.
ClipboardInv ==
  /\ ClipboardTypeOK
  /\ \E name \in Names : Named(name)
  /\ ReadsPanel
  /\ ContentMatches

LEMMA ObservationsAreNumbers ==
  MaxObservation \in Nat /\ Observations \subseteq Nat /\ 0 \notin Observations /\ NoText \notin Contents
BY ClipboardAssumption DEF Observations, Contents, NoText

-----------------------------------------------------------------------------
(* A new selection. *)

\* It gets a name of its own; nothing that is under way is of a later observation.
LEMMA InstallKeeps ==
  ASSUME ClipboardInv, NEW content \in Contents, NEW ready \in BOOLEAN, NEW short \in BOOLEAN,
         Install(content, ready, short), install' \in {"no", "queued", "done"}
  PROVE  ClipboardInv'
<1> DEFINE next == selection.observation + 1
<1>1. next \in Observations /\ selection \in Selection
  BY ObservationsAreNumbers DEF Install, ClipboardInv, ClipboardTypeOK, Selection, Observations
<1>2. PICK s \in Selection :
        s = [observation |-> next, content |-> content, ready |-> ready, short |-> short]
  BY <1>1 DEF Selection
<1>3. /\ selection' = s
      /\ events' = events \/ events' = Append(events, s)
      /\ UNCHANGED <<panel, opened, upsets, syncing, copied, flight, late, write>>
  BY <1>2 DEF Install
<1>4. events \in Seq(Selection)
  BY DEF ClipboardInv, ClipboardTypeOK
<1>5. ClipboardTypeOK'
  <2>1. events' \in Seq(Selection)
    BY <1>3, <1>4
  <2> QED
    BY <1>3, <2>1 DEF ClipboardInv, ClipboardTypeOK
<1>6. PICK name \in Names : Named(name)
  BY DEF ClipboardInv
<1>7. PICK after \in Names : after = [name EXCEPT ![next] = content]
  BY <1>1 DEF Names
<1>8. ASSUME NEW t, t.observation \in Observations, Right(name, t)
      PROVE  t.observation <= selection'.observation /\ t.content = after[t.observation]
  <2>1. t.observation # next /\ t.observation <= next
    <3>1. t.observation \in Nat /\ selection.observation \in Nat
      BY <1>1, <1>8, ObservationsAreNumbers DEF Selection
    <3> QED
      BY <1>8, <3>1 DEF Right
  <2>2. selection'.observation = next
    BY <1>2, <1>3
  <2> QED
    BY <1>7, <1>8, <2>1, <2>2 DEF Names, Right
<1>9. s.observation <= selection'.observation /\ s.content = after[s.observation]
  BY <1>1, <1>2, <1>3, <1>7, ObservationsAreNumbers DEF Names
<1>10. Right(after, selection)'
  BY <1>3, <1>9 DEF Right
<1>11. (\A k \in DOMAIN events : Right(after, events[k]))'
  <2> SUFFICES ASSUME NEW k \in DOMAIN events' PROVE Right(after, events[k])'
    OBVIOUS
  <2>1. CASE k \in DOMAIN events /\ events'[k] = events[k]
    <3>1. Right(name, events[k])
      BY <1>6, <2>1 DEF Named
    <3>2. events[k] \in Selection
      BY <1>4, <2>1
    <3>3. events[k].observation \in Observations
      BY <3>2 DEF Selection
    <3> QED
      BY <1>8, <2>1, <3>1, <3>3 DEF Right
  <2>2. CASE events'[k] = s
    BY <1>9, <2>2 DEF Right
  <2>3. (k \in DOMAIN events /\ events'[k] = events[k]) \/ events'[k] = s
    BY <1>3, <1>4
  <2> QED
    BY <2>1, <2>2, <2>3
<1>12. (panel.observation # 0 => Right(after, panel))'
  <2>1. panel' = panel /\ panel.observation \in {0} \cup Observations
    BY <1>3 DEF ClipboardInv, ClipboardTypeOK
  <2> QED
    BY <1>6, <1>8, <2>1 DEF Right, Named
<1>13. ASSUME NEW f, RightRead(name, f), f.is \in Answers
       PROVE  /\ f.meta \in Selection /\ f.meta.observation <= selection'.observation
              /\ f.meta.content = after[f.meta.observation]
  <2>1. f.meta \in Selection /\ Right(name, f.meta)
    BY <1>13 DEF RightRead
  <2>2. f.meta.observation \in Observations
    BY <2>1 DEF Selection
  <2> QED
    BY <1>8, <2>1, <2>2
<1>14. RightRead(after, flight)' /\ RightRead(after, late)'
  BY <1>3, <1>6, <1>13 DEF RightRead, Right, Named
<1>15. Named(after)'
  BY <1>10, <1>11, <1>12, <1>14 DEF Named
<1>16. ReadsPanel' /\ ContentMatches'
  BY <1>3 DEF ClipboardInv, ReadsPanel, ContentMatches
<1> QED
  BY <1>5, <1>7, <1>15, <1>16 DEF ClipboardInv

-----------------------------------------------------------------------------
(* The steps that leave the selection alone. *)

Reads == {NoFlight, Asked} \cup [is : Answers, meta : Selection]
Panels == [observation : {0} \cup Observations, content : {NoText} \cup Contents,
           text : {NoText} \cup Contents]

\* What a read says of the panel it is for.
For(f, p) == f.is \in {"body", "fetched"} => f.meta.observation = p.observation

LEMMA QuietKeeps ==
  ASSUME ClipboardInv, UNCHANGED selection, ClipboardTypeOK', ReadsPanel', ContentMatches',
         events' = events \/ events' = <<>> \/ (events # <<>> /\ events' = Tail(events)),
         \A name \in Names : Named(name) =>
            /\ panel'.observation # 0 => Right(name, panel')
            /\ RightRead(name, flight') /\ RightRead(name, late')
  PROVE  ClipboardInv'
<1>1. PICK name \in Names : Named(name)
  BY DEF ClipboardInv
<1>2. (\A k \in DOMAIN events : Right(name, events[k]))'
  <2>1. events \in Seq(Selection)
    BY DEF ClipboardInv, ClipboardTypeOK
  <2>2. \A k \in DOMAIN events' : \E j \in DOMAIN events : events'[k] = events[j]
    BY <2>1
  <2>3. \A k \in DOMAIN events : Right(name, events[k])
    BY <1>1 DEF Named
  <2> QED
    BY <2>2, <2>3 DEF Right
<1>3. Named(name)'
  BY <1>1, <1>2 DEF Named, Right, RightRead
<1> QED
  BY <1>3 DEF ClipboardInv

\* The reads' types, and what the server makes of one.
LEMMA ReadsType ==
  ASSUME ClipboardTypeOK
  PROVE  flight \in Reads /\ late \in Reads /\ panel \in Panels /\ copied \in {NoText} \cup Contents
BY DEF ClipboardTypeOK, Reads, Panels, Answers

LEMMA NoReadIsRight ==
  ASSUME NEW name, NEW f \in {NoFlight, Asked}
  PROVE  RightRead(name, f) /\ f \in Reads /\ f.is \notin {"body", "fetched"}
BY DEF RightRead, Reads, NoFlight, Asked, Answers

LEMMA ServedIsRight ==
  ASSUME NEW name, Right(name, selection), selection \in Selection,
         NEW f \in Reads, RightRead(name, f)
  PROVE  /\ Served(f) \in Reads /\ RightRead(name, Served(f))
         /\ \A p : For(f, p) => For(Served(f), p)
<1>1. CASE f.is = "state"
  <2>1. Served(f) = [is |-> "answered", meta |-> selection]
    BY <1>1, Zenon DEF Served, Answered
  <2> QED
    BY <2>1 DEF Reads, RightRead, Answers, For
<1>2. CASE f.is # "state" /\ f.is = "body" /\ f.meta = selection
  <2>1. Served(f) = [is |-> "fetched", meta |-> f.meta]
    BY <1>2, Zenon DEF Served, Fetched
  <2> QED
    BY <1>2, <2>1 DEF Reads, RightRead, Answers, For
<1>3. CASE f.is # "state" /\ ~(f.is = "body" /\ f.meta = selection)
  <2>1. Served(f) = f
    BY <1>3, Zenon DEF Served
  <2> QED
    BY <2>1
<1> QED
  BY <1>1, <1>2, <1>3

-----------------------------------------------------------------------------
(* A selection is accepted. *)

\* The panel's content is the accepted selection's if it has its name, so the text that
\* needs no read is the selection's own.
LEMMA TextIsRight ==
  ASSUME ClipboardInv, NEW s \in Selection, NEW live \in BOOLEAN,
         \A name \in Names : Named(name) => Right(name, s)
  PROVE  /\ TextOf(s, live) \in {NoText, s.content}
         /\ Known(s) => panel.text \in {NoText, s.content} /\ copied \in {NoText, s.content}
<1>1. Known(s) => panel.content = s.content
  <2>1. PICK name \in Names : Named(name)
    BY DEF ClipboardInv
  <2>2. s.observation # 0
    BY ObservationsAreNumbers DEF Selection
  <2> QED
    BY <2>1, <2>2 DEF Named, Right, Known
<1>2. Known(s) => panel.text \in {NoText, s.content} /\ copied \in {NoText, s.content}
  BY <1>1 DEF ClipboardInv, ContentMatches
<1>3. TextOf(s, live) \in {NoText, s.content}
  BY <1>2 DEF TextOf
<1> QED
  BY <1>2, <1>3

LEMMA AcceptKeeps ==
  ASSUME ClipboardInv, NEW s \in Selection, NEW live \in BOOLEAN, AcceptSelection(s, live),
         \A name \in Names : Named(name) => Right(name, s),
         UNCHANGED <<desktopSide, opened, upsets, write>>,
         events' = events \/ (events # <<>> /\ events' = Tail(events)),
         late' \in {late, flight}
  PROVE  ClipboardInv'
<1>1. /\ flight \in Reads /\ late \in Reads /\ panel \in Panels /\ copied \in {NoText} \cup Contents
      /\ syncing \in BOOLEAN
  BY ReadsType DEF ClipboardInv, ClipboardTypeOK
<1>2. events' \in Seq(Selection)
  BY DEF ClipboardInv, ClipboardTypeOK
<1>3. ASSUME NEW p \in Panels, NEW c \in {NoText} \cup Contents, NEW y \in BOOLEAN, NEW f \in Reads,
             panel' = p, copied' = c, syncing' = y, flight' = f
      PROVE  ClipboardTypeOK'
  BY <1>1, <1>2, <1>3 DEF ClipboardInv, ClipboardTypeOK, Panels, Reads, Answers, desktopSide
<1>4. CASE Older(s)
  <2>1. UNCHANGED <<panel, syncing, copied>> /\ flight' = NoFlight
    BY <1>4 DEF AcceptSelection
  <2>2. ClipboardTypeOK'
    BY <1>1, <1>3, <2>1, NoReadIsRight
  <2>3. ReadsPanel' /\ ContentMatches'
    BY <2>1, NoReadIsRight DEF ClipboardInv, ReadsPanel, ContentMatches
  <2> QED
    BY <2>1, <2>2, <2>3, QuietKeeps, NoReadIsRight DEF Named, desktopSide
<1>5. CASE ~Older(s)
  <2> DEFINE shown == panel'.text
  <2>1. /\ panel' = [observation |-> s.observation, content |-> s.content, text |-> shown]
        /\ shown \in {NoText, s.content} /\ copied' \in {NoText, s.content}
        /\ syncing' \in BOOLEAN
        /\ flight' = NoFlight \/ flight' = [is |-> "body", meta |-> s]
    BY <1>5, TextIsRight DEF AcceptSelection, Fetching
  <2>2. panel' \in Panels /\ copied' \in {NoText} \cup Contents /\ flight' \in Reads
    BY <2>1, NoReadIsRight DEF Panels, Selection, Reads, Answers
  <2>3. ClipboardTypeOK'
    BY <1>3, <2>1, <2>2
  <2>4. ReadsPanel' /\ ContentMatches'
    BY <2>1, NoReadIsRight DEF ReadsPanel, ContentMatches
  <2>5. ASSUME NEW name \in Names, Named(name)
        PROVE  Right(name, panel') /\ RightRead(name, flight') /\ RightRead(name, late')
    BY <2>1, <2>5, NoReadIsRight DEF Right, RightRead, Named
  <2> QED
    BY <2>3, <2>4, <2>5, QuietKeeps DEF desktopSide
<1> QED
  BY <1>4, <1>5

-----------------------------------------------------------------------------
(* The steps. *)

\* What stays or becomes a read that says nothing needs no name.
LEMMA PlainKeeps ==
  ASSUME ClipboardInv, UNCHANGED <<selection, events>>, ClipboardTypeOK', ContentMatches',
         /\ panel'.observation = panel.observation /\ panel'.content = panel.content,
         flight' = flight \/ flight' \in {NoFlight, Asked},
         late' \in {late, flight} \/ late' = NoFlight
  PROVE  ClipboardInv'
<1>1. ReadsPanel'
  BY NoReadIsRight DEF ClipboardInv, ReadsPanel
<1> QED
  BY <1>1, QuietKeeps, NoReadIsRight DEF Named, Right

\* A step keeps its types if it keeps those of the parts it changes.
LEMMA TypesKeep ==
  ASSUME ClipboardTypeOK, UNCHANGED selection, install' \in {"no", "queued", "done"},
         events' = events \/ events' = <<>>, panel' \in Panels,
         opened' \in BOOLEAN, syncing' \in BOOLEAN, upsets' \in 0..MaxUpsets,
         copied' \in {NoText} \cup Contents, flight' \in Reads, late' \in Reads,
         write' \in {"none", "asked", "confirming", "reading", "over"}
  PROVE  ClipboardTypeOK'
<1>1. events' \in Seq(Selection)
  <2>1. events \in Seq(Selection)
    BY DEF ClipboardTypeOK
  <2>2. <<>> \in Seq(Selection)
    OBVIOUS
  <2> QED
    BY <2>1, <2>2
<1> QED
  BY <1>1 DEF ClipboardTypeOK, Panels, Reads, Answers

LEMMA ZeroIsContent == 0 \in Contents
BY ObservationsAreNumbers DEF Contents

LEMMA DesktopKeeps == ClipboardInv /\ (Copy \/ Load \/ InstallWrite) => ClipboardInv'
<1> SUFFICES ASSUME ClipboardInv, Copy \/ Load \/ InstallWrite PROVE ClipboardInv'
  OBVIOUS
<1>1. selection \in Selection /\ install \in {"no", "queued", "done"}
  BY DEF ClipboardInv, ClipboardTypeOK
<1>2. CASE Copy
  <2>1. PICK short \in BOOLEAN : Install(selection.observation + 1, FALSE, short)
    BY <1>2 DEF Copy
  <2>2. selection.observation + 1 \in Contents
    BY <1>1, <2>1, ObservationsAreNumbers DEF Install, Selection, Observations, Contents
  <2> QED
    BY <1>1, <1>2, <2>1, <2>2, InstallKeeps DEF Copy
<1>3. CASE Load
  BY <1>1, <1>3, InstallKeeps DEF Load, Selection
<1>4. CASE InstallWrite
  BY <1>4, InstallKeeps, ZeroIsContent DEF InstallWrite
<1> QED
  BY <1>2, <1>3, <1>4

LEMMA ReadKeeps ==
  ClipboardInv /\ (Serve \/ Refresh \/ Observe \/ TakeState \/ TakeBody \/ TakeLate \/ Fail \/ FailState) => ClipboardInv'
<1> SUFFICES ASSUME ClipboardInv, Serve \/ Refresh \/ Observe \/ TakeState \/ TakeBody \/ TakeLate \/ Fail \/ FailState
             PROVE  ClipboardInv'
  OBVIOUS
<1>t. /\ ClipboardTypeOK /\ ContentMatches /\ ReadsPanel /\ selection \in Selection
      /\ install \in {"no", "queued", "done"} /\ opened \in BOOLEAN /\ syncing \in BOOLEAN
      /\ upsets \in 0..MaxUpsets /\ write \in {"none", "asked", "confirming", "reading", "over"}
      /\ flight \in Reads /\ late \in Reads /\ panel \in Panels /\ copied \in {NoText} \cup Contents
  BY ReadsType DEF ClipboardInv, ClipboardTypeOK
<1>n. NoFlight \in Reads /\ Asked \in Reads
  BY NoReadIsRight
<1>1. CASE Serve
  <2>1. /\ flight' = Served(flight) /\ late' = Served(late)
        /\ UNCHANGED <<selection, install, events, panel, opened, upsets, syncing, copied, write>>
    BY <1>1 DEF Serve, desktopSide
  <2>2. ASSUME NEW name \in Names, Named(name)
        PROVE  /\ Served(flight) \in Reads /\ RightRead(name, Served(flight)) /\ For(Served(flight), panel)
               /\ Served(late) \in Reads /\ RightRead(name, Served(late))
    BY <1>t, <2>2, ServedIsRight DEF Named, For, ReadsPanel
  <2>3. PICK name \in Names : Named(name)
    BY DEF ClipboardInv
  <2>4. flight' \in Reads /\ late' \in Reads /\ For(flight', panel)
    BY <2>1, <2>2, <2>3
  <2>5. ClipboardTypeOK'
    BY <1>t, <2>1, <2>4, TypesKeep
  <2>6. ReadsPanel' /\ ContentMatches'
    BY <1>t, <2>1, <2>4 DEF ReadsPanel, ContentMatches, For
  <2> QED
    BY <2>1, <2>2, <2>5, <2>6, QuietKeeps DEF Named, Right
<1>2. CASE Refresh
  <2>1. /\ flight' = Asked
        /\ UNCHANGED <<selection, install, events, panel, opened, upsets, syncing, copied, late, write>>
    BY <1>2 DEF Refresh, desktopSide
  <2>2. ClipboardTypeOK' /\ ContentMatches'
    BY <1>t, <1>n, <2>1, TypesKeep DEF ContentMatches
  <2> QED
    BY <2>1, <2>2, PlainKeeps
<1>3. CASE Observe
  <2> DEFINE s == Head(events)
  <2>1. /\ events # <<>> /\ events' = Tail(events) /\ late' \in {late, flight}
        /\ AcceptSelection(s, TRUE) /\ UNCHANGED <<desktopSide, opened, upsets, write>>
    BY <1>3 DEF Observe, Supersede
  <2>2. events \in Seq(Selection)
    BY DEF ClipboardInv, ClipboardTypeOK
  <2>3. s \in Selection /\ 1 \in DOMAIN events /\ s = events[1]
    BY <2>1, <2>2
  <2>4. \A name \in Names : Named(name) => Right(name, s)
    BY <2>3 DEF Named
  <2> HIDE DEF s
  <2> QED
    BY <2>1, <2>3, <2>4, AcceptKeeps
<1>4. CASE TakeState
  <2> DEFINE s == flight.meta
  <2>1. /\ flight.is = "answered" /\ AcceptSelection(s, FALSE)
        /\ UNCHANGED <<desktopSide, events, opened, upsets, late, write>>
    BY <1>4 DEF TakeState
  <2>2. s \in Selection /\ \A name \in Names : Named(name) => Right(name, s)
    <3>1. PICK name \in Names : Named(name)
      BY DEF ClipboardInv
    <3> QED
      BY <2>1, <3>1 DEF Named, RightRead, Answers
  <2> HIDE DEF s
  <2> QED
    BY <2>1, <2>2, AcceptKeeps
<1>5. CASE TakeBody
  <2> DEFINE content == flight.meta.content
  <2>1. /\ flight.is = "fetched" /\ flight' = NoFlight
        /\ panel' = [panel EXCEPT !.text = content]
        /\ copied' = IF syncing THEN content ELSE copied
        /\ syncing' = FALSE
        /\ UNCHANGED <<selection, install, events, opened, upsets, late, write>>
    BY <1>5 DEF TakeBody, ShowBody, desktopSide
  <2>2. content \in Contents /\ content = panel.content
    <3>1. PICK name \in Names : Named(name)
      BY DEF ClipboardInv
    <3>2. flight.meta \in Selection /\ Right(name, flight.meta) /\ flight.meta.observation = panel.observation
      BY <1>t, <2>1, <3>1 DEF Named, RightRead, Answers, ReadsPanel
    <3> QED
      BY <3>1, <3>2, ObservationsAreNumbers DEF Named, Right, Selection
  <2> HIDE DEF content
  <2>3. /\ panel' \in Panels /\ panel'.observation = panel.observation
        /\ panel'.content = panel.content /\ panel'.text = content
    BY <1>t, <2>1, <2>2 DEF Panels
  <2>4. copied' \in {NoText} \cup Contents /\ ContentMatches'
    BY <1>t, <2>1, <2>2, <2>3 DEF ContentMatches
  <2>5. ClipboardTypeOK'
    BY <1>t, <1>n, <2>1, <2>3, <2>4, TypesKeep
  <2> QED
    BY <2>1, <2>3, <2>4, <2>5, PlainKeeps
<1>6. CASE TakeLate
  <2>1. /\ late' = NoFlight
        /\ UNCHANGED <<selection, install, events, panel, opened, upsets, syncing, copied, flight, write>>
    BY <1>6 DEF TakeLate, desktopSide
  <2>2. ClipboardTypeOK' /\ ContentMatches'
    BY <1>t, <1>n, <2>1, TypesKeep DEF ContentMatches
  <2> QED
    BY <2>1, <2>2, PlainKeeps
<1>7. CASE Fail \/ FailState
  <2>1. /\ flight' = NoFlight /\ panel' = [panel EXCEPT !.text = NoText] /\ syncing' = FALSE
        /\ upsets' \in 0..MaxUpsets
        /\ UNCHANGED <<selection, install, events, opened, copied, late, write>>
    BY <1>t, <1>7, ClipboardAssumption DEF Fail, FailState, FailureShown, desktopSide
  <2>2. /\ panel' \in Panels /\ panel'.observation = panel.observation
        /\ panel'.content = panel.content /\ panel'.text = NoText
    BY <1>t, <2>1 DEF Panels
  <2>3. ClipboardTypeOK' /\ ContentMatches'
    BY <1>t, <1>n, <2>1, <2>2, TypesKeep DEF ContentMatches
  <2> QED
    BY <2>1, <2>2, <2>3, PlainKeeps
<1> QED
  BY <1>1, <1>2, <1>3, <1>4, <1>5, <1>6, <1>7

LEMMA PageKeeps ==
  ClipboardInv /\ (AcceptWrite \/ Open \/ Close \/ ChangeSession \/ Write \/ AnswerWrite \/ ReadBack \/ Confirm) => ClipboardInv'
<1> SUFFICES ASSUME ClipboardInv, AcceptWrite \/ Open \/ Close \/ ChangeSession \/ Write \/ AnswerWrite \/ ReadBack \/ Confirm
             PROVE  ClipboardInv'
  OBVIOUS
<1>t. /\ ClipboardTypeOK /\ ContentMatches
      /\ install \in {"no", "queued", "done"} /\ opened \in BOOLEAN /\ syncing \in BOOLEAN
      /\ upsets \in 0..MaxUpsets /\ write \in {"none", "asked", "confirming", "reading", "over"}
      /\ flight \in Reads /\ late \in Reads /\ panel \in Panels /\ copied \in {NoText} \cup Contents
  BY ReadsType DEF ClipboardInv, ClipboardTypeOK
<1>n. NoFlight \in Reads /\ Asked \in Reads
  BY NoReadIsRight
<1>1. CASE AcceptWrite \/ Write \/ AnswerWrite
  <2>1. /\ install' \in {"no", "queued", "done"}
        /\ write' \in {"none", "asked", "confirming", "reading", "over"}
        /\ UNCHANGED <<selection, events, panel, opened, upsets, syncing, copied, flight, late>>
    BY <1>t, <1>1 DEF AcceptWrite, Write, AnswerWrite, desktopSide
  <2>2. ClipboardTypeOK' /\ ContentMatches'
    BY <1>t, <2>1, TypesKeep DEF ContentMatches
  <2> QED
    BY <2>1, <2>2, PlainKeeps
<1>2. CASE Open \/ ReadBack
  <2>1. /\ opened' \in BOOLEAN /\ upsets' \in 0..MaxUpsets /\ flight' = Asked /\ late' \in {late, flight}
        /\ write' \in {"none", "asked", "confirming", "reading", "over"}
        /\ UNCHANGED <<selection, install, events, panel, syncing, copied>>
    <3>1. CASE Open
      <4>1. upsets + 1 \in 0..MaxUpsets
        BY <1>t, <3>1, ClipboardAssumption DEF Open
      <4> QED
        BY <1>t, <3>1, <4>1 DEF Open, Supersede, desktopSide
    <3>2. CASE ReadBack
      BY <1>t, <3>2 DEF ReadBack, Supersede, desktopSide
    <3> QED
      BY <1>2, <3>1, <3>2
  <2>2. ClipboardTypeOK' /\ ContentMatches'
    BY <1>t, <1>n, <2>1, TypesKeep DEF ContentMatches
  <2> QED
    BY <2>1, <2>2, PlainKeeps
<1>3. CASE Close
  <2>1. /\ opened' \in BOOLEAN /\ flight' = NoFlight /\ late' \in {late, flight}
        /\ panel' = [panel EXCEPT !.text = NoText]
        /\ UNCHANGED <<selection, install, events, upsets, syncing, copied, write>>
    BY <1>3 DEF Close, Supersede, desktopSide
  <2>2. /\ panel' \in Panels /\ panel'.observation = panel.observation
        /\ panel'.content = panel.content /\ panel'.text = NoText
    BY <1>t, <2>1 DEF Panels
  <2>3. ClipboardTypeOK' /\ ContentMatches'
    BY <1>t, <1>n, <2>1, <2>2, TypesKeep DEF ContentMatches
  <2> QED
    BY <2>1, <2>2, <2>3, PlainKeeps
<1>4. CASE ChangeSession
  <2>1. /\ upsets' \in 0..MaxUpsets /\ panel' = Empty /\ syncing' = FALSE /\ copied' = NoText
        /\ events' = <<>> /\ late' \in {late, flight} /\ flight' = Asked
        /\ write' \in {"none", "asked", "confirming", "reading", "over"}
        /\ UNCHANGED <<selection, install, opened>>
    BY <1>t, <1>4, ClipboardAssumption DEF ChangeSession, Supersede, desktopSide
  <2>2. Empty \in Panels /\ Empty.observation = 0 /\ Empty.text = NoText
    BY DEF Empty, Panels
  <2>3. ClipboardTypeOK' /\ ContentMatches' /\ ReadsPanel'
    BY <1>t, <1>n, <2>1, <2>2, TypesKeep, NoReadIsRight DEF ContentMatches, ReadsPanel
  <2> QED
    BY <2>1, <2>2, <2>3, QuietKeeps, NoReadIsRight DEF Named
<1>5. CASE Confirm
  <2>1. /\ write' = "over" /\ UNCHANGED <<selection, install, events, opened, upsets, syncing, flight, late>>
        /\ \/ panel.content = 0 /\ panel' = [panel EXCEPT !.text = 0] /\ copied' = 0
           \/ UNCHANGED <<panel, copied>>
    BY <1>5 DEF Confirm, desktopSide
  <2>2. /\ panel' \in Panels /\ panel'.observation = panel.observation /\ panel'.content = panel.content
        /\ copied' \in {NoText} \cup Contents /\ ContentMatches'
    BY <1>t, <2>1, ZeroIsContent DEF Panels, ContentMatches
  <2>3. ClipboardTypeOK'
    BY <1>t, <2>1, <2>2, TypesKeep
  <2> QED
    BY <2>1, <2>2, <2>3, PlainKeeps
<1> QED
  BY <1>1, <1>2, <1>3, <1>4, <1>5

LEMMA ClipboardInitInv == ClipboardInit => ClipboardInv
<1> SUFFICES ASSUME ClipboardInit PROVE ClipboardInv
  OBVIOUS
<1>1. 1 \in Observations /\ 1 \in Contents
  BY ClipboardAssumption DEF Observations, Contents
<1>2. /\ panel = [observation |-> 1, content |-> 1, text |-> NoText]
      /\ selection = [observation |-> 1, content |-> 1, ready |-> TRUE, short |-> FALSE]
  BY DEF ClipboardInit, Empty
<1>3. ClipboardTypeOK
  <2>1. events \in Seq(Selection) /\ selection \in Selection
    BY <1>1, <1>2 DEF ClipboardInit, Selection
  <2>2. upsets \in 0..MaxUpsets
    BY ClipboardAssumption DEF ClipboardInit
  <2>3. panel \in Panels /\ copied \in {NoText} \cup Contents /\ flight \in Reads /\ late \in Reads
    BY <1>1, <1>2, NoReadIsRight DEF ClipboardInit, Panels
  <2> QED
    BY <2>1, <2>2, <2>3 DEF ClipboardInit, ClipboardTypeOK, Panels, Reads, Answers
<1>4. PICK name \in Names : name = [o \in Observations |-> 1]
  BY <1>1 DEF Names
<1>5. Named(name)
  <2>1. DOMAIN events = {} /\ flight = NoFlight /\ late = NoFlight
    BY DEF ClipboardInit
  <2>2. Right(name, selection) /\ Right(name, panel)
    BY <1>1, <1>2, <1>4 DEF Right
  <2> QED
    BY <2>1, <2>2, NoReadIsRight DEF Named
<1>6. ReadsPanel
  BY NoReadIsRight DEF ClipboardInit, ReadsPanel
<1>7. ContentMatches
  <2>1. panel.text = NoText
    BY <1>2
  <2>2. copied = NoText
    BY Zenon DEF ClipboardInit
  <2> QED
    BY <2>1, <2>2, Zenon DEF ContentMatches
<1> QED
  BY <1>3, <1>4, <1>5, <1>6, <1>7 DEF ClipboardInv

LEMMA ClipboardNextInv == ClipboardInv /\ [ClipboardNext]_clipboardVars => ClipboardInv'
<1> SUFFICES ASSUME ClipboardInv, [ClipboardNext]_clipboardVars PROVE ClipboardInv'
  OBVIOUS
<1>1. CASE ClipboardNext
  BY <1>1, DesktopKeeps, ReadKeeps, PageKeeps DEF ClipboardNext
<1>2. CASE UNCHANGED clipboardVars
  BY <1>2 DEF clipboardVars, ClipboardInv, ClipboardTypeOK, Named, Right, RightRead, ReadsPanel, ContentMatches
<1> QED
  BY <1>1, <1>2

LEMMA ClipboardSpecInv == ClipboardSpec => []ClipboardInv
BY ClipboardInitInv, ClipboardNextInv, PTL DEF ClipboardSpec

\* clipboard.js: no text is shown, or put on the browser's clipboard, under the name of
\* another selection.
THEOREM TextsStayTheirOwn == ClipboardSpec => []ContentMatches
<1>1. ClipboardInv => ContentMatches
  BY DEF ClipboardInv
<1> QED
  BY <1>1, ClipboardSpecInv, PTL

--------------------------------------------------------------------------------
(***************************************************************************)
(* The keyboard: what the desktop comes to hold.  A key comes to be held if *)
(* the last word about it is that it went down, whether the desktop has     *)
(* heard that or it is under way; every key of which that is true is under  *)
(* a finger and forwarded, or has slipped.                                  *)
(***************************************************************************)

LetsGoOf(m, k) == m = Released(k) \/ m = Blurred

\* What some messages come to: that a key went down last, or that it is let go.
Leaves(queue, k) ==
  \E i \in DOMAIN queue :
    queue[i] = Pressed(k) /\ \A j \in DOMAIN queue : j > i => ~LetsGoOf(queue[j], k)
Frees(queue, k) == \E i \in DOMAIN queue : LetsGoOf(queue[i], k)

Comes(k) == Leaves(toDesktop, k) \/ (k \in held /\ ~Frees(toDesktop, k))

\* The roles under way end with who controls the desktop now.
RolesArrive ==
  /\ toPage = <<>> => drives = controls
  /\ toPage # <<>> => toPage[Len(toPage)] = controls

KeysInv ==
  /\ KeysTypeOK
  /\ ~drives => forwarded = {}
  /\ ~controls => held = {}
  /\ ~connected => toDesktop = <<>> /\ held = {}
  /\ RolesArrive
  /\ \A k \in Keys : Comes(k) => k \in slipped \/ (focused /\ k \in down /\ k \in forwarded)

\* Three kinds of messages, no two of them equal.
LEMMA MessagesDiffer ==
  ASSUME NEW k \in Keys
  PROVE  /\ Pressed(k) \in Message /\ Released(k) \in Message /\ Blurred \in Message
         /\ ~LetsGoOf(Pressed(k), k) /\ LetsGoOf(Released(k), k) /\ LetsGoOf(Blurred, k)
         /\ \A d \in Keys : /\ Released(d) # Pressed(k) /\ Blurred # Pressed(k)
                            /\ ~LetsGoOf(Pressed(d), k)
                            /\ Pressed(d) = Pressed(k) => d = k
                            /\ LetsGoOf(Released(d), k) => d = k
BY KeysAssumption DEF Message, Pressed, Released, Blurred, LetsGoOf, Keys

\* What two runs of messages come to together.
LEMMA JoinedMessages ==
  ASSUME NEW q \in Seq(Message), NEW r \in Seq(Message), NEW k
  PROVE  /\ q \o r \in Seq(Message)
         /\ Leaves(q \o r, k) => Leaves(r, k) \/ (Leaves(q, k) /\ ~Frees(r, k))
         /\ Frees(q, k) \/ Frees(r, k) => Frees(q \o r, k)
<1>1. PICK a : a = Len(q)
  OBVIOUS
<1>2. PICK b : b = Len(r)
  OBVIOUS
<1>3. PICK all : all = q \o r
  OBVIOUS
<1>4. /\ a \in Nat /\ b \in Nat /\ DOMAIN q = 1 .. a /\ DOMAIN r = 1 .. b
      /\ all \in Seq(Message) /\ Len(all) = a + b
  BY <1>1, <1>2, <1>3
<1>5. DOMAIN all = 1 .. a + b
  BY <1>4
<1>6. \A i \in 1 .. a + b : all[i] = IF i <= a THEN q[i] ELSE r[i - a]
  BY <1>1, <1>2, <1>3, <1>4
<1>7. \A i \in 1 .. a : i \in DOMAIN all /\ all[i] = q[i]
  <2> TAKE i \in 1 .. a
  <2>1. i \in 1 .. a + b /\ i <= a
    BY <1>4
  <2> QED
    BY <1>5, <1>6, <2>1
<1>8. \A i \in 1 .. b : a + i \in DOMAIN all /\ all[a + i] = r[i]
  <2> TAKE i \in 1 .. b
  <2>1. PICK n \in 1 .. a + b : n = a + i
    BY <1>4
  <2>2. ~(n <= a) /\ n - a = i
    BY <1>4, <2>1
  <2>3. all[n] = r[n - a]
    BY <1>6, <2>2
  <2> QED
    BY <1>5, <2>1, <2>2, <2>3
<1>9. ASSUME Leaves(all, k) PROVE Leaves(r, k) \/ (Leaves(q, k) /\ ~Frees(r, k))
  <2>1. PICK i \in 1 .. a + b :
          all[i] = Pressed(k) /\ \A j \in DOMAIN all : j > i => ~LetsGoOf(all[j], k)
    BY <1>5, <1>9 DEF Leaves
  <2>2. CASE i <= a
    <3>1. i \in 1 .. a /\ q[i] = Pressed(k)
      BY <1>4, <1>7, <2>1, <2>2
    <3>2. \A j \in 1 .. a : j > i => ~LetsGoOf(q[j], k)
      BY <1>7, <2>1
    <3>3. \A j \in 1 .. b : ~LetsGoOf(r[j], k)
      <4> TAKE j \in 1 .. b
      <4>1. a + j > i
        BY <1>4, <3>1
      <4> QED
        BY <1>8, <2>1, <4>1
    <3> QED
      BY <1>4, <3>1, <3>2, <3>3 DEF Leaves, Frees
  <2>3. CASE ~(i <= a)
    <3>1. PICK h \in 1 .. b : i = a + h
      <4>1. i - a \in 1 .. b /\ i = a + (i - a)
        BY <1>4, <2>3
      <4> QED
        BY <4>1
    <3>2. r[h] = Pressed(k)
      BY <1>8, <2>1, <3>1
    <3>3. \A j \in 1 .. b : j > h => ~LetsGoOf(r[j], k)
      <4> TAKE j \in 1 .. b
      <4> HAVE j > h
      <4>1. a + j > i
        BY <1>4, <3>1
      <4> QED
        BY <1>8, <2>1, <4>1
    <3> QED
      BY <1>4, <3>2, <3>3 DEF Leaves
  <2> QED
    BY <2>2, <2>3
<1>10. ASSUME Frees(q, k) \/ Frees(r, k) PROVE Frees(all, k)
  <2>1. CASE Frees(q, k)
    BY <1>4, <1>7, <2>1 DEF Frees
  <2>2. CASE Frees(r, k)
    <3>1. PICK i \in 1 .. b : LetsGoOf(r[i], k)
      BY <1>4, <2>2 DEF Frees
    <3> QED
      BY <1>8, <3>1 DEF Frees
  <2> QED
    BY <1>10, <2>1, <2>2
<1> QED
  BY <1>3, <1>4, <1>9, <1>10

\* A message, or none.
LEMMA ShortMessages ==
  ASSUME NEW k \in Keys, NEW m \in Message
  PROVE  /\ <<m>> \in Seq(Message) /\ <<>> \in Seq(Message)
         /\ Leaves(<<m>>, k) <=> m = Pressed(k)
         /\ Frees(<<m>>, k) <=> LetsGoOf(m, k)
         /\ ~Leaves(<<>>, k) /\ ~Frees(<<>>, k)
<1>1. /\ DOMAIN <<m>> = {1} /\ <<m>>[1] = m /\ DOMAIN <<>> = {}
      /\ <<m>> \in Seq(Message) /\ <<>> \in Seq(Message) /\ ~(1 > 1)
  OBVIOUS
<1> QED
  BY <1>1 DEF Leaves, Frees

\* The deferred chord leaves nothing down.
LEMMA ChordLeavesNothing ==
  ASSUME KeysTypeOK, NEW k \in Keys
  PROVE  Chord \in Seq(Message) /\ ~Leaves(Chord, k)
<1>1. CASE deferred = NoKey
  <2>1. Chord = <<>>
    BY <1>1 DEF Chord
  <2>2. Blurred \in Message
    BY MessagesDiffer
  <2> QED
    BY <2>1, <2>2, ShortMessages
<1>2. CASE deferred # NoKey
  <2>1. deferred \in Keys /\ Chord = <<Pressed(deferred), Released(deferred)>>
    BY <1>2 DEF KeysTypeOK, Chord
  <2>2. PICK p : p = Pressed(deferred)
    OBVIOUS
  <2>3. PICK u : u = Released(deferred)
    OBVIOUS
  <2>4. p \in Message /\ u \in Message /\ u # Pressed(k)
        /\ (p = Pressed(k) => LetsGoOf(u, k))
    BY <2>1, <2>2, <2>3, MessagesDiffer
  <2>5. /\ Chord = <<p, u>> /\ Chord \in Seq(Message)
        /\ DOMAIN Chord = {1, 2} /\ Chord[1] = p /\ Chord[2] = u /\ 2 > 1
    BY <2>1, <2>2, <2>3, <2>4
  <2> QED
    BY <2>4, <2>5 DEF Leaves
<1> QED
  BY <1>1, <1>2

\* What is sent is all that can make a key come to be held.
LEMMA SendComes ==
  ASSUME KeysTypeOK, NEW r \in Seq(Message), Send(r), held' = held, connected' = connected,
         ~connected => toDesktop = <<>> /\ held = {}
  PROVE  /\ toDesktop' \in Seq(Message)
         /\ ~connected => toDesktop' = <<>> /\ \A k \in Keys : ~Comes(k)'
         /\ connected => \A k \in Keys : Comes(k)' => Leaves(r, k) \/ (Comes(k) /\ ~Frees(r, k))
<1>1. toDesktop \in Seq(Message) /\ connected \in BOOLEAN
  BY DEF KeysTypeOK
<1>2. CASE connected
  <2>1. toDesktop' = toDesktop \o r
    BY <1>2 DEF Send
  <2>2. \A k \in Keys : Comes(k)' => Leaves(r, k) \/ (Comes(k) /\ ~Frees(r, k))
    BY <1>1, <2>1, JoinedMessages DEF Comes
  <2>3. toDesktop' \in Seq(Message)
    BY <1>1, <2>1, JoinedMessages
  <2> QED
    BY <1>2, <2>2, <2>3
<1>3. CASE ~connected
  <2>1. toDesktop' = <<>> /\ held' = {}
    BY <1>3 DEF Send
  <2>2. Blurred \in Message
    BY KeysAssumption DEF Blurred, Message
  <2>3. \A k \in Keys : ~Comes(k)'
    BY <2>1, <2>2, ShortMessages DEF Comes
  <2> QED
    BY <1>1, <1>3, <2>1, <2>3
<1> QED
  BY <1>1, <1>2, <1>3

\* What follows from a step that sends some messages.
LEMMA KeysBegin == KeysInit => KeysInv
<1> SUFFICES ASSUME KeysInit PROVE KeysInv
  OBVIOUS
<1>1. toDesktop = <<>> /\ toPage = <<>> /\ DOMAIN toDesktop = {} /\ held = {}
  BY DEF KeysInit
<1>2. KeysTypeOK
  <2>1. <<>> \in Seq(Message) /\ <<>> \in Seq(BOOLEAN) /\ 0 \in 0 .. MaxRoles
    BY KeysAssumption
  <2> QED
    BY <2>1 DEF KeysTypeOK, KeysInit
<1>3. RolesArrive
  BY DEF KeysInit, RolesArrive
<1>4. \A k \in Keys : ~Comes(k)
  BY <1>1 DEF Comes, Leaves
<1> QED
  BY <1>1, <1>2, <1>3, <1>4 DEF KeysInv, KeysInit

\* A step that sends nothing and changes no role.
LEMMA QuietKeepsKeys ==
  ASSUME KeysInv, UNCHANGED <<toDesktop, held, connected, drives, controls, toPage>>
  PROVE  /\ ~controls' => held' = {}
         /\ ~connected' => toDesktop' = <<>> /\ held' = {}
         /\ RolesArrive'
         /\ \A k \in Keys : Comes(k)' => Comes(k)
BY DEF KeysInv, RolesArrive, Comes

LEMMA PressKeeps ==
  ASSUME KeysInv, NEW k \in Keys, NEW field \in BOOLEAN, Press(k, field)
  PROVE  KeysInv'
<1>1. KeysTypeOK /\ k \notin down /\ focused
  BY DEF KeysInv, Press
<1>2. /\ down' = down \cup {k}
      /\ UNCHANGED <<focused, swallow, dragging, drives, connected, slipped, controls, held, moves, toPage>>
  BY DEF Press, desktopVars
<1>3. CASE UNCHANGED <<forwarded, toDesktop>> /\ deferred' \in Keys \cup {NoKey}
  <2>1. KeysTypeOK'
    BY <1>1, <1>2, <1>3 DEF KeysTypeOK
  <2> QED
    BY <1>1, <1>2, <1>3, <2>1, QuietKeepsKeys DEF KeysInv
<1>4. CASE /\ drives /\ deferred' = deferred /\ Send(<<Pressed(k)>>)
           /\ forwarded' = IF connected THEN forwarded \cup {k} ELSE forwarded
  <2>1. Pressed(k) \in Message /\ <<Pressed(k)>> \in Seq(Message)
    BY MessagesDiffer
  <2>2. /\ toDesktop' \in Seq(Message)
        /\ ~connected => toDesktop' = <<>> /\ \A d \in Keys : ~Comes(d)'
        /\ connected => \A d \in Keys :
             Comes(d)' => Leaves(<<Pressed(k)>>, d) \/ (Comes(d) /\ ~Frees(<<Pressed(k)>>, d))
    BY <1>1, <1>2, <1>4, <2>1, SendComes DEF KeysInv
  <2>3. \A d \in Keys : Leaves(<<Pressed(k)>>, d) => d = k
    BY <2>1, ShortMessages, MessagesDiffer
  <2>4. KeysTypeOK'
    BY <1>1, <1>2, <1>4, <2>2 DEF KeysTypeOK
  <2>5. RolesArrive'
    BY <1>2 DEF KeysInv, RolesArrive
  <2>6. ASSUME NEW d \in Keys, Comes(d)'
        PROVE  d \in slipped' \/ (focused' /\ d \in down' /\ d \in forwarded')
    BY <1>1, <1>2, <1>4, <2>2, <2>3, <2>6 DEF KeysInv
  <2> QED
    BY <1>2, <1>4, <2>2, <2>4, <2>5, <2>6 DEF KeysInv
<1> QED
  <2>1. \/ UNCHANGED <<forwarded, toDesktop>> /\ deferred' \in Keys \cup {NoKey}
        \/ /\ drives /\ deferred' = deferred /\ Send(<<Pressed(k)>>)
           /\ forwarded' = IF connected THEN forwarded \cup {k} ELSE forwarded
    BY <1>1 DEF KeysTypeOK, Press
  <2> QED
    BY <1>3, <1>4, <2>1

LEMMA ReleaseKeeps ==
  ASSUME KeysInv, NEW k \in Keys, Release(k)
  PROVE  KeysInv'
<1>1. KeysTypeOK /\ k \in down /\ focused
  BY DEF KeysInv, Release
<1>2. /\ down' = down \ {k}
      /\ UNCHANGED <<focused, dragging, drives, connected, controls, held, moves, toPage>>
  BY DEF Release, desktopVars
<1>3. CASE ~drives
  <2>1. UNCHANGED <<deferred, swallow, forwarded, toDesktop, slipped>> /\ forwarded = {}
    BY <1>3 DEF Release, KeysInv
  <2>2. KeysTypeOK'
    BY <1>1, <1>2, <2>1 DEF KeysTypeOK
  <2> QED
    BY <1>1, <1>2, <2>1, <2>2, QuietKeepsKeys DEF KeysInv
<1>4. CASE drives /\ k \in {deferred, swallow}
  <2>1. /\ swallow' = NoKey /\ slipped' = slipped \cup ({k} \cap forwarded)
        /\ UNCHANGED <<deferred, forwarded, toDesktop>>
    BY <1>4 DEF Release
  <2>2. KeysTypeOK'
    BY <1>1, <1>2, <2>1 DEF KeysTypeOK
  <2>3. ASSUME NEW d \in Keys, Comes(d)'
        PROVE  d \in slipped' \/ (focused' /\ d \in down' /\ d \in forwarded')
    <3>1. d \in slipped \/ (focused /\ d \in down /\ d \in forwarded)
      BY <1>2, <2>1, <2>3, QuietKeepsKeys DEF KeysInv
    <3> QED
      BY <1>2, <2>1, <3>1
  <2> QED
    BY <1>2, <1>4, <2>1, <2>2, <2>3, QuietKeepsKeys DEF KeysInv
<1>5. CASE drives /\ k \notin {deferred, swallow}
  <2>1. PICK up : up = IF k \in forwarded THEN <<Released(k)>> ELSE <<>>
    OBVIOUS
  <2>2. /\ Send(Chord \o up) /\ deferred' = NoKey /\ UNCHANGED swallow
        /\ forwarded' = forwarded \ {k} /\ slipped' = slipped \ ({k} \cap forwarded)
    BY <1>5, <2>1 DEF Release
  <2>3. /\ up \in Seq(Message) /\ \A d \in Keys : ~Leaves(up, d)
        /\ k \in forwarded => Frees(up, k)
    <3>1. Released(k) \in Message
      BY MessagesDiffer
    <3>2. CASE k \in forwarded
      BY <2>1, <3>1, <3>2, ShortMessages, MessagesDiffer
    <3>3. CASE k \notin forwarded
      BY <2>1, <3>1, <3>3, ShortMessages
    <3> QED
      BY <3>2, <3>3
  <2>4. /\ Chord \o up \in Seq(Message) /\ \A d \in Keys : ~Leaves(Chord \o up, d)
        /\ k \in forwarded => Frees(Chord \o up, k)
    <3>1. Chord \in Seq(Message) /\ \A d \in Keys : ~Leaves(Chord, d)
      BY <1>1, ChordLeavesNothing
    <3> QED
      BY <2>3, <3>1, JoinedMessages
  <2>5. /\ toDesktop' \in Seq(Message)
        /\ ~connected => toDesktop' = <<>> /\ \A d \in Keys : ~Comes(d)'
        /\ connected => \A d \in Keys :
             Comes(d)' => Comes(d) /\ ~Frees(Chord \o up, d)
    BY <1>1, <1>2, <2>2, <2>4, SendComes DEF KeysInv
  <2>6. KeysTypeOK'
    BY <1>1, <1>2, <2>2, <2>5 DEF KeysTypeOK
  <2>7. RolesArrive'
    BY <1>2 DEF KeysInv, RolesArrive
  <2>8. ASSUME NEW d \in Keys, Comes(d)'
        PROVE  d \in slipped' \/ (focused' /\ d \in down' /\ d \in forwarded')
    <3>1. d \in slipped \/ (focused /\ d \in down /\ d \in forwarded)
      BY <2>5, <2>8 DEF KeysInv
    <3>2. ~(d = k /\ k \in forwarded)
      BY <2>4, <2>5, <2>8
    <3> QED
      BY <1>2, <2>2, <3>1, <3>2
  <2> QED
    BY <1>2, <1>5, <2>2, <2>5, <2>6, <2>7, <2>8 DEF KeysInv
<1> QED
  BY <1>3, <1>4, <1>5

\* A key that moves elsewhere is not under a finger of the page.
LEMMA MoveUnseenKeeps ==
  ASSUME KeysInv, NEW k \in Keys, MoveUnseen(k)
  PROVE  KeysInv'
<1>1. /\ ~focused /\ down' \subseteq Keys /\ KeysTypeOK
      /\ UNCHANGED <<focused, forwarded, deferred, swallow, dragging, drives, connected, toDesktop,
                     slipped, controls, held, moves, toPage>>
  BY DEF KeysTypeOK, MoveUnseen, KeysInv, desktopVars
<1>2. KeysTypeOK'
  BY <1>1 DEF KeysTypeOK
<1> QED
  BY <1>1, <1>2, QuietKeepsKeys DEF KeysInv

LEMMA FlushPasteKeeps == KeysInv /\ FlushPaste => KeysInv'
<1> SUFFICES ASSUME KeysInv, FlushPaste PROVE KeysInv'
  OBVIOUS
<1>1. /\ Send(Chord) /\ deferred' = NoKey /\ KeysTypeOK
      /\ UNCHANGED <<down, focused, forwarded, swallow, dragging, drives, connected, slipped,
                     controls, held, moves, toPage>>
  BY DEF FlushPaste, KeysInv, desktopVars
<1>2. /\ toDesktop' \in Seq(Message)
      /\ ~connected => toDesktop' = <<>> /\ \A d \in Keys : ~Comes(d)'
      /\ connected => \A d \in Keys : Comes(d)' => Comes(d)
  <2>1. PICK chord : chord = Chord
    OBVIOUS
  <2>2. chord \in Seq(Message) /\ \A d \in Keys : ~Leaves(chord, d)
    <3>1. Modifier \in Keys
      BY DEF Keys
    <3> QED
      BY <1>1, <2>1, <3>1, ChordLeavesNothing
  <2>3. Send(chord) /\ (~connected => toDesktop = <<>> /\ held = {})
    BY <1>1, <2>1 DEF KeysInv
  <2>4. /\ toDesktop' \in Seq(Message)
        /\ ~connected => toDesktop' = <<>> /\ \A d \in Keys : ~Comes(d)'
        /\ connected => \A d \in Keys : Comes(d)' => Leaves(chord, d) \/ (Comes(d) /\ ~Frees(chord, d))
    BY <1>1, <2>2, <2>3, SendComes
  <2> QED
    BY <2>2, <2>4
<1>3. KeysTypeOK'
  BY <1>1, <1>2 DEF KeysTypeOK
<1>4. RolesArrive'
  BY <1>1 DEF KeysInv, RolesArrive
<1> QED
  BY <1>1, <1>2, <1>3, <1>4 DEF KeysInv

\* releaseInput: nothing comes to be held.
LEMMA LetGoKeeps ==
  ASSUME KeysInv, LetGo, focused' \in BOOLEAN,
         UNCHANGED <<down, swallow, dragging, drives, connected, controls, held, moves, toPage>>
  PROVE  KeysInv'
<1>1. forwarded' = {} /\ deferred' = NoKey /\ Send(<<Blurred>>) /\ slipped' = {} /\ KeysTypeOK
  BY DEF LetGo, KeysInv
<1>2. <<Blurred>> \in Seq(Message) /\ \A d \in Keys : ~Leaves(<<Blurred>>, d) /\ Frees(<<Blurred>>, d)
  BY ShortMessages, MessagesDiffer, KeysAssumption DEF Blurred, Message
<1>3. /\ toDesktop' \in Seq(Message)
      /\ ~connected => toDesktop' = <<>> /\ \A d \in Keys : ~Comes(d)'
      /\ connected => \A d \in Keys : ~Comes(d)'
  BY <1>1, <1>2, SendComes DEF KeysInv
<1>4. KeysTypeOK'
  BY <1>1, <1>3 DEF KeysTypeOK
<1>5. RolesArrive'
  BY DEF KeysInv, RolesArrive
<1>6. \A d \in Keys : ~Comes(d)'
  BY <1>1, <1>3 DEF KeysTypeOK
<1> QED
  BY <1>1, <1>3, <1>4, <1>5, <1>6 DEF KeysInv

\* A step of the page that sends nothing and lets no key go.
LEMMA UnsentKeeps ==
  ASSUME KeysInv, PasteImage \/ Focus \/ Drag \/ Reconnect \/ (Blur /\ dragging # "no")
  PROVE  KeysInv'
<1>1. KeysTypeOK /\ UNCHANGED <<down, forwarded, drives, toDesktop, controls, held, moves, toPage>>
  BY DEF KeysInv, PasteImage, Focus, Drag, Reconnect, Blur, desktopVars
<1>2. /\ focused' \in BOOLEAN /\ connected' \in BOOLEAN /\ dragging' \in {"no", "over", "dropping"}
      /\ deferred' \in Keys \cup {NoKey} /\ swallow' \in Keys \cup {NoKey} /\ slipped' \subseteq Keys
      /\ slipped \subseteq slipped' /\ (focused' \/ ~focused \/ forwarded \subseteq slipped')
      /\ ~connected' => ~connected
  BY <1>1 DEF KeysTypeOK, PasteImage, Focus, Drag, Reconnect, Blur
<1>3. KeysTypeOK'
  BY <1>1, <1>2 DEF KeysTypeOK
<1>4. RolesArrive' /\ \A k \in Keys : Comes(k)' => Comes(k)
  BY <1>1 DEF KeysInv, RolesArrive, Comes
<1>5. ASSUME NEW k \in Keys, Comes(k)'
      PROVE  k \in slipped' \/ (focused' /\ k \in down' /\ k \in forwarded')
  BY <1>1, <1>2, <1>4, <1>5 DEF KeysInv
<1>6. ~connected' => toDesktop' = <<>> /\ held' = {}
  BY <1>1, <1>2 DEF KeysInv
<1> QED
  BY <1>1, <1>3, <1>4, <1>5, <1>6 DEF KeysInv

\* A role that arrives: a page that is told it lost control forgets only keys that have
\* slipped or that the desktop has let go of.
LEMMA TakeRoleKeeps == KeysInv /\ TakeRole => KeysInv'
<1> SUFFICES ASSUME KeysInv, TakeRole PROVE KeysInv'
  OBVIOUS
<1>1. /\ KeysTypeOK /\ toPage # <<>> /\ toPage' = Tail(toPage) /\ drives' = Head(toPage)
      /\ UNCHANGED <<down, focused, deferred, swallow, dragging, connected, toDesktop, controls, held, moves>>
  BY DEF TakeRole, KeysInv
<1>2. /\ toPage \in Seq(BOOLEAN) /\ Len(toPage) \in Nat \ {0} /\ Head(toPage) = toPage[1]
      /\ toPage' \in Seq(BOOLEAN) /\ Len(toPage') = Len(toPage) - 1
      /\ \A i \in 1 .. Len(toPage) - 1 : toPage'[i] = toPage[i + 1]
      /\ toPage' = <<>> => Len(toPage) = 1
      /\ drives' \in BOOLEAN
  <2>1. PICK roles \in Seq(BOOLEAN) : roles = toPage
    BY <1>1 DEF KeysTypeOK
  <2>2. PICK others : others = Tail(roles)
    OBVIOUS
  <2>3. /\ Len(roles) \in Nat \ {0} /\ Head(roles) = roles[1] /\ Head(roles) \in BOOLEAN
        /\ others \in Seq(BOOLEAN) /\ Len(others) = Len(roles) - 1
        /\ \A i \in 1 .. Len(roles) - 1 : others[i] = roles[i + 1]
    BY <1>1, <2>1, <2>2
  <2>4. others = <<>> => Len(others) = 0
    OBVIOUS
  <2>5. others = <<>> => Len(roles) = 1
    BY <2>3, <2>4
  <2> QED
    BY <1>1, <2>1, <2>2, <2>3, <2>5
<1>3. toPage[Len(toPage)] = controls
  BY <1>1 DEF KeysInv, RolesArrive
<1>4. RolesArrive'
  <2>1. toPage' = <<>> => drives' = controls'
    BY <1>1, <1>2, <1>3
  <2>2. ASSUME toPage' # <<>> PROVE toPage'[Len(toPage')] = controls'
    <3>1. Len(toPage') \in Nat \ {0}
      BY <1>2, <2>2
    <3>2. Len(toPage') \in 1 .. Len(toPage) - 1 /\ Len(toPage') + 1 = Len(toPage)
      BY <1>2, <3>1
    <3> QED
      BY <1>1, <1>2, <1>3, <3>2
  <2> QED
    BY <2>1, <2>2 DEF RolesArrive
<1>5. \A k \in Keys : Comes(k)' => Comes(k)
  BY <1>1 DEF Comes
<1>6. CASE drives'
  <2>1. UNCHANGED <<forwarded, slipped>>
    BY <1>6 DEF TakeRole
  <2>2. KeysTypeOK'
    BY <1>1, <1>2, <2>1 DEF KeysTypeOK
  <2> QED
    BY <1>1, <1>4, <1>5, <1>6, <2>1, <2>2 DEF KeysInv
<1>7. CASE ~drives'
  <2>1. /\ forwarded' = {}
        /\ slipped' = slipped \cup {k \in forwarded : UnderWay(k) \/ Len(toPage) > 1}
    BY <1>7 DEF TakeRole
  <2>2. KeysTypeOK'
    BY <1>1, <1>2, <2>1 DEF KeysTypeOK
  <2>3. ASSUME NEW k \in Keys, Comes(k)' PROVE k \in slipped'
    <3>1. k \in slipped \/ k \in forwarded
      BY <1>5, <2>3 DEF KeysInv
    <3>2. CASE Len(toPage) > 1
      BY <2>1, <3>1, <3>2
    <3>3. CASE ~(Len(toPage) > 1)
      <4>1. Len(toPage) = 1 /\ ~controls
        BY <1>1, <1>2, <1>3, <1>7, <3>3
      <4>2. held = {} /\ Leaves(toDesktop, k)
        BY <1>5, <2>3, <4>1 DEF KeysInv, Comes
      <4>3. UnderWay(k)
        BY <4>2 DEF UnderWay, Leaves
      <4> QED
        BY <2>1, <3>1, <4>3
    <3> QED
      BY <3>2, <3>3
  <2> QED
    BY <1>1, <1>4, <2>1, <2>2, <2>3 DEF KeysInv
<1> QED
  BY <1>6, <1>7

\* A message that arrives makes no key come to be held that did not.
LEMMA TakeInputKeeps == KeysInv /\ TakeInput => KeysInv'
<1> SUFFICES ASSUME KeysInv, TakeInput PROVE KeysInv'
  OBVIOUS
<1>1. PICK m : m = Head(toDesktop)
  OBVIOUS
<1>2. /\ KeysTypeOK /\ toDesktop # <<>> /\ toDesktop' = Tail(toDesktop)
      /\ held' = IF ~controls THEN held
                 ELSE CASE m.is = "blur" -> {}
                        [] m.is = "down" -> held \cup {m.key}
                        [] m.is = "up" -> held \ {m.key}
      /\ UNCHANGED <<down, focused, forwarded, deferred, swallow, dragging, drives, connected, slipped,
                     toPage, controls, moves>>
  BY <1>1 DEF TakeInput, KeysInv
<1>3. PICK queue \in Seq(Message) : queue = toDesktop
  BY <1>2 DEF KeysTypeOK
<1>4. PICK rest : rest = Tail(queue)
  OBVIOUS
<1>5. /\ rest \in Seq(Message) /\ toDesktop' = rest /\ m \in Message /\ m = queue[1]
      /\ Len(queue) \in Nat \ {0} /\ DOMAIN queue = 1 .. Len(queue)
      /\ DOMAIN rest = 1 .. Len(queue) - 1
      /\ \A i \in 1 .. Len(queue) - 1 : rest[i] = queue[i + 1]
  BY <1>1, <1>2, <1>3, <1>4
<1>6. \A i \in DOMAIN rest : i + 1 \in DOMAIN queue /\ rest[i] = queue[i + 1]
  BY <1>5
<1>7. \A j \in DOMAIN queue : j = 1 \/ \E i \in DOMAIN rest : j = i + 1
  <2> TAKE j \in DOMAIN queue
  <2>1. CASE j # 1
    <3>1. j - 1 \in DOMAIN rest /\ j = (j - 1) + 1
      BY <1>5, <2>1
    <3> QED
      BY <3>1
  <2> QED
    BY <2>1
<1>8. ASSUME NEW k, Leaves(rest, k) PROVE Leaves(queue, k)
  <2>1. PICK i \in DOMAIN rest :
          rest[i] = Pressed(k) /\ \A j \in DOMAIN rest : j > i => ~LetsGoOf(rest[j], k)
    BY <1>8 DEF Leaves
  <2>2. ASSUME NEW j \in DOMAIN queue, j > i + 1 PROVE ~LetsGoOf(queue[j], k)
    <3>1. PICK h \in DOMAIN rest : j = h + 1
      BY <1>5, <1>7, <2>2
    <3>2. h > i
      BY <1>5, <2>2, <3>1
    <3> QED
      BY <1>6, <2>1, <3>1, <3>2
  <2>3. i + 1 \in DOMAIN queue /\ queue[i + 1] = Pressed(k)
    BY <1>6, <2>1
  <2> QED
    BY <2>2, <2>3 DEF Leaves
<1>9. ASSUME NEW k, m = Pressed(k), ~Frees(rest, k) PROVE Leaves(queue, k)
  <2>1. \A j \in DOMAIN queue : j > 1 => ~LetsGoOf(queue[j], k)
    BY <1>6, <1>7, <1>9 DEF Frees
  <2>2. 1 \in DOMAIN queue /\ queue[1] = Pressed(k)
    BY <1>5, <1>9
  <2> QED
    BY <2>1, <2>2 DEF Leaves
<1>10. ASSUME NEW k, Frees(queue, k), ~Frees(rest, k) PROVE LetsGoOf(m, k)
  BY <1>5, <1>6, <1>7, <1>10 DEF Frees
<1>11. /\ held' \subseteq Keys /\ (controls' \/ held' = {})
       /\ \A k \in Keys : k \in held' => k \in held \/ m = Pressed(k)
       /\ \A k \in Keys : k \in held' => ~LetsGoOf(m, k)
  <2>0. held \subseteq Keys
    BY <1>2 DEF KeysTypeOK
  <2>1. CASE ~controls
    BY <1>2, <2>0, <2>1 DEF KeysInv
  <2>2. CASE controls /\ m = Blurred
    <3>1. held' = {}
      BY <1>2, <2>2 DEF Blurred
    <3> QED
      BY <1>2, <2>2, <3>1
  <2>3. ASSUME controls, NEW d \in Keys, m = Pressed(d)
        PROVE  <1>11!:
    <3>1. held' = held \cup {d}
      BY <1>2, <2>3 DEF Pressed
    <3>2. \A k \in Keys : ~LetsGoOf(m, k)
      BY <2>3, MessagesDiffer
    <3> QED
      BY <1>2, <2>0, <2>3, <3>1, <3>2
  <2>4. ASSUME controls, NEW d \in Keys, m = Released(d)
        PROVE  <1>11!:
    <3>1. held' = held \ {d}
      BY <1>2, <2>4 DEF Released
    <3>2. \A k \in Keys : LetsGoOf(m, k) => k = d
      BY <2>4, MessagesDiffer
    <3> QED
      BY <1>2, <2>0, <2>4, <3>1, <3>2
  <2> QED
    BY <1>5, <2>1, <2>2, <2>3, <2>4 DEF Message
<1>12. ASSUME NEW k \in Keys, Comes(k)' PROVE Comes(k)
  <2>1. CASE Leaves(rest, k)
    BY <1>3, <1>8, <2>1 DEF Comes
  <2>2. CASE k \in held' /\ ~Frees(rest, k)
    <3>1. CASE m = Pressed(k)
      BY <1>3, <1>9, <2>2, <3>1 DEF Comes
    <3>2. CASE m # Pressed(k)
      <4>1. k \in held /\ ~LetsGoOf(m, k)
        BY <1>11, <2>2, <3>2
      <4> QED
        BY <1>3, <1>10, <2>2, <4>1 DEF Comes
    <3> QED
      BY <3>1, <3>2
  <2> QED
    BY <1>5, <1>12, <2>1, <2>2 DEF Comes
<1>13. ~connected => toDesktop' = <<>> /\ held' = {}
  BY <1>2 DEF KeysInv
<1>14. KeysTypeOK'
  BY <1>2, <1>5, <1>11 DEF KeysTypeOK
<1>15. RolesArrive'
  BY <1>2 DEF KeysInv, RolesArrive
<1> QED
  BY <1>2, <1>11, <1>12, <1>13, <1>14, <1>15 DEF KeysInv

\* Whoever loses control is let go of at once, and is told.
LEMMA MoveControlKeeps == KeysInv /\ MoveControl => KeysInv'
<1> SUFFICES ASSUME KeysInv, MoveControl PROVE KeysInv'
  OBVIOUS
<1>1. /\ KeysTypeOK /\ connected /\ moves < MaxRoles /\ moves' = moves + 1
      /\ controls' = ~controls /\ held' = {} /\ toPage' = Append(toPage, ~controls)
      /\ UNCHANGED <<down, focused, forwarded, deferred, swallow, dragging, drives, connected, toDesktop,
                     slipped>>
  BY DEF MoveControl, KeysInv
<1>2. PICK roles \in Seq(BOOLEAN) : roles = toPage
  BY <1>1 DEF KeysTypeOK
<1>3. PICK role \in BOOLEAN : role = controls'
  BY <1>1 DEF KeysTypeOK
<1>4. PICK all : all = Append(roles, role)
  OBVIOUS
<1>5. all \in Seq(BOOLEAN) /\ all # <<>> /\ all[Len(all)] = role
  <2>1. /\ all \in Seq(BOOLEAN) /\ Len(all) = Len(roles) + 1 /\ Len(roles) \in Nat
        /\ all[Len(roles) + 1] = role
    BY <1>4
  <2>2. all = <<>> => Len(all) = 0
    OBVIOUS
  <2> QED
    BY <2>1, <2>2
<1>6. toPage' = all
  BY <1>1, <1>2, <1>3, <1>4
<1>7. RolesArrive'
  BY <1>3, <1>5, <1>6 DEF RolesArrive
<1>8. moves' \in 0 .. MaxRoles
  BY <1>1, KeysAssumption DEF KeysTypeOK
<1>9. KeysTypeOK'
  BY <1>1, <1>3, <1>5, <1>6, <1>8 DEF KeysTypeOK
<1>10. \A k \in Keys : Comes(k)' => Comes(k)
  BY <1>1 DEF Comes
<1> QED
  BY <1>1, <1>7, <1>9, <1>10 DEF KeysInv

LEMMA DisconnectKeeps == KeysInv /\ Disconnect => KeysInv'
<1> SUFFICES ASSUME KeysInv, Disconnect PROVE KeysInv'
  OBVIOUS
<1>1. /\ KeysTypeOK /\ connected' = FALSE /\ forwarded' = {} /\ drives' = FALSE /\ slipped' = {}
      /\ toDesktop' = <<>> /\ toPage' = <<>> /\ controls' = FALSE /\ held' = {}
      /\ UNCHANGED <<down, focused, deferred, swallow, dragging, moves>>
  BY DEF Disconnect, KeysInv
<1>2. <<>> \in Seq(Message) /\ <<>> \in Seq(BOOLEAN) /\ DOMAIN <<>> = {}
  OBVIOUS
<1>3. KeysTypeOK'
  BY <1>1, <1>2 DEF KeysTypeOK
<1>4. \A k \in Keys : ~Comes(k)'
  BY <1>1, <1>2 DEF Comes, Leaves
<1> QED
  BY <1>1, <1>3, <1>4 DEF KeysInv, RolesArrive

LEMMA KeysNextInv == KeysInv /\ [KeysNext]_keyVars => KeysInv'
<1> SUFFICES ASSUME KeysInv, [KeysNext]_keyVars PROVE KeysInv'
  OBVIOUS
<1>1. CASE UNCHANGED keyVars
  <2>1. UNCHANGED <<down, focused, forwarded, deferred, swallow, dragging, drives, connected,
                    toDesktop, toPage, controls, held, moves, slipped>>
    BY <1>1 DEF keyVars
  <2> QED
    BY <2>1, QuietKeepsKeys DEF KeysInv, KeysTypeOK
<1>2. ASSUME NEW k \in Keys, Release(k) \/ MoveUnseen(k) \/ \E field \in BOOLEAN : Press(k, field)
      PROVE  KeysInv'
  BY <1>2, PressKeeps, ReleaseKeeps, MoveUnseenKeeps
<1>3. CASE ReleaseKeys \/ (Blur /\ dragging = "no")
  <2>1. /\ LetGo /\ focused' \in BOOLEAN
        /\ UNCHANGED <<down, swallow, dragging, drives, connected, controls, held, moves, toPage>>
    BY <1>3 DEF ReleaseKeys, Blur, desktopVars, KeysInv, KeysTypeOK
  <2> QED
    BY <2>1, LetGoKeeps
<1>4. CASE PasteImage \/ Focus \/ Drag \/ Reconnect \/ (Blur /\ dragging # "no")
  BY <1>4, UnsentKeeps
<1>5. CASE FlushPaste \/ TakeRole \/ TakeInput \/ MoveControl \/ Disconnect
  BY <1>5, FlushPasteKeeps, TakeRoleKeeps, TakeInputKeeps, MoveControlKeeps, DisconnectKeeps
<1> QED
  BY <1>1, <1>2, <1>3, <1>4, <1>5 DEF KeysNext

\* Once all that was sent has arrived, the desktop holds what is under the fingers of a
\* page that has the keyboard, and what slipped: whatever the order of presses, pastes,
\* blurs, drops and moves of control, and however many messages are under way.
\* (viewer.js: onKey, flushPaste, releaseInput; ws.rs: ROLE)
THEOREM KeysAreLetGo == KeysSpec => []KeysLetGo
<1>1. KeysInit => KeysInv
  BY KeysBegin
<1>2. KeysInv /\ [KeysNext]_keyVars => KeysInv'
  BY KeysNextInv
<1>3. KeysInv => KeysLetGo
  <2> SUFFICES ASSUME KeysInv, toDesktop = <<>>, NEW k \in held
               PROVE  k \in (IF focused THEN down ELSE {}) \cup slipped
    BY DEF KeysLetGo
  <2>1. DOMAIN toDesktop = {} /\ k \in Keys
    BY DEF KeysInv, KeysTypeOK
  <2>2. Comes(k)
    BY <2>1 DEF Comes, Frees
  <2> QED
    BY <2>1, <2>2 DEF KeysInv
<1> QED
  BY <1>1, <1>2, <1>3, PTL DEF KeysSpec
================================================================================
