------------------------------ MODULE Thumbnails ------------------------------
(***************************************************************************)
(* The window list's pictures (thumbnails.js, driven by Sidebar.jsx).  Each *)
(* row has a scheduler with one queued job, one trailing update, a timer    *)
(* that spaces captures and two attempts at a state it fails to capture.    *)
(* The rows share one queue (api.js), which runs a job at a time.           *)
(*                                                                          *)
(* Time is left out but for `rested`: whether the three seconds since the   *)
(* last capture began have passed.  A capture may take any time, and its    *)
(* promise may settle before an abort reaches it.                           *)
(***************************************************************************)
EXTENDS Integers, Sequences

CONSTANTS
  Row,
  Sizing,        \* sizes a row asks for
  FAILURES,      \* 2 in the code
  MaxRevision    \* the bound: how often a window's content changes

ASSUME ThumbnailAssumption ==
  FAILURES \in Nat \ {0} /\ MaxRevision \in Nat /\ Sizing # {}

Key == [revision : 0..MaxRevision, sizing : Sizing]
FirstKey == [revision |-> 0, sizing |-> CHOOSE s \in Sizing : TRUE]
NoPicture == [FirstKey EXCEPT !.revision = -1]

VARIABLES
  row,       \* each row's scheduler
  jobs,      \* the shared queue, the running job first
  inView     \* what allowed() finds: the row is on the screen

thumbnailVars == <<row, jobs, inView>>

\* needed(); allowed() says whether the row is on the screen
Needed(x, visible) ==
  /\ ~x.disposed /\ x.eligible /\ x.captured # x.current /\ x.failures < FAILURES
  /\ visible

\* pump(): `refused` records that only allowed() was against it
Pump(x, visible) ==
  IF x.pending \/ x.timer THEN x
  ELSE IF ~Needed(x, visible) THEN [x EXCEPT !.refused = ~visible]
  ELSE IF x.rested THEN [x EXCEPT !.pending = TRUE]
  ELSE [x EXCEPT !.timer = TRUE]

\* row r becomes x after a pump, and its new job goes to the end of `queue`
Pumped(r, x, queue) ==
  LET y == Pump(x, inView[r])
  IN  /\ row' = [row EXCEPT ![r] = y]
      /\ jobs' = IF y.pending /\ ~x.pending THEN Append(queue, r) ELSE queue

\* request.abort()
Aborted(x) == IF x.request = "live" THEN "superseded" ELSE x.request

-----------------------------------------------------------------------------
\* A superseded timer is cancelled, but nothing looks at the row afresh.
UpdateUnpumped(r, key, eligible) ==
  LET x == row[r]
      supersedes == ~eligible \/ key.sizing # x.current.sizing
  IN  /\ ~x.disposed /\ key.revision >= x.current.revision
      /\ key # x.current \/ eligible # x.eligible
      /\ row' = [row EXCEPT ![r] =
                   [x EXCEPT !.current = key, !.eligible = eligible, !.failures = 0,
                             !.refused = FALSE, !.timer = @ /\ ~supersedes]]
      /\ UNCHANGED <<jobs, inView>>

\* update(): Sidebar.jsx calls it when the window's revision, the picture's size or
\* the row's visibility changed.
Update(r, key, eligible) ==
  LET x == row[r]
      supersedes == ~eligible \/ key.sizing # x.current.sizing
      fresh == key # x.current \/ (eligible /\ ~x.eligible)
      y == [x EXCEPT !.current = key, !.eligible = eligible, !.refused = FALSE,
                     !.failures = IF fresh THEN 0 ELSE @,
                     !.timer = @ /\ ~supersedes,
                     !.request = IF supersedes THEN Aborted(x) ELSE @]
  IN  /\ ~x.disposed /\ (fresh \/ eligible # x.eligible)
      /\ key.revision >= x.current.revision
      /\ Pumped(r, y, jobs) /\ UNCHANGED inView

\* dispose(): the window's row is gone
Dispose(r) ==
  /\ ~row[r].disposed
  /\ row' = [row EXCEPT ![r] = [@ EXCEPT !.disposed = TRUE, !.timer = FALSE,
                                         !.request = Aborted(row[r])]]
  /\ UNCHANGED <<jobs, inView>>

\* the timer: setTimeout(..., remaining)
Fire(r) ==
  /\ row[r].timer
  /\ Pumped(r, [row[r] EXCEPT !.timer = FALSE], jobs) /\ UNCHANGED inView

Rest(r) ==
  /\ ~row[r].rested
  /\ row' = [row EXCEPT ![r].rested = TRUE]
  /\ UNCHANGED <<jobs, inView>>

Scroll(r) ==
  /\ inView' = [inView EXCEPT ![r] = ~@]
  /\ UNCHANGED <<row, jobs>>

-----------------------------------------------------------------------------
(* The job at the head of the queue. *)

Running(r) == jobs # <<>> /\ Head(jobs) = r

\* finally: the queue moves on, and a change that came meanwhile is pumped
Finish(r, x) ==
  Pumped(r, [x EXCEPT !.pending = FALSE, !.request = "none", !.selected = NoPicture], Tail(jobs))

\* the start conditions are checked again behind the other rows
Skip(r) ==
  /\ Running(r) /\ row[r].request = "none"
  /\ ~Needed(row[r], inView[r]) \/ ~row[r].rested
  /\ Finish(r, row[r]) /\ UNCHANGED inView

Begin(r) ==
  /\ Running(r) /\ row[r].request = "none"
  /\ Needed(row[r], inView[r]) /\ row[r].rested
  /\ row' = [row EXCEPT ![r] = [@ EXCEPT !.request = "live", !.rested = FALSE,
                                         !.selected = row[r].current]]
  /\ UNCHANGED <<jobs, inView>>

\* the blob came: nothing of a superseded request is shown
Captured(r) ==
  LET x == row[r] IN
  /\ Running(r) /\ x.request # "none"
  /\ Finish(r, IF x.request = "live" /\ x.eligible
               THEN [x EXCEPT !.captured = x.selected, !.failures = 0] ELSE x)
  /\ UNCHANGED inView

Failed(r) ==
  LET x == row[r] IN
  /\ Running(r) /\ x.request # "none"
  /\ Finish(r, IF x.request = "live" /\ x.selected = x.current
               THEN [x EXCEPT !.failures = @ + 1] ELSE x)
  /\ UNCHANGED inView

-----------------------------------------------------------------------------
\* a row is mounted before its first intersection is known
ThumbnailInit ==
  /\ row = [r \in Row |->
              [current |-> FirstKey, eligible |-> FALSE, captured |-> NoPicture, selected |-> NoPicture,
               pending |-> FALSE, timer |-> FALSE, request |-> "none", rested |-> TRUE,
               failures |-> 0, disposed |-> FALSE, refused |-> FALSE]]
  /\ jobs = <<>> /\ inView = [r \in Row |-> TRUE]

ThumbnailStep(r) ==
  \/ \E key \in Key, eligible \in BOOLEAN : Update(r, key, eligible)
  \/ Dispose(r) \/ Fire(r) \/ Rest(r) \/ Scroll(r)
  \/ Skip(r) \/ Begin(r) \/ Captured(r) \/ Failed(r)

ThumbnailNext == \E r \in Row : ThumbnailStep(r)

ThumbnailSpec == ThumbnailInit /\ [][ThumbnailNext]_thumbnailVars

-----------------------------------------------------------------------------
(* Properties. *)

RowState ==
  [current : Key, eligible : BOOLEAN, captured : Key \cup {NoPicture},
   selected : Key \cup {NoPicture}, pending : BOOLEAN, timer : BOOLEAN,
   request : {"none", "live", "superseded"}, rested : BOOLEAN,
   failures : 0..FAILURES, disposed : BOOLEAN, refused : BOOLEAN]

\* Every variable keeps its type.
ThumbnailTypeOK ==
  /\ row \in [Row -> RowState]
  /\ jobs \in Seq(Row)
  /\ inView \in [Row -> BOOLEAN]

\* "One queued job and one trailing update per row": a row whose picture is not of its
\* state is never forgotten.  However updates, cancelled timers, aborted and failing
\* captures meet, it has a job or a timer that will look again, unless it was off the
\* screen when it last looked and has not been updated since.
NeverForgotten ==
  \A r \in Row : Needed(row[r], TRUE) /\ ~row[r].refused => row[r].pending \/ row[r].timer
=============================================================================
