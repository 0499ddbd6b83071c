---------------------------- MODULE PageClipboard ----------------------------
(***************************************************************************)
(* The page's view of the desktop's clipboard (clipboard.js).  It learns of *)
(* a selection from a live event, or from a metadata read every two seconds *)
(* in case the event was dropped; what the event does not carry it fetches. *)
(* A newer event or read supersedes the one under way, whose answer may     *)
(* still come.  It also writes: the desktop installs the text some time     *)
(* after it accepted it.                                                    *)
(*                                                                          *)
(* A selection is text, short enough for an event or not.  Its content is   *)
(* named by the observation it was first made at, that of the page's own    *)
(* write by 0.  Images, files and what cannot be read are left out.         *)
(***************************************************************************)
EXTENDS Integers, Sequences

CONSTANTS
  MaxObservation,  \* the bounds: how often the selection changes,
  MaxEvents,       \* how many events are under way, and how often the panel is opened,
  MaxUpsets        \* the session changes or a metadata read fails

ASSUME ClipboardAssumption ==
  MaxObservation \in Nat \ {0} /\ MaxEvents \in Nat /\ MaxUpsets \in Nat

NoText == -1
Observations == 1..MaxObservation
Contents == 0..MaxObservation
Selection == [observation : Observations, content : Contents, ready : BOOLEAN, short : BOOLEAN]

VARIABLES
  selection,  \* the desktop's clipboard
  install,    \* the page's write at the desktop: "no", "queued" or "done"
  events,     \* CLIPBOARD messages under way to the page
  panel,      \* clipboardState: observation (0 when none), content, and the text shown
  opened,     \* the panel is open
  upsets,     \* counts up to MaxUpsets
  syncing,    \* syncPending
  copied,     \* pendingClipboard: the text on its way to the browser's clipboard
  flight,     \* the current read, or NoFlight
  late,       \* the read it superseded, which may still be answered
  write       \* the page's write: "none", "asked", "confirming", "reading" or "over"

clipboardVars ==
  <<selection, install, events, panel, opened, upsets, syncing, copied, flight, late, write>>
desktopSide == <<selection, install>>

NoFlight == [is |-> "none"]
Asked == [is |-> "state"]
Answered(s) == [is |-> "answered", meta |-> s]
Fetching(s) == [is |-> "body", meta |-> s]
Fetched(s) == [is |-> "fetched", meta |-> s]

Empty == [observation |-> 0, content |-> NoText, text |-> NoText]

-----------------------------------------------------------------------------
(* The desktop. *)

\* The selection changes, and the page is told unless its queue is full.
Install(content, ready, short) ==
  /\ selection.observation < MaxObservation
  /\ selection' = [observation |-> selection.observation + 1, content |-> content,
                   ready |-> ready, short |-> short]
  /\ \/ Len(events) < MaxEvents /\ events' = Append(events, selection')
     \/ UNCHANGED events
  /\ UNCHANGED <<panel, opened, upsets, syncing, copied, flight, late, write>>

\* a program copies: its offer is observed, and then what it holds
Copy ==
  /\ \E short \in BOOLEAN : Install(selection.observation + 1, FALSE, short)
  /\ UNCHANGED install

Load ==
  /\ ~selection.ready /\ Install(selection.content, TRUE, selection.short)
  /\ UNCHANGED install

\* the text the page wrote is installed
InstallWrite ==
  /\ install = "queued" /\ install' = "done"
  /\ Install(0, TRUE, TRUE)

\* PUT /api/clipboard
AcceptWrite ==
  /\ install = "no" /\ write # "none" /\ install' = "queued"
  /\ UNCHANGED <<selection, events, panel, opened, upsets, syncing, copied, flight, late, write>>

\* GET /api/clipboard/state, and GET /api/clipboard, which If-Match binds to an observation
Served(f) ==
  CASE f.is = "state" -> Answered(selection)
    [] f.is = "body" /\ f.meta = selection -> Fetched(f.meta)
    [] OTHER -> f

Serve ==
  /\ flight' = Served(flight) /\ late' = Served(late)
  /\ <<flight', late'>> # <<flight, late>>
  /\ UNCHANGED <<desktopSide, events, panel, opened, upsets, syncing, copied, write>>

-----------------------------------------------------------------------------
(* accept() and materialize(). *)

Older(s) == s.observation < panel.observation
Known(s) == s.observation = panel.observation

\* Its text came with the event.
Carries(s, live) == live /\ s.ready /\ s.short

\* The text there is without a read: the event's, the page's own, or the one shown.
TextOf(s, live) ==
  IF Carries(s, live) THEN s.content
  ELSE IF write \in {"confirming", "reading"} /\ s.content = 0 THEN 0
  ELSE IF Known(s) THEN panel.text ELSE NoText

\* A selection is accepted.  A change forgets the text and takes back what was on its way
\* to the browser's clipboard, which gets only what a live event began.  The body is
\* read if somebody wants it, but not while the page's own write has no name yet.
AcceptSelection(s, live) ==
  LET text == TextOf(s, live)
      sync == syncing \/ live
      wants == s.ready /\ (opened \/ sync)
      shows == Carries(s, live) \/ (wants /\ text # NoText)
  IN  IF Older(s) THEN UNCHANGED <<panel, syncing, copied>> /\ flight' = NoFlight
      ELSE /\ panel' = [observation |-> s.observation, content |-> s.content,
                        text |-> IF shows THEN text ELSE IF Known(s) THEN panel.text ELSE NoText]
           /\ syncing' = (sync /\ ~shows)
           /\ copied' = IF shows /\ sync THEN text ELSE IF Known(s) THEN copied ELSE NoText
           /\ flight' = IF wants /\ ~shows /\ write # "asked" THEN Fetching(s) ELSE NoFlight

\* the body of the read f is shown
ShowBody(f) ==
  /\ panel' = [panel EXCEPT !.text = f.meta.content]
  /\ copied' = (IF syncing THEN f.meta.content ELSE copied)
  /\ syncing' = FALSE

-----------------------------------------------------------------------------
(* Reads. *)

\* run(): a new read supersedes the one under way
Supersede == late' = IF flight = NoFlight THEN late ELSE flight

\* refresh(), by the timer
Refresh ==
  /\ flight = NoFlight /\ flight' = Asked
  /\ UNCHANGED <<desktopSide, events, panel, opened, upsets, syncing, copied, late, write>>

\* observed(): a live event
Observe ==
  /\ events # <<>> /\ events' = Tail(events)
  /\ Supersede /\ AcceptSelection(Head(events), TRUE)
  /\ UNCHANGED <<desktopSide, opened, upsets, write>>

\* the metadata came
TakeState ==
  /\ flight.is = "answered" /\ AcceptSelection(flight.meta, FALSE)
  /\ UNCHANGED <<desktopSide, events, opened, upsets, late, write>>

\* the body came
TakeBody ==
  /\ flight.is = "fetched" /\ ShowBody(flight) /\ flight' = NoFlight
  /\ UNCHANGED <<desktopSide, events, opened, upsets, late, write>>

\* The answer to a superseded read is taken for the current one's.
TakeLateUnchecked ==
  /\ late.is \in {"answered", "fetched"} /\ late' = NoFlight
  /\ IF late.is = "fetched" THEN ShowBody(late) ELSE UNCHANGED <<panel, copied, syncing>>
  /\ UNCHANGED <<desktopSide, events, opened, upsets, flight, write>>

\* the answer to a superseded read: valid() says no
TakeLate ==
  /\ late.is \in {"answered", "fetched"} /\ late' = NoFlight
  /\ UNCHANGED <<desktopSide, events, panel, opened, upsets, syncing, copied, flight, write>>

FailureShown == panel' = [panel EXCEPT !.text = NoText] /\ syncing' = FALSE

\* A failed read stays the one that refresh() waits for.
FailAndStay ==
  /\ flight.is = "body" /\ FailureShown
  /\ UNCHANGED <<desktopSide, events, opened, upsets, copied, flight, late, write>>

\* the body's read fails: the selection has changed, or five seconds are over
Fail ==
  /\ flight.is = "body" /\ FailureShown /\ flight' = NoFlight
  /\ UNCHANGED <<desktopSide, events, opened, upsets, copied, late, write>>

FailState ==
  /\ flight.is \in {"state", "answered"} /\ upsets < MaxUpsets /\ upsets' = upsets + 1
  /\ FailureShown /\ flight' = NoFlight
  /\ UNCHANGED <<desktopSide, events, opened, copied, late, write>>

-----------------------------------------------------------------------------
(* The panel, the session and the page's write. *)

Open ==
  /\ ~opened /\ opened' = TRUE /\ upsets < MaxUpsets /\ upsets' = upsets + 1
  /\ Supersede /\ flight' = Asked
  /\ UNCHANGED <<desktopSide, events, panel, syncing, copied, write>>

Close ==
  /\ opened /\ opened' = FALSE
  /\ Supersede /\ flight' = NoFlight /\ panel' = [panel EXCEPT !.text = NoText]
  /\ UNCHANGED <<desktopSide, events, upsets, syncing, copied, write>>

\* disconnected and connected again, or with other permissions
ChangeSession ==
  /\ upsets < MaxUpsets /\ upsets' = upsets + 1
  /\ panel' = Empty /\ syncing' = FALSE /\ copied' = NoText /\ events' = <<>>
  /\ Supersede /\ flight' = Asked
  /\ write' = IF write = "none" THEN write ELSE "over"
  /\ UNCHANGED <<desktopSide, opened>>

Write ==
  /\ write = "none" /\ write' = "asked"
  /\ UNCHANGED <<desktopSide, events, panel, opened, upsets, syncing, copied, flight, late>>

\* the desktop's answer names the write
AnswerWrite ==
  /\ write = "asked" /\ install # "no" /\ write' = "confirming"
  /\ UNCHANGED <<desktopSide, events, panel, opened, upsets, syncing, copied, flight, late>>

\* write() reads the selection again to see whether it is its text
ReadBack ==
  /\ write = "confirming" /\ panel.content # 0 /\ write' = "reading"
  /\ Supersede /\ flight' = Asked
  /\ UNCHANGED <<desktopSide, events, panel, opened, upsets, syncing, copied>>

\* It is; or it was, or it never will be: another copy, or five seconds.
Confirm ==
  /\ write \in {"confirming", "reading"} /\ write' = "over"
  /\ IF panel.content = 0 THEN panel' = [panel EXCEPT !.text = 0] /\ copied' = 0
     ELSE UNCHANGED <<panel, copied>>
  /\ UNCHANGED <<desktopSide, events, opened, upsets, syncing, flight, late>>

-----------------------------------------------------------------------------
\* The page has connected and read the metadata once.
ClipboardInit ==
  /\ selection = [observation |-> 1, content |-> 1, ready |-> TRUE, short |-> FALSE]
  /\ install = "no" /\ events = <<>> /\ opened = FALSE /\ upsets = 0
  /\ syncing = FALSE /\ copied = NoText /\ flight = NoFlight /\ late = NoFlight /\ write = "none"
  /\ panel = [Empty EXCEPT !.observation = 1, !.content = 1]

ClipboardNext ==
  \/ Copy \/ Load \/ InstallWrite \/ AcceptWrite \/ Serve
  \/ Refresh \/ Observe \/ TakeState \/ TakeBody \/ TakeLate \/ Fail \/ FailState
  \/ Open \/ Close \/ ChangeSession \/ Write \/ AnswerWrite \/ ReadBack \/ Confirm

ClipboardSpec == ClipboardInit /\ [][ClipboardNext]_clipboardVars

\* The timer runs, the server answers, and answers are taken; a body that cannot be had
\* is given up after five seconds.
ClipboardFairness ==
  /\ WF_clipboardVars(Refresh) /\ WF_clipboardVars(Serve)
  /\ WF_clipboardVars(TakeState \/ TakeBody \/ Fail)

FairClipboardSpec == ClipboardSpec /\ ClipboardFairness

-----------------------------------------------------------------------------
(* Properties. *)

\* Every variable keeps its type.
ClipboardTypeOK ==
  /\ selection \in Selection /\ install \in {"no", "queued", "done"}
  /\ events \in Seq(Selection)
  /\ panel \in [observation : {0} \cup Observations, content : {NoText} \cup Contents,
                text : {NoText} \cup Contents]
  /\ {opened, syncing} \subseteq BOOLEAN /\ upsets \in 0..MaxUpsets
  /\ copied \in {NoText} \cup Contents
  /\ {flight, late} \subseteq {NoFlight, Asked} \cup
        [is : {"answered", "body", "fetched"}, meta : Selection]
  /\ write \in {"none", "asked", "confirming", "reading", "over"}

\* What the panel shows, and what is on its way to the browser's clipboard, is the content
\* of the selection the panel names: however reads, events, the page's own write and new
\* sessions overtake each other, no text is shown or copied under another's name.
ContentMatches ==
  /\ panel.text # NoText => panel.text = panel.content
  /\ copied # NoText => copied = panel.content

\* "A dropped copy event cannot leave the status icon stale indefinitely": once selections
\* stop changing the panel comes to name the desktop's, and stays with it.
StatusCatchesUp == <>[](panel.observation = selection.observation)
=============================================================================
