---------------------------- MODULE Notifications ----------------------------
(***************************************************************************)
(* The desktop's notifications: applications open, replace and close them  *)
(* over the session bus, timers expire them, viewers dismiss them, and     *)
(* every page is sent the list of those that are open.                     *)
(*                                                                         *)
(* The open ones are a map under a mutex of their own                      *)
(* (crates/elsewhere-server/src/notify.rs).  The list is built under that  *)
(* mutex and broadcast after it is released, to the desktop sessions under *)
(* one lock and to the window sessions under another; a session receives it*)
(* through a queue that drops what does not fit.  A timer and a viewer's   *)
(* answer remember the revision they are for and close nothing else.       *)
(*                                                                         *)
(* What a notification says is left out; call, the number of the Notify    *)
(* call that made it, tells notifications apart, and life, the call that   *)
(* opened its id, tells apart the lives of an id.  No code reads either.   *)
(***************************************************************************)
EXTENDS Integers, Sequences, FiniteSets

CONSTANTS
  Page,       \* desktop sessions
  Window,     \* window sessions
  Capacity,   \* messages a session's queue holds (32)
  MaxId,      \* bound: ids an application names or is given
  MaxCall,    \* bound: calls of Notify
  MaxAnswer,  \* bound: answers of viewers under way
  MaxList     \* bound: lists under way at once

ASSUME CapacityAssumption == Capacity \in Nat \ {0}
ASSUME BoundAssumption ==
  MaxId \in Nat /\ MaxCall \in Nat /\ MaxAnswer \in Nat /\ MaxList \in Nat

Id == 1 .. MaxId
Call == 1 .. MaxCall
Notification == [rev : Nat, timed : BOOLEAN, call : Call, life : Call]
Closer == [id : Id, rev : Nat, call : Call, life : Call]   \* what a timer or an answer is for
Session == Page \cup Window

VARIABLES
  open,     \* id -> the notification open under it
  next,     \* next_notification
  calls,    \* calls of Notify so far
  timers,   \* expiries armed and not yet over
  answers,  \* viewers' answers that read their notification and have not closed it yet
  lists,    \* lists built and not yet broadcast to everybody, by the task that built them
  copies,   \* the list a page that connects has read, before it is registered
  queue,    \* registered session -> its queue
  shown     \* registered session -> the list its page shows

vars == <<open, next, calls, timers, answers, lists, copies, queue, shown>>

-----------------------------------------------------------------------------
None == [x \in {} |-> 0]
\* what the pages see: which notification is open under which id
Listed(o) == [id \in DOMAIN o |-> o[id].call]

Without(o, id) == [i \in DOMAIN o \ {id} |-> o[i]]
With(o, id, n) == [i \in DOMAIN o \cup {id} |-> IF i = id THEN n ELSE o[i]]

\* The list is built while the lock is held, and broadcast later.
Build(o) ==
  \E task \in 1 .. MaxList :
    /\ \A m \in lists : m.task # task
    /\ \A i \in 1 .. task - 1 : \E m \in lists : m.task = i
    /\ lists' = lists \cup {[task |-> task, list |-> Listed(o), windows |-> FALSE]}

\* Every notification is the first revision of its id.
RevisionZero(o, id) == 0

\* the revision of what is about to be opened under id
Revision(o, id) == IF id \in DOMAIN o THEN o[id].rev + 1 ELSE 0

\* Only a new notification gets a timer.
ArmFirst(id, n) ==
  timers' = IF n.timed /\ n.rev = 0
            THEN timers \cup {[id |-> id, rev |-> n.rev, call |-> n.call, life |-> n.life]}
            ELSE timers

Arm(id, n) ==
  timers' = IF n.timed
            THEN timers \cup {[id |-> id, rev |-> n.rev, call |-> n.call, life |-> n.life]}
            ELSE timers

\* open_notification: replaces is 0, or the id the application names, which may
\* be open, closed, or never have been given out
Notify(replaces, timed) ==
  LET id == IF replaces = 0 THEN next ELSE replaces
      n == [rev |-> Revision(open, id), timed |-> timed, call |-> calls + 1,
            life |-> IF id \in DOMAIN open THEN open[id].life ELSE calls + 1]
  IN  /\ calls < MaxCall /\ id <= MaxId
      /\ calls' = calls + 1
      /\ next' = IF replaces = 0 THEN next + 1 ELSE next
      /\ open' = With(open, id, n)
      /\ Build(open')
      /\ Arm(id, n)
      /\ UNCHANGED <<answers, copies, queue, shown>>

\* take_notification without a revision
Take(id) == open' = Without(open, id) /\ Build(open')

\* A revision that is not the one asked for is closed as well.
TakeRevisionUnchecked(id, rev) ==
  IF id \notin DOMAIN open THEN UNCHANGED <<open, lists>> ELSE Take(id)

\* take_notification of a given revision
TakeRevision(id, rev) ==
  IF id \notin DOMAIN open \/ open[id].rev # rev
  THEN UNCHANGED <<open, lists>>
  ELSE Take(id)

\* CloseNotification on the bus
CloseByCall(id) ==
  /\ id \in DOMAIN open
  /\ Take(id)
  /\ UNCHANGED <<next, calls, timers, answers, copies, queue, shown>>

\* A timer has slept and closes the revision it was armed for.
Expire(t) ==
  /\ t \in timers
  /\ timers' = timers \ {t}
  /\ TakeRevision(t.id, t.rev)
  /\ UNCHANGED <<next, calls, answers, copies, queue, shown>>

\* notification_action: a viewer's answer reads the revision it is about...
Answer(id) ==
  /\ id \in DOMAIN open
  /\ Cardinality(answers) < MaxAnswer
  /\ answers' = answers \cup {[id |-> id, rev |-> open[id].rev, call |-> open[id].call,
                               life |-> open[id].life]}
  /\ UNCHANGED <<open, next, calls, timers, lists, copies, queue, shown>>

\* ... and closes that one when the signal for the application has gone out.
Dismiss(a) ==
  /\ a \in answers
  /\ answers' = answers \ {a}
  /\ TakeRevision(a.id, a.rev)
  /\ UNCHANGED <<next, calls, timers, copies, queue, shown>>

\* An HTTP client that goes away in between takes its handler with it.
Abandon(a) ==
  /\ a \in answers
  /\ answers' = answers \ {a}
  /\ UNCHANGED <<open, next, calls, timers, lists, copies, queue, shown>>

-----------------------------------------------------------------------------
(* Broadcast, and the sessions' queues. *)

\* try_send to the registered sessions among S
Offered(S, list) ==
  [s \in DOMAIN queue |->
     IF s \in S /\ Len(queue[s]) < Capacity THEN Append(queue[s], list) ELSE queue[s]]

\* broadcast: the desktop sessions first, then the window sessions
Broadcast(m) ==
  /\ m \in lists
  /\ queue' = Offered(IF m.windows THEN Window ELSE Page, m.list)
  /\ lists' = IF m.windows THEN lists \ {m}
              ELSE (lists \ {m}) \cup {[m EXCEPT !.windows = TRUE]}
  /\ UNCHANGED <<open, next, calls, timers, answers, copies, shown>>

\* A desktop session reads the list before it takes the lock it registers under.
Read(p) ==
  /\ p \in Page \ (DOMAIN copies \cup DOMAIN queue)
  /\ copies' = With(copies, p, Listed(open))
  /\ UNCHANGED <<open, next, calls, timers, answers, lists, queue, shown>>

Register(p) ==
  /\ p \in DOMAIN copies
  /\ queue' = With(queue, p, <<>>)
  /\ shown' = With(shown, p, copies[p])
  /\ copies' = Without(copies, p)
  /\ UNCHANGED <<open, next, calls, timers, answers, lists>>

\* A window session's replay has no notifications: its page starts with none.
RegisterWindow(w) ==
  /\ w \in Window \ DOMAIN queue
  /\ queue' = With(queue, w, <<>>)
  /\ shown' = With(shown, w, None)
  /\ UNCHANGED <<open, next, calls, timers, answers, lists, copies>>

Show(s) ==
  /\ s \in DOMAIN queue /\ queue[s] # <<>>
  /\ shown' = With(shown, s, Head(queue[s]))
  /\ queue' = With(queue, s, Tail(queue[s]))
  /\ UNCHANGED <<open, next, calls, timers, answers, lists, copies>>

Leave(s) ==
  /\ s \in DOMAIN queue
  /\ queue' = Without(queue, s)
  /\ shown' = Without(shown, s)
  /\ UNCHANGED <<open, next, calls, timers, answers, lists, copies>>

-----------------------------------------------------------------------------
Init ==
  /\ open = None /\ next = 1 /\ calls = 0
  /\ timers = {} /\ answers = {}
  /\ lists = {}
  /\ copies = None /\ queue = None /\ shown = None

Applications ==
  \/ \E replaces \in {0} \cup Id, timed \in BOOLEAN : Notify(replaces, timed)
  \/ \E id \in Id : CloseByCall(id)

Viewers ==
  \/ \E id \in Id : Answer(id)
  \/ \E a \in answers : Dismiss(a) \/ Abandon(a)

Sessions ==
  \/ \E p \in Page : Read(p) \/ Register(p)
  \/ \E w \in Window : RegisterWindow(w)
  \/ \E s \in Session : Show(s) \/ Leave(s)

Timers == \E t \in timers : Expire(t)
Broadcasts == \E m \in lists : Broadcast(m)

Next == Applications \/ Viewers \/ Sessions \/ Timers \/ Broadcasts

Spec == Init /\ [][Next]_vars

\* A timer that sleeps wakes up, and a list that was built goes out, both without
\* waiting for anybody.  Nobody has to answer or to close anything.
FairSpec == Spec /\ WF_vars(Timers) /\ WF_vars(Broadcasts)

-----------------------------------------------------------------------------
(* Properties. *)

Lists == UNION {[D -> Call] : D \in SUBSET Id}

\* Every variable keeps its type, and no queue holds more than it can.
TypeOK ==
  /\ DOMAIN open \subseteq Id /\ open \in [DOMAIN open -> Notification]
  /\ next \in Nat \ {0} /\ calls \in 0 .. MaxCall
  /\ timers \subseteq Closer /\ answers \subseteq Closer
  /\ lists \subseteq [task : 1 .. MaxList, list : Lists, windows : BOOLEAN]
  /\ DOMAIN copies \subseteq Page /\ copies \in [DOMAIN copies -> Lists]
  /\ DOMAIN queue \subseteq Session /\ queue \in [DOMAIN queue -> Seq(Lists)]
  /\ \A s \in DOMAIN queue : Len(queue[s]) <= Capacity
  /\ shown \in [DOMAIN queue -> Lists]

\* A timer or an answer closes the notification it was made for and, as long as its
\* id stayed open, no other: a replacement is spared by everything that was under
\* way for what it replaced (rev, notify.rs:158, 177).
ReplacementsAreSpared ==
  [][\A c \in (timers \ timers') \cup (answers \ answers') :
       c.id \in DOMAIN open \ DOMAIN open' /\ open[c.id].life = c.life
         => open[c.id].call = c.call]_vars

\* A notification with a timeout does not stay for ever, however often its id was
\* replaced before.
TimedOnesEnd ==
  \A k \in Call :
    (\E id \in DOMAIN open : open[id].call = k /\ open[id].timed)
      ~> ~(\E id \in DOMAIN open : open[id].call = k)

\* A notification whose timeout is 0 stays until it is closed (notify.rs:39): no
\* expiry takes it away.
UntilClosed ==
  [][\A id \in DOMAIN open \ DOMAIN open' : ~open[id].timed => timers' = timers]_vars

\* A message is a snapshot, so a dropped one loses nothing (docs/desktop-api.md:353),
\* and the list is in the replay (docs/protocol.md:50): when nothing is under way, a
\* desktop page shows what is open.
PagesAgree ==
  lists = {} => \A p \in Page \cap DOMAIN queue : queue[p] = <<>> => shown[p] = Listed(open)
=============================================================================
