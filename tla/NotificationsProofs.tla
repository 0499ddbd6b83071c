------------------------- MODULE NotificationsProofs -------------------------
(* What holds of the notifications whatever the number of sessions, ids and  *)
(* calls, and however long a queue is.                                       *)
EXTENDS Notifications, TLAPS

-----------------------------------------------------------------------------
(* A map that loses a key. *)

\* Without k the other keys keep their values.
LEMMA WithoutMap ==
  ASSUME NEW f, NEW V, f \in [DOMAIN f -> V], NEW k
  PROVE  /\ DOMAIN Without(f, k) = DOMAIN f \ {k}
         /\ Without(f, k) \in [DOMAIN f \ {k} -> V]
         /\ \A i \in DOMAIN f \ {k} : Without(f, k)[i] = f[i]
  BY DEF Without

-----------------------------------------------------------------------------
(* Types. *)

OpenOK == DOMAIN open \subseteq Id /\ open \in [DOMAIN open -> Notification]
ListsOK == lists \subseteq [task : 1 .. MaxList, list : Lists, windows : BOOLEAN]
SessionsOK ==
  /\ DOMAIN copies \subseteq Page /\ copies \in [DOMAIN copies -> Lists]
  /\ DOMAIN queue \subseteq Session /\ queue \in [DOMAIN queue -> Seq(Lists)]
  /\ \A s \in DOMAIN queue : Len(queue[s]) <= Capacity
  /\ shown \in [DOMAIN queue -> Lists]

Typed ==
  /\ OpenOK /\ ListsOK /\ SessionsOK
  /\ next \in Nat \ {0} /\ calls \in 0 .. MaxCall
  /\ timers \subseteq Closer /\ answers \subseteq Closer

\* TypeOK, by the parts that change together
LEMMA TypeParts == TypeOK <=> Typed
  BY DEF TypeOK, Typed, OpenOK, ListsOK, SessionsOK

\* A list made from the open notifications is one a page may be sent.
LEMMA ListedIsList ==
  ASSUME NEW o, DOMAIN o \subseteq Id, o \in [DOMAIN o -> Notification]
  PROVE  Listed(o) \in Lists
  <1>1. Listed(o) \in [DOMAIN o -> Call]
    BY DEF Listed, Notification
  <1> QED
    BY <1>1 DEF Lists

\* Building a list adds one well-typed list to those under way.
LEMMA BuildType ==
  ASSUME ListsOK, NEW o, DOMAIN o \subseteq Id, o \in [DOMAIN o -> Notification], Build(o)
  PROVE  ListsOK'
  <1>1. Listed(o) \in Lists
    BY ListedIsList
  <1>2. PICK task \in 1 .. MaxList :
          lists' = lists \cup {[task |-> task, list |-> Listed(o), windows |-> FALSE]}
    BY DEF Build
  <1>3. [task |-> task, list |-> Listed(o), windows |-> FALSE]
          \in [task : 1 .. MaxList, list : Lists, windows : BOOLEAN]
    BY <1>1
  <1> QED
    BY <1>2, <1>3 DEF ListsOK

\* Taking a notification away leaves a well-typed map and a well-typed list.
LEMMA TakeType ==
  ASSUME OpenOK, ListsOK, NEW id, Take(id)
  PROVE  OpenOK' /\ ListsOK'
  <1>1. OpenOK'
    BY WithoutMap DEF OpenOK, Take
  <1> QED
    BY <1>1, BuildType DEF OpenOK, Take, Build

LEMMA TakeRevisionType ==
  ASSUME OpenOK, ListsOK, NEW id, NEW rev, TakeRevision(id, rev)
  PROVE  OpenOK' /\ ListsOK'
  <1>1. CASE Take(id)
    BY <1>1, TakeType
  <1>2. CASE UNCHANGED <<open, lists>>
    BY <1>2 DEF OpenOK, ListsOK
  <1> QED
    BY <1>1, <1>2 DEF TakeRevision

\* The queues of the sessions S, each with one more list where it fits.
LEMMA OfferedType ==
  ASSUME SessionsOK, NEW S, NEW list \in Lists, queue' = Offered(S, list),
         UNCHANGED <<copies, shown>>
  PROVE  SessionsOK'
  <1>1. DOMAIN queue' = DOMAIN queue
    BY DEF Offered
  <1>2. \A s \in DOMAIN queue : queue'[s] \in Seq(Lists) /\ Len(queue'[s]) <= Capacity
    <2>1. SUFFICES ASSUME NEW s \in DOMAIN queue
                   PROVE  queue'[s] \in Seq(Lists) /\ Len(queue'[s]) <= Capacity
      OBVIOUS
    <2>2. queue[s] \in Seq(Lists) /\ Len(queue[s]) <= Capacity
      BY DEF SessionsOK
    <2>3. CASE s \in S /\ Len(queue[s]) < Capacity
      <3>1. queue'[s] = Append(queue[s], list)
        BY <2>3 DEF Offered
      <3> QED
        BY <3>1, <2>2, <2>3, CapacityAssumption
    <2>4. CASE ~(s \in S /\ Len(queue[s]) < Capacity)
      BY <2>2, <2>4 DEF Offered
    <2> QED
      BY <2>3, <2>4
  <1>3. queue' \in [DOMAIN queue' -> Seq(Lists)]
    BY <1>1, <1>2 DEF Offered
  <1> QED
    BY <1>1, <1>2, <1>3 DEF SessionsOK

\* What sessions do keeps their queues and pages well typed.
LEMMA SessionsType ==
  ASSUME OpenOK, SessionsOK, Sessions
  PROVE  SessionsOK'
  <1>1. CASE \E p \in Page : Read(p)
    <2>1. PICK p \in Page : Read(p)
      BY <1>1
    <2>2. Listed(open) \in Lists
      BY ListedIsList DEF OpenOK
    <2> QED
      <3>1. copies' \in [DOMAIN copies \cup {p} -> Lists] /\ p \in Page
        BY <2>1, <2>2 DEF Read, SessionsOK, With
      <3> QED
        BY <2>1, <3>1 DEF Read, SessionsOK
  <1>2. CASE \E p \in Page : Register(p)
    <2>1. PICK p \in Page : Register(p)
      BY <1>2
    <2>2. p \in Session /\ copies[p] \in Lists /\ <<>> \in Seq(Lists)
      BY <2>1 DEF Register, SessionsOK, Session
    <2>3. DOMAIN copies' \subseteq Page /\ copies' \in [DOMAIN copies' -> Lists]
      BY <2>1 DEF Register, SessionsOK, Without
    <2>4. /\ DOMAIN queue' = DOMAIN queue \cup {p} /\ queue' \in [DOMAIN queue' -> Seq(Lists)]
          /\ queue'[p] = <<>> /\ \A s \in DOMAIN queue \ {p} : queue'[s] = queue[s]
      BY <2>1, <2>2 DEF Register, SessionsOK, With
    <2>5. shown' \in [DOMAIN queue \cup {p} -> Lists]
      BY <2>1, <2>2 DEF Register, SessionsOK, With
    <2> QED
      BY <2>2, <2>3, <2>4, <2>5, CapacityAssumption DEF SessionsOK
  <1>3. CASE \E w \in Window : RegisterWindow(w)
    <2>1. PICK w \in Window : RegisterWindow(w)
      BY <1>3
    <2>2. w \in Session /\ <<>> \in Seq(Lists)
      BY DEF Session
    <2>3. None \in Lists
      <3>1. None \in [{} -> Call] /\ {} \in SUBSET Id
        BY DEF None
      <3> QED
        BY <3>1 DEF Lists
    <2>4. /\ DOMAIN queue' = DOMAIN queue \cup {w} /\ queue' \in [DOMAIN queue' -> Seq(Lists)]
          /\ queue'[w] = <<>> /\ \A s \in DOMAIN queue \ {w} : queue'[s] = queue[s]
      BY <2>1, <2>2 DEF RegisterWindow, SessionsOK, With
    <2>5. shown' \in [DOMAIN queue \cup {w} -> Lists]
      BY <2>1, <2>3 DEF RegisterWindow, SessionsOK, With
    <2>6. UNCHANGED copies /\ Len(<<>>) = 0
      BY <2>1 DEF RegisterWindow
    <2>7. \A s \in DOMAIN queue' : Len(queue'[s]) <= Capacity
      BY <2>4, <2>6, CapacityAssumption DEF SessionsOK
    <2> QED
      BY <2>2, <2>4, <2>5, <2>6, <2>7 DEF SessionsOK
  <1>4. CASE \E s \in Session : Show(s)
    <2>1. PICK s \in Session : Show(s)
      BY <1>4
    <2>2. /\ s \in DOMAIN queue /\ queue[s] \in Seq(Lists) /\ queue[s] # <<>>
          /\ Len(queue[s]) <= Capacity
      BY <2>1 DEF Show, SessionsOK
    <2>3. /\ Head(queue[s]) \in Lists /\ Tail(queue[s]) \in Seq(Lists)
          /\ Len(Tail(queue[s])) <= Capacity
      BY <2>2, CapacityAssumption
    <2>4. /\ DOMAIN queue' = DOMAIN queue /\ queue' \in [DOMAIN queue' -> Seq(Lists)]
          /\ queue'[s] = Tail(queue[s]) /\ \A r \in DOMAIN queue \ {s} : queue'[r] = queue[r]
      BY <2>1, <2>2, <2>3 DEF Show, SessionsOK, With
    <2>5. shown' \in [DOMAIN queue -> Lists]
      <3>1. shown' \in [DOMAIN shown \cup {s} -> Lists]
        BY <2>1, <2>3 DEF Show, SessionsOK, With
      <3> QED
        BY <2>2, <3>1 DEF SessionsOK
    <2> QED
      BY <2>1, <2>2, <2>3, <2>4, <2>5 DEF SessionsOK, Show
  <1>5. CASE \E s \in Session : Leave(s)
    <2>1. PICK s \in Session : Leave(s)
      BY <1>5
    <2>2. /\ DOMAIN queue' = DOMAIN queue \ {s} /\ queue' \in [DOMAIN queue' -> Seq(Lists)]
          /\ \A r \in DOMAIN queue \ {s} : queue'[r] = queue[r]
      BY <2>1 DEF Leave, SessionsOK, Without
    <2>3. shown' \in [DOMAIN queue \ {s} -> Lists]
      BY <2>1 DEF Leave, SessionsOK, Without
    <2> QED
      BY <2>1, <2>2, <2>3 DEF SessionsOK, Leave
  <1> QED
    BY <1>1, <1>2, <1>3, <1>4, <1>5 DEF Sessions

\* Every step keeps the types.
LEMMA TypeStep == Typed /\ [Next]_vars => Typed'
  <1> SUFFICES ASSUME Typed, [Next]_vars
               PROVE  Typed'
    OBVIOUS
  <1> USE DEF Typed
  <1>1. CASE \E replaces \in {0} \cup Id, timed \in BOOLEAN : Notify(replaces, timed)
    <2>1. PICK replaces \in {0} \cup Id, timed \in BOOLEAN : Notify(replaces, timed)
      BY <1>1
    <2> DEFINE id == IF replaces = 0 THEN next ELSE replaces
               n == [rev |-> Revision(open, id), timed |-> timed, call |-> calls + 1,
                     life |-> IF id \in DOMAIN open THEN open[id].life ELSE calls + 1]
    <2>2. /\ calls < MaxCall /\ id <= MaxId
          /\ calls' = calls + 1
          /\ next' = IF replaces = 0 THEN next + 1 ELSE next
          /\ open' = With(open, id, n)
          /\ Build(open')
          /\ Arm(id, n)
          /\ UNCHANGED <<answers, copies, queue, shown>>
      BY <2>1 DEF Notify
    <2>3. id \in Id /\ calls' \in Call /\ calls' \in 0 .. MaxCall
      BY <2>2, BoundAssumption DEF Id, Call
    <2>4. n \in Notification
      <3>1. id \in DOMAIN open => open[id] \in Notification
        BY DEF OpenOK
      <3>2. Revision(open, id) \in Nat
        BY <3>1 DEF Revision, Notification
      <3> QED
        BY <2>2, <2>3, <3>1, <3>2 DEF Notification
    <2> HIDE DEF id, n
    <2>5. OpenOK'
      BY <2>2, <2>3, <2>4 DEF OpenOK, With
    <2>6. ListsOK'
      BY <2>2, <2>5, BuildType DEF OpenOK
    <2>7. timers' \subseteq Closer
      BY <2>2, <2>3, <2>4 DEF Arm, Closer, Notification
    <2> QED
      BY <2>2, <2>3, <2>5, <2>6, <2>7 DEF SessionsOK
  <1>2. CASE \E id \in Id : CloseByCall(id)
    BY <1>2, TakeType DEF CloseByCall, SessionsOK
  <1>3. CASE \E id \in Id : Answer(id)
    <2>1. PICK id \in Id : Answer(id)
      BY <1>3
    <2>2. id \in DOMAIN open /\ open[id] \in Notification
      BY <2>1 DEF Answer, OpenOK
    <2>3. answers' \subseteq Closer
      BY <2>1, <2>2 DEF Answer, Closer, Notification
    <2> QED
      BY <2>1, <2>3 DEF Answer, OpenOK, ListsOK, SessionsOK
  <1>4. CASE \E a \in answers : Dismiss(a)
    BY <1>4, TakeRevisionType DEF Dismiss, SessionsOK
  <1>5. CASE \E a \in answers : Abandon(a)
    BY <1>5 DEF Abandon, OpenOK, ListsOK, SessionsOK
  <1>6. CASE Sessions
    <2>1. UNCHANGED <<open, next, calls, timers, answers, lists>>
      BY <1>6 DEF Sessions, Read, Register, RegisterWindow, Show, Leave
    <2> QED
      BY <1>6, <2>1, SessionsType DEF OpenOK, ListsOK
  <1>7. CASE Timers
    BY <1>7, TakeRevisionType DEF Timers, Expire, SessionsOK
  <1>8. CASE Broadcasts
    <2>1. PICK m \in lists : Broadcast(m)
      BY <1>8 DEF Broadcasts
    <2>2. m \in [task : 1 .. MaxList, list : Lists, windows : BOOLEAN]
      BY DEF ListsOK
    <2>3. SessionsOK'
      BY <2>1, <2>2, OfferedType DEF Broadcast
    <2>4. ListsOK'
      BY <2>1, <2>2 DEF Broadcast, ListsOK
    <2> QED
      BY <2>1, <2>3, <2>4 DEF Broadcast, OpenOK
  <1>9. CASE UNCHANGED vars
    BY <1>9 DEF vars, OpenOK, ListsOK, SessionsOK
  <1> QED
    BY <1>1, <1>2, <1>3, <1>4, <1>5, <1>6, <1>7, <1>8, <1>9
       DEF Next, Applications, Viewers

\* Every reachable state is well typed, and no session's queue ever holds more than
\* its channel can.
THEOREM TypeCorrect == Spec => []TypeOK
  <1>1. Init => Typed
    BY BoundAssumption DEF Init, Typed, OpenOK, ListsOK, SessionsOK, None
  <1> QED
    BY <1>1, TypeStep, TypeParts, PTL DEF Spec

-----------------------------------------------------------------------------
(* Replacements are spared.  Within one life of an id revisions only grow, so *)
(* a timer or an answer of that life has the revision of the notification     *)
(* that is open only if it was made for it; and a life that begins is one     *)
(* that nothing under way has seen.                                           *)

LivesPast ==
  /\ \A id \in DOMAIN open : open[id].life <= calls
  /\ \A c \in timers \cup answers : c.life <= calls

RevisionsTell ==
  \A c \in timers \cup answers :
    c.id \in DOMAIN open /\ open[c.id].life = c.life =>
      /\ c.rev <= open[c.id].rev
      /\ c.rev = open[c.id].rev => c.call = open[c.id].call

Apart == LivesPast /\ RevisionsTell

\* Taking something away, and ending what was under way, cannot confuse the rest.
LEMMA ApartShrinks ==
  ASSUME TypeOK, Apart,
         timers' \subseteq timers, answers' \subseteq answers, UNCHANGED calls,
         DOMAIN open' \subseteq DOMAIN open, \A id \in DOMAIN open' : open'[id] = open[id]
  PROVE  Apart'
  BY DEF Apart, LivesPast, RevisionsTell

\* A revision is taken away only where it is open, and nothing else changes.
LEMMA TakeRevisionShrinks ==
  ASSUME TypeOK, NEW id, NEW rev, TakeRevision(id, rev)
  PROVE  /\ DOMAIN open' \subseteq DOMAIN open
         /\ \A i \in DOMAIN open' : open'[i] = open[i]
         /\ \A i \in DOMAIN open \ DOMAIN open' : i = id /\ open[i].rev = rev
  BY WithoutMap DEF TakeRevision, Take, TypeOK, Without

\* Every step keeps them apart.
LEMMA ApartStep == TypeOK /\ TypeOK' /\ Apart /\ [Next]_vars => Apart'
  <1> SUFFICES ASSUME TypeOK, TypeOK', Apart, [Next]_vars
               PROVE  Apart'
    OBVIOUS
  <1>1. CASE \E replaces \in {0} \cup Id, timed \in BOOLEAN : Notify(replaces, timed)
    <2>1. PICK replaces \in {0} \cup Id, timed \in BOOLEAN : Notify(replaces, timed)
      BY <1>1
    <2> DEFINE id == IF replaces = 0 THEN next ELSE replaces
               n == [rev |-> Revision(open, id), timed |-> timed, call |-> calls + 1,
                     life |-> IF id \in DOMAIN open THEN open[id].life ELSE calls + 1]
               armed == [id |-> id, rev |-> n.rev, call |-> n.call, life |-> n.life]
    <2>2. /\ calls' = calls + 1 /\ calls \in Nat
          /\ open' = With(open, id, n)
          /\ timers' \subseteq timers \cup {armed}
          /\ UNCHANGED answers
      BY <2>1, BoundAssumption DEF Notify, Arm, TypeOK
    <2>3. /\ DOMAIN open' = DOMAIN open \cup {id} /\ open'[id] = n
          /\ \A i \in DOMAIN open \ {id} : open'[i] = open[i]
      BY <2>2 DEF With
    <2>4. /\ n.call = calls + 1 /\ n.rev = Revision(open, id)
          /\ id \in DOMAIN open => n.life = open[id].life
          /\ id \notin DOMAIN open => n.life = calls + 1
      OBVIOUS
    <2>5. armed.id = id /\ armed.rev = n.rev /\ armed.call = n.call /\ armed.life = n.life
      OBVIOUS
    <2>6. /\ id \in DOMAIN open => n.rev = open[id].rev + 1
          /\ \A i \in DOMAIN open : open[i].rev \in Nat /\ open[i].life \in Nat
          /\ \A c \in timers \cup answers : c.rev \in Nat /\ c.life \in Nat
          /\ \A c \in timers' : c.rev \in Nat
      BY <2>4 DEF Revision, TypeOK, Notification, Closer, Call
    <2> HIDE DEF n, armed, id
    <2>7. LivesPast'
      BY <2>2, <2>3, <2>4, <2>5, <2>6 DEF Apart, LivesPast
    <2>8. ASSUME NEW c \in timers \cup answers, c.id \in DOMAIN open', open'[c.id].life = c.life
          PROVE  /\ c.rev <= open'[c.id].rev
                 /\ c.rev = open'[c.id].rev => c.call = open'[c.id].call
      <3>1. CASE c.id # id
        BY <2>3, <2>8, <3>1 DEF Apart, RevisionsTell
      <3>2. CASE c.id = id
        <4>1. id \in DOMAIN open
          BY <2>2, <2>3, <2>4, <2>6, <2>8, <3>2 DEF Apart, LivesPast
        <4>2. c.rev <= open[id].rev
          BY <2>3, <2>4, <2>8, <3>2, <4>1 DEF Apart, RevisionsTell
        <4> QED
          BY <2>3, <2>6, <3>2, <4>1, <4>2
      <3> QED
        BY <3>1, <3>2
    <2>9. armed \in timers' => armed.rev <= open'[armed.id].rev
                                /\ armed.call = open'[armed.id].call
      BY <2>3, <2>5, <2>6
    <2>10. RevisionsTell'
      BY <2>2, <2>8, <2>9 DEF RevisionsTell
    <2> QED
      BY <2>7, <2>10 DEF Apart
  <1>2. CASE \E id \in Id : CloseByCall(id)
    BY <1>2, ApartShrinks, WithoutMap DEF CloseByCall, Take, Without, TypeOK
  <1>3. CASE \E id \in Id : Answer(id)
    <2>1. PICK id \in Id : Answer(id)
      BY <1>3
    <2> DEFINE a == [id |-> id, rev |-> open[id].rev, call |-> open[id].call,
                     life |-> open[id].life]
    <2>2. /\ id \in DOMAIN open /\ answers' = answers \cup {a}
          /\ UNCHANGED <<open, calls, timers>>
      BY <2>1 DEF Answer
    <2>3. /\ a.id = id /\ a.rev = open[id].rev /\ a.call = open[id].call /\ a.life = open[id].life
          /\ open[id].rev \in Nat
      BY <2>2 DEF TypeOK, Notification
    <2> HIDE DEF a
    <2> QED
      BY <2>2, <2>3 DEF Apart, LivesPast, RevisionsTell
  <1>4. CASE \E a \in answers : Dismiss(a)
    BY <1>4, TakeRevisionShrinks, ApartShrinks DEF Dismiss
  <1>5. CASE \E a \in answers : Abandon(a)
    BY <1>5, ApartShrinks DEF Abandon
  <1>6. CASE Sessions
    <2>1. UNCHANGED <<open, calls, timers, answers>>
      BY <1>6 DEF Sessions, Read, Register, RegisterWindow, Show, Leave
    <2> QED
      BY <2>1, ApartShrinks
  <1>7. CASE Timers
    BY <1>7, TakeRevisionShrinks, ApartShrinks DEF Timers, Expire
  <1>8. CASE Broadcasts
    BY <1>8, ApartShrinks DEF Broadcasts, Broadcast
  <1>9. CASE UNCHANGED vars
    BY <1>9, ApartShrinks DEF vars
  <1> QED
    BY <1>1, <1>2, <1>3, <1>4, <1>5, <1>6, <1>7, <1>8, <1>9
       DEF Next, Applications, Viewers

SparedStep ==
  \A c \in (timers \ timers') \cup (answers \ answers') :
    c.id \in DOMAIN open \ DOMAIN open' /\ open[c.id].life = c.life
      => open[c.id].call = c.call

\* A timer or an answer never closes a replacement of what it was made for, whatever
\* replaces, closes and answers come in between, as long as the id stays open.
THEOREM ReplacementsSpared == Spec => ReplacementsAreSpared
  <1>1. Init => Apart
    BY DEF Init, None, Apart, LivesPast, RevisionsTell
  <1>2. TypeOK /\ Apart /\ [Next]_vars => [SparedStep]_vars
    <2> SUFFICES ASSUME TypeOK, Apart, Next
                 PROVE  SparedStep
      OBVIOUS
    <2>1. CASE \E c \in timers : Expire(c)
      <3>1. PICK c \in timers : Expire(c)
        BY <2>1
      <3>2. timers \ timers' \subseteq {c} /\ answers \ answers' = {}
        BY <3>1 DEF Expire
      <3>3. \A i \in DOMAIN open \ DOMAIN open' : i = c.id /\ open[i].rev = c.rev
        BY <3>1, TakeRevisionShrinks DEF Expire
      <3> QED
        BY <3>2, <3>3 DEF SparedStep, Apart, RevisionsTell
    <2>2. CASE \E c \in answers : Dismiss(c)
      <3>1. PICK c \in answers : Dismiss(c)
        BY <2>2
      <3>2. answers \ answers' \subseteq {c} /\ timers \ timers' = {}
        BY <3>1 DEF Dismiss
      <3>3. \A i \in DOMAIN open \ DOMAIN open' : i = c.id /\ open[i].rev = c.rev
        BY <3>1, TakeRevisionShrinks DEF Dismiss
      <3> QED
        BY <3>2, <3>3 DEF SparedStep, Apart, RevisionsTell
    <2>3. CASE \E a \in answers : Abandon(a)
      BY <2>3 DEF Abandon, SparedStep
    <2>4. CASE Applications \/ Sessions \/ Broadcasts \/ \E id \in Id : Answer(id)
      <3>1. timers \ timers' = {} /\ answers \ answers' = {}
        BY <2>4 DEF Applications, Notify, Arm, CloseByCall, Sessions, Read, Register,
                    RegisterWindow, Show, Leave, Broadcasts, Broadcast, Answer
      <3> QED
        BY <3>1 DEF SparedStep
    <2> QED
      BY <2>1, <2>2, <2>3, <2>4 DEF Next, Viewers, Timers
  <1> QED
    BY <1>1, <1>2, TypeCorrect, ApartStep, PTL DEF Spec, ReplacementsAreSpared, SparedStep
=============================================================================
