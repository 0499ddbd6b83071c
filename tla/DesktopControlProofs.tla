------------------------ MODULE DesktopControlProofs ------------------------
(***************************************************************************)
(* Theorems about DesktopControl, for every set of tokens and all bounds.  *)
(*                                                                         *)
(* UpdateController is the one place where sessions, participants,         *)
(* controller and input change together, so each invariant has a lemma     *)
(* about it and the actions are reduced to that lemma.                     *)
(***************************************************************************)
EXTENDS DesktopControl, TLAPS

USE TokenAssumption, BoundAssumption

-----------------------------------------------------------------------------
(* What the helpers leave of well-typed participants. *)

LEMMA ClearType ==
  ASSUME NEW p \in Participant, NEW o \in Outcome
  PROVE  Clear(p, o) \in Participant
  BY DEF Clear, Participant, NoRequest, Request, None

LEMMA ExpiredType ==
  ASSUME NEW P, ParticipantsOK(P)
  PROVE  ParticipantsOK(Expired(P)) /\ DOMAIN Expired(P) = DOMAIN P
  BY ClearType DEF ParticipantsOK, IsMap, Expired, Outcome

LEMMA EndedType ==
  ASSUME NEW P, ParticipantsOK(P)
  PROVE  ParticipantsOK(Ended(P)) /\ DOMAIN Ended(P) = DOMAIN P
  BY ClearType DEF ParticipantsOK, IsMap, Ended, Outcome

-----------------------------------------------------------------------------
(* The input lock keeps its types. *)

LEMMA TakeInputAwayType ==
  ASSUME InputOK, TakeInputAway
  PROVE  InputOK'
  BY DEF InputOK, TakeInputAway, ReleaseAll, Command

LEMMA SendInputType ==
  ASSUME InputOK, NEW src \in Source, NEW op \in {"press", "lift"}, SendInput(src, op)
  PROVE  InputOK'
  <1>1. [op |-> op, source |-> {src}] \in Command
    BY DEF Command
  <1>2. ReleaseAll \in Command
    BY DEF Command, ReleaseAll
  <1>3. (IF inputOwner \subseteq {src} THEN commands ELSE Append(commands, ReleaseAll)) \in Seq(Command)
    BY <1>2 DEF InputOK
  <1> QED
    BY <1>1, <1>3 DEF InputOK, SendInput

LEMMA ReleaseInputType ==
  ASSUME InputOK, NEW src, ReleaseInput(src)
  PROVE  InputOK'
  BY TakeInputAwayType DEF ReleaseInput, InputOK, input

LEMMA MoveInputType ==
  ASSUME InputOK, NEW a, NEW b, MoveInput(a, b)
  PROVE  InputOK'
  BY TakeInputAwayType DEF MoveInput, InputOK, input

LEMMA UpdateControllerType ==
  ASSUME SeatsOK, InputOK, NEW S, NEW P, NEW c,
         SessionsOK(S), ParticipantsOK(P), c \in {None} \cup SessionId,
         UpdateController(S, P, c)
  PROVE  SeatsOK' /\ InputOK'
  <1>1. InputOK'
    BY MoveInputType DEF UpdateController
  <1>2. sessions' = S /\ controller' = c /\ epoch' \in Nat
    BY DEF UpdateController, SeatsOK
  <1>3. participants' = P \/ participants' = Ended(P)
    BY DEF UpdateController
  <1>4. ParticipantsOK(participants')
    BY <1>3, EndedType
  <1>5. SessionsOK(sessions')
    BY <1>2
  <1> QED
    BY <1>1, <1>2, <1>4, <1>5 DEF SeatsOK, SessionsOK, ParticipantsOK, IsMap

LEMMA RepublishType ==
  ASSUME SeatsOK, InputOK, NEW P, ParticipantsOK(P), Republish(P)
  PROVE  SeatsOK' /\ InputOK'
  BY DEF Republish, SeatsOK, InputOK, input, SessionsOK, ParticipantsOK, IsMap

LEMMA RemoveViewersType ==
  ASSUME SeatsOK, InputOK, NEW removed, RemoveViewers(removed)
  PROVE  SeatsOK' /\ InputOK'
  <1> DEFINE S == [i \in DOMAIN sessions \ removed |-> sessions[i]]
             kept == {p \in DOMAIN participants : Remaining(S, p) # {}}
             able == {p \in kept : CanControl(S, p)}
             heirs == IF CanControl(S, controller) THEN {controller}
                      ELSE IF able = {} THEN {None}
                      ELSE {p \in able : \A q \in able : p <= q}
             seated(pick) == [p \in kept |-> [participants[p] EXCEPT !.active = pick[p]]]
  <1>1. PICK pick \in [kept -> DOMAIN S], c \in heirs : UpdateController(S, seated(pick), c)
    BY DEF RemoveViewers
  <1>2. SessionsOK(S)
    BY DEF SeatsOK, SessionsOK, IsMap
  <1>3. \A p \in kept : participants[p] \in Participant /\ pick[p] \in SessionId
    BY <1>2 DEF SeatsOK, ParticipantsOK, SessionsOK, IsMap
  <1>4. ParticipantsOK(seated(pick))
    BY <1>3 DEF ParticipantsOK, IsMap, Participant, SeatsOK
  <1>5. c \in {None} \cup SessionId
    BY DEF SeatsOK, ParticipantsOK, IsMap
  <1> HIDE DEF S, seated
  <1> QED
    BY <1>1, <1>2, <1>4, <1>5, UpdateControllerType

-----------------------------------------------------------------------------
(* Type correctness. *)

LEMMA TypeInit == Init => TypeOK
  BY DEF Init, TypeOK, SeatsOK, InputOK, OtherOK, SessionsOK, ParticipantsOK, Phase, NoEntries, IsMap, None

LEMMA ConnectType ==
  ASSUME TypeOK, NEW t \in Token, NEW join \in {None} \cup SessionId,
         NEW resume \in BOOLEAN, NEW pip \in BOOLEAN, Connect(t, join, resume, pip)
  PROVE  TypeOK'
  <1> USE DEF TypeOK
  <1> DEFINE id == nextSession
             p == IF join \in DOMAIN participants THEN join ELSE id
             own == [token |-> t, active |-> id, request |-> NoRequest, result |-> "none"]
             S == [i \in DOMAIN sessions \cup {id} |->
                     IF i = id THEN [token |-> t, participant |-> p, pip |-> pip] ELSE sessions[i]]
             P == [q \in DOMAIN participants \cup {p} |->
                     IF q # p THEN participants[q]
                     ELSE IF p = id THEN own
                     ELSE IF pip THEN [participants[p] EXCEPT !.active = id]
                     ELSE participants[p]]
             c == IF controller = None /\ HasControl(t) THEN p ELSE controller
  <1>1. id \in SessionId /\ p \in SessionId
    BY DEF Connect, OtherOK, SessionId, SeatsOK, ParticipantsOK, IsMap
  <1>2. OtherOK'
    BY <1>1 DEF Connect, OtherOK, Source, IsMap, SessionId
  <1>3. CASE UNCHANGED <<sessions, participants, controller, epoch, roster, input, serving>>
    BY <1>2, <1>3 DEF SeatsOK, InputOK, SessionsOK, ParticipantsOK, IsMap, input
  <1>4. CASE UpdateController(S, P, c)
    <2>1. SessionsOK(S)
      BY <1>1 DEF SeatsOK, SessionsOK, IsMap, Session
    <2>2. own \in Participant
      BY <1>1 DEF Participant, NoRequest, Request, Outcome, None
    <2>3. \A q \in DOMAIN participants : participants[q] \in Participant
      BY DEF SeatsOK, ParticipantsOK, IsMap
    <2>4. p # id => [participants[p] EXCEPT !.active = id] \in Participant /\ participants[p] \in Participant
      BY <1>1, <2>3 DEF Participant
    <2>5. \A q \in DOMAIN P : P[q] \in Participant
      BY <2>2, <2>3, <2>4
    <2>6. ParticipantsOK(P)
      BY <1>1, <2>5 DEF ParticipantsOK, IsMap, SeatsOK
    <2>7. c \in {None} \cup SessionId
      BY <1>1 DEF SeatsOK
    <2> HIDE DEF S, P, c
    <2> QED
      BY <1>2, <1>4, <2>1, <2>6, <2>7, UpdateControllerType
  <1> QED
    BY <1>3, <1>4 DEF Connect

LEMMA DisconnectType ==
  ASSUME TypeOK, NEW src \in serving, Disconnect(src)
  PROVE  TypeOK'
  <1>1. OtherOK'
    BY DEF TypeOK, OtherOK, Disconnect, IsMap
  <1> QED
    BY <1>1, RemoveViewersType DEF TypeOK, Disconnect

\* the actions on windows and sources, which leave the seats alone
LEMMA WindowType ==
  ASSUME TypeOK,
         \/ \E t \in Token : OpenWindow(t) \/ CloseWindows(t) \/ TokenEnds(t)
         \/ \E src \in serving : CloseWindow(src)
  PROVE  TypeOK'
  <1>1. SeatsOK' /\ InputOK'
    BY DEF OpenWindow, CloseWindows, CloseWindow, TokenEnds, Expire, Revoke, SweepToken, TypeOK, SeatsOK, InputOK, SessionsOK,
           ParticipantsOK, IsMap, seats, input
  <1>2. OtherOK'
    <2>1. CASE \E t \in Token : OpenWindow(t)
      BY <2>1 DEF OpenWindow, TypeOK, OtherOK, IsMap, Source, WindowId, seats
    <2>2. CASE \E t \in Token : CloseWindows(t) \/ TokenEnds(t)
      BY <2>2 DEF CloseWindows, TokenEnds, Expire, Revoke, SweepToken, TypeOK, OtherOK, IsMap, Phase, seats
    <2>3. CASE \E src \in serving : CloseWindow(src)
      BY <2>3 DEF CloseWindow, TypeOK, OtherOK, IsMap, seats
    <2> QED
      BY <2>1, <2>2, <2>3
  <1> QED
    BY <1>1, <1>2 DEF TypeOK

LEMMA ReleaseType ==
  ASSUME TypeOK,
         \/ \E src \in leaving : Leave(src)
         \/ \E t \in Token : Disown(t)
         \/ \E i \in SessionId : DesktopBlur(i)
         \/ \E w \in WindowId : WindowBlur(w)
  PROVE  TypeOK'
  <1>1. SeatsOK'
    BY DEF Leave, Disown, DesktopBlur, WindowBlur, InputFrame, TypeOK, SeatsOK, SessionsOK,
           ParticipantsOK, IsMap, seats
  <1>2. OtherOK'
    BY DEF Leave, Disown, DesktopBlur, WindowBlur, InputFrame, TypeOK, OtherOK, IsMap, Phase, seats
  <1>3. \/ \E src : ReleaseInput(src)
        \/ TakeInputAway
        \/ UNCHANGED input
    BY DEF Leave, Disown, DesktopBlur, WindowBlur
  <1>4. InputOK'
    BY <1>3, ReleaseInputType, TakeInputAwayType DEF TypeOK, InputOK, input
  <1> QED
    BY <1>1, <1>2, <1>4 DEF TypeOK

LEMMA TypingType ==
  ASSUME TypeOK, NEW op \in {"press", "lift"},
         \/ \E i \in SessionId : DesktopInput(i, op)
         \/ \E w \in WindowId : WindowInput(w, op)
         \/ \E t \in Token : ApiInput(t, op)
  PROVE  TypeOK'
  <1>1. SeatsOK' /\ OtherOK'
    BY DEF DesktopInput, WindowInput, ApiInput, InputFrame, TypeOK, SeatsOK, SessionsOK,
           ParticipantsOK, OtherOK, IsMap, seats
  <1>2. \E src \in Source : SendInput(src, op)
    BY DEF DesktopInput, WindowInput, ApiInput, Source, TypeOK, SeatsOK, SessionsOK, OtherOK, IsMap,
           Session, Admitted
  <1>3. InputOK'
    BY <1>2, SendInputType DEF TypeOK
  <1> QED
    BY <1>1, <1>3 DEF TypeOK

LEMMA UnseatType ==
  ASSUME TypeOK, NEW t \in Token, Unseat(t)
  PROVE  TypeOK'
  <1>1. OtherOK'
    BY DEF TypeOK, OtherOK, Unseat, Phase, IsMap
  <1> QED
    BY <1>1, RemoveViewersType DEF TypeOK, Unseat

LEMMA ApplyType == TypeOK /\ Apply => TypeOK'
  <1> SUFFICES ASSUME TypeOK, Apply PROVE TypeOK'
    OBVIOUS
  <1>1. Head(commands) \in Command /\ Tail(commands) \in Seq(Command)
    BY DEF Apply, TypeOK, InputOK
  <1>2. SeatsOK' /\ InputOK'
    BY <1>1 DEF Apply, TypeOK, SeatsOK, InputOK, SessionsOK, ParticipantsOK, IsMap, seats
  <1>3. held' \subseteq Source
    BY <1>1 DEF Apply, TypeOK, OtherOK, Command
  <1>4. OtherOK'
    BY <1>3 DEF Apply, TypeOK, OtherOK, IsMap, seats
  <1> QED
    BY <1>2, <1>4 DEF TypeOK

\* what a control message does to the seats and the input is one of two things
LEMMA NegotiationShape ==
  ASSUME TypeOK, NEW i \in SessionId,
         \/ TakeControl(i) \/ RequestControl(i)
         \/ \E target \in SessionId : Handoff(i, target)
         \/ \E request \in 1 .. nextRequest - 1, e \in 0 .. epoch :
              \/ CancelControl(i, request, e)
              \/ \E target \in SessionId, approve \in BOOLEAN : DecideControl(i, target, request, e, approve)
  PROVE  /\ \/ \E P, c : ParticipantsOK(P) /\ c \in SessionId /\ UpdateController(sessions, P, c)
            \/ \E P : ParticipantsOK(P) /\ Republish(P)
         /\ nextRequest' \in 1 .. MaxRequest + 1
         /\ ControlFrame
  <1> DEFINE X == Expired(participants)
  <1>1. /\ ParticipantsOK(participants) /\ ParticipantsOK(X)
        /\ DOMAIN X = DOMAIN participants
        /\ nextRequest \in 1 .. MaxRequest + 1
    BY ExpiredType DEF TypeOK, SeatsOK, OtherOK
  <1>2. i \in DOMAIN sessions => sessions[i].participant \in SessionId
    BY DEF TypeOK, SeatsOK, SessionsOK, IsMap, Session
  <1>3. \A p \in DOMAIN X, o \in Outcome : ParticipantsOK([X EXCEPT ![p] = Clear(@, o)])
    <2> SUFFICES ASSUME NEW p \in DOMAIN X, NEW o \in Outcome
                 PROVE  ParticipantsOK([X EXCEPT ![p] = Clear(@, o)])
      OBVIOUS
    <2>1. X[p] \in Participant
      BY <1>1 DEF ParticipantsOK, IsMap
    <2>2. Clear(X[p], o) \in Participant
      BY <2>1, ClearType
    <2> HIDE DEF X
    <2> QED
      BY <1>1, <2>2 DEF ParticipantsOK, IsMap
  <1>4. CASE TakeControl(i)
    BY <1>1, <1>2, <1>4 DEF TakeControl, Admitted
  <1>5. CASE \E target \in SessionId : Handoff(i, target)
    BY <1>1, <1>5 DEF Handoff
  <1>6. CASE RequestControl(i)
    <2> DEFINE p == sessions[i].participant
               asked == [id |-> nextRequest, epoch |-> epoch, overdue |-> FALSE]
    <2>1. CASE Republish(X) /\ UNCHANGED nextRequest
      BY <1>1, <1>6, <2>1 DEF RequestControl
    <2>2. CASE UpdateController(sessions, X, p) /\ UNCHANGED nextRequest
      BY <1>1, <1>2, <1>6, <2>2 DEF RequestControl, Admitted
    <2>3. CASE /\ Republish([X EXCEPT ![p].request = asked, ![p].result = "none"])
               /\ nextRequest' = nextRequest + 1
      <3>1. asked \in Request
        BY <1>1 DEF Request, TypeOK, SeatsOK
      <3>2. ParticipantsOK([X EXCEPT ![p].request = asked, ![p].result = "none"])
        <4> HIDE DEF X, asked
        <4> QED
          BY <1>1, <3>1 DEF ParticipantsOK, IsMap, Participant, Outcome
      <3>3. nextRequest' \in 1 .. MaxRequest + 1
        BY <1>1, <1>6, <2>3 DEF RequestControl
      <3> QED
        BY <1>6, <2>3, <3>2, <3>3 DEF RequestControl
    <2> QED
      BY <1>6, <2>1, <2>2, <2>3 DEF RequestControl
  <1>7. ASSUME NEW request \in 1 .. nextRequest - 1, NEW e \in 0 .. epoch, CancelControl(i, request, e)
        PROVE  /\ \E P : ParticipantsOK(P) /\ Republish(P)
               /\ UNCHANGED nextRequest /\ ControlFrame
    BY <1>1, <1>3, <1>7 DEF CancelControl, Outcome
  <1>8. ASSUME NEW request \in 1 .. nextRequest - 1, NEW e \in 0 .. epoch,
               NEW target \in SessionId, NEW approve \in BOOLEAN,
               DecideControl(i, target, request, e, approve)
        PROVE  /\ \/ \E P, c : ParticipantsOK(P) /\ c \in SessionId /\ UpdateController(sessions, P, c)
                  \/ \E P : ParticipantsOK(P) /\ Republish(P)
               /\ UNCHANGED nextRequest /\ ControlFrame
    BY <1>1, <1>3, <1>8 DEF DecideControl, Outcome
  <1> QED
    BY <1>1, <1>4, <1>5, <1>6, <1>7, <1>8

LEMMA NegotiationType ==
  ASSUME TypeOK, Negotiation
  PROVE  TypeOK'
  <1>1. CASE \E p \in SessionId : Elapse(p)
    <2>1. PICK p \in SessionId : Elapse(p)
      BY <1>1
    <2>2. participants[p] \in Participant /\ participants[p].request \in Request
      BY <2>1 DEF Elapse, TypeOK, SeatsOK, ParticipantsOK, IsMap, Participant
    <2>3. ParticipantsOK(participants')
      BY <2>1, <2>2 DEF Elapse, TypeOK, SeatsOK, ParticipantsOK, IsMap, Participant, Request
    <2> QED
      BY <2>1, <2>3 DEF Elapse, TypeOK, SeatsOK, InputOK, OtherOK, SessionsOK, IsMap, input
  <1>2. CASE Sweep
    <2>1. SeatsOK' /\ InputOK'
      BY <1>2, ExpiredType, RepublishType DEF Sweep, TypeOK, SeatsOK
    <2> QED
      BY <1>2, <2>1 DEF Sweep, TypeOK, OtherOK, ControlFrame, IsMap
  <1>3. ASSUME /\ \/ \E P, c : ParticipantsOK(P) /\ c \in SessionId /\ UpdateController(sessions, P, c)
                  \/ \E P : ParticipantsOK(P) /\ Republish(P)
               /\ nextRequest' \in 1 .. MaxRequest + 1
               /\ ControlFrame
        PROVE  TypeOK'
    <2>1. SeatsOK' /\ InputOK'
      BY <1>3, UpdateControllerType, RepublishType DEF TypeOK, SeatsOK
    <2>2. OtherOK'
      BY <1>3 DEF TypeOK, OtherOK, ControlFrame, IsMap
    <2> QED
      BY <2>1, <2>2 DEF TypeOK
  <1> QED
    BY <1>1, <1>2, <1>3, NegotiationShape DEF Negotiation

LEMMA TypeStutter == TypeOK /\ UNCHANGED vars => TypeOK'
  BY DEF vars, seats, input, TypeOK, SeatsOK, InputOK, OtherOK, SessionsOK, ParticipantsOK, IsMap

\* Every step keeps every variable in its type.
LEMMA TypeNext == TypeOK /\ [Next]_vars => TypeOK'
  <1> SUFFICES ASSUME TypeOK, Next PROVE TypeOK'
    BY TypeStutter
  <1>1. CASE Registration
    BY <1>1, ConnectType, WindowType, DisconnectType, ReleaseType DEF Registration
  <1>2. CASE Negotiation
    BY <1>2, NegotiationType
  <1>3. CASE Typing
    BY <1>3, TypingType, ReleaseType DEF Typing
  <1>4. CASE Retirement
    BY <1>4, WindowType, UnseatType, ReleaseType DEF Retirement, Cleanup
  <1>5. CASE Apply
    BY <1>5, ApplyType
  <1> QED
    BY <1>1, <1>2, <1>3, <1>4, <1>5 DEF Next

\* The Viewers record, the input owner and the channel to the compositor hold
\* values of their types in every reachable state.
THEOREM TypeCorrect == Spec => []TypeOK
  BY TypeInit, TypeNext, PTL DEF Spec

-----------------------------------------------------------------------------
(* Pending requests and the published roster.                               *)
(*                                                                          *)
(* A handler that installs participants carries over only requests that     *)
(* were pending before; if it changes the controller, Ended leaves none.    *)

Carried(P) ==
  \A p \in DOMAIN P : Pending(P[p]) =>
    p \in DOMAIN participants /\ P[p].request = participants[p].request

LEMMA ClearPending ==
  ASSUME NEW p \in Participant, NEW o
  PROVE  ~Pending(Clear(p, o))
  BY DEF Pending, Clear, NoRequest, Participant, None

LEMMA ExpiredCarries ==
  ASSUME TypeOK
  PROVE  Carried(Expired(participants)) /\ Carried(participants)
  BY ClearPending DEF Carried, Expired, TypeOK, SeatsOK, ParticipantsOK, IsMap

LEMMA ClearCarries ==
  ASSUME NEW P, ParticipantsOK(P), Carried(P), NEW p \in DOMAIN P, NEW o
  PROVE  Carried([P EXCEPT ![p] = Clear(@, o)])
  <1>1. P[p] \in Participant
    BY DEF ParticipantsOK, IsMap
  <1> QED
    BY <1>1, ClearPending DEF Carried

LEMMA EndedNotPending ==
  ASSUME NEW P, ParticipantsOK(P)
  PROVE  \A p \in DOMAIN Ended(P) : ~Pending(Ended(P)[p])
  BY ClearPending DEF Ended, ParticipantsOK, IsMap

\* the two invariants together, as one predicate of the state
Announced == RequestsAreCurrent /\ RosterIsCurrent

LEMMA UpdateControllerAnnounces ==
  ASSUME Announced, NEW S, NEW P, NEW c, ParticipantsOK(P), Carried(P), UpdateController(S, P, c)
  PROVE  Announced'
  <1>1. RosterIsCurrent'
    BY DEF UpdateController, RosterIsCurrent
  <1>2. CASE c = controller
    BY <1>1, <1>2 DEF Announced, RequestsAreCurrent, UpdateController, Carried, Pending
  <1>3. CASE c # controller
    <2>1. \A p \in DOMAIN participants' : ~Pending(participants'[p])
      BY <1>3, EndedNotPending DEF UpdateController
    <2> QED
      BY <1>1, <2>1 DEF Announced, RequestsAreCurrent, Pending
  <1> QED
    BY <1>2, <1>3

LEMMA RepublishAnnounces ==
  ASSUME Announced, NEW P, Republish(P),
         \A p \in DOMAIN P : Pending(P[p]) =>
           \/ p \in DOMAIN participants /\ P[p].request = participants[p].request
           \/ P[p].request.epoch = epoch /\ p # controller /\ controller # None
  PROVE  Announced'
  <1>1. RosterIsCurrent'
    BY DEF Republish, RosterIsCurrent
  <1>2. RequestsAreCurrent'
    BY DEF Announced, RequestsAreCurrent, Republish, Pending
  <1> QED
    BY <1>1, <1>2 DEF Announced

LEMMA ElapseAnnounces ==
  ASSUME TypeOK, Announced, NEW p \in SessionId, Elapse(p)
  PROVE  Announced'
  <1>1. /\ DOMAIN participants' = DOMAIN participants
        /\ \A q \in DOMAIN participants :
             /\ participants'[q].request.id = participants[q].request.id
             /\ participants'[q].request.epoch = participants[q].request.epoch
             /\ participants'[q].result = participants[q].result
    BY DEF Elapse, TypeOK, SeatsOK, ParticipantsOK, IsMap, Participant, Request
  <1>2. UNCHANGED <<controller, epoch, roster>>
    BY DEF Elapse
  <1>3. RosterOf(participants', controller, epoch) = RosterOf(participants, controller, epoch)
    BY <1>1 DEF RosterOf
  <1>4. RosterIsCurrent'
    BY <1>2, <1>3 DEF Announced, RosterIsCurrent
  <1>5. RequestsAreCurrent'
    BY <1>1, <1>2 DEF Announced, RequestsAreCurrent, Pending
  <1> QED
    BY <1>4, <1>5 DEF Announced

LEMMA RemoveViewersAnnounces ==
  ASSUME TypeOK, Announced, NEW removed, RemoveViewers(removed)
  PROVE  Announced'
  <1> DEFINE S == [i \in DOMAIN sessions \ removed |-> sessions[i]]
             kept == {p \in DOMAIN participants : Remaining(S, p) # {}}
             able == {p \in kept : CanControl(S, p)}
             heirs == IF CanControl(S, controller) THEN {controller}
                      ELSE IF able = {} THEN {None}
                      ELSE {p \in able : \A q \in able : p <= q}
             seated(pick) == [p \in kept |-> [participants[p] EXCEPT !.active = pick[p]]]
  <1>1. PICK pick \in [kept -> DOMAIN S], c \in heirs : UpdateController(S, seated(pick), c)
    BY DEF RemoveViewers
  <1>2. \A p \in kept : participants[p] \in Participant /\ pick[p] \in SessionId
    BY DEF TypeOK, SeatsOK, ParticipantsOK, SessionsOK, IsMap
  <1>3. ParticipantsOK(seated(pick))
    BY <1>2 DEF ParticipantsOK, IsMap, Participant, TypeOK, SeatsOK
  <1>4. Carried(seated(pick))
    BY <1>2 DEF Carried, Participant, Pending
  <1> HIDE DEF S, seated
  <1> QED
    BY <1>1, <1>3, <1>4, UpdateControllerAnnounces

LEMMA ConnectAnnounces ==
  ASSUME TypeOK, Announced, NEW t \in Token, NEW join \in {None} \cup SessionId,
         NEW resume \in BOOLEAN, NEW pip \in BOOLEAN, Connect(t, join, resume, pip)
  PROVE  Announced'
  <1> DEFINE id == nextSession
             p == IF join \in DOMAIN participants THEN join ELSE id
             own == [token |-> t, active |-> id, request |-> NoRequest, result |-> "none"]
             P == [q \in DOMAIN participants \cup {p} |->
                     IF q # p THEN participants[q]
                     ELSE IF p = id THEN own
                     ELSE IF pip THEN [participants[p] EXCEPT !.active = id]
                     ELSE participants[p]]
  <1>1. CASE UNCHANGED <<sessions, participants, controller, epoch, roster, input, serving>>
    BY <1>1 DEF Announced, RequestsAreCurrent, RosterIsCurrent
  <1>2. ASSUME NEW S, NEW c, UpdateController(S, P, c)
        PROVE  Announced'
    <2>1. \A q \in DOMAIN participants : participants[q] \in Participant
      BY DEF TypeOK, SeatsOK, ParticipantsOK, IsMap
    <2>2. id \in SessionId /\ p \in SessionId
      BY DEF Connect, TypeOK, OtherOK, SessionId, SeatsOK, ParticipantsOK, IsMap
    <2>3. own \in Participant /\ ~Pending(own)
      BY <2>2 DEF Participant, NoRequest, Request, Outcome, None, Pending
    <2>4. p # id => /\ p \in DOMAIN participants
                    /\ [participants[p] EXCEPT !.active = id] \in Participant
                    /\ [participants[p] EXCEPT !.active = id].request = participants[p].request
      BY <2>1, <2>2 DEF Participant
    <2>5. \A q \in DOMAIN P : P[q] \in Participant
      BY <2>1, <2>3, <2>4
    <2>6. ParticipantsOK(P)
      BY <2>2, <2>5 DEF ParticipantsOK, IsMap, TypeOK, SeatsOK
    <2>7. Carried(P)
      BY <2>3, <2>4 DEF Carried, Pending
    <2> HIDE DEF P
    <2> QED
      BY <1>2, <2>6, <2>7, UpdateControllerAnnounces
  <1> QED
    BY <1>1, <1>2 DEF Connect

LEMMA NegotiationAnnounces ==
  ASSUME TypeOK, Announced, Negotiation
  PROVE  Announced'
  <1> DEFINE X == Expired(participants)
  <1>1. /\ ParticipantsOK(participants) /\ ParticipantsOK(X) /\ DOMAIN X = DOMAIN participants
        /\ Carried(participants) /\ Carried(X)
    BY ExpiredType, ExpiredCarries DEF TypeOK, SeatsOK
  <1>2. \A p \in DOMAIN X, o \in Outcome :
          /\ ParticipantsOK([X EXCEPT ![p] = Clear(@, o)])
          /\ Carried([X EXCEPT ![p] = Clear(@, o)])
    <2> SUFFICES ASSUME NEW p \in DOMAIN X, NEW o \in Outcome
                 PROVE  /\ ParticipantsOK([X EXCEPT ![p] = Clear(@, o)])
                        /\ Carried([X EXCEPT ![p] = Clear(@, o)])
      OBVIOUS
    <2>1. Clear(X[p], o) \in Participant
      BY <1>1, ClearType DEF ParticipantsOK, IsMap
    <2> HIDE DEF X
    <2> QED
      BY <1>1, <2>1, ClearCarries DEF ParticipantsOK, IsMap
  <1>3. ASSUME NEW P, Carried(P), Republish(P)
        PROVE  Announced'
    BY <1>3, RepublishAnnounces DEF Carried
  <1>4. ASSUME NEW p \in SessionId, Elapse(p)
        PROVE  Announced'
    BY <1>4, ElapseAnnounces
  <1>5. CASE Sweep
    BY <1>1, <1>3, <1>5 DEF Sweep
  <1>6. ASSUME NEW i \in SessionId, TakeControl(i)
        PROVE  Announced'
    BY <1>1, <1>6, UpdateControllerAnnounces DEF TakeControl
  <1>7. ASSUME NEW i \in SessionId, NEW target \in SessionId, Handoff(i, target)
        PROVE  Announced'
    BY <1>1, <1>7, UpdateControllerAnnounces DEF Handoff
  <1>8. ASSUME NEW i \in SessionId, RequestControl(i)
        PROVE  Announced'
    <2> DEFINE p == sessions[i].participant
               asked == [id |-> nextRequest, epoch |-> epoch, overdue |-> FALSE]
               Y == [X EXCEPT ![p].request = asked, ![p].result = "none"]
    <2>1. CASE Republish(X)
      BY <1>1, <1>3, <2>1
    <2>2. CASE UpdateController(sessions, X, p)
      BY <1>1, <2>2, UpdateControllerAnnounces
    <2>3. CASE Republish(Y) /\ controller # p /\ controller # None
      <3>1. \A q \in DOMAIN Y : q # p => Y[q] = X[q]
        BY DEF X
      <3>2. p \in DOMAIN X => Y[p].request = asked
        <4>1. p \in DOMAIN X => X[p] \in Participant
          BY <1>1 DEF ParticipantsOK, IsMap
        <4> HIDE DEF X, asked
        <4> QED
          BY <4>1 DEF Participant
      <3>3. DOMAIN Y = DOMAIN X /\ asked.epoch = epoch
        OBVIOUS
      <3> HIDE DEF Y, asked, X
      <3> QED
        BY <1>1, <2>3, <3>1, <3>2, <3>3, RepublishAnnounces DEF Carried, Pending
    <2> QED
      BY <1>8, <2>1, <2>2, <2>3 DEF RequestControl
  <1>9. ASSUME NEW i \in SessionId, NEW request, NEW e, CancelControl(i, request, e)
        PROVE  Announced'
    BY <1>1, <1>2, <1>3, <1>9 DEF CancelControl, Outcome
  <1>10. ASSUME NEW i \in SessionId, NEW request, NEW e, NEW target, NEW approve \in BOOLEAN,
                DecideControl(i, target, request, e, approve)
         PROVE  Announced'
    BY <1>1, <1>2, <1>3, <1>10, UpdateControllerAnnounces DEF DecideControl, Outcome
  <1> QED
    BY <1>4, <1>5, <1>6, <1>7, <1>8, <1>9, <1>10 DEF Negotiation

LEMMA UntouchedAnnounces ==
  ASSUME Announced, UNCHANGED <<participants, controller, epoch, roster>>
  PROVE  Announced'
  BY DEF Announced, RequestsAreCurrent, RosterIsCurrent, Pending

LEMMA AnnouncedNext == TypeOK /\ Announced /\ [Next]_vars => Announced'
  <1> SUFFICES ASSUME TypeOK, Announced, [Next]_vars PROVE Announced'
    OBVIOUS
  <1>1. CASE UNCHANGED vars
    BY <1>1, UntouchedAnnounces DEF vars, seats
  <1>2. CASE Registration
    <2>1. ASSUME NEW src, Disconnect(src) PROVE Announced'
      BY <2>1, RemoveViewersAnnounces DEF Disconnect
    <2>2. ASSUME NEW t, OpenWindow(t) PROVE Announced'
      BY <2>2, UntouchedAnnounces DEF OpenWindow, seats
    <2>3. ASSUME NEW src, CloseWindow(src) \/ Leave(src) PROVE Announced'
      BY <2>3, UntouchedAnnounces DEF CloseWindow, Leave, seats
    <2> QED
      BY <1>2, <2>1, <2>2, <2>3, ConnectAnnounces DEF Registration
  <1>3. CASE Negotiation
    BY <1>3, NegotiationAnnounces
  <1>4. CASE Typing
    BY <1>4, UntouchedAnnounces
       DEF Typing, DesktopInput, DesktopBlur, WindowInput, WindowBlur, ApiInput, InputFrame, seats
  <1>5. CASE Retirement
    <2>1. ASSUME NEW t, Unseat(t) PROVE Announced'
      BY <2>1, RemoveViewersAnnounces DEF Unseat
    <2>2. ASSUME NEW t, TokenEnds(t) \/ CloseWindows(t) \/ Disown(t) PROVE Announced'
      BY <2>2, UntouchedAnnounces DEF TokenEnds, Expire, Revoke, SweepToken, CloseWindows, Disown, seats
    <2> QED
      BY <1>5, <2>1, <2>2 DEF Retirement, Cleanup
  <1>6. CASE Apply
    BY <1>6, UntouchedAnnounces DEF Apply, seats
  <1> QED
    BY <1>1, <1>2, <1>3, <1>4, <1>5, <1>6 DEF Next

LEMMA AnnouncedInit == Init => Announced
  BY DEF Init, Announced, RequestsAreCurrent, RosterIsCurrent, NoEntries

\* A request is only ever pending against the controller it was made to, at the
\* epoch it was made in: a decision on it can never reach a later controller.
THEOREM RequestsStayCurrent == Spec => []RequestsAreCurrent
  <1>1. Announced => RequestsAreCurrent
    BY DEF Announced
  <1> QED
    BY <1>1, TypeInit, TypeNext, AnnouncedInit, AnnouncedNext, PTL DEF Spec

\* The roster the pages hold is the state of the controller, the epoch and the
\* requests: no handler changes one of them without publishing.
THEOREM RosterStaysCurrent == Spec => []RosterIsCurrent
  <1>1. Announced => RosterIsCurrent
    BY DEF Announced
  <1> QED
    BY <1>1, TypeInit, TypeNext, AnnouncedInit, AnnouncedNext, PTL DEF Spec

-----------------------------------------------------------------------------
(* Sessions and participants agree, and somebody holds the control.         *)

Consistent(S, P, n) ==
  /\ \A i \in DOMAIN S : Live(S[i].token) =>
       S[i].participant \in DOMAIN P /\ P[S[i].participant].token = S[i].token
  /\ \A p \in DOMAIN P : P[p].active \in DOMAIN S /\ S[P[p].active].participant = p
  /\ \A i \in DOMAIN S : i < n /\ S[i].participant < n
  /\ \A p \in DOMAIN P : p < n

HeldBy(S, P, c) ==
  /\ c = None => \A p \in SessionId : ~CanControl(S, p)
  /\ c # None => c \in DOMAIN P

\* the two invariants together
Seated == SeatsConsistent /\ ControlIsHeld

LEMMA SeatedParts ==
  Seated <=> Consistent(sessions, participants, nextSession) /\ HeldBy(sessions, participants, controller)
  BY DEF Seated, SeatsConsistent, ControlIsHeld, Consistent, HeldBy

\* ending a request moves nobody
LEMMA ClearSeat ==
  ASSUME NEW p \in Participant, NEW o
  PROVE  Clear(p, o).active = p.active /\ Clear(p, o).token = p.token
  BY DEF Clear, Participant

LEMMA EndedSeats ==
  ASSUME NEW P, ParticipantsOK(P)
  PROVE  /\ DOMAIN Ended(P) = DOMAIN P
         /\ \A p \in DOMAIN P : Ended(P)[p].active = P[p].active /\ Ended(P)[p].token = P[p].token
         /\ DOMAIN Expired(P) = DOMAIN P
         /\ \A p \in DOMAIN P : Expired(P)[p].active = P[p].active /\ Expired(P)[p].token = P[p].token
  BY ClearSeat DEF Ended, Expired, ParticipantsOK, IsMap

LEMMA UpdateControllerSeats ==
  ASSUME NEW S, NEW P, NEW c, SessionsOK(S), ParticipantsOK(P), UpdateController(S, P, c),
         Consistent(S, P, nextSession'), HeldBy(S, P, c),
         \A t : Live(t)' <=> Live(t)
  PROVE  Seated'
  <1>1. /\ sessions' = S /\ controller' = c /\ DOMAIN participants' = DOMAIN P
        /\ \A p \in DOMAIN P : /\ participants'[p].active = P[p].active
                               /\ participants'[p].token = P[p].token
    BY EndedSeats DEF UpdateController
  <1>2. SeatsConsistent'
    BY <1>1 DEF Consistent, SeatsConsistent, SessionsOK, IsMap
  <1>3. ControlIsHeld'
    BY <1>1 DEF HeldBy, ControlIsHeld, CanControl, HasControl
  <1> QED
    BY <1>2, <1>3 DEF Seated

\* a message leaves the seats as they are, except for their requests
SameSeats(P) ==
  /\ DOMAIN P = DOMAIN participants
  /\ \A p \in DOMAIN P : P[p].active = participants[p].active /\ P[p].token = participants[p].token

LEMMA SameSeatsConsistent ==
  ASSUME Seated, NEW P, SameSeats(P)
  PROVE  Consistent(sessions, P, nextSession)
  BY SeatedParts DEF Consistent, SameSeats

LEMMA RepublishSeats ==
  ASSUME Seated, NEW P, SameSeats(P), Republish(P), UNCHANGED <<phase, nextSession>>
  PROVE  Seated'
  <1>1. SeatsConsistent'
    BY SeatedParts DEF Consistent, SameSeats, SeatsConsistent, Republish, Live
  <1>2. ControlIsHeld'
    BY SeatedParts DEF HeldBy, SameSeats, ControlIsHeld, Republish, CanControl, HasControl, Live
  <1> QED
    BY <1>1, <1>2 DEF Seated

\* whoever can control has a participant to take the control with
LEMMA ControllersArePresent ==
  ASSUME Seated, NEW p, CanControl(sessions, p)
  PROVE  p \in DOMAIN participants
  BY DEF Seated, SeatsConsistent, CanControl, HasControl

LEMMA RemoveViewersSeats ==
  ASSUME TypeOK, Seated, NEW removed, RemoveViewers(removed), UNCHANGED nextSession,
         \A t : Live(t)' <=> Live(t)
  PROVE  Seated'
  <1> DEFINE S == [i \in DOMAIN sessions \ removed |-> sessions[i]]
             kept == {p \in DOMAIN participants : Remaining(S, p) # {}}
             able == {p \in kept : CanControl(S, p)}
             heirs == IF CanControl(S, controller) THEN {controller}
                      ELSE IF able = {} THEN {None}
                      ELSE {p \in able : \A q \in able : p <= q}
             seated(pick) == [p \in kept |-> [participants[p] EXCEPT !.active = pick[p]]]
  <1>1. PICK pick \in [kept -> DOMAIN S], c \in heirs :
          /\ \A p \in kept : pick[p] \in Remaining(S, p)
          /\ UpdateController(S, seated(pick), c)
    BY DEF RemoveViewers
  <1>2. /\ SessionsOK(S)
        /\ \A p \in kept : participants[p] \in Participant /\ pick[p] \in SessionId
    BY DEF TypeOK, SeatsOK, ParticipantsOK, SessionsOK, IsMap
  <1>3. /\ DOMAIN seated(pick) = kept
        /\ \A p \in kept : /\ seated(pick)[p] \in Participant
                            /\ seated(pick)[p].active = pick[p]
                            /\ seated(pick)[p].token = participants[p].token
    BY <1>2 DEF Participant
  <1>4. ParticipantsOK(seated(pick))
    BY <1>3 DEF ParticipantsOK, IsMap, TypeOK, SeatsOK
  <1>5. \A i \in DOMAIN S : Live(S[i].token) => S[i].participant \in kept
    BY SeatedParts DEF Remaining, Consistent
  <1>6. Consistent(S, seated(pick), nextSession)
    <2>1. \A i \in DOMAIN S : Live(S[i].token) =>
            /\ S[i].participant \in kept
            /\ seated(pick)[S[i].participant].token = S[i].token
      <3>1. \A i \in DOMAIN S : Live(S[i].token) =>
              participants[S[i].participant].token = S[i].token
        BY SeatedParts DEF Consistent
      <3> HIDE DEF S, seated, kept
      <3> QED
        BY <1>3, <1>5, <3>1
    <2>2. \A p \in kept : pick[p] \in DOMAIN S /\ S[pick[p]].participant = p
      BY <1>1 DEF Remaining
    <2>3. /\ \A i \in DOMAIN S : i < nextSession /\ S[i].participant < nextSession
          /\ \A p \in kept : p < nextSession
      BY SeatedParts DEF Consistent
    <2> HIDE DEF S, seated, kept
    <2> QED
      BY <1>3, <2>1, <2>2, <2>3 DEF Consistent
  <1>7. \A p : CanControl(S, p) => p \in able
    BY <1>5 DEF CanControl, HasControl
  <1>8. HeldBy(S, seated(pick), c)
    <2>1. None \notin able
      BY DEF TypeOK, SeatsOK, ParticipantsOK, IsMap, None, SessionId
    <2>2. /\ CanControl(S, controller) => c = controller
          /\ ~CanControl(S, controller) /\ able = {} => c = None
          /\ ~CanControl(S, controller) /\ able # {} => c \in able
      OBVIOUS
    <2>3. c # None <=> c \in able
      <3> HIDE DEF S, able, heirs
      <3> QED
        BY <1>7, <2>1, <2>2
    <2>4. c = None => able = {}
      <3> HIDE DEF S, able, heirs
      <3> QED
        BY <1>7, <2>1, <2>2
    <2> HIDE DEF S, seated, able, heirs
    <2> QED
      BY <1>3, <1>7, <2>3, <2>4 DEF HeldBy, able
  <1> HIDE DEF S, seated
  <1> QED
    BY <1>1, <1>2, <1>4, <1>6, <1>8, UpdateControllerSeats

LEMMA ConnectSeats ==
  ASSUME TypeOK, Seated, NEW t \in Token, NEW join \in {None} \cup SessionId,
         NEW resume \in BOOLEAN, NEW pip \in BOOLEAN, Connect(t, join, resume, pip)
  PROVE  Seated'
  <1> DEFINE id == nextSession
             p == IF join \in DOMAIN participants THEN join ELSE id
             own == [token |-> t, active |-> id, request |-> NoRequest, result |-> "none"]
             S == [i \in DOMAIN sessions \cup {id} |->
                     IF i = id THEN [token |-> t, participant |-> p, pip |-> pip] ELSE sessions[i]]
             P == [q \in DOMAIN participants \cup {p} |->
                     IF q # p THEN participants[q]
                     ELSE IF p = id THEN own
                     ELSE IF pip THEN [participants[p] EXCEPT !.active = id]
                     ELSE participants[p]]
             c == IF controller = None /\ HasControl(t) THEN p ELSE controller
             refused == \/ join \in DOMAIN participants /\ participants[join].token # t
                        \/ join # None /\ join \notin DOMAIN participants /\ ~resume
  <1>1. \A u : Live(u)' <=> Live(u)
    BY DEF Connect, Live
  <1>2. nextSession \in Nat /\ nextSession' = nextSession + 1 /\ Live(t)
    BY DEF Connect, TypeOK, OtherOK
  <1>3. CASE UNCHANGED <<sessions, participants, controller, epoch, roster, input, serving>>
    <2>1. SeatsConsistent'
      BY <1>1, <1>2, <1>3, SeatedParts DEF Consistent, SeatsConsistent, TypeOK, SeatsOK, SessionsOK,
         ParticipantsOK, IsMap, SessionId, Session
    <2>2. ControlIsHeld'
      BY <1>1, <1>3, SeatedParts DEF HeldBy, ControlIsHeld, CanControl, HasControl
    <2> QED
      BY <2>1, <2>2 DEF Seated
  <1>4. CASE ~refused /\ UpdateController(S, P, c)
    <2>1. \A q \in DOMAIN participants : participants[q] \in Participant
      BY DEF TypeOK, SeatsOK, ParticipantsOK, IsMap
    <2>2. id \in SessionId /\ p \in SessionId
      BY DEF Connect, TypeOK, OtherOK, SessionId, SeatsOK, ParticipantsOK, IsMap
    <2>3. own \in Participant
      BY <2>2 DEF Participant, NoRequest, Request, Outcome, None
    <2>4. p # id => /\ p \in DOMAIN participants
                    /\ participants[p].token = t
                    /\ [participants[p] EXCEPT !.active = id] \in Participant
                    /\ [participants[p] EXCEPT !.active = id].active = id
                    /\ [participants[p] EXCEPT !.active = id].token = t
      BY <1>4, <2>1, <2>2 DEF Participant
    <2>5. id \notin DOMAIN sessions /\ id \notin DOMAIN participants
      BY <1>2, SeatedParts DEF Consistent, TypeOK, SeatsOK, SessionsOK, ParticipantsOK, IsMap, SessionId
    <2>6. DOMAIN P = DOMAIN participants \cup {p} /\ \A q \in DOMAIN P : P[q] \in Participant
      BY <2>1, <2>3, <2>4
    <2>7. ParticipantsOK(P)
      BY <2>2, <2>6 DEF ParticipantsOK, IsMap, TypeOK, SeatsOK
    <2>8. SessionsOK(S)
      BY <2>2 DEF TypeOK, SeatsOK, SessionsOK, IsMap, Session
    <2>9. /\ DOMAIN S = DOMAIN sessions \cup {id}
          /\ S[id].token = t /\ S[id].participant = p
          /\ \A i \in DOMAIN sessions : S[i] = sessions[i]
      BY <2>5
    <2>10. /\ \A q \in DOMAIN participants : q # p => P[q] = participants[q]
           /\ P[p].token = t
           /\ P[p].active = id \/ (p # id /\ P[p] = participants[p])
      <3>1. \A q \in DOMAIN participants : q # p => P[q] = participants[q]
        OBVIOUS
      <3>2. CASE p = id
        <4>1. P[p] = own /\ own.token = t /\ own.active = id
          BY <3>2
        <4> HIDE DEF P, own
        <4> QED
          BY <3>1, <4>1
      <3>3. CASE p # id /\ pip
        <4>1. P[p] = [participants[p] EXCEPT !.active = id]
          BY <3>3
        <4>2. P[p].token = t /\ P[p].active = id
          <5> HIDE DEF P, p, id
          <5> QED
            BY <2>4, <3>3, <4>1
        <4> HIDE DEF P, p, id
        <4> QED
          BY <3>1, <4>2
      <3>4. CASE p # id /\ ~pip
        <4>1. P[p] = participants[p]
          BY <3>4
        <4> HIDE DEF P, p, id
        <4> QED
          BY <2>4, <3>1, <3>4, <4>1
      <3> QED
        BY <3>2, <3>3, <3>4
    <2>11. \A q \in DOMAIN participants : P[q].token = participants[q].token
      BY <2>4, <2>5, <2>10
    <2>12. Consistent(S, P, nextSession')
      <3>1. \A i \in DOMAIN S : Live(S[i].token) =>
              S[i].participant \in DOMAIN P /\ P[S[i].participant].token = S[i].token
        <4> HIDE DEF S, P, p
        <4> QED
          BY <2>6, <2>9, <2>10, <2>11, SeatedParts DEF Consistent
      <3>2. \A q \in DOMAIN P : P[q].active \in DOMAIN S /\ S[P[q].active].participant = q
        <4> HIDE DEF S, P
        <4> QED
          BY <2>4, <2>6, <2>9, <2>10, SeatedParts DEF Consistent
      <3>3. /\ \A i \in DOMAIN sessions : i \in Int /\ sessions[i].participant \in Int
            /\ \A q \in DOMAIN participants : q \in Int
        BY DEF TypeOK, SeatsOK, SessionsOK, ParticipantsOK, IsMap, Session, SessionId
      <3>4. p < nextSession'
        BY <1>2, <2>4, <3>3, SeatedParts DEF Consistent
      <3>5. \A i \in DOMAIN S : i < nextSession' /\ S[i].participant < nextSession'
        <4> HIDE DEF S, p
        <4> QED
          BY <1>2, <2>9, <3>3, <3>4, SeatedParts DEF Consistent
      <3>6. \A q \in DOMAIN P : q < nextSession'
        <4> HIDE DEF P, p
        <4> QED
          BY <1>2, <2>6, <3>3, <3>4, SeatedParts DEF Consistent
      <3> HIDE DEF S, P, p
      <3> QED
        BY <3>1, <3>2, <3>5, <3>6 DEF Consistent
    <2>13. HeldBy(S, P, c)
      <3>1. c # None => c \in DOMAIN P
        BY <2>6, SeatedParts DEF HeldBy
      <3>2. ASSUME c = None PROVE \A q \in SessionId : ~CanControl(S, q)
        <4>1. ~HasControl(t) /\ \A q \in SessionId : ~CanControl(sessions, q)
          BY <2>2, <3>2, SeatedParts DEF HeldBy, None, SessionId
        <4> HIDE DEF S, c
        <4> QED
          BY <2>9, <4>1 DEF CanControl
      <3> HIDE DEF S, P, c
      <3> QED
        BY <3>1, <3>2 DEF HeldBy
    <2> HIDE DEF S, P, c
    <2> QED
      BY <1>1, <1>4, <2>7, <2>8, <2>12, <2>13, UpdateControllerSeats
  <1> QED
    BY <1>3, <1>4 DEF Connect

LEMMA NegotiationSeats ==
  ASSUME TypeOK, Seated, Negotiation
  PROVE  Seated'
  <1> DEFINE X == Expired(participants)
  <1>1. /\ ParticipantsOK(participants) /\ ParticipantsOK(X) /\ SessionsOK(sessions)
        /\ SameSeats(participants) /\ SameSeats(X) /\ DOMAIN X = DOMAIN participants
    BY ExpiredType, EndedSeats DEF TypeOK, SeatsOK, SameSeats
  <1>2. \A p \in DOMAIN X, o \in Outcome :
          /\ ParticipantsOK([X EXCEPT ![p] = Clear(@, o)])
          /\ SameSeats([X EXCEPT ![p] = Clear(@, o)])
    <2> SUFFICES ASSUME NEW p \in DOMAIN X, NEW o \in Outcome
                 PROVE  /\ ParticipantsOK([X EXCEPT ![p] = Clear(@, o)])
                        /\ SameSeats([X EXCEPT ![p] = Clear(@, o)])
      OBVIOUS
    <2>1. X[p] \in Participant
      BY <1>1 DEF ParticipantsOK, IsMap
    <2>2. /\ Clear(X[p], o) \in Participant
          /\ Clear(X[p], o).active = X[p].active /\ Clear(X[p], o).token = X[p].token
      BY <2>1, ClearType, ClearSeat
    <2> HIDE DEF X
    <2> QED
      BY <1>1, <2>2 DEF ParticipantsOK, IsMap, SameSeats
  <1>3. ASSUME ControlFrame PROVE UNCHANGED <<phase, nextSession>> /\ \A t : Live(t)' <=> Live(t)
    BY <1>3 DEF ControlFrame, Live
  <1>4. ASSUME NEW P, SameSeats(P), Republish(P), ControlFrame
        PROVE  Seated'
    BY <1>3, <1>4, RepublishSeats
  <1>5. ASSUME NEW P, SameSeats(P), ParticipantsOK(P), ControlFrame,
               NEW c \in DOMAIN participants, UpdateController(sessions, P, c)
        PROVE  Seated'
    <2>1. Consistent(sessions, P, nextSession')
      BY <1>3, <1>5, SameSeatsConsistent
    <2>2. HeldBy(sessions, P, c)
      BY <1>1, <1>5 DEF HeldBy, SameSeats, ParticipantsOK, IsMap, SessionId, None
    <2> QED
      BY <1>1, <1>3, <1>5, <2>1, <2>2, UpdateControllerSeats
  <1>6. ASSUME NEW i, Admitted(i) PROVE sessions[i].participant \in DOMAIN participants
    BY <1>6 DEF Admitted, Seated, SeatsConsistent
  <1>7. ASSUME NEW p \in SessionId, Elapse(p)
        PROVE  Seated'
    <2>1. SameSeats(participants')
      BY <1>7 DEF Elapse, TypeOK, SeatsOK, ParticipantsOK, IsMap, Participant, SameSeats
    <2>2. SeatsConsistent' /\ ControlIsHeld'
      BY <1>7, <2>1 DEF Elapse, Seated, SeatsConsistent, ControlIsHeld, SameSeats, Live, CanControl, HasControl
    <2> QED
      BY <2>2 DEF Seated
  <1>8. CASE Sweep
    BY <1>1, <1>4, <1>8 DEF Sweep
  <1>9. ASSUME NEW i \in SessionId, TakeControl(i)
        PROVE  Seated'
    BY <1>1, <1>5, <1>6, <1>9 DEF TakeControl
  <1>10. ASSUME NEW i \in SessionId, NEW target \in SessionId, Handoff(i, target)
         PROVE  Seated'
    BY <1>1, <1>5, <1>10, ControllersArePresent DEF Handoff
  <1>11. ASSUME NEW i \in SessionId, RequestControl(i)
         PROVE  Seated'
    <2> DEFINE p == sessions[i].participant
               asked == [id |-> nextRequest, epoch |-> epoch, overdue |-> FALSE]
               Y == [X EXCEPT ![p].request = asked, ![p].result = "none"]
    <2>1. SameSeats(Y)
      <3>1. \A q \in DOMAIN X : X[q] \in Participant
        BY <1>1 DEF ParticipantsOK, IsMap
      <3> HIDE DEF X, asked
      <3> QED
        BY <1>1, <3>1 DEF SameSeats, Participant
    <2>2. CASE Republish(X) \/ Republish(Y)
      BY <1>1, <1>4, <1>11, <2>1, <2>2 DEF RequestControl
    <2>3. CASE UpdateController(sessions, X, p)
      BY <1>1, <1>5, <1>6, <1>11, <2>3 DEF RequestControl
    <2> QED
      BY <1>11, <2>2, <2>3 DEF RequestControl
  <1>12. ASSUME NEW i \in SessionId, NEW request, NEW e, CancelControl(i, request, e)
         PROVE  Seated'
    BY <1>1, <1>2, <1>4, <1>12 DEF CancelControl, Outcome
  <1>13. ASSUME NEW i \in SessionId, NEW request, NEW e, NEW target, NEW approve \in BOOLEAN,
                DecideControl(i, target, request, e, approve)
         PROVE  Seated'
    <2>1. CASE Republish(X) \/ (Republish([X EXCEPT ![target] = Clear(@, "declined")]) /\ target \in DOMAIN X)
      BY <1>1, <1>2, <1>4, <1>13, <2>1 DEF DecideControl, Outcome
    <2>2. CASE /\ target \in DOMAIN X
               /\ UpdateController(sessions, [X EXCEPT ![target] = Clear(@, "approved")], target)
      BY <1>1, <1>2, <1>5, <1>13, <2>2 DEF DecideControl, Outcome
    <2> QED
      BY <1>13, <2>1, <2>2 DEF DecideControl
  <1> QED
    BY <1>7, <1>8, <1>9, <1>10, <1>11, <1>12, <1>13 DEF Negotiation

\* a step that leaves the seats, while no dead token comes back
LEMMA UntouchedSeats ==
  ASSUME TypeOK, Seated, UNCHANGED <<sessions, participants, controller, nextSession>>,
         \A t \in Token : Live(t)' => Live(t)
  PROVE  Seated'
  <1>1. \A i \in DOMAIN sessions : sessions[i].token \in Token
    BY DEF TypeOK, SeatsOK, SessionsOK, IsMap, Session
  <1> QED
    BY <1>1 DEF Seated, SeatsConsistent, ControlIsHeld, CanControl, HasControl

LEMMA SeatedNext == TypeOK /\ Seated /\ [Next]_vars => Seated'
  <1> SUFFICES ASSUME TypeOK, Seated, [Next]_vars PROVE Seated'
    OBVIOUS
  <1>1. CASE UNCHANGED vars
    BY <1>1, UntouchedSeats DEF vars, seats, Live
  <1>2. CASE Registration
    <2>1. ASSUME NEW src, Disconnect(src) PROVE Seated'
      BY <2>1, RemoveViewersSeats DEF Disconnect, Live
    <2>2. ASSUME NEW t, OpenWindow(t) PROVE Seated'
      BY <2>2, UntouchedSeats DEF OpenWindow, seats, Live
    <2>3. ASSUME NEW src, CloseWindow(src) \/ Leave(src) PROVE Seated'
      BY <2>3, UntouchedSeats DEF CloseWindow, Leave, seats, Live
    <2> QED
      BY <1>2, <2>1, <2>2, <2>3, ConnectSeats DEF Registration
  <1>3. CASE Negotiation
    BY <1>3, NegotiationSeats
  <1>4. CASE Typing
    BY <1>4, UntouchedSeats
       DEF Typing, DesktopInput, DesktopBlur, WindowInput, WindowBlur, ApiInput, InputFrame, seats, Live
  <1>5. CASE Retirement
    <2>1. ASSUME NEW t \in Token, Unseat(t) PROVE Seated'
      BY <2>1, RemoveViewersSeats DEF Unseat, Live, TypeOK, OtherOK
    <2>2. ASSUME NEW t \in Token, TokenEnds(t) \/ CloseWindows(t) \/ Disown(t) PROVE Seated'
      <3>1. UNCHANGED seats
        BY <2>2 DEF TokenEnds, Expire, Revoke, SweepToken, CloseWindows, Disown
      <3>2. \A u \in Token : Live(u)' => Live(u)
        BY <2>2 DEF TokenEnds, Expire, Revoke, SweepToken, CloseWindows, Disown, Live, TypeOK, OtherOK
      <3> QED
        BY <3>1, <3>2, UntouchedSeats DEF seats
    <2> QED
      BY <1>5, <2>1, <2>2 DEF Retirement, Cleanup
  <1>6. CASE Apply
    BY <1>6, UntouchedSeats DEF Apply, seats, Live
  <1> QED
    BY <1>1, <1>2, <1>3, <1>4, <1>5, <1>6 DEF Next

LEMMA SeatedInit == Init => Seated
  BY DEF Init, Seated, SeatsConsistent, ControlIsHeld, CanControl, NoEntries

\* Every live session keeps a participant of its own token, and every
\* participant an active connection of its own, however pages join, pop out,
\* leave and lose their tokens.
THEOREM SeatsStayConsistent == Spec => []SeatsConsistent
  <1>1. Seated => SeatsConsistent
    BY DEF Seated
  <1> QED
    BY <1>1, TypeInit, TypeNext, SeatedInit, SeatedNext, PTL DEF Spec

\* The desktop has a controller whenever a connected participant may control it.
THEOREM ControlStaysHeld == Spec => []ControlIsHeld
  <1>1. Seated => ControlIsHeld
    BY DEF Seated
  <1> QED
    BY <1>1, TypeInit, TypeNext, SeatedInit, SeatedNext, PTL DEF Spec
=============================================================================
