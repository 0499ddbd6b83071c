---------------------- MODULE DesktopControlInputProofs ----------------------
(***************************************************************************)
(* Theorems about the input lock of DesktopControl: the commands of several *)
(* sources interleave on one channel, and the compositor still holds the   *)
(* keys of one source at a time, the owner's once the channel has drained. *)
(*                                                                         *)
(* The seats matter to the input for one thing only, which session drives, *)
(* so every action is first reduced to what it does to the input.  The last *)
(* section proves that a control request is settled once.                  *)
(***************************************************************************)
EXTENDS DesktopControlProofs

-----------------------------------------------------------------------------
(* The channel.  Between two sources' commands, between a command and a     *)
(* later owner, and between a key that is down and another source's command *)
(* or ownership, a release is on its way.                                   *)

Releases(cmd) == cmd.op = "release_all"

\* a release among the commands i to j of the channel c
ReleaseIn(c, i, j) == \E k \in i .. j : Releases(c[k])

Exclusive(c, owner, down) ==
  /\ \A i \in 1 .. Len(c) : ~Releases(c[i]) => \E s \in Source : c[i].source = {s}
  /\ \A i, j \in 1 .. Len(c) : i < j /\ ~Releases(c[i]) /\ ~Releases(c[j]) =>
       c[i].source = c[j].source \/ ReleaseIn(c, i, j)
  /\ \A i \in 1 .. Len(c) : ~Releases(c[i]) => c[i].source = owner \/ ReleaseIn(c, i, Len(c))
  /\ \A s \in down, j \in 1 .. Len(c) : ~Releases(c[j]) => c[j].source = {s} \/ ReleaseIn(c, 1, j)
  /\ \A s \in down : owner = {s} \/ ReleaseIn(c, 1, Len(c))
  /\ \A s, r \in down : s = r

LEMMA ReleaseExcludes ==
  ASSUME NEW c \in Seq(Command), NEW owner, NEW down, Exclusive(c, owner, down)
  PROVE  Exclusive(Append(c, ReleaseAll), {}, down)
  <1> DEFINE d == Append(c, ReleaseAll)
             n == Len(c)
  <1>1. /\ n \in Nat /\ Len(d) = n + 1
        /\ \A i \in 1 .. n : d[i] = c[i]
        /\ d[n + 1] = ReleaseAll
    BY DEF ReleaseAll, Command
  <1>2. Releases(d[n + 1])
    BY <1>1 DEF Releases, ReleaseAll
  <1> HIDE DEF d, n
  <1>3. \A i \in 1 .. n + 1 : ReleaseIn(d, i, n + 1)
    BY <1>1, <1>2 DEF ReleaseIn
  <1>4. \A i, j \in 1 .. n : ReleaseIn(c, i, j) => ReleaseIn(d, i, j)
    BY <1>1 DEF ReleaseIn
  <1>5. Len(c) = n
    BY DEF n
  <1>6. Exclusive(d, {}, down)
    BY <1>1, <1>2, <1>3, <1>4, <1>5 DEF Exclusive
  <1> QED
    BY <1>6 DEF d

LEMMA SendExcludes ==
  ASSUME NEW c \in Seq(Command), NEW owner, NEW down, Exclusive(c, owner, down),
         NEW src \in Source, NEW op \in {"press", "lift"}, owner \in {{}, {src}}
  PROVE  Exclusive(Append(c, [op |-> op, source |-> {src}]), {src}, down)
  <1> DEFINE cmd == [op |-> op, source |-> {src}]
             d == Append(c, cmd)
             n == Len(c)
  <1>1. /\ n \in Nat /\ Len(d) = n + 1
        /\ \A i \in 1 .. n : d[i] = c[i]
        /\ d[n + 1] = cmd
    BY DEF Command
  <1>2. ~Releases(d[n + 1]) /\ d[n + 1].source = {src}
    BY <1>1 DEF Releases
  <1>3. Len(c) = n
    OBVIOUS
  <1> HIDE DEF d, n, cmd
  <1>4. \A i, j \in 1 .. n : ReleaseIn(c, i, j) => ReleaseIn(d, i, j) /\ ReleaseIn(d, i, n + 1)
    BY <1>1 DEF ReleaseIn
  <1>5. \A i \in 1 .. n : ~Releases(d[i]) => d[i].source = {src} \/ ReleaseIn(d, i, n + 1)
    <2> SUFFICES ASSUME NEW i \in 1 .. n, ~Releases(d[i]), ~ReleaseIn(d, i, n + 1)
                 PROVE  d[i].source = {src}
      OBVIOUS
    <2>1. ~ReleaseIn(c, i, n)
      BY <1>1, <1>4
    <2> QED
      BY <1>1, <1>3, <2>1 DEF Exclusive
  <1>6. \A s \in down : s = src \/ ReleaseIn(d, 1, n + 1)
    <2> SUFFICES ASSUME NEW s \in down, ~ReleaseIn(d, 1, n + 1)
                 PROVE  s = src
      OBVIOUS
    <2>1. ~ReleaseIn(c, 1, n)
      BY <1>1, <1>4 DEF ReleaseIn
    <2> QED
      BY <1>3, <2>1 DEF Exclusive
  <1>7. \A i, j \in 1 .. n + 1 : i < j /\ ~Releases(d[i]) /\ ~Releases(d[j]) =>
          d[i].source = d[j].source \/ ReleaseIn(d, i, j)
    <2> SUFFICES ASSUME NEW i \in 1 .. n + 1, NEW j \in 1 .. n + 1, i < j,
                        ~Releases(d[i]), ~Releases(d[j])
                 PROVE  d[i].source = d[j].source \/ ReleaseIn(d, i, j)
      OBVIOUS
    <2>1. i \in 1 .. n /\ (j \in 1 .. n \/ j = n + 1)
      BY <1>1
    <2>2. CASE j = n + 1
      BY <1>2, <1>5, <2>1, <2>2
    <2>3. CASE j \in 1 .. n
      BY <1>1, <1>3, <1>4, <2>1, <2>3 DEF Exclusive
    <2> QED
      BY <2>1, <2>2, <2>3
  <1>8. \A i \in 1 .. n + 1 : ~Releases(d[i]) =>
          /\ \E s \in Source : d[i].source = {s}
          /\ d[i].source = {src} \/ ReleaseIn(d, i, n + 1)
    <2> SUFFICES ASSUME NEW i \in 1 .. n + 1, ~Releases(d[i])
                 PROVE  /\ \E s \in Source : d[i].source = {s}
                        /\ d[i].source = {src} \/ ReleaseIn(d, i, n + 1)
      OBVIOUS
    <2>1. CASE i = n + 1
      BY <1>2, <2>1
    <2>2. CASE i \in 1 .. n
      BY <1>1, <1>3, <1>5, <2>2 DEF Exclusive
    <2> QED
      BY <1>1, <2>1, <2>2
  <1>9. \A s \in down, j \in 1 .. n + 1 : ~Releases(d[j]) => d[j].source = {s} \/ ReleaseIn(d, 1, j)
    <2> SUFFICES ASSUME NEW s \in down, NEW j \in 1 .. n + 1, ~Releases(d[j])
                 PROVE  d[j].source = {s} \/ ReleaseIn(d, 1, j)
      OBVIOUS
    <2>1. CASE j = n + 1
      BY <1>2, <1>6, <2>1
    <2>2. CASE j \in 1 .. n
      <3>1. 1 \in 1 .. n
        BY <1>1, <2>2
      <3> QED
        BY <1>1, <1>3, <1>4, <2>2, <3>1 DEF Exclusive
    <2> QED
      BY <1>1, <2>1, <2>2
  <1>10. Exclusive(d, {src}, down)
    BY <1>1, <1>3, <1>6, <1>7, <1>8, <1>9 DEF Exclusive
  <1> QED
    BY <1>10 DEF d, cmd

\* what the compositor holds after the command
Applied(cmd, down) ==
  CASE cmd.op = "press" -> down \cup cmd.source
    [] cmd.op = "lift" -> down \ cmd.source
    [] cmd.op = "release_all" -> {}

LEMMA ApplyExcludes ==
  ASSUME NEW c \in Seq(Command), c # <<>>, NEW owner, NEW down, Exclusive(c, owner, down)
  PROVE  Exclusive(Tail(c), owner, Applied(Head(c), down))
  <1> DEFINE d == Tail(c)
             n == Len(d)
             after == Applied(Head(c), down)
  <1>1. /\ n \in Nat /\ Len(c) = n + 1
        /\ \A i \in 1 .. n : d[i] = c[i + 1]
        /\ Head(c) = c[1] /\ c[1] \in Command
    <2>1. d \in Seq(Command) /\ Len(c) \in Nat /\ Len(c) # 0 /\ n = Len(c) - 1
      OBVIOUS
    <2>2. Head(c) = c[1] /\ c[1] \in Command
      BY <2>1
    <2>3. \A i \in 1 .. Len(c) - 1 : d[i] = c[i + 1]
      OBVIOUS
    <2> HIDE DEF d, n
    <2> QED
      BY <2>1, <2>2, <2>3
  <1>2. Len(d) = n
    OBVIOUS
  <1> HIDE DEF d, n
  <1>3. \A i, j \in 1 .. n : ReleaseIn(c, i + 1, j + 1) => ReleaseIn(d, i, j)
    <2> SUFFICES ASSUME NEW i \in 1 .. n, NEW j \in 1 .. n, NEW k \in i + 1 .. j + 1, Releases(c[k])
                 PROVE  ReleaseIn(d, i, j)
      BY DEF ReleaseIn
    <2>1. k - 1 \in i .. j /\ d[k - 1] = c[k]
      BY <1>1
    <2> QED
      BY <2>1 DEF ReleaseIn
  <1>4. /\ \A i \in 1 .. n : ~Releases(d[i]) => \E s \in Source : d[i].source = {s}
        /\ \A i, j \in 1 .. n : i < j /\ ~Releases(d[i]) /\ ~Releases(d[j]) =>
             d[i].source = d[j].source \/ ReleaseIn(d, i, j)
        /\ \A i \in 1 .. n : ~Releases(d[i]) => d[i].source = owner \/ ReleaseIn(d, i, n)
    <2>1. \A i \in 1 .. n : i + 1 \in 1 .. n + 1 /\ n \in 1 .. n
      BY <1>1
    <2> QED
      BY <1>1, <1>3, <2>1 DEF Exclusive
  <1>5. CASE Releases(c[1])
    <2>1. after = {}
      BY <1>1, <1>5 DEF Releases, Applied
    <2> QED
      BY <1>2, <1>4, <2>1 DEF Exclusive, d
  <1>6. CASE ~Releases(c[1])
    <2>1. PICK s \in Source : c[1].source = {s}
      BY <1>1, <1>6 DEF Exclusive
    <2>2. down \subseteq {s}
      <3>1. ~ReleaseIn(c, 1, 1)
        BY <1>6 DEF ReleaseIn
      <3> QED
        BY <1>1, <1>6, <2>1, <3>1 DEF Exclusive
    <2>3. after \subseteq {s}
      BY <1>1, <1>6, <2>1, <2>2 DEF Applied, Releases, Command
    <2>4. \A j \in 1 .. n : ~Releases(d[j]) => d[j].source = {s} \/ ReleaseIn(d, 1, j)
      <3> SUFFICES ASSUME NEW j \in 1 .. n, ~Releases(d[j]), ~ReleaseIn(d, 1, j)
                   PROVE  d[j].source = {s}
        OBVIOUS
      <3>1. ~ReleaseIn(c, 1, j + 1)
        BY <1>1, <1>3, <1>6 DEF ReleaseIn
      <3> QED
        BY <1>1, <1>6, <2>1, <3>1 DEF Exclusive
    <2>5. owner = {s} \/ ReleaseIn(d, 1, n)
      <3> SUFFICES ASSUME ~ReleaseIn(d, 1, n)
                   PROVE  owner = {s}
        OBVIOUS
      <3>1. \A k \in 2 .. n + 1 : k - 1 \in 1 .. n /\ c[k] = d[k - 1]
        BY <1>1
      <3>2. ~ReleaseIn(c, 1, n + 1)
        BY <1>1, <1>6, <3>1 DEF ReleaseIn
      <3> QED
        BY <1>1, <1>6, <2>1, <3>2 DEF Exclusive
    <2> HIDE DEF after
    <2>6. Exclusive(d, owner, after)
      BY <1>2, <1>4, <2>3, <2>4, <2>5 DEF Exclusive
    <2> QED
      BY <2>6 DEF d, after
  <1> QED
    BY <1>5, <1>6

-----------------------------------------------------------------------------
(* What a step does to the input is one of four things.                     *)

InputStep ==
  \/ UNCHANGED <<input, held>>
  \/ TakeInputAway /\ UNCHANGED held
  \/ \E src \in Source, op \in {"press", "lift"} : SendInput(src, op) /\ UNCHANGED held
  \/ Apply

\* a change of the seats, by any handler
LEMMA SeatsShape ==
  ASSUME UNCHANGED held,
         \/ \E S, P, c : UpdateController(S, P, c)
         \/ \E P : Republish(P)
         \/ \E removed : RemoveViewers(removed)
  PROVE  InputStep
  <1>1. \A a, b : MoveInput(a, b) => TakeInputAway \/ UNCHANGED input
    BY DEF MoveInput
  <1>2. ASSUME NEW S, NEW P, NEW c, UpdateController(S, P, c)
        PROVE  TakeInputAway \/ UNCHANGED input
    BY <1>1, <1>2, Zenon DEF UpdateController
  <1>3. ASSUME NEW P, Republish(P)
        PROVE  UNCHANGED input
    BY <1>3 DEF Republish
  <1>4. ASSUME NEW removed, RemoveViewers(removed)
        PROVE  \E S, P, c : UpdateController(S, P, c)
    BY <1>4, Zenon DEF RemoveViewers
  <1> QED
    BY <1>2, <1>3, <1>4, Zenon DEF InputStep

LEMMA RegistrationShape ==
  ASSUME Registration
  PROVE  InputStep
  <1>1. ASSUME NEW t, NEW join, NEW resume, NEW pip, Connect(t, join, resume, pip)
        PROVE  InputStep
    <2>1. CASE UNCHANGED input
      BY <1>1, <2>1 DEF Connect, InputStep
    <2>2. CASE \E S, P, c : UpdateController(S, P, c)
      BY <1>1, <2>2, SeatsShape DEF Connect
    <2> QED
      BY <1>1, <2>1, <2>2 DEF Connect
  <1>2. ASSUME NEW src, Disconnect(src)
        PROVE  InputStep
    BY <1>2, SeatsShape DEF Disconnect
  <1>3. ASSUME NEW src, CloseWindow(src)
        PROVE  InputStep
    BY <1>3 DEF CloseWindow, InputStep
  <1>4. ASSUME NEW src, Leave(src)
        PROVE  InputStep
    BY <1>4 DEF Leave, ReleaseInput, InputStep
  <1>5. ASSUME NEW t, OpenWindow(t)
        PROVE  InputStep
    BY <1>5 DEF OpenWindow, InputStep
  <1> QED
    BY <1>1, <1>2, <1>3, <1>4, <1>5 DEF Registration

LEMMA MessageShape ==
  ASSUME TypeOK, Negotiation
  PROVE  InputStep
  <1>1. CASE \E p \in SessionId : Elapse(p)
    BY <1>1 DEF Elapse, InputStep
  <1>2. CASE Sweep
    BY <1>2, SeatsShape DEF Sweep, ControlFrame
  <1>3. ASSUME /\ \/ \E P, c : ParticipantsOK(P) /\ c \in SessionId /\ UpdateController(sessions, P, c)
                  \/ \E P : ParticipantsOK(P) /\ Republish(P)
               /\ ControlFrame
        PROVE  InputStep
    BY <1>3, SeatsShape DEF ControlFrame
  <1> QED
    BY <1>1, <1>2, <1>3, NegotiationShape DEF Negotiation

LEMMA TypingShape ==
  ASSUME TypeOK, Typing
  PROVE  InputStep
  <1>1. ASSUME NEW op \in {"press", "lift"}, NEW i \in SessionId, DesktopInput(i, op)
        PROVE  InputStep
    <2>1. [token |-> sessions[i].token, session |-> i] \in Source
      BY <1>1 DEF DesktopInput, Admitted, Source, TypeOK, SeatsOK, SessionsOK, IsMap, Session
    <2> QED
      BY <1>1, <2>1 DEF DesktopInput, InputFrame, InputStep
  <1>2. ASSUME NEW op \in {"press", "lift"}, NEW w \in WindowId, WindowInput(w, op)
        PROVE  InputStep
    <2>1. [token |-> windows[w], session |-> w] \in Source
      BY <1>2 DEF WindowInput, Source, TypeOK, OtherOK, IsMap
    <2> QED
      BY <1>2, <2>1 DEF WindowInput, InputFrame, InputStep
  <1>3. ASSUME NEW op \in {"press", "lift"}, NEW t \in Token, ApiInput(t, op)
        PROVE  InputStep
    BY <1>3 DEF ApiInput, InputFrame, InputStep, Source
  <1>4. ASSUME NEW i, DesktopBlur(i) \/ WindowBlur(i)
        PROVE  InputStep
    BY <1>4 DEF DesktopBlur, WindowBlur, ReleaseInput, InputFrame, InputStep
  <1> QED
    BY <1>1, <1>2, <1>3, <1>4 DEF Typing

LEMMA RetirementShape ==
  ASSUME Retirement
  PROVE  InputStep
  <1>1. ASSUME NEW t, Unseat(t)
        PROVE  InputStep
    BY <1>1, SeatsShape DEF Unseat
  <1>2. ASSUME NEW t, Disown(t)
        PROVE  InputStep
    BY <1>2 DEF Disown, InputStep
  <1>3. ASSUME NEW t, TokenEnds(t) \/ CloseWindows(t)
        PROVE  InputStep
    BY <1>3 DEF TokenEnds, Expire, Revoke, SweepToken, CloseWindows, InputStep
  <1> QED
    BY <1>1, <1>2, <1>3 DEF Retirement, Cleanup

LEMMA InputShape == TypeOK /\ [Next]_vars => InputStep
  <1>1. UNCHANGED vars => InputStep
    BY DEF vars, InputStep
  <1> QED
    BY <1>1, RegistrationShape, MessageShape, TypingShape, RetirementShape DEF Next, InputStep

-----------------------------------------------------------------------------
(* One holder.                                                              *)

KeysExclusive == Exclusive(commands, inputOwner, held)

LEMMA KeysInit == Init => KeysExclusive
  BY DEF Init, KeysExclusive, Exclusive

LEMMA KeysNext == TypeOK /\ KeysExclusive /\ [Next]_vars => KeysExclusive'
  <1> SUFFICES ASSUME TypeOK, KeysExclusive, InputStep
               PROVE  Exclusive(commands', inputOwner', held')
    BY InputShape DEF KeysExclusive
  <1>1. commands \in Seq(Command) /\ Exclusive(commands, inputOwner, held)
    BY DEF TypeOK, InputOK, KeysExclusive
  <1>2. CASE UNCHANGED <<input, held>>
    BY <1>1, <1>2 DEF input
  <1>3. CASE TakeInputAway /\ UNCHANGED held
    BY <1>1, <1>3, ReleaseExcludes DEF TakeInputAway
  <1>4. ASSUME NEW src \in Source, NEW op \in {"press", "lift"}, SendInput(src, op), UNCHANGED held
        PROVE  Exclusive(commands', inputOwner', held')
    <2>1. CASE inputOwner \subseteq {src}
      <3>1. inputOwner \in {{}, {src}}
        BY <2>1
      <3> QED
        BY <1>1, <1>4, <2>1, <3>1, SendExcludes DEF SendInput
    <2>2. CASE ~(inputOwner \subseteq {src})
      <3> DEFINE c == Append(commands, ReleaseAll)
      <3>1. Exclusive(c, {}, held)
        BY <1>1, ReleaseExcludes
      <3>2. c \in Seq(Command)
        BY <1>1 DEF ReleaseAll, Command
      <3>3. /\ commands' = Append(c, [op |-> op, source |-> {src}])
            /\ inputOwner' = {src} /\ held' = held
        BY <1>4, <2>2 DEF SendInput
      <3> HIDE DEF c
      <3> QED
        BY <3>1, <3>2, <3>3, SendExcludes
    <2> QED
      BY <2>1, <2>2
  <1>5. CASE Apply
    <2>1. /\ commands # <<>> /\ commands' = Tail(commands) /\ inputOwner' = inputOwner
          /\ held' = Applied(Head(commands), held)
      BY <1>5, Zenon DEF Apply, Applied
    <2> QED
      BY <1>1, <2>1, ApplyExcludes
  <1> QED
    BY <1>2, <1>3, <1>4, <1>5 DEF InputStep

\* The compositor never holds the keys of two sources, whatever sources send
\* commands, in whatever order, and however late the channel is drained.
THEOREM KeysStayExclusive == Spec => []OneHolder
  <1>1. KeysExclusive => OneHolder
    BY DEF KeysExclusive, Exclusive, OneHolder
  <1> QED
    BY <1>1, TypeInit, TypeNext, KeysInit, KeysNext, PTL DEF Spec

\* With nothing left on the channel, only the owner of the input holds keys.
THEOREM KeysStayOwned == Spec => []HeldByOwner
  <1>1. KeysExclusive => HeldByOwner
    <2> SUFFICES ASSUME KeysExclusive, commands = <<>>, NEW s \in held
                 PROVE  s \in inputOwner
      BY DEF HeldByOwner
    <2>1. Len(commands) = 0
      OBVIOUS
    <2>2. ~ReleaseIn(commands, 1, Len(commands))
      BY <2>1 DEF ReleaseIn
    <2> QED
      BY <2>2 DEF KeysExclusive, Exclusive
  <1> QED
    BY <1>1, TypeInit, TypeNext, KeysInit, KeysNext, PTL DEF Spec

-----------------------------------------------------------------------------
(* The owner drives.  Whatever changes which session drives compares it     *)
(* before and after, so an owner that no longer drives loses the input in   *)
(* the same step.                                                           *)

Driving == ActiveSession(controller, participants)
Attended == serving \cup leaving

LEMMA UpdateControllerDrives ==
  ASSUME OwnerDrives, NEW S, NEW P, NEW c, UpdateController(S, P, c),
         Attended \subseteq Attended'
  PROVE  OwnerDrives'
  <1> DEFINE Q == IF c = controller THEN P ELSE Ended(P)
  <1>1. controller' = c /\ participants' = Q /\ MoveInput(Driving, ActiveSession(c, Q))
    BY Zenon DEF UpdateController, Driving
  <1>2. ActiveSession(controller, participants)' = ActiveSession(c, Q)
    BY <1>1 DEF ActiveSession
  <1> HIDE DEF Q
  <1> SUFFICES ASSUME NEW o \in inputOwner', o.session \in SessionId
               PROVE  o.session = ActiveSession(c, Q) /\ o \in Attended'
    BY <1>2 DEF OwnerDrives, Attended
  <1>3. UNCHANGED input
    BY <1>1 DEF MoveInput, TakeInputAway
  <1>4. o \in inputOwner /\ o.session = Driving /\ o \in Attended
    BY <1>3 DEF input, OwnerDrives, Driving, Attended
  <1>5. Driving = ActiveSession(c, Q)
    BY <1>1, <1>3, <1>4 DEF MoveInput, TakeInputAway, input
  <1> QED
    BY <1>4, <1>5

LEMMA RemoveViewersDrives ==
  ASSUME OwnerDrives, NEW removed, RemoveViewers(removed), Attended \subseteq Attended'
  PROVE  OwnerDrives'
  <1>1. \E S, P, c : UpdateController(S, P, c)
    BY Zenon DEF RemoveViewers
  <1> QED
    BY <1>1, UpdateControllerDrives

\* the seats and the tasks stay, and the input is at most taken away
LEMMA StandingDrives ==
  ASSUME OwnerDrives, inputOwner' \subseteq inputOwner,
         Driving' = Driving, Attended \subseteq Attended'
  PROVE  OwnerDrives'
  BY DEF OwnerDrives, Driving, Attended

LEMMA RepublishDrives ==
  ASSUME OwnerDrives, NEW P, SameSeats(P), Republish(P), ControlFrame
  PROVE  OwnerDrives'
  <1>1. Driving' = Driving
    BY DEF Driving, ActiveSession, SameSeats, Republish
  <1> QED
    BY <1>1, StandingDrives DEF Republish, ControlFrame, input, Attended

LEMMA RegistrationDrives ==
  ASSUME TypeOK, OwnerDrives, Registration
  PROVE  OwnerDrives'
  <1>1. ASSUME NEW t, NEW join, NEW resume, NEW pip, Connect(t, join, resume, pip)
        PROVE  OwnerDrives'
    <2>1. Attended \subseteq Attended'
      BY <1>1 DEF Connect, Attended
    <2>2. CASE UNCHANGED <<participants, controller, input>>
      BY <2>1, <2>2, StandingDrives DEF Driving, ActiveSession, input
    <2>3. CASE \E S, P, c : UpdateController(S, P, c)
      BY <2>1, <2>3, UpdateControllerDrives
    <2> QED
      BY <1>1, <2>2, <2>3 DEF Connect
  <1>2. ASSUME NEW src \in serving, Disconnect(src)
        PROVE  OwnerDrives'
    BY <1>2, RemoveViewersDrives DEF Disconnect, Attended
  <1>3. ASSUME NEW src \in serving, CloseWindow(src)
        PROVE  OwnerDrives'
    BY <1>3, StandingDrives DEF CloseWindow, Attended, Driving, ActiveSession, seats, input
  <1>4. ASSUME NEW src \in leaving, Leave(src)
        PROVE  OwnerDrives'
    <2>1. UNCHANGED <<controller, participants, serving>> /\ leaving' = leaving \ {src}
      BY <1>4 DEF Leave, seats
    <2>2. inputOwner' \subseteq inputOwner
      BY <1>4 DEF Leave, ReleaseInput, TakeInputAway, input
    <2>3. src \notin inputOwner'
      BY <1>4 DEF Leave, ReleaseInput, TakeInputAway, input, TypeOK, InputOK
    <2> QED
      BY <2>1, <2>2, <2>3 DEF OwnerDrives, ActiveSession
  <1>5. ASSUME NEW t, OpenWindow(t)
        PROVE  OwnerDrives'
    BY <1>5, StandingDrives DEF OpenWindow, Attended, Driving, ActiveSession, seats, input
  <1> QED
    BY <1>1, <1>2, <1>3, <1>4, <1>5 DEF Registration

LEMMA MessageDrives ==
  ASSUME TypeOK, OwnerDrives, Negotiation
  PROVE  OwnerDrives'
  <1> DEFINE X == Expired(participants)
  <1>1. /\ ParticipantsOK(participants) /\ ParticipantsOK(X) /\ DOMAIN X = DOMAIN participants
        /\ SameSeats(X)
    BY ExpiredType, EndedSeats DEF TypeOK, SeatsOK, SameSeats
  <1>2. \A o : \A p \in DOMAIN X : SameSeats([X EXCEPT ![p] = Clear(@, o)])
    <2> SUFFICES ASSUME NEW p \in DOMAIN X, NEW o
                 PROVE  SameSeats([X EXCEPT ![p] = Clear(@, o)])
      OBVIOUS
    <2>1. Clear(X[p], o).active = X[p].active /\ Clear(X[p], o).token = X[p].token
      BY <1>1, ClearSeat DEF ParticipantsOK, IsMap
    <2> HIDE DEF X
    <2> QED
      BY <1>1, <2>1 DEF SameSeats
  <1>3. ASSUME NEW P, NEW c, UpdateController(sessions, P, c), ControlFrame
        PROVE  OwnerDrives'
    BY <1>3, UpdateControllerDrives DEF ControlFrame, Attended
  <1>4. ASSUME NEW p \in SessionId, Elapse(p)
        PROVE  OwnerDrives'
    <2>1. Driving' = Driving
      BY <1>4 DEF Elapse, TypeOK, SeatsOK, ParticipantsOK, IsMap, Participant, Driving, ActiveSession
    <2> QED
      BY <1>4, <2>1, StandingDrives DEF Elapse, input, Attended
  <1>5. CASE Sweep
    BY <1>1, <1>5, RepublishDrives DEF Sweep
  <1>6. ASSUME NEW i, TakeControl(i)
        PROVE  OwnerDrives'
    BY <1>3, <1>6 DEF TakeControl
  <1>7. ASSUME NEW i, NEW target, Handoff(i, target)
        PROVE  OwnerDrives'
    BY <1>3, <1>7 DEF Handoff
  <1>8. ASSUME NEW i, RequestControl(i)
        PROVE  OwnerDrives'
    <2> DEFINE p == sessions[i].participant
               asked == [id |-> nextRequest, epoch |-> epoch, overdue |-> FALSE]
               Y == [X EXCEPT ![p].request = asked, ![p].result = "none"]
    <2>1. SameSeats(Y)
      <3>1. \A q \in DOMAIN X : X[q] \in Participant
        BY <1>1 DEF ParticipantsOK, IsMap
      <3> HIDE DEF X, asked
      <3> QED
        BY <1>1, <3>1 DEF SameSeats, Participant
    <2>2. CASE Republish(X) \/ Republish(Y)
      BY <1>1, <1>8, <2>1, <2>2, RepublishDrives DEF RequestControl
    <2>3. CASE UpdateController(sessions, X, p)
      BY <1>3, <1>8, <2>3 DEF RequestControl
    <2> QED
      BY <1>8, <2>2, <2>3 DEF RequestControl
  <1>9. ASSUME NEW i, NEW request, NEW e, CancelControl(i, request, e)
        PROVE  OwnerDrives'
    BY <1>1, <1>2, <1>9, RepublishDrives DEF CancelControl
  <1>10. ASSUME NEW i, NEW request, NEW e, NEW target, NEW approve \in BOOLEAN,
                DecideControl(i, target, request, e, approve)
         PROVE  OwnerDrives'
    <2>1. CASE Republish(X) \/ (Republish([X EXCEPT ![target] = Clear(@, "declined")]) /\ target \in DOMAIN X)
      BY <1>1, <1>2, <1>10, <2>1, RepublishDrives DEF DecideControl
    <2>2. CASE UpdateController(sessions, [X EXCEPT ![target] = Clear(@, "approved")], target)
      BY <1>3, <1>10, <2>2 DEF DecideControl
    <2> QED
      BY <1>10, <2>1, <2>2 DEF DecideControl
  <1> QED
    BY <1>4, <1>5, <1>6, <1>7, <1>8, <1>9, <1>10 DEF Negotiation

LEMMA SendDrives ==
  ASSUME OwnerDrives, NEW src, NEW op, SendInput(src, op), UNCHANGED <<seats, serving, leaving>>,
         src.session \in SessionId => src.session = Driving /\ src \in Attended
  PROVE  OwnerDrives'
  BY DEF SendInput, OwnerDrives, seats, Driving, Attended, ActiveSession

LEMMA TypingDrives ==
  ASSUME TypeOK, OwnerDrives, Typing
  PROVE  OwnerDrives'
  <1>1. ASSUME NEW op, NEW i \in SessionId, DesktopInput(i, op)
        PROVE  OwnerDrives'
    <2> DEFINE src == [token |-> sessions[i].token, session |-> i]
    <2>1. src.session = Driving /\ src \in Attended
      BY <1>1 DEF DesktopInput, Admitted, Drives, Driving, Attended
    <2> QED
      BY <1>1, <2>1, SendDrives DEF DesktopInput, InputFrame
  <1>2. ASSUME NEW op, NEW w \in WindowId, WindowInput(w, op)
        PROVE  OwnerDrives'
    <2> DEFINE src == [token |-> windows[w], session |-> w]
    <2>1. src.session \notin SessionId
      BY BoundAssumption DEF WindowId, SessionId
    <2>2. SendInput(src, op) /\ UNCHANGED <<seats, serving, leaving>>
      BY <1>2 DEF WindowInput, InputFrame
    <2> HIDE DEF src
    <2> QED
      BY <2>1, <2>2, SendDrives
  <1>3. ASSUME NEW op, NEW t \in Token, ApiInput(t, op)
        PROVE  OwnerDrives'
    <2> DEFINE src == [token |-> t, session |-> ApiId]
    <2>1. src.session \notin SessionId
      BY BoundAssumption DEF ApiId, SessionId
    <2>2. SendInput(src, op) /\ UNCHANGED <<seats, serving, leaving>>
      BY <1>3 DEF ApiInput, InputFrame
    <2> HIDE DEF src
    <2> QED
      BY <2>1, <2>2, SendDrives
  <1>4. ASSUME NEW i, DesktopBlur(i) \/ WindowBlur(i)
        PROVE  OwnerDrives'
    <2>1. inputOwner' \subseteq inputOwner /\ UNCHANGED <<seats, serving, leaving>>
      BY <1>4 DEF DesktopBlur, WindowBlur, InputFrame, ReleaseInput, TakeInputAway, input
    <2> QED
      BY <2>1, StandingDrives DEF seats, Driving, ActiveSession, Attended
  <1> QED
    BY <1>1, <1>2, <1>3, <1>4 DEF Typing

LEMMA DrivesNext == TypeOK /\ OwnerDrives /\ [Next]_vars => OwnerDrives'
  <1> SUFFICES ASSUME TypeOK, OwnerDrives, [Next]_vars
               PROVE  OwnerDrives'
    OBVIOUS
  <1>1. CASE UNCHANGED vars
    BY <1>1, StandingDrives DEF vars, seats, input, Driving, ActiveSession, Attended
  <1>2. CASE Retirement
    <2>1. ASSUME NEW t, Unseat(t)
          PROVE  OwnerDrives'
      BY <2>1, RemoveViewersDrives DEF Unseat, Attended
    <2>2. ASSUME NEW t, TokenEnds(t) \/ CloseWindows(t) \/ Disown(t)
          PROVE  OwnerDrives'
      <3>1. inputOwner' \subseteq inputOwner /\ UNCHANGED <<seats, serving, leaving>>
        BY <2>2 DEF TokenEnds, Expire, Revoke, SweepToken, CloseWindows, Disown, TakeInputAway, input
      <3> QED
        BY <3>1, StandingDrives DEF seats, Driving, ActiveSession, Attended
    <2> QED
      BY <1>2, <2>1, <2>2 DEF Retirement, Cleanup
  <1>3. CASE Apply
    BY <1>3, StandingDrives DEF Apply, seats, Driving, ActiveSession, Attended
  <1> QED
    BY <1>1, <1>2, <1>3, RegistrationDrives, MessageDrives, TypingDrives DEF Next

\* A desktop session that owns the input is the controller's active connection
\* and is still to release it, after any handover, pop-out, loss of a
\* connection or end of a token.
THEOREM OwnerKeepsDriving == Spec => []OwnerDrives
  <1>1. Init => OwnerDrives
    BY DEF Init, OwnerDrives
  <1> QED
    BY <1>1, TypeInit, TypeNext, DrivesNext, PTL DEF Spec

-----------------------------------------------------------------------------
(* What a token that ended leaves behind.  Its cleanup goes through the     *)
(* locks one after the other, and whatever it has passed stays empty,       *)
(* because only a live token adds to it.                                    *)

Gone ==
  \A t \in Token :
    /\ phase[t] \in {"unseated", "unwindowed", "clean"} => \A i \in DOMAIN sessions : sessions[i].token # t
    /\ phase[t] \in {"unwindowed", "clean"} => \A w \in DOMAIN windows : windows[w] # t
    /\ phase[t] = "clean" => \A s \in inputOwner : s.token # t

\* every session, window and owner after the step was there before, or has a live token
NoneReturns ==
  /\ \A i \in DOMAIN sessions' :
       \/ i \in DOMAIN sessions /\ sessions'[i].token = sessions[i].token
       \/ Live(sessions'[i].token)
  /\ \A w \in DOMAIN windows' :
       \/ w \in DOMAIN windows /\ windows'[w] = windows[w]
       \/ Live(windows'[w])
  /\ \A s \in inputOwner' : s \in inputOwner \/ Live(s.token)

LEMMA GoneStays ==
  ASSUME Gone, NoneReturns, UNCHANGED phase
  PROVE  Gone'
  BY DEF Gone, NoneReturns, Live

\* the input is at most taken away in a change of the seats
LEMMA UpdateControllerTakes ==
  ASSUME NEW S, NEW P, NEW c, UpdateController(S, P, c)
  PROVE  sessions' = S /\ inputOwner' \subseteq inputOwner
  <1>1. \A a, b : MoveInput(a, b) => inputOwner' \subseteq inputOwner
    BY DEF MoveInput, TakeInputAway, input
  <1>2. sessions' = S
    BY Zenon DEF UpdateController
  <1>3. \E a, b : MoveInput(a, b)
    BY Zenon DEF UpdateController
  <1> QED
    BY <1>1, <1>2, <1>3

LEMMA RemoveViewersTakes ==
  ASSUME NEW removed, RemoveViewers(removed)
  PROVE  /\ sessions' = [i \in DOMAIN sessions \ removed |-> sessions[i]]
         /\ inputOwner' \subseteq inputOwner
  <1> DEFINE S == [i \in DOMAIN sessions \ removed |-> sessions[i]]
  <1>1. \E P, c : UpdateController(S, P, c)
    BY Zenon DEF RemoveViewers
  <1> HIDE DEF S
  <1>2. sessions' = S /\ inputOwner' \subseteq inputOwner
    BY <1>1, UpdateControllerTakes
  <1> QED
    BY <1>2 DEF S

LEMMA RegistrationGone ==
  ASSUME Gone, Registration
  PROVE  Gone'
  <1>1. ASSUME NEW t, NEW join, NEW resume, NEW pip, Connect(t, join, resume, pip)
        PROVE  NoneReturns /\ UNCHANGED phase
    <2>1. Live(t) /\ UNCHANGED <<phase, windows>>
      BY <1>1 DEF Connect
    <2>2. CASE UNCHANGED <<sessions, input>>
      BY <2>1, <2>2 DEF NoneReturns, input
    <2>3. CASE ~(UNCHANGED <<sessions, input>>)
      <3> DEFINE id == nextSession
                 p == IF join \in DOMAIN participants THEN join ELSE id
                 S == [i \in DOMAIN sessions \cup {id} |->
                         IF i = id THEN [token |-> t, participant |-> p, pip |-> pip] ELSE sessions[i]]
      <3>1. \E P, c : UpdateController(S, P, c)
        BY <1>1, <2>3, Zenon DEF Connect
      <3>2. \A i \in DOMAIN S : (i \in DOMAIN sessions /\ S[i].token = sessions[i].token) \/ S[i].token = t
        OBVIOUS
      <3> HIDE DEF S
      <3>3. sessions' = S /\ inputOwner' \subseteq inputOwner
        BY <3>1, UpdateControllerTakes
      <3> QED
        BY <2>1, <3>2, <3>3 DEF NoneReturns
    <2> QED
      BY <2>2, <2>3
  <1>2. ASSUME NEW src, Disconnect(src)
        PROVE  NoneReturns /\ UNCHANGED phase
    <2>1. /\ sessions' = [i \in DOMAIN sessions \ {src.session} |-> sessions[i]]
          /\ inputOwner' \subseteq inputOwner /\ UNCHANGED <<phase, windows>>
      BY <1>2, RemoveViewersTakes DEF Disconnect
    <2> QED
      BY <2>1 DEF NoneReturns
  <1>3. ASSUME NEW src, CloseWindow(src)
        PROVE  NoneReturns /\ UNCHANGED phase
    BY <1>3 DEF CloseWindow, NoneReturns, seats, input
  <1>4. ASSUME NEW src, Leave(src)
        PROVE  NoneReturns /\ UNCHANGED phase
    BY <1>4 DEF Leave, ReleaseInput, TakeInputAway, NoneReturns, seats, input
  <1>5. ASSUME NEW t, OpenWindow(t)
        PROVE  NoneReturns /\ UNCHANGED phase
    BY <1>5 DEF OpenWindow, NoneReturns, seats, input
  <1> QED
    BY <1>1, <1>2, <1>3, <1>4, <1>5, GoneStays DEF Registration

LEMMA NegotiationGone ==
  ASSUME TypeOK, Gone, Negotiation
  PROVE  Gone'
  <1>1. CASE \E p \in SessionId : Elapse(p)
    BY <1>1, GoneStays DEF Elapse, NoneReturns, input
  <1>2. ASSUME NEW P, Republish(P), ControlFrame
        PROVE  Gone'
    BY <1>2, GoneStays DEF Republish, ControlFrame, NoneReturns, input
  <1>3. ASSUME NEW P, NEW c, UpdateController(sessions, P, c), ControlFrame
        PROVE  Gone'
    BY <1>3, UpdateControllerTakes, GoneStays DEF ControlFrame, NoneReturns
  <1>4. CASE Sweep
    BY <1>2, <1>4 DEF Sweep
  <1> QED
    BY <1>1, <1>2, <1>3, <1>4, NegotiationShape DEF Negotiation

LEMMA TypingGone ==
  ASSUME Gone, Typing
  PROVE  Gone'
  <1>1. ASSUME NEW src, NEW op, SendInput(src, op), Live(src.token), InputFrame
        PROVE  Gone'
    BY <1>1, GoneStays DEF SendInput, InputFrame, NoneReturns, seats
  <1>2. ASSUME NEW op, NEW i, DesktopInput(i, op)
        PROVE  Gone'
    BY <1>1, <1>2 DEF DesktopInput, Admitted
  <1>3. ASSUME NEW op, NEW w, WindowInput(w, op)
        PROVE  Gone'
    BY <1>1, <1>3 DEF WindowInput, HasControl
  <1>4. ASSUME NEW op, NEW t, ApiInput(t, op)
        PROVE  Gone'
    BY <1>1, <1>4 DEF ApiInput, HasControl
  <1>5. ASSUME NEW i, DesktopBlur(i) \/ WindowBlur(i)
        PROVE  Gone'
    BY <1>5, GoneStays
       DEF DesktopBlur, WindowBlur, InputFrame, ReleaseInput, TakeInputAway, NoneReturns, seats, input
  <1> QED
    BY <1>2, <1>3, <1>4, <1>5 DEF Typing

LEMMA RetirementGone ==
  ASSUME TypeOK, Gone, NEW t \in Token, TokenEnds(t) \/ Cleanup(t)
  PROVE  Gone'
  <1>1. phase \in [Token -> Phase]
    BY DEF TypeOK, OtherOK
  <1>2. CASE TokenEnds(t)
    BY <1>1, <1>2 DEF TokenEnds, Expire, Revoke, SweepToken, Gone, seats, input
  <1>3. CASE Unseat(t)
    <2>1. /\ sessions' = [i \in DOMAIN sessions \ {i \in DOMAIN sessions : sessions[i].token = t} |-> sessions[i]]
          /\ inputOwner' \subseteq inputOwner
      BY <1>3, RemoveViewersTakes DEF Unseat
    <2> QED
      BY <1>1, <1>3, <2>1 DEF Unseat, Gone
  <1>4. CASE CloseWindows(t)
    BY <1>1, <1>4 DEF CloseWindows, Gone, seats, input
  <1>5. CASE Disown(t)
    <2>1. inputOwner' \subseteq inputOwner /\ \A s \in inputOwner' : s.token # t
      BY <1>5 DEF Disown, TakeInputAway, input
    <2> QED
      BY <1>1, <1>5, <2>1 DEF Disown, Gone, seats
  <1> QED
    BY <1>2, <1>3, <1>4, <1>5 DEF Cleanup

LEMMA GoneNext == TypeOK /\ Gone /\ [Next]_vars => Gone'
  <1> SUFFICES ASSUME TypeOK, Gone, [Next]_vars
               PROVE  Gone'
    OBVIOUS
  <1>1. CASE UNCHANGED vars
    BY <1>1, GoneStays DEF vars, seats, input, NoneReturns
  <1>2. CASE Apply
    BY <1>2, GoneStays DEF Apply, seats, NoneReturns
  <1> QED
    BY <1>1, <1>2, RegistrationGone, NegotiationGone, TypingGone, RetirementGone DEF Next, Retirement

\* When a token's cleanup has run, no session, no window and not the input is
\* its own, and once the channel has drained no key either: no other handler
\* brings anything of it back between the cleanup's steps or after them.
THEOREM CleanTokensHoldNothing == Spec => []CleanTokenHoldsNothing
  <1>1. Init => Gone
    BY DEF Init, Gone, NoEntries
  <1>2. Gone /\ HeldByOwner => CleanTokenHoldsNothing
    BY DEF Gone, HeldByOwner, CleanTokenHoldsNothing
  <1> QED
    BY <1>1, <1>2, TypeInit, TypeNext, GoneNext, KeysStayOwned, PTL DEF Spec

-----------------------------------------------------------------------------
(* Requests settle once.  Every handler looks at the requests after it has  *)
(* expired those overdue, so an answer can only meet one that is still due. *)

\* what RequestsSettleOnce asks of participant p, under the controller c after the step
Settles(before, after, p, c) ==
  Pending(before) /\ after.request.id # before.request.id =>
    /\ IF Pending(after) THEN before.request.overdue ELSE after.result # "none"
    /\ after.result \in {"approved", "declined", "cancelled"} => ~before.request.overdue
    /\ after.result = "approved" => c = p

SettledIn(P, c) == \A p \in DOMAIN participants \cap DOMAIN P : Settles(participants[p], P[p], p, c)

SettlesOnce == SettledIn(participants', controller')

\* what Clear leaves of a participant
LEMMA ClearFields ==
  ASSUME NEW p \in Participant, NEW o
  PROVE  Clear(p, o).request = NoRequest /\ Clear(p, o).result = o /\ ~Pending(Clear(p, o))
  BY DEF Clear, Participant, NoRequest, Pending, None

LEMMA ExpiredSettles ==
  ASSUME TypeOK
  PROVE  /\ \A p \in DOMAIN participants : participants[p] \in Participant
         /\ DOMAIN Expired(participants) = DOMAIN participants
         /\ \A p \in DOMAIN participants :
              \/ Expired(participants)[p] = participants[p] /\ ~Overdue(participants[p])
              \/ /\ Overdue(participants[p])
                 /\ Expired(participants)[p].request = NoRequest
                 /\ Expired(participants)[p].result = "expired"
         /\ \A c : SettledIn(Expired(participants), c)
  <1>1. \A p \in DOMAIN participants : participants[p] \in Participant
    BY DEF TypeOK, SeatsOK, ParticipantsOK, IsMap
  <1>2. /\ DOMAIN Expired(participants) = DOMAIN participants
        /\ \A p \in DOMAIN participants :
             \/ Expired(participants)[p] = participants[p] /\ ~Overdue(participants[p])
             \/ /\ Overdue(participants[p])
                /\ Expired(participants)[p].request = NoRequest
                /\ Expired(participants)[p].result = "expired"
    BY <1>1, ClearFields DEF Expired
  <1> QED
    BY <1>1, <1>2 DEF SettledIn, Settles, Pending, NoRequest, None

\* ending the requests that still stand settles them
LEMMA EndedSettles ==
  ASSUME NEW P, ParticipantsOK(P), NEW c, SettledIn(P, c)
  PROVE  SettledIn(Ended(P), c)
  <1>1. /\ DOMAIN Ended(P) = DOMAIN P
        /\ \A p \in DOMAIN P :
             \/ Ended(P)[p] = P[p]
             \/ ~Pending(Ended(P)[p]) /\ Ended(P)[p].result = "controller_changed"
    BY ClearFields DEF Ended, ParticipantsOK, IsMap
  <1> QED
    BY <1>1 DEF SettledIn, Settles

LEMMA UpdateControllerSettles ==
  ASSUME NEW S, NEW P, NEW c, ParticipantsOK(P), SettledIn(P, c), UpdateController(S, P, c)
  PROVE  SettlesOnce
  <1>1. controller' = c /\ participants' \in {P, Ended(P)}
    BY Zenon DEF UpdateController
  <1> QED
    BY <1>1, EndedSettles DEF SettlesOnce

LEMMA RepublishSettles ==
  ASSUME NEW P, SettledIn(P, controller), Republish(P)
  PROVE  SettlesOnce
  BY DEF Republish, SettlesOnce

\* participants whose requests are as before
LEMMA SameRequestsSettle ==
  ASSUME NEW P, NEW c,
         \A p \in DOMAIN participants \cap DOMAIN P : P[p].request.id = participants[p].request.id
  PROVE  SettledIn(P, c)
  BY DEF SettledIn, Settles

LEMMA RemoveViewersSettles ==
  ASSUME TypeOK, NEW removed, RemoveViewers(removed)
  PROVE  SettlesOnce
  <1> DEFINE S == [i \in DOMAIN sessions \ removed |-> sessions[i]]
             kept == {p \in DOMAIN participants : Remaining(S, p) # {}}
  <1>1. PICK pick \in [kept -> DOMAIN S] :
          \E c : UpdateController(S, [p \in kept |-> [participants[p] EXCEPT !.active = pick[p]]], c)
    BY Zenon DEF RemoveViewers
  <1> DEFINE P == [p \in kept |-> [participants[p] EXCEPT !.active = pick[p]]]
  <1>2. /\ \A p \in DOMAIN participants : participants[p] \in Participant
        /\ DOMAIN participants \subseteq SessionId /\ DOMAIN S \subseteq SessionId
    BY DEF TypeOK, SeatsOK, ParticipantsOK, SessionsOK, IsMap
  <1>3. kept \subseteq DOMAIN participants
    OBVIOUS
  <1> HIDE DEF S, kept
  <1>4. ParticipantsOK(P) /\ \A p \in kept : P[p].request.id = participants[p].request.id
    BY <1>2, <1>3 DEF ParticipantsOK, IsMap, Participant
  <1>5. \A c : SettledIn(P, c)
    BY <1>4, SameRequestsSettle
  <1> HIDE DEF P
  <1>6. \E c : UpdateController(S, P, c)
    BY <1>1 DEF P
  <1> QED
    BY <1>4, <1>5, <1>6, UpdateControllerSettles

LEMMA ConnectSettles ==
  ASSUME TypeOK, SeatsConsistent, NEW t \in Token, NEW join \in {None} \cup SessionId,
         NEW resume \in BOOLEAN, NEW pip \in BOOLEAN, Connect(t, join, resume, pip)
  PROVE  SettlesOnce
  <1> DEFINE id == nextSession
             p == IF join \in DOMAIN participants THEN join ELSE id
             own == [token |-> t, active |-> id, request |-> NoRequest, result |-> "none"]
             P == [q \in DOMAIN participants \cup {p} |->
                     IF q # p THEN participants[q]
                     ELSE IF p = id THEN own
                     ELSE IF pip THEN [participants[p] EXCEPT !.active = id]
                     ELSE participants[p]]
  <1>1. CASE UNCHANGED <<sessions, participants, controller, epoch, roster, input, serving>>
    BY <1>1, SameRequestsSettle DEF SettlesOnce
  <1>2. ASSUME NEW S, NEW c, UpdateController(S, P, c)
        PROVE  SettlesOnce
    <2>1. \A q \in DOMAIN participants : participants[q] \in Participant
      BY DEF TypeOK, SeatsOK, ParticipantsOK, IsMap
    <2>2. id \in SessionId /\ p \in SessionId
      BY DEF Connect, TypeOK, OtherOK, SessionId, SeatsOK, ParticipantsOK, IsMap
    <2>3. own \in Participant
      BY <2>2 DEF Participant, NoRequest, Request, Outcome, None
    <2>4. p # id => /\ p \in DOMAIN participants
                    /\ [participants[p] EXCEPT !.active = id] \in Participant
                    /\ [participants[p] EXCEPT !.active = id].request = participants[p].request
      BY <2>1, <2>2 DEF Participant
    <2>5. \A q \in DOMAIN P : P[q] \in Participant
      BY <2>1, <2>3, <2>4
    <2>6. ParticipantsOK(P)
      BY <2>2, <2>5 DEF ParticipantsOK, IsMap, TypeOK, SeatsOK
    <2>7. id \notin DOMAIN participants    \* an id in use is never handed out again
      BY <2>2 DEF SeatsConsistent, SessionId
    <2>8. \A q \in DOMAIN participants : P[q].request = participants[q].request
      BY <2>4, <2>7
    <2> HIDE DEF P
    <2>9. SettledIn(P, c)
      BY <2>8, SameRequestsSettle
    <2> QED
      BY <1>2, <2>6, <2>9, UpdateControllerSettles
  <1> QED
    BY <1>1, <1>2 DEF Connect

LEMMA MessageSettles ==
  ASSUME TypeOK, Negotiation
  PROVE  SettlesOnce
  <1> DEFINE X == Expired(participants)
  <1>1. /\ ParticipantsOK(participants) /\ ParticipantsOK(X)
        /\ \A c : SettledIn(X, c) /\ SettledIn(participants, c)
    BY ExpiredType, ExpiredSettles, SameRequestsSettle DEF TypeOK, SeatsOK
  <1>2. ASSUME NEW p \in DOMAIN X, Pending(X[p]), NEW o \in Outcome \ {"none"}, NEW c, o = "approved" => c = p
        PROVE  ParticipantsOK([X EXCEPT ![p] = Clear(@, o)]) /\ SettledIn([X EXCEPT ![p] = Clear(@, o)], c)
    <2>1. X[p] \in Participant /\ X[p] = participants[p] /\ ~Overdue(participants[p])
      BY <1>1, <1>2, ExpiredSettles DEF ParticipantsOK, IsMap, Pending, NoRequest, None
    <2>2. Clear(X[p], o) \in Participant /\ Clear(X[p], o).result = o /\ ~Pending(Clear(X[p], o))
      BY <2>1, ClearType, ClearFields
    <2>3. Settles(participants[p], Clear(X[p], o), p, c)
      BY <1>2, <2>1, <2>2 DEF Settles, Overdue
    <2>4. SettledIn(X, c)
      BY <1>1
    <2> HIDE DEF X
    <2>5. SettledIn([X EXCEPT ![p] = Clear(@, o)], c)
      BY <2>3, <2>4 DEF SettledIn
    <2> QED
      BY <1>1, <2>2, <2>5 DEF ParticipantsOK, IsMap
  <1>3. ASSUME NEW p \in SessionId, Elapse(p)
        PROVE  SettlesOnce
    <2>1. \A q \in DOMAIN participants : participants'[q].request.id = participants[q].request.id
      BY <1>3, ExpiredSettles DEF Elapse, Participant, Request
    <2>2. DOMAIN participants' = DOMAIN participants
      BY <1>3 DEF Elapse
    <2> QED
      BY <2>1, <2>2, SameRequestsSettle DEF SettlesOnce
  <1>4. CASE Sweep
    BY <1>1, <1>4, RepublishSettles DEF Sweep
  <1>5. ASSUME NEW i, TakeControl(i)
        PROVE  SettlesOnce
    BY <1>1, <1>5, UpdateControllerSettles DEF TakeControl
  <1>6. ASSUME NEW i, NEW target, Handoff(i, target)
        PROVE  SettlesOnce
    BY <1>1, <1>6, UpdateControllerSettles DEF Handoff
  <1>7. ASSUME NEW i, RequestControl(i)
        PROVE  SettlesOnce
    <2> DEFINE p == sessions[i].participant
               asked == [id |-> nextRequest, epoch |-> epoch, overdue |-> FALSE]
               Y == [X EXCEPT ![p].request = asked, ![p].result = "none"]
    <2>1. CASE Republish(X)
      BY <1>1, <2>1, RepublishSettles
    <2>2. CASE UpdateController(sessions, X, p)
      BY <1>1, <2>2, UpdateControllerSettles
    <2>3. CASE ~Pending(X[p]) /\ Republish(Y)
      <3>1. /\ DOMAIN X = DOMAIN participants
            /\ \A q \in DOMAIN X : X[q] \in Participant
            /\ \A q \in DOMAIN X : X[q] = participants[q] \/ Overdue(participants[q])
            /\ SettledIn(X, controller)
        BY <1>1, ExpiredSettles DEF ParticipantsOK, IsMap
      <3> HIDE DEF X, asked
      <3>2. /\ DOMAIN Y = DOMAIN X
            /\ \A q \in DOMAIN X : q # p => Y[q] = X[q]
            /\ p \in DOMAIN X => Y[p].result = "none" /\ Y[p].request = asked
        BY <3>1 DEF Participant
      <3>3. p \in DOMAIN X => Settles(participants[p], Y[p], p, controller)
        BY <2>3, <3>1, <3>2 DEF Settles, asked, Overdue, Pending, None, TypeOK, OtherOK
      <3>4. SettledIn(Y, controller)
        BY <3>1, <3>2, <3>3 DEF SettledIn
      <3> QED
        BY <2>3, <3>4, RepublishSettles
    <2> QED
      BY <1>7, <2>1, <2>2, <2>3 DEF RequestControl
  <1>8. ASSUME NEW i, NEW request \in 1 .. nextRequest - 1, NEW e, CancelControl(i, request, e)
        PROVE  SettlesOnce
    <2> DEFINE p == sessions[i].participant
    <2>1. CASE Republish(X)
      BY <1>1, <2>1, RepublishSettles
    <2>2. CASE p \in DOMAIN X /\ X[p].request.id = request /\ Republish([X EXCEPT ![p] = Clear(@, "cancelled")])
      <3>1. Pending(X[p])
        BY <2>2 DEF Pending, None, TypeOK, OtherOK
      <3> QED
        BY <1>2, <2>2, <3>1, RepublishSettles DEF Outcome
    <2> QED
      BY <1>8, <2>1, <2>2 DEF CancelControl
  <1>9. ASSUME NEW i, NEW request \in 1 .. nextRequest - 1, NEW e, NEW target, NEW approve \in BOOLEAN,
               DecideControl(i, target, request, e, approve)
        PROVE  SettlesOnce
    <2>1. CASE Republish(X)
      BY <1>1, <2>1, RepublishSettles
    <2>2. CASE /\ target \in DOMAIN X /\ X[target].request.id = request
               /\ \/ Republish([X EXCEPT ![target] = Clear(@, "declined")])
                  \/ UpdateController(sessions, [X EXCEPT ![target] = Clear(@, "approved")], target)
      <3>1. Pending(X[target])
        BY <2>2 DEF Pending, None, TypeOK, OtherOK
      <3>2. CASE Republish([X EXCEPT ![target] = Clear(@, "declined")])
        BY <1>2, <2>2, <3>1, <3>2, RepublishSettles DEF Outcome
      <3>3. CASE UpdateController(sessions, [X EXCEPT ![target] = Clear(@, "approved")], target)
        BY <1>2, <2>2, <3>1, <3>3, UpdateControllerSettles DEF Outcome
      <3> QED
        BY <2>2, <3>2, <3>3
    <2> QED
      BY <1>9, <2>1, <2>2 DEF DecideControl
  <1> QED
    BY <1>3, <1>4, <1>5, <1>6, <1>7, <1>8, <1>9 DEF Negotiation

LEMMA SettlesNext == TypeOK /\ SeatsConsistent /\ [Next]_vars => SettlesOnce
  <1> SUFFICES ASSUME TypeOK, SeatsConsistent, [Next]_vars
               PROVE  SettlesOnce
    OBVIOUS
  <1>1. CASE UNCHANGED participants
    BY <1>1, SameRequestsSettle DEF SettlesOnce
  <1>2. CASE Registration
    <2>1. ASSUME NEW src, Disconnect(src)
          PROVE  SettlesOnce
      BY <2>1, RemoveViewersSettles DEF Disconnect
    <2>2. ASSUME NEW src, CloseWindow(src) \/ Leave(src)
          PROVE  UNCHANGED participants
      BY <2>2 DEF CloseWindow, Leave, seats
    <2>3. ASSUME NEW t, OpenWindow(t)
          PROVE  UNCHANGED participants
      BY <2>3 DEF OpenWindow, seats
    <2> QED
      BY <1>1, <1>2, <2>1, <2>2, <2>3, ConnectSettles DEF Registration
  <1>3. CASE Retirement
    <2>1. ASSUME NEW t, Unseat(t)
          PROVE  SettlesOnce
      BY <2>1, RemoveViewersSettles DEF Unseat
    <2>2. ASSUME NEW t, TokenEnds(t) \/ CloseWindows(t) \/ Disown(t)
          PROVE  UNCHANGED participants
      BY <2>2 DEF TokenEnds, Expire, Revoke, SweepToken, CloseWindows, Disown, seats
    <2> QED
      BY <1>1, <1>3, <2>1, <2>2 DEF Retirement, Cleanup
  <1>4. Typing \/ Apply \/ UNCHANGED vars => UNCHANGED participants
    BY DEF Typing, DesktopInput, DesktopBlur, WindowInput, WindowBlur, ApiInput, InputFrame, Apply, vars, seats
  <1> QED
    BY <1>1, <1>2, <1>3, <1>4, MessageSettles DEF Next

\* A request is settled by one answer that was still due, an approval makes its
\* participant the controller, and a new request takes its place only when it
\* had run out, whatever handover, removal or deadline the answer races.
THEOREM RequestsAreSettledOnce == Spec => RequestsSettleOnce
  <1> DEFINE Before == TypeOK /\ SeatsConsistent
  <1>1. Before /\ [Next]_vars => [SettlesOnce]_vars
    BY SettlesNext
  <1>2. SettlesOnce =>
          \A p \in DOMAIN participants \cap DOMAIN participants' :
            LET before == participants[p]
                after == participants'[p]
            IN  Pending(before) /\ after.request.id # before.request.id =>
                  /\ IF Pending(after) THEN before.request.overdue ELSE after.result # "none"
                  /\ after.result \in {"approved", "declined", "cancelled"} => ~before.request.overdue
                  /\ after.result = "approved" => controller' = p
    BY DEF SettlesOnce, SettledIn, Settles
  <1> QED
    BY <1>1, <1>2, TypeCorrect, SeatsStayConsistent, PTL DEF Spec, RequestsSettleOnce

-----------------------------------------------------------------------------
(* The lock and the channel implement DesktopOwnership.  Only the command    *)
(* the compositor takes next matters: what is down belongs to its source.    *)

LEMMA HeadFinds ==
  ASSUME NEW c \in Seq(Command), c # <<>>, NEW owner, NEW down, Exclusive(c, owner, down),
         ~Releases(Head(c))
  PROVE  \E s \in Source : Head(c).source = {s} /\ down \subseteq {s}
  <1>1. Len(c) \in Nat /\ 1 \in 1 .. Len(c) /\ Head(c) = c[1]
    OBVIOUS
  <1>2. PICK s \in Source : c[1].source = {s}
    BY <1>1 DEF Exclusive
  <1>3. ~ReleaseIn(c, 1, 1)
    BY <1>1 DEF ReleaseIn
  <1>4. ASSUME NEW r \in down
        PROVE  r = s
    BY <1>1, <1>2, <1>3, <1>4 DEF Exclusive
  <1> QED
    BY <1>1, <1>2, <1>4

LEMMA ApplyOwns ==
  ASSUME TypeOK, KeysExclusive, Apply
  PROVE  UNCHANGED inputOwner /\ (Ownership!Lift \/ \E s \in Source : Ownership!Press(s))
  <1> DEFINE cmd == Head(commands)
  <1>1. commands \in Seq(Command) /\ commands # <<>> /\ cmd \in Command
    BY DEF TypeOK, InputOK, Apply
  <1>2. UNCHANGED inputOwner /\ held' = Applied(cmd, held)
    BY Zenon DEF Apply, Applied
  <1>3. CASE cmd.op = "release_all"
    BY <1>2, <1>3 DEF Applied, Ownership!Lift
  <1>4. CASE cmd.op # "release_all"
    <2>1. PICK s \in Source : cmd.source = {s} /\ held \subseteq {s}
      BY <1>1, <1>4, HeadFinds DEF KeysExclusive, Releases
    <2>2. CASE cmd.op = "press"
      BY <1>2, <2>1, <2>2 DEF Applied, Ownership!Press
    <2>3. CASE cmd.op = "lift"
      BY <1>2, <2>1, <2>3 DEF Applied, Ownership!Lift
    <2> QED
      BY <1>1, <1>4, <2>2, <2>3 DEF Command
  <1> QED
    BY <1>3, <1>4, <1>2

LEMMA StepsOwn == TypeOK /\ KeysExclusive /\ [Next]_vars => [Ownership!Next]_<<inputOwner, held>>
  <1> SUFFICES ASSUME TypeOK, KeysExclusive, InputStep
               PROVE  [Ownership!Next]_<<inputOwner, held>>
    BY InputShape
  <1>1. CASE UNCHANGED <<input, held>>
    BY <1>1 DEF input
  <1>2. CASE TakeInputAway /\ UNCHANGED held
    BY <1>2 DEF TakeInputAway, Ownership!Next, Ownership!Yield
  <1>3. ASSUME NEW src \in Source, NEW op, SendInput(src, op), UNCHANGED held
        PROVE  Ownership!Next
    BY <1>3 DEF SendInput, Ownership!Next, Ownership!Take
  <1>4. CASE Apply
    BY <1>4, ApplyOwns DEF Ownership!Next
  <1> QED
    BY <1>1, <1>2, <1>3, <1>4 DEF InputStep

\* Sessions that come, go, hand over and expire, HTTP and MCP input beside them,
\* and a channel drained late: together they do what one owner and one holder of
\* the keyboard would do.
THEOREM ImplementsOwnership == Spec => KeepsOwnership
  <1>1. Init => Ownership!Init
    BY DEF Init, Ownership!Init
  <1>2. TypeOK /\ KeysExclusive /\ [Next]_vars => [Ownership!Next]_Ownership!vars
    BY StepsOwn DEF Ownership!vars
  <1> QED
    BY <1>1, <1>2, TypeInit, TypeNext, KeysInit, KeysNext, PTL
    DEF Spec, KeepsOwnership, Ownership!Spec
=============================================================================
