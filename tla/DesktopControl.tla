--------------------------- MODULE DesktopControl ---------------------------
(***************************************************************************)
(* Who controls the shared desktop, and whose keys are down on it.         *)
(*                                                                         *)
(* The server (crates/elsewhere-server) keeps the desktop's sessions and   *)
(* the participants they belong to in one Viewers record under one mutex;  *)
(* every handler below holds it from beginning to end and is one action.   *)
(* The owner of the input is a second record under a nested mutex, which   *)
(* HTTP, MCP and window sessions take without the first.  Commands reach   *)
(* the compositor thread through an unbounded FIFO channel.                *)
(*                                                                         *)
(* An Option of the code is a set of at most one element where its value   *)
(* is a record, and None == 0 where it is an id (ids start at 1).          *)
(***************************************************************************)
EXTENDS Integers, Sequences, FiniteSets

CONSTANTS
  Token,          \* access tokens
  ControlTokens,  \* those that grant desktop.control
  TakeTokens,     \* those that grant desktop.take_control as well
  MaxSession,     \* bound: desktop sessions ever registered
  MaxWindow,      \* bound: window sessions ever registered
  MaxRequest,     \* bound: control requests ever made
  MaxEpoch,       \* bound: no voluntary change of controller past this epoch
  MaxQueue        \* bound: input is sent while fewer commands are queued

ASSUME TokenAssumption == TakeTokens \subseteq ControlTokens /\ ControlTokens \subseteq Token
ASSUME BoundAssumption ==
  /\ MaxSession \in Nat /\ MaxWindow \in Nat /\ MaxRequest \in Nat
  /\ MaxEpoch \in Nat /\ MaxQueue \in Nat

None == 0
NoEntries == [x \in {} |-> None]   \* an empty map
SessionId == 1 .. MaxSession
WindowId == (MaxSession + 1) .. (MaxSession + MaxWindow)   \* stream | 1 << 63
ApiId == MaxSession + MaxWindow + 1                        \* u64::MAX: HTTP and MCP
Source == [token : Token, session : SessionId \cup WindowId \cup {ApiId}]

Session == [token : Token, participant : SessionId, pip : BOOLEAN]
Request == [id : Nat, epoch : Nat, overdue : BOOLEAN]
NoRequest == [id |-> None, epoch |-> 0, overdue |-> FALSE]
Outcome == {"none", "approved", "declined", "cancelled", "expired", "controller_changed"}
Participant == [token : Token, active : SessionId, request : Request, result : Outcome]
Command == [op : {"press", "lift", "release_all"}, source : SUBSET Source]
Phase == {"live", "expired", "cancelled", "unseated", "unwindowed", "clean"}

VARIABLES
  phase,         \* [Token -> Phase]: live, or expired; then cancelled, and the cleanup's progress
  sessions,      \* desktop session id -> Session
  participants,  \* participant id (the id of its first session) -> Participant
  controller,    \* participant id or None
  epoch,         \* control_epoch
  nextSession,   \* next_id
  nextRequest,
  roster,        \* the last roster published to every page
  windows,       \* window session id -> its token
  nextWindow,
  serving,       \* sources whose socket task is in its message loop
  leaving,       \* sources whose task deregistered and has not yet released its input
  inputOwner,    \* {} or {source}
  commands,      \* the channel to the compositor
  held           \* sources whose keys, buttons, fingers or drags the compositor holds

seats == <<sessions, participants, controller, epoch, nextSession, nextRequest, roster>>
input == <<inputOwner, commands>>
vars == <<phase, seats, windows, nextWindow, serving, leaving, input, held>>

-----------------------------------------------------------------------------
(* Reading the Viewers record. *)

Live(t) == phase[t] = "live"
HasControl(t) == t \in ControlTokens /\ Live(t)

\* A session still counts after its token has ended.
CanControlDead(S, p) == \E i \in DOMAIN S : S[i].participant = p /\ S[i].token \in ControlTokens

\* can_control, over the sessions S
CanControl(S, p) == \E i \in DOMAIN S : S[i].participant = p /\ HasControl(S[i].token)

\* active_session, for controller c and participants P
ActiveSession(c, P) == IF c \in DOMAIN P THEN P[c].active ELSE None

OwnsControl(i) ==
  /\ i \in DOMAIN sessions
  /\ sessions[i].participant = controller
  /\ HasControl(sessions[i].token)

Drives(i) == ActiveSession(controller, participants) = i /\ OwnsControl(i)

Pending(p) == p.request.id # None

\* A deadline nobody looks at.
OverdueNever(p) == FALSE

Overdue(p) == Pending(p) /\ p.request.overdue
Clear(p, outcome) == [p EXCEPT !.request = NoRequest, !.result = outcome]

\* A change of controller that leaves the requests standing.
EndedNever(P) == P

\* A request runs out without an answer.
ExpiredSilently(P) == [p \in DOMAIN P |-> IF Overdue(P[p]) THEN Clear(P[p], "none") ELSE P[p]]

\* expire_requests and end_requests, as what they leave of the participants P
Expired(P) == [p \in DOMAIN P |-> IF Overdue(P[p]) THEN Clear(P[p], "expired") ELSE P[p]]
Ended(P) == [p \in DOMAIN P |-> IF Pending(P[p]) THEN Clear(P[p], "controller_changed") ELSE P[p]]

\* publish_roster
RosterOf(P, c, e) ==
  [controller |-> c, epoch |-> e,
   members |-> [p \in DOMAIN P |->
     [request |-> P[p].request.id, epoch |-> P[p].request.epoch, result |-> P[p].result]]]

-----------------------------------------------------------------------------
(* The input lock: one owner, and commands in the order they were admitted. *)

ReleaseAll == [op |-> "release_all", source |-> {}]

\* release the owner's input, whoever it is
TakeInputAway == inputOwner' = {} /\ commands' = Append(commands, ReleaseAll)

\* The next owner's commands go out without a release of the last one's.
SendInputUnreleased(src, op) ==
  /\ Len(commands) < MaxQueue
  /\ commands' = Append(commands, [op |-> op, source |-> {src}])
  /\ inputOwner' = {src}

\* send_input: another owner's input is released before this command goes out
SendInput(src, op) ==
  /\ Len(commands) < MaxQueue
  /\ commands' = Append(IF inputOwner \subseteq {src} THEN commands ELSE Append(commands, ReleaseAll),
                        [op |-> op, source |-> {src}])
  /\ inputOwner' = {src}

\* The owner is forgotten and its keys stay down.
ReleaseInputForgetful(src) ==
  IF inputOwner = {src} THEN inputOwner' = {} /\ UNCHANGED commands ELSE UNCHANGED input

\* release_input: only the owner's
ReleaseInput(src) == IF inputOwner = {src} THEN TakeInputAway ELSE UNCHANGED input

-----------------------------------------------------------------------------
(* Every change of sessions or controller ends in update_controller.       *)

\* The driving session is compared after the change instead of before it.
MoveInputLate(previous, next) ==
  IF previous # next /\ \E o \in inputOwner : o.session = next
  THEN TakeInputAway ELSE UNCHANGED input

\* The session that drove before the handler began loses the input if another
\* one, or none, drives after it.
MoveInput(previous, next) ==
  IF previous # next /\ \E o \in inputOwner : o.session = previous
  THEN TakeInputAway ELSE UNCHANGED input

\* update_controller: install controller c over the sessions S and participants P
UpdateController(S, P, c) ==
  LET Q == IF c = controller THEN P ELSE Ended(P)
      e == IF c = controller THEN epoch ELSE epoch + 1
  IN  /\ sessions' = S
      /\ participants' = Q
      /\ controller' = c
      /\ epoch' = e
      /\ roster' = RosterOf(Q, c, e)
      /\ MoveInput(ActiveSession(controller, participants), ActiveSession(c, Q))

\* The change reaches no page.
RepublishSilently(P) ==
  /\ participants' = P
  /\ UNCHANGED <<sessions, controller, epoch, roster, input>>

\* the participants changed under an unchanged controller, and were published
Republish(P) ==
  /\ participants' = P
  /\ roster' = RosterOf(P, controller, epoch)
  /\ UNCHANGED <<sessions, controller, epoch, input>>

\* A participant's remaining session may be another participant's.
RemainingOfAll(S, p) ==
  IF \E i \in DOMAIN S : S[i].participant = p THEN {i \in DOMAIN S : Live(S[i].token)} ELSE {}

Remaining(S, p) == {i \in DOMAIN S : S[i].participant = p /\ Live(S[i].token)}

\* remove_viewers: participants without a live session go; one whose active
\* session went picks another; the controller stays if it still may control,
\* or the oldest participant that may takes over.
RemoveViewers(removed) ==
  LET S == [i \in DOMAIN sessions \ removed |-> sessions[i]]
      kept == {p \in DOMAIN participants : Remaining(S, p) # {}}
      able == {p \in kept : CanControl(S, p)}
      heirs == IF CanControl(S, controller) THEN {controller}
               ELSE IF able = {} THEN {None}
               ELSE {p \in able : \A q \in able : p <= q}
  IN  \E pick \in [kept -> DOMAIN S], c \in heirs :
        /\ \A p \in kept : IF participants[p].active \in Remaining(S, p)
                           THEN pick[p] = participants[p].active
                           ELSE pick[p] \in Remaining(S, p)
        /\ UpdateController(S, [p \in kept |-> [participants[p] EXCEPT !.active = pick[p]]], c)

-----------------------------------------------------------------------------
(* Sessions coming and going. *)

\* A page registers.  join names the participant whose secret the page
\* presents (None: it presents none); resume lets a page whose participant is
\* gone start over as a new one.  A secret of another token is refused, and so
\* is a secret nobody has: the session id is spent all the same.
Connect(t, join, resume, pip) ==
  LET id == nextSession
      refused == \/ join \in DOMAIN participants /\ participants[join].token # t
                 \/ join # None /\ join \notin DOMAIN participants /\ ~resume
      p == IF join \in DOMAIN participants THEN join ELSE id
      own == [token |-> t, active |-> id, request |-> NoRequest, result |-> "none"]
  IN  /\ Live(t)
      /\ id <= MaxSession
      /\ nextSession' = id + 1
      /\ IF refused
         THEN UNCHANGED <<sessions, participants, controller, epoch, roster, input, serving>>
         ELSE /\ UpdateController(
                   [i \in DOMAIN sessions \cup {id} |->
                      IF i = id THEN [token |-> t, participant |-> p, pip |-> pip] ELSE sessions[i]],
                   [q \in DOMAIN participants \cup {p} |->
                      IF q # p THEN participants[q]
                      ELSE IF p = id THEN own
                      ELSE IF pip THEN [participants[p] EXCEPT !.active = id]
                      ELSE participants[p]],
                   IF controller = None /\ HasControl(t) THEN p ELSE controller)
              /\ serving' = serving \cup {[token |-> t, session |-> id]}
      /\ UNCHANGED <<phase, nextRequest, windows, nextWindow, leaving, held>>

\* A session's task leaves its loop: its socket closed, or its token ended.
Disconnect(src) ==
  /\ src \in serving
  /\ src.session \in SessionId
  /\ RemoveViewers({src.session})
  /\ serving' = serving \ {src}
  /\ leaving' = leaving \cup {src}
  /\ UNCHANGED <<phase, nextSession, nextRequest, windows, nextWindow, held>>

OpenWindow(t) ==
  /\ Live(t)
  /\ nextWindow \in WindowId
  /\ windows' = [w \in DOMAIN windows \cup {nextWindow} |->
                   IF w = nextWindow THEN t ELSE windows[w]]
  /\ nextWindow' = nextWindow + 1
  /\ serving' = serving \cup {[token |-> t, session |-> nextWindow]}
  /\ UNCHANGED <<phase, seats, leaving, input, held>>

CloseWindow(src) ==
  /\ src \in serving
  /\ src.session \in WindowId
  /\ windows' = [w \in DOMAIN windows \ {src.session} |-> windows[w]]
  /\ serving' = serving \ {src}
  /\ leaving' = leaving \cup {src}
  /\ UNCHANGED <<phase, seats, nextWindow, input, held>>

\* release_input at the end of either kind of session, outside every other lock
Leave(src) ==
  /\ src \in leaving
  /\ leaving' = leaving \ {src}
  /\ ReleaseInput(src)
  /\ UNCHANGED <<phase, seats, windows, nextWindow, serving, held>>

-----------------------------------------------------------------------------
(* Control messages of a registered session with a live token. *)

Admitted(i) ==
  /\ i \in DOMAIN sessions
  /\ Live(sessions[i].token)
  /\ [token |-> sessions[i].token, session |-> i] \in serving

\* what every control message leaves alone
ControlFrame == UNCHANGED <<phase, nextSession, windows, nextWindow, serving, leaving, held>>

TakeControl(i) ==
  /\ Admitted(i) /\ epoch < MaxEpoch
  /\ HasControl(sessions[i].token)
  /\ controller = None \/ sessions[i].token \in TakeTokens
  /\ UpdateController(sessions, participants, sessions[i].participant)
  /\ UNCHANGED nextRequest /\ ControlFrame

Handoff(i, target) ==
  /\ Admitted(i) /\ epoch < MaxEpoch
  /\ OwnsControl(i)
  /\ CanControl(sessions, target)
  /\ UpdateController(sessions, participants, target)
  /\ UNCHANGED nextRequest /\ ControlFrame

RequestControl(i) ==
  LET P == Expired(participants)
      p == sessions[i].participant
      asked == [id |-> nextRequest, epoch |-> epoch, overdue |-> FALSE]
  IN  /\ Admitted(i) /\ epoch < MaxEpoch /\ nextRequest <= MaxRequest
      /\ IF ~HasControl(sessions[i].token) \/ controller = p
           THEN Republish(P) /\ UNCHANGED nextRequest
         ELSE IF controller = None
           THEN UpdateController(sessions, P, p) /\ UNCHANGED nextRequest
         ELSE IF Pending(P[p])
           THEN Republish(P) /\ UNCHANGED nextRequest
         ELSE /\ Republish([P EXCEPT ![p].request = asked, ![p].result = "none"])
              /\ nextRequest' = nextRequest + 1
      /\ ControlFrame

\* The page names the request it saw, which another message may have settled.
CancelControl(i, request, e) ==
  LET P == Expired(participants)
      p == sessions[i].participant
  IN  /\ Admitted(i)
      /\ Republish(IF p \in DOMAIN P /\ P[p].request.id = request /\ P[p].request.epoch = e
                   THEN [P EXCEPT ![p] = Clear(@, "cancelled")] ELSE P)
      /\ UNCHANGED nextRequest /\ ControlFrame

DecideControl(i, target, request, e, approve) ==
  LET P == Expired(participants)
      valid == /\ OwnsControl(i) /\ epoch = e /\ CanControl(sessions, target)
               /\ target \in DOMAIN P
               /\ P[target].request.id = request /\ P[target].request.epoch = e
  IN  /\ Admitted(i) /\ epoch < MaxEpoch
      /\ IF ~valid THEN Republish(P)
         ELSE IF approve
           THEN UpdateController(sessions, [P EXCEPT ![target] = Clear(@, "approved")], target)
         ELSE Republish([P EXCEPT ![target] = Clear(@, "declined")])
      /\ UNCHANGED nextRequest /\ ControlFrame

\* Five minutes pass over a pending request.
Elapse(p) ==
  /\ p \in DOMAIN participants
  /\ Pending(participants[p]) /\ ~participants[p].request.overdue
  /\ participants' = [participants EXCEPT ![p].request.overdue = TRUE]
  /\ UNCHANGED <<phase, sessions, controller, epoch, nextSession, nextRequest, roster,
                 windows, nextWindow, serving, leaving, input, held>>

\* sweep: every 100 ms
Sweep ==
  /\ \E p \in DOMAIN participants : Overdue(participants[p])
  /\ Republish(Expired(participants))
  /\ UNCHANGED <<nextRequest>> /\ ControlFrame

-----------------------------------------------------------------------------
(* Input, from the three kinds of source. *)

InputFrame == UNCHANGED <<phase, seats, windows, nextWindow, serving, leaving, held>>

DesktopInput(i, op) ==
  /\ Admitted(i)
  /\ Drives(i)
  /\ SendInput([token |-> sessions[i].token, session |-> i], op)
  /\ InputFrame

\* The page lost the keyboard: Blur becomes ReleaseAllInput.
DesktopBlur(i) ==
  /\ Admitted(i)
  /\ Drives(i)
  /\ ReleaseInput([token |-> sessions[i].token, session |-> i])
  /\ InputFrame

\* A window session drives its window whoever controls the desktop.
WindowInput(w, op) ==
  /\ w \in DOMAIN windows
  /\ HasControl(windows[w])
  /\ SendInput([token |-> windows[w], session |-> w], op)
  /\ InputFrame

WindowBlur(w) ==
  /\ w \in DOMAIN windows
  /\ HasControl(windows[w])
  /\ ReleaseInput([token |-> windows[w], session |-> w])
  /\ InputFrame

\* POST /api/input and the MCP input tools, which take no part in the handoff
ApiInput(t, op) ==
  /\ HasControl(t)
  /\ SendInput([token |-> t, session |-> ApiId], op)
  /\ InputFrame

-----------------------------------------------------------------------------
(* The end of a token.  Revocation cancels it and cleans up after it; expiry *)
(* alone only stops its authority, until the sweep cancels it.  cancel_token *)
(* then clears what the token held, one lock after the other.                *)

Expire(t) ==
  /\ Live(t)
  /\ phase' = [phase EXCEPT ![t] = "expired"]
  /\ UNCHANGED <<seats, windows, nextWindow, serving, leaving, input, held>>

\* DELETE /api/tokens/{id}: the row of an expired token is still there to delete
Revoke(t) ==
  /\ phase[t] \in {"live", "expired"}
  /\ phase' = [phase EXCEPT ![t] = "cancelled"]
  /\ UNCHANGED <<seats, windows, nextWindow, serving, leaving, input, held>>

\* active_tokens has weak references: the sweep finds the tokens somebody holds
Referenced(t) ==
  \/ \E i \in DOMAIN sessions : sessions[i].token = t
  \/ \E w \in DOMAIN windows : windows[w] = t
  \/ \E src \in serving \cup leaving : src.token = t

\* Every 100 ms the sweep cancels what has expired.  A request or an MCP session,
\* which this module does not follow, may hold a reference as well.
SweepToken(t) ==
  /\ phase[t] = "expired"
  /\ phase' = [phase EXCEPT ![t] = "cancelled"]
  /\ UNCHANGED <<seats, windows, nextWindow, serving, leaving, input, held>>

Unseat(t) ==
  /\ phase[t] = "cancelled"
  /\ phase' = [phase EXCEPT ![t] = "unseated"]
  /\ RemoveViewers({i \in DOMAIN sessions : sessions[i].token = t})
  /\ UNCHANGED <<nextSession, nextRequest, windows, nextWindow, serving, leaving, held>>

CloseWindows(t) ==
  /\ phase[t] = "unseated"
  /\ phase' = [phase EXCEPT ![t] = "unwindowed"]
  /\ windows' = [w \in {x \in DOMAIN windows : windows[x] # t} |-> windows[w]]
  /\ UNCHANGED <<seats, nextWindow, serving, leaving, input, held>>

\* The cleanup stops short of the input.
DisownNothing(t) ==
  /\ phase[t] = "unwindowed"
  /\ phase' = [phase EXCEPT ![t] = "clean"]
  /\ UNCHANGED <<seats, windows, nextWindow, serving, leaving, input, held>>

Disown(t) ==
  /\ phase[t] = "unwindowed"
  /\ phase' = [phase EXCEPT ![t] = "clean"]
  /\ IF \E o \in inputOwner : o.token = t THEN TakeInputAway ELSE UNCHANGED input
  /\ UNCHANGED <<seats, windows, nextWindow, serving, leaving, held>>

-----------------------------------------------------------------------------
(* The compositor thread takes the next command.  A release_all lifts every *)
(* key, button and finger and cancels a drag.                               *)

Apply ==
  /\ commands # <<>>
  /\ commands' = Tail(commands)
  /\ held' = LET cmd == Head(commands) IN
             CASE cmd.op = "press" -> held \cup cmd.source
               [] cmd.op = "lift" -> held \ cmd.source
               [] cmd.op = "release_all" -> {}
  /\ UNCHANGED <<phase, seats, windows, nextWindow, serving, leaving, inputOwner>>

-----------------------------------------------------------------------------
Init ==
  /\ phase = [t \in Token |-> "live"]
  /\ sessions = NoEntries /\ participants = NoEntries
  /\ controller = None /\ epoch = 0
  /\ nextSession = 1 /\ nextRequest = 1
  /\ roster = RosterOf(NoEntries, None, 0)
  /\ windows = NoEntries /\ nextWindow = MaxSession + 1
  /\ serving = {} /\ leaving = {}
  /\ inputOwner = {} /\ commands = <<>> /\ held = {}

Registration ==
  \/ \E t \in Token, join \in {None} \cup SessionId, resume \in BOOLEAN, pip \in BOOLEAN :
       /\ join < nextSession          \* a secret comes from a participant
       /\ join = None => ~resume /\ ~pip
       /\ Connect(t, join, resume, pip)
  \/ \E t \in Token : OpenWindow(t)
  \/ \E src \in serving : Disconnect(src) \/ CloseWindow(src)
  \/ \E src \in leaving : Leave(src)

Negotiation ==
  \/ \E i \in SessionId :
       \/ TakeControl(i)
       \/ RequestControl(i)
       \/ \E target \in SessionId : Handoff(i, target)
       \/ \E request \in 1 .. nextRequest - 1, e \in 0 .. epoch :
            \/ CancelControl(i, request, e)
            \/ \E target \in SessionId, approve \in BOOLEAN :
                 DecideControl(i, target, request, e, approve)
  \/ \E p \in SessionId : Elapse(p)
  \/ Sweep

Typing ==
  \/ \E op \in {"press", "lift"} :
       \/ \E i \in SessionId : DesktopInput(i, op)
       \/ \E w \in WindowId : WindowInput(w, op)
       \/ \E t \in Token : ApiInput(t, op)
  \/ \E i \in SessionId : DesktopBlur(i)
  \/ \E w \in WindowId : WindowBlur(w)

TokenEnds(t) == Expire(t) \/ Revoke(t) \/ SweepToken(t)
Cleanup(t) == Unseat(t) \/ CloseWindows(t) \/ Disown(t)

Retirement == \E t \in Token : TokenEnds(t) \/ Cleanup(t)

Next == Registration \/ Negotiation \/ Typing \/ Retirement \/ Apply

Spec == Init /\ [][Next]_vars

\* The sweep task runs every 100 ms and finds every expired token that is
\* referenced, time passes, a token's cleanup runs to its end, a session whose
\* token ended leaves its loop, and the compositor drains its channel.  Nothing
\* obliges a page or a user to act.
Fairness ==
  /\ WF_vars(Sweep) /\ WF_vars(Apply)
  /\ WF_vars(\E p \in SessionId : Elapse(p))
  /\ \A t \in Token : WF_vars(Referenced(t) /\ SweepToken(t)) /\ WF_vars(Cleanup(t))
  /\ WF_vars(\E src \in serving : ~Live(src.token) /\ (Disconnect(src) \/ CloseWindow(src)))
  /\ WF_vars(\E src \in leaving : Leave(src))

FairSpec == Spec /\ Fairness

\* What settling the requests needs of it: the sweep's look at the deadlines, and time.
SweepSpec == Spec /\ WF_vars(Sweep) /\ WF_vars(\E p \in SessionId : Elapse(p))

-----------------------------------------------------------------------------
(* Properties. *)

\* a map from some of the keys K to values in V
IsMap(f, K, V) == DOMAIN f \subseteq K /\ f \in [DOMAIN f -> V]

SessionsOK(S) == IsMap(S, SessionId, Session)
ParticipantsOK(P) == IsMap(P, SessionId, Participant)

SeatsOK ==
  /\ SessionsOK(sessions)
  /\ ParticipantsOK(participants)
  /\ controller \in {None} \cup SessionId
  /\ epoch \in Nat

InputOK ==
  /\ inputOwner \in {{}} \cup {{s} : s \in Source}
  /\ commands \in Seq(Command)

OtherOK ==
  /\ phase \in [Token -> Phase]
  /\ nextSession \in 1 .. MaxSession + 1
  /\ nextRequest \in 1 .. MaxRequest + 1
  /\ IsMap(windows, WindowId, Token)
  /\ nextWindow \in MaxSession + 1 .. MaxSession + MaxWindow + 1
  /\ serving \subseteq Source /\ leaving \subseteq Source
  /\ held \subseteq Source

\* Every variable keeps its type; an Option holds one value at most.
TypeOK == SeatsOK /\ InputOK /\ OtherOK

\* The two maps of the Viewers record agree: every live session sits with a
\* participant of its own token, and a participant's active connection is a
\* registered session of its own (register_participant, remove_viewers).  No id
\* in use will be handed out again.
SeatsConsistent ==
  /\ \A i \in DOMAIN sessions : Live(sessions[i].token) =>
       /\ sessions[i].participant \in DOMAIN participants
       /\ participants[sessions[i].participant].token = sessions[i].token
  /\ \A p \in DOMAIN participants :
       /\ participants[p].active \in DOMAIN sessions
       /\ sessions[participants[p].active].participant = p
  /\ \A i \in DOMAIN sessions : i < nextSession /\ sessions[i].participant < nextSession
  /\ \A p \in DOMAIN participants : p < nextSession

\* A request is pending only against the controller it was made to: it carries
\* the current epoch, and is never the controller's own (end_requests on every
\* change of controller, however it came about).
RequestsAreCurrent ==
  \A p \in DOMAIN participants : Pending(participants[p]) =>
    /\ participants[p].request.epoch = epoch
    /\ p # controller
    /\ controller # None

\* The desktop is never left without a controller while somebody connected may
\* control it, and its controller is a participant that is there.
ControlIsHeld ==
  /\ controller = None => \A p \in SessionId : ~CanControl(sessions, p)
  /\ controller # None => controller \in DOMAIN participants

\* A desktop session that owns the input is the active connection of the
\* controller, and has a task that will release it: a handover, a popped-out
\* page or a removal never leaves the input with the connection it passed over.
OwnerDrives ==
  \A o \in inputOwner : o.session \in SessionId =>
    /\ o.session = ActiveSession(controller, participants)
    /\ o \in serving \cup leaving

\* However the sources' commands interleave on the channel, the compositor never
\* holds the keys of two of them.
OneHolder == \A s, r \in held : s = r

\* Once the channel has drained, whatever is still held belongs to the owner of
\* the input, so whoever takes the input next releases it.
HeldByOwner == commands = <<>> => held \subseteq inputOwner

\* When a token's cleanup has run, nothing of it is left: no session, no window,
\* not the input; and no key, once the channel has drained.
CleanTokenHoldsNothing ==
  \A t \in Token : phase[t] = "clean" =>
    /\ \A i \in DOMAIN sessions : sessions[i].token # t
    /\ \A w \in DOMAIN windows : windows[w] # t
    /\ \A s \in inputOwner : s.token # t
    /\ commands = <<>> => \A s \in held : s.token # t

\* What the pages were last told is what holds: every change of the controller,
\* the epoch or a request is published in the handler that makes it.
RosterIsCurrent == roster = RosterOf(participants, controller, epoch)

\* A request that a participant no longer has pending was answered, and only by
\* an answer still due: after the deadline neither an approval nor a refusal
\* nor a withdrawal counts, and an approval makes that participant the controller.
\* It is asked anew at once only when it had run out.
RequestsSettleOnce ==
  [][\A p \in DOMAIN participants \cap DOMAIN participants' :
       LET before == participants[p]
           after == participants'[p]
       IN  Pending(before) /\ after.request.id # before.request.id =>
             /\ IF Pending(after) THEN before.request.overdue ELSE after.result # "none"
             /\ after.result \in {"approved", "declined", "cancelled"} => ~before.request.overdue
             /\ after.result = "approved" => controller' = p]_vars

\* A pending request never waits for ever: it is answered, or it expires.
RequestsSettle ==
  \A p \in SessionId :
    (p \in DOMAIN participants /\ Pending(participants[p]))
      ~> ~(p \in DOMAIN participants /\ Pending(participants[p]))

\* Once a token is cancelled, whatever it holds is let go, with nobody else
\* touching the desktop (cancel_token).
CancelledTokenLetsGo ==
  \A t \in Token : phase[t] = "cancelled" ~> \A s \in held \cup inputOwner : s.token # t

\* The connections of a token that expires let go of what they hold.
ExpiredConnectionsLetGo ==
  \A t \in Token : phase[t] = "expired" ~>
    \A s \in held \cup inputOwner : s.token = t => s.session = ApiId

\* Expiry invokes the same cleanup as revocation (docs/tokens.md:100), which
\* releases the input the token owns.
ExpiryCleansUp ==
  \A t \in Token : phase[t] = "expired" ~> \A s \in held \cup inputOwner : s.token # t

\* The sessions, the lock and the channel together do what DesktopOwnership
\* promises: every step of theirs is one of its steps, or none.
Ownership == INSTANCE DesktopOwnership WITH owner <- inputOwner, down <- held
KeepsOwnership == Ownership!Spec

\* The same with its liveness: keys of a source that lost the input are lifted.
OwnershipIsLive == Ownership!FairSpec
=============================================================================
