------------------------------- MODULE PageKeys -------------------------------
(***************************************************************************)
(* How the page forwards keys (viewer.js, onKey and what surrounds it): the *)
(* keys it forwarded, the paste chord it defers until the browser has       *)
(* raised its paste event, the release it swallows, and what blurs, role    *)
(* changes, file drops and the socket's end do to them.                     *)
(*                                                                          *)
(* The desktop is a set of held keys behind two message queues: it holds    *)
(* what the page sends while the page controls it (ws.rs, auth.rs), and     *)
(* lets go when told BLUR, when control moves and when the socket closes.   *)
(* Two keys are enough: a modifier, and the key that pastes with it.        *)
(***************************************************************************)
EXTENDS Integers, Sequences

CONSTANTS
  Modifier, Letter,   \* Ctrl and V
  NoKey,
  MaxMessages,        \* the bound on the messages under way to the desktop
  MaxRoles            \* the bound on how often control moves

ASSUME KeysAssumption ==
  Modifier # Letter /\ NoKey \notin {Modifier, Letter} /\ MaxMessages \in Nat /\ MaxRoles \in Nat

Keys == {Modifier, Letter}

VARIABLES
  down,      \* the keys the user's fingers are on
  focused,   \* the page has the keyboard
  forwarded, \* forwardedKeys
  deferred,  \* pendingPaste: a key, or NoKey
  swallow,   \* swallowKeyup, likewise
  dragging,  \* the page's `dragging`
  drives,    \* driving()
  connected, \* the socket is open
  toDesktop, \* messages: a key pressed or released, or BLUR
  toPage,    \* ROLE messages: whether the page drives
  controls,  \* the desktop takes this page's input
  held,      \* the keys the desktop holds for it
  moves,     \* how often control moved, up to MaxRoles
  slipped    \* keys the page let slip: see KeysLetGo

keyVars == <<down, focused, forwarded, deferred, swallow, dragging, drives, connected,
             toDesktop, toPage, controls, held, moves, slipped>>
desktopVars == <<controls, held, moves, toPage>>

Pressed(k) == [key |-> k, is |-> "down"]
Released(k) == [key |-> k, is |-> "up"]
Blurred == [key |-> NoKey, is |-> "blur"]
Message == {Pressed(k) : k \in Keys} \cup {Released(k) : k \in Keys} \cup {Blurred}

UnderWay(k) == \E i \in DOMAIN toDesktop : toDesktop[i] = Pressed(k)

\* send(): nothing on a closed socket
Send(messages) ==
  /\ connected => Len(toDesktop) + Len(messages) <= MaxMessages
  /\ toDesktop' = IF connected THEN toDesktop \o messages ELSE toDesktop

\* flushPaste: the deferred chord, if there is one
Chord == IF deferred = NoKey THEN <<>> ELSE <<Pressed(deferred), Released(deferred)>>

IsPasteKey(k) == k = Letter /\ Modifier \in down

-----------------------------------------------------------------------------
(* The keyboard. *)

\* onKey, keydown; `field` says that a control of the page has the focus.
Press(k, field) ==
  /\ focused /\ k \notin down
  /\ down' = down \cup {k}
  /\ IF field \/ ~drives THEN UNCHANGED <<deferred, forwarded, toDesktop>>
     ELSE IF IsPasteKey(k)
     THEN deferred' = k /\ UNCHANGED <<forwarded, toDesktop>>
     ELSE /\ forwarded' = IF connected THEN forwarded \cup {k} ELSE forwarded
          /\ Send(<<Pressed(k)>>) /\ UNCHANGED deferred
  /\ UNCHANGED <<focused, swallow, dragging, drives, connected, slipped, desktopVars>>

\* onKey, keyup: of a deferred key or one whose chord the desktop pastes itself, nothing
\* is sent; a modifier that goes up sends the deferred chord first.
Release(k) ==
  /\ focused /\ k \in down
  /\ down' = down \ {k}
  /\ IF ~drives THEN UNCHANGED <<deferred, swallow, forwarded, toDesktop, slipped>>
     ELSE IF k \in {deferred, swallow}
     THEN /\ swallow' = NoKey /\ slipped' = slipped \cup ({k} \cap forwarded)
          /\ UNCHANGED <<deferred, forwarded, toDesktop>>
     ELSE /\ Send(Chord \o IF k \in forwarded THEN <<Released(k)>> ELSE <<>>)
          /\ deferred' = NoKey
          /\ forwarded' = forwarded \ {k} /\ slipped' = slipped \ ({k} \cap forwarded)
          /\ UNCHANGED swallow
  /\ UNCHANGED <<focused, dragging, drives, connected, desktopVars>>

\* the keyboard goes elsewhere; what happens there the page does not see
MoveUnseen(k) ==
  /\ ~focused
  /\ down' = IF k \in down THEN down \ {k} ELSE down \cup {k}
  /\ UNCHANGED <<focused, forwarded, deferred, swallow, dragging, drives, connected, toDesktop,
                 slipped, desktopVars>>

-----------------------------------------------------------------------------
(* Pasting. *)

\* setTimeout(flushPaste, 150), and the end of a paste of text
FlushPaste ==
  /\ deferred # NoKey
  /\ Send(Chord) /\ deferred' = NoKey
  /\ UNCHANGED <<down, focused, forwarded, swallow, dragging, drives, connected, slipped, desktopVars>>

\* a paste of pixels or files: the desktop installs it and pastes its own chord
PasteImage ==
  /\ focused
  /\ swallow' = deferred /\ deferred' = NoKey
  /\ UNCHANGED <<down, focused, forwarded, dragging, drives, connected, toDesktop, slipped, desktopVars>>

-----------------------------------------------------------------------------
(* Letting go. *)

\* The keys are forgotten and the desktop is not told.
LetGoSilently ==
  /\ forwarded' = {} /\ deferred' = NoKey
  /\ UNCHANGED <<toDesktop, slipped>>

\* releaseInput
LetGo ==
  /\ forwarded' = {} /\ deferred' = NoKey
  /\ Send(<<Blurred>>) /\ slipped' = {}

\* a control that takes the keyboard, captured controls, a panel: releaseInput()
ReleaseKeys ==
  /\ focused /\ LetGo
  /\ UNCHANGED <<down, focused, swallow, dragging, drives, connected, desktopVars>>

\* blur: "the release would let go of the drag while its files are still uploading"
Blur ==
  /\ focused /\ focused' = FALSE
  /\ IF dragging = "no" THEN LetGo
     ELSE /\ deferred' = NoKey /\ slipped' = slipped \cup forwarded
          /\ UNCHANGED <<forwarded, toDesktop>>
  /\ UNCHANGED <<down, swallow, dragging, drives, connected, desktopVars>>

\* nobody turns to the page while files are dragged: then keys do not reach it
Focus ==
  /\ ~focused /\ dragging # "over" /\ focused' = TRUE
  /\ UNCHANGED <<down, forwarded, deferred, swallow, dragging, drives, connected, toDesktop, slipped,
                 desktopVars>>

\* onDragEnter: the files come from another program, which has the keyboard.  Then they
\* are dropped, and uploaded for as long as it takes; or they leave.
Drag ==
  /\ \/ dragging = "no" /\ ~focused /\ drives /\ dragging' = "over"
     \/ dragging = "over" /\ ~focused /\ dragging' \in {"no", "dropping"}
     \/ dragging = "dropping" /\ dragging' = "no"
  /\ UNCHANGED <<down, focused, forwarded, deferred, swallow, drives, connected, toDesktop, slipped,
                 desktopVars>>

-----------------------------------------------------------------------------
(* The connection and the desktop. *)

\* ROLE.  A page that hears it lost control after it has it back, or while presses are
\* under way, forgets keys the desktop may come to hold.
TakeRole ==
  /\ toPage # <<>>
  /\ toPage' = Tail(toPage) /\ drives' = Head(toPage)
  /\ IF drives' THEN UNCHANGED <<forwarded, slipped>>
     ELSE /\ forwarded' = {}
          /\ slipped' = slipped \cup {k \in forwarded : UnderWay(k) \/ Len(toPage) > 1}
  /\ UNCHANGED <<down, focused, deferred, swallow, dragging, connected, toDesktop, controls, held, moves>>

\* the desktop takes a message
TakeInput ==
  /\ toDesktop # <<>>
  /\ toDesktop' = Tail(toDesktop)
  /\ LET m == Head(toDesktop)
     IN  held' = IF ~controls THEN held
                 ELSE CASE m.is = "blur" -> {}
                        [] m.is = "down" -> held \cup {m.key}
                        [] m.is = "up" -> held \ {m.key}
  /\ UNCHANGED <<down, focused, forwarded, deferred, swallow, dragging, drives, connected, slipped,
                 toPage, controls, moves>>

\* control goes to another, who finds nothing held, or comes back
MoveControl ==
  /\ connected /\ moves < MaxRoles
  /\ moves' = moves + 1
  /\ controls' = ~controls /\ held' = {} /\ toPage' = Append(toPage, ~controls)
  /\ UNCHANGED <<down, focused, forwarded, deferred, swallow, dragging, drives, connected, toDesktop,
                 slipped>>

\* ws.onclose, and the desktop's end of it
Disconnect ==
  /\ connected /\ connected' = FALSE
  /\ forwarded' = {} /\ drives' = FALSE /\ slipped' = {}
  /\ toDesktop' = <<>> /\ toPage' = <<>> /\ controls' = FALSE /\ held' = {}
  /\ UNCHANGED <<down, focused, deferred, swallow, dragging, moves>>

\* connect(), a second later: the paste timer is over by then
Reconnect ==
  /\ ~connected /\ deferred = NoKey
  /\ connected' = TRUE
  /\ UNCHANGED <<down, focused, forwarded, deferred, swallow, dragging, drives, toDesktop, slipped,
                 desktopVars>>

-----------------------------------------------------------------------------
KeysInit ==
  /\ down = {} /\ focused = TRUE /\ forwarded = {} /\ deferred = NoKey /\ swallow = NoKey
  /\ dragging = "no" /\ drives = TRUE /\ connected = TRUE
  /\ toDesktop = <<>> /\ toPage = <<>> /\ controls = TRUE /\ held = {} /\ moves = 0
  /\ slipped = {}

KeysNext ==
  \/ \E k \in Keys : Release(k) \/ MoveUnseen(k) \/ \E field \in BOOLEAN : Press(k, field)
  \/ FlushPaste \/ PasteImage \/ ReleaseKeys \/ Blur \/ Focus \/ Drag
  \/ TakeRole \/ TakeInput \/ MoveControl \/ Disconnect \/ Reconnect

KeysSpec == KeysInit /\ [][KeysNext]_keyVars

-----------------------------------------------------------------------------
(* Properties. *)

\* Every variable keeps its type.
KeysTypeOK ==
  /\ down \subseteq Keys /\ forwarded \subseteq Keys /\ held \subseteq Keys /\ slipped \subseteq Keys
  /\ deferred \in Keys \cup {NoKey} /\ swallow \in Keys \cup {NoKey}
  /\ focused \in BOOLEAN /\ drives \in BOOLEAN /\ connected \in BOOLEAN /\ controls \in BOOLEAN
  /\ dragging \in {"no", "over", "dropping"}
  /\ toDesktop \in Seq(Message) /\ toPage \in Seq(BOOLEAN) /\ moves \in 0..MaxRoles

\* all that was sent has arrived, and no chord waits for the browser's paste event
Settled == toDesktop = <<>> /\ toPage = <<>> /\ deferred = NoKey

\* onKey: a release is swallowed because "the deferred pair (or the API chord) covers
\* it": in a page that has the keyboard, nothing stays down that no finger is on.
NothingStaysDown == Settled /\ focused => held \subseteq down

\* docs/protocol.md: a blurred window and a hidden page let go of every key: once all
\* that was sent has arrived, the desktop holds only what the fingers are on.  But for
\* the keys the page let slip: those it had forwarded when it was blurred while dropped
\* files were uploaded, one whose release it swallowed for the sake of an earlier paste,
\* and those of a tenure that ended and began again before it heard of it; its next blur
\* lets go of these too.
KeysLetGo == toDesktop = <<>> => held \subseteq (IF focused THEN down ELSE {}) \cup slipped
=============================================================================
