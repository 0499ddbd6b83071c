------------------------------ MODULE VideoPath ------------------------------
(***************************************************************************)
(* The two paths of one viewer's video.  The session's task (ws.rs) sends a *)
(* frame to the WebRTC hub while the page's channel is claimed there, and   *)
(* to the WebSocket otherwise; the hub (rtc.rs) queues it for the page's    *)
(* peer; the page (viewer.js, rtc.js) takes frames from whichever path is   *)
(* its own, tells lost and late ones by their numbers, and asks for a key   *)
(* when it cannot go on.  Both ends may give a channel up at any moment,    *)
(* and the two ends hear of it at different times.                         *)
(*                                                                         *)
(* An encoder's epoch is also its stream's id and attempt.  A frame is one  *)
(* message (its fragments are ordered and reliable), its number never wraps *)
(* here, and how long a path takes is left open, as are the backoff between *)
(* attempts and what the byte budget of a channel admits.                   *)
(***************************************************************************)
EXTENDS Integers, Sequences, FiniteSets

CONSTANTS
  Budgets,      \* bounds: the encoders to come, the frames, and the faults, of which an
                \* attempt given up, a change of transport and a new socket are others
  MaxAttempt,   \* bound: WebRTC attempts of the page
  MaxMail,      \* the hub's mailbox (256 in the code)
  Queue,        \* frames a channel's queue holds (QUEUE, 30 in the code)
  Transport     \* the transports the viewer may begin with

ASSUME BoundAssumption ==
  /\ Budgets \subseteq [encoders : Nat, frames : Nat, faults : Nat]
  /\ MaxAttempt \in Nat
  /\ MaxMail \in Nat \ {0} /\ Queue \in Nat \ {0}
  /\ Transport \subseteq {"websocket", "webrtc"}

None == 0
Frame == [epoch : Nat, n : Nat, key : BOOLEAN]
NoFrame == [epoch |-> None, n |-> 0, key |-> FALSE]

\* Every message, on any queue: what it says, and of which epoch or attempt.
Say(kind, of) == [kind |-> kind, of |-> of, frame |-> NoFrame]
Video(f) == [kind |-> "VIDEO", of |-> f.epoch, frame |-> f]
Message == [kind : {"RTC_CONFIG", "STREAM_STATE", "CONFIG", "VIDEO", "answer", "close", "keyframe",
                    "REQUEST_KEYFRAME", "offer"},
            of : Nat, frame : Frame]

VARIABLES
  encoder,    \* the session's stream: its epoch, whether it is announced, frames sent, a key is due
  wsConfig,   \* the stream whose CONFIG went down the socket last
  waiting,    \* the session waits for the hub to close an attempt
  claim,      \* the hub's open map: the attempt that has the video, and whether it still flows
  mailbox,    \* messages to the hub
  peer,       \* the hub's peer: its attempt, its channel (opening: on its way to the hub), its queue
  notices,    \* closed attempts the hub has yet to tell the page of
  down,       \* the socket to the page
  up,         \* the socket to the session
  channel,    \* the data channel to the page
  rtc,        \* the page's attempt: its number and how far it is
  rtcGen,     \* attempts so far
  retryTimer, \* the next attempt is scheduled
  picked,     \* the transport the viewer wants
  available,  \* the server sent its RTC configuration on this socket
  page,       \* the decoder: its stream, the newest attempt told of, videoSeq, awaitingKey, last decoded
  dropped,    \* the newest frame a full queue refused
  keyLost,    \* history: the newest key found the hub's mailbox full, or went down the socket to
              \* a page whose channel the hub had yet to see open
  crossed,    \* the page took a frame of another stream than its decoder's
  left        \* what is left of a budget

server == <<encoder, wsConfig, waiting>>
hub == <<claim, mailbox, peer, notices>>
attempts == <<rtc, rtcGen, retryTimer>>
pageSide == <<attempts, picked, available, page, crossed>>
refused == <<dropped, keyLost>>
vars == <<server, hub, down, up, channel, pageSide, refused, left>>

NoClaim == [g |-> None, active |-> FALSE]
NoPeer == [g |-> None, opening |-> FALSE, open |-> FALSE, config |-> None, queue |-> <<>>]
NoRtc == [g |-> None, at |-> "none"]
FreshPage == [stream |-> None, told |-> None, seq |-> -1, awaiting |-> TRUE, last |-> NoFrame]
NewEncoder(e) == [epoch |-> e, announced |-> FALSE, frames |-> 0, wantKey |-> TRUE]

\* The newest of the frames that a full queue refused.
Lost(f) == IF f.epoch > dropped.epoch \/ (f.epoch = dropped.epoch /\ f.n > dropped.n) THEN f ELSE dropped

videoVia == IF rtc.at = "open" THEN "webrtc" ELSE "websocket"

\* The page takes no more video from the socket, and the hub knows of no channel of its attempt.
Unheard == videoVia = "webrtc" /\ claim.g # rtc.g
Spend(what) == left[what] > 0 /\ left' = [left EXCEPT ![what] = @ - 1]

-----------------------------------------------------------------------------
(* The session's task. *)

\* The stream restarts: a choice of the viewer tells the page at once, a resize
\* does not.  Frames of the epoch before are not accepted from here on.
Restart ==
  /\ ~waiting /\ Spend("encoders")
  /\ encoder' = NewEncoder(encoder.epoch + 1)
  /\ \/ down' = Append(down, Say("STREAM_STATE", encoder'.epoch))
     \/ UNCHANGED down
  /\ UNCHANGED <<wsConfig, waiting, hub, up, channel, pageSide, refused>>

\* StreamMsg::Info: the new stream counts from 0, and its first frame is a key
Info ==
  /\ ~waiting /\ ~encoder.announced
  /\ encoder' = [encoder EXCEPT !.announced = TRUE]
  /\ down' = Append(down, Say("STREAM_STATE", encoder.epoch))
  /\ UNCHANGED <<wsConfig, waiting, hub, up, channel, pageSide, refused, left>>

\* StreamMsg::Frame: to the hub while an open channel claims the video (a full
\* mailbox drops it), else down the socket, behind its CONFIG when the socket has
\* not carried that yet
SendFrame ==
  LET f == [epoch |-> encoder.epoch, n |-> encoder.frames, key |-> encoder.wantKey]
      room == Len(mailbox) < MaxMail
  IN  /\ ~waiting /\ encoder.announced /\ Spend("frames")
      /\ encoder' = [encoder EXCEPT !.frames = @ + 1, !.wantKey = FALSE]
      /\ IF claim.active
         THEN /\ mailbox' = IF room THEN Append(mailbox, Video(f)) ELSE mailbox
              /\ dropped' = IF room THEN dropped ELSE Lost(f)
              /\ keyLost' = IF f.key THEN ~room ELSE keyLost
              /\ UNCHANGED <<down, wsConfig>>
         ELSE /\ down' = (IF wsConfig = f.epoch THEN down ELSE Append(down, Say("CONFIG", f.epoch)))
                           \o <<Video(f)>>
              /\ wsConfig' = f.epoch
              /\ keyLost' = IF f.key THEN Unheard ELSE keyLost
              /\ UNCHANGED <<mailbox, dropped>>
      /\ UNCHANGED <<waiting, claim, peer, notices, up, channel, pageSide>>

\* The page's messages in their order.  A close waits for the hub's answer before
\* the task goes on to anything else.
Receive ==
  LET m == Head(up) IN
  /\ ~waiting /\ up # <<>>
  /\ up' = Tail(up)
  /\ IF m.kind = "REQUEST_KEYFRAME"
     THEN /\ encoder' = [encoder EXCEPT !.wantKey = TRUE]
          /\ UNCHANGED <<waiting, mailbox>>
     ELSE /\ Len(mailbox) < MaxMail
          /\ mailbox' = Append(mailbox, m)
          /\ waiting' = (m.kind = "close")
          /\ UNCHANGED encoder
  /\ UNCHANGED <<wsConfig, claim, peer, notices, down, channel, pageSide, refused, left>>

-----------------------------------------------------------------------------
(* The hub's task. *)

\* Msg::Close names an attempt: only that one is released
Closes(g, of) == of = g

\* enqueue: a key, or another stream's first message, replaces whatever waits,
\* and the stream's CONFIG goes first
Enqueue(p, f) ==
  LET boundary == p.config # f.epoch \/ f.key
      waits == IF boundary THEN <<Say("CONFIG", f.epoch)>> ELSE p.queue
      videos == Cardinality({i \in DOMAIN waits : waits[i].kind = "VIDEO"})
  IN  [p EXCEPT !.config = IF boundary THEN f.epoch ELSE @,
                !.queue = IF videos >= Queue THEN waits ELSE Append(waits, Video(f))]

\* A close that forgets the refresh.
ReplyNothing(claimed, g) ==
  /\ waiting' = FALSE
  /\ UNCHANGED <<encoder, down>>

\* The session hears whether the attempt held the video, and if so makes the page
\* wait for a key and asks the encoder for one.
Reply(claimed, g) ==
  /\ waiting' = FALSE
  /\ IF claimed
     THEN /\ down' = Append(down, Say("keyframe", g))
          /\ encoder' = [encoder EXCEPT !.wantKey = TRUE]
     ELSE UNCHANGED <<encoder, down>>

TakeOffer(g) ==
  /\ claim' = NoClaim
  /\ \/ /\ peer' = [NoPeer EXCEPT !.g = g]
        /\ \/ down' = Append(down, Say("answer", g))
           \/ UNCHANGED down                        \* the event queue is full
        /\ UNCHANGED left
     \/ /\ Spend("faults")                                    \* the offer is refused
        /\ peer' = NoPeer
        /\ down' = Append(down, Say("close", g))
  /\ UNCHANGED <<encoder, waiting, dropped>>

TakeFrame(f) ==
  /\ IF peer.open
     THEN /\ peer' = Enqueue(peer, f)
          /\ dropped' = IF \E i \in DOMAIN peer'.queue : peer'.queue[i].frame = f THEN dropped ELSE Lost(f)
     ELSE UNCHANGED <<peer, dropped>>
  /\ UNCHANGED <<encoder, waiting, claim, down, left>>

TakeClose(g) ==
  /\ peer' = IF Closes(peer.g, g) THEN NoPeer ELSE peer
  /\ claim' = IF Closes(claim.g, g) THEN NoClaim ELSE claim
  /\ Reply(Closes(claim.g, g), g)
  /\ UNCHANGED <<dropped, left>>

TakeMail ==
  LET m == Head(mailbox) IN
  /\ mailbox # <<>>
  /\ mailbox' = Tail(mailbox)
  /\ CASE m.kind = "offer" -> TakeOffer(m.of)
       [] m.kind = "VIDEO" -> TakeFrame(m.frame)
       [] m.kind = "close" -> TakeClose(m.of)
  /\ UNCHANGED <<wsConfig, notices, up, channel, pageSide, keyLost>>

\* Event::ChannelOpen, which may find the page still waiting, open already, or gone
ChannelOpen ==
  /\ peer.opening
  /\ peer' = [peer EXCEPT !.opening = FALSE, !.open = TRUE]
  /\ claim' = [g |-> peer.g, active |-> TRUE]
  /\ UNCHANGED <<server, mailbox, notices, down, up, channel, pageSide, refused, left>>

\* Event::ChannelClose: the page closed its end.  Frames go back to the socket;
\* the claim stays until the page's close is acknowledged.
ChannelClose ==
  /\ peer.open /\ rtc.g # peer.g
  /\ peer' = [peer EXCEPT !.open = FALSE, !.queue = <<>>]
  /\ claim' = [claim EXCEPT !.active = FALSE]
  /\ UNCHANGED <<server, mailbox, notices, down, up, channel, pageSide, refused, left>>

\* flush: the front of the queue goes down the channel, or nowhere
Flush ==
  /\ peer.open /\ peer.queue # <<>>
  /\ peer' = [peer EXCEPT !.queue = Tail(@)]
  /\ channel' = IF rtc.g = peer.g THEN Append(channel, Head(peer.queue)) ELSE channel
  /\ UNCHANGED <<server, claim, mailbox, notices, down, up, pageSide, refused, left>>

\* A dead peer's claim goes with it.
ClaimAfterDeathGone == NoClaim

ClaimAfterDeath == [claim EXCEPT !.active = FALSE]

\* The word of a closed attempt is lost in a full event queue.
OwesNobody(g) == notices

\* notify_closed waits for room in the event queue, off the hub's task
Owes(g) == notices \cup {g}

\* A peer stalls, loses its path or fails: the frames go back to the socket, the
\* claim stays, and the page is told, however full its event queue is.
PeerDies ==
  /\ peer.g # None
  /\ IF rtc.g = peer.g THEN Spend("faults") ELSE UNCHANGED left
  /\ peer' = NoPeer
  /\ claim' = ClaimAfterDeath
  /\ notices' = Owes(peer.g)
  /\ channel' \in {channel, <<>>}
  /\ UNCHANGED <<server, mailbox, down, up, pageSide, refused>>

\* notify_closed
Notice ==
  /\ \E g \in notices :
       /\ notices' = notices \ {g}
       /\ down' = Append(down, Say("close", g))
  /\ UNCHANGED <<server, claim, mailbox, peer, up, channel, pageSide, refused, left>>

-----------------------------------------------------------------------------
(* Between the hub and the page. *)

\* The answer is applied and the page's browser is connected to the peer.  It sends the
\* hub the word of its channel and tells the page that the channel is open, and each
\* hears of it in its own time.
Connect ==
  /\ rtc.at = "answered" /\ peer.g = rtc.g
  /\ rtc' = [rtc EXCEPT !.at = "connected"]
  /\ peer' = [peer EXCEPT !.opening = TRUE]
  /\ UNCHANGED <<server, claim, mailbox, notices, down, up, channel, rtcGen, retryTimer, picked,
                 available, page, crossed, refused, left>>

-----------------------------------------------------------------------------
(* The page's transport.  Each operator gives what it leaves of the page's   *)
(* side; sent is what went up the socket in the meantime.                    *)

\* maybeRtc
MaybeRtc(retrying) ==
  IF \/ ~retrying /\ retryTimer
     \/ rtc # NoRtc
     \/ picked' # "webrtc"
     \/ ~available'
  THEN UNCHANGED attempts
  ELSE /\ rtcGen < MaxAttempt
       /\ rtcGen' = rtcGen + 1
       /\ rtc' = [g |-> rtcGen + 1, at |-> "offering"]
       /\ retryTimer' = FALSE

\* closeRtc, with the attempt it tells the session of
CloseRtc ==
  /\ rtc' = NoRtc /\ retryTimer' = FALSE /\ UNCHANGED rtcGen
  /\ channel' = <<>>

ClosingWord == IF rtc = NoRtc THEN <<>> ELSE <<Say("close", rtc.g)>>

\* The failed attempt is not followed by another.
FailRtcForGood ==
  /\ rtc' = NoRtc /\ UNCHANGED <<rtcGen, retryTimer>>
  /\ channel' = <<>>

\* failRtc: the next attempt is scheduled while the viewer still wants one
FailRtc ==
  /\ rtc' = NoRtc /\ UNCHANGED rtcGen
  /\ retryTimer' = (picked = "webrtc")
  /\ channel' = <<>>

\* The offer is ready: its candidates are gathered, or the wait for them is over.
SendOffer ==
  /\ rtc.at = "offering"
  /\ rtc' = [rtc EXCEPT !.at = "offered"]
  /\ up' = Append(up, Say("offer", rtc.g))
  /\ UNCHANGED <<server, hub, down, channel, rtcGen, retryTimer, picked, available, page, refused,
                 crossed, left>>

\* onOpen: a key is needed even if earlier keys are still on the socket
OnOpen ==
  /\ rtc.at = "connected"
  /\ rtc' = [rtc EXCEPT !.at = "open"]
  /\ page' = [page EXCEPT !.awaiting = TRUE]
  /\ up' = Append(up, Say("REQUEST_KEYFRAME", None))
  /\ UNCHANGED <<server, hub, down, channel, rtcGen, retryTimer, picked, available, refused,
                 crossed, left>>

\* The attempt times out, the channel or its peer connection fails at the page, or
\* it lost or held up frames in three of ten seconds.
GiveUp ==
  /\ rtc # NoRtc /\ Spend("faults")
  /\ up' = up \o ClosingWord
  /\ FailRtc
  /\ UNCHANGED <<server, hub, down, picked, available, page, refused, crossed>>

\* The timer of failRtc, or the viewer's "retry now".
Retry ==
  /\ retryTimer
  /\ UNCHANGED <<picked, available>>
  /\ MaybeRtc(TRUE)
  /\ UNCHANGED <<server, hub, down, up, channel, page, refused, crossed, left>>

\* setTransport
SetTransport(t) ==
  /\ Spend("faults")
  /\ picked' = t /\ UNCHANGED available
  /\ IF t = "webrtc"
     THEN MaybeRtc(FALSE) /\ UNCHANGED <<up, channel>>
     ELSE CloseRtc /\ up' = up \o ClosingWord
  /\ UNCHANGED <<server, hub, down, page, refused, crossed>>

-----------------------------------------------------------------------------
(* The page's video. *)

KeyWanted == <<Say("REQUEST_KEYFRAME", None)>>

\* CONFIG.  A stream that is older than what the page was told of, or the one it
\* has, is passed over.  A CONFIG on the socket owns the video that follows it.
OnConfig(a, via) ==
  IF a < page.told \/ a <= page.stream
  THEN UNCHANGED <<page, up, attempts, channel>>
  ELSE LET resumed == via = "websocket" /\ videoVia = "webrtc"
           initial == via = "websocket" /\ page.stream = None /\ rtcGen = 0
       IN  /\ page' = [page EXCEPT !.stream = a, !.seq = -1, !.awaiting = TRUE, !.last = NoFrame]
           /\ up' = up \o (IF resumed THEN ClosingWord ELSE <<>>)
                       \o (IF initial THEN <<>> ELSE KeyWanted)
           /\ IF resumed THEN FailRtc ELSE MaybeRtc(FALSE) /\ UNCHANGED channel

\* A delta is decoded across a gap.
SkipsNever(f, lagging) == ~f.key /\ (page.awaiting \/ lagging)

\* a delta that cannot be decoded: behind a gap, before the awaited key, or
\* while the decoder lags
Skips(f, lagging) ==
  ~f.key /\ (page.awaiting \/ lagging \/ (page.seq >= 0 /\ f.n > page.seq + 1))

\* A late frame counts as the newest.
LateNever(f) == FALSE

Late(f) == page.seq >= 0 /\ f.n <= page.seq

\* VIDEO, once the page listens to this path.  lagging: more than four frames wait
\* for the decoder; broken: decoding throws.
OnVideo(f, lagging, broken) ==
  IF page.stream = None \/ page.stream < page.told \/ Late(f)
  THEN UNCHANGED <<page, up, crossed>>
  ELSE /\ crossed' = (crossed \/ f.epoch # page.stream)
       /\ IF Skips(f, lagging)
          THEN /\ page' = [page EXCEPT !.seq = f.n, !.awaiting = TRUE]
               /\ up' = IF page.awaiting THEN up ELSE up \o KeyWanted
          ELSE IF broken
          THEN /\ page' = [page EXCEPT !.seq = f.n, !.awaiting = TRUE, !.last = NoFrame]
               /\ up' = up \o KeyWanted
          ELSE /\ page' = [page EXCEPT !.seq = f.n, !.awaiting = FALSE, !.last = f]
               /\ UNCHANGED up

\* the decoder's part in a frame: it keeps up, lags or fails
Decoder(m) ==
  \/ OnVideo(m.frame, FALSE, FALSE) /\ UNCHANGED left
  \/ \E lagging \in BOOLEAN : OnVideo(m.frame, lagging, ~lagging) /\ Spend("faults")

\* The next message on the socket.
FromSocket ==
  LET m == Head(down)
      still == UNCHANGED <<page, up, attempts, channel, available, crossed, left>>
      videoOff == m.kind = "VIDEO" /\ videoVia = "webrtc"
      stale == \/ m.kind \in {"answer", "close", "keyframe"} /\ m.of # rtcGen
               \/ m.kind = "STREAM_STATE" /\ (m.of < page.told \/ m.of < page.stream)
      gone == m.kind \in {"answer", "close"} /\ rtc = NoRtc
  IN
  /\ down # <<>>
  /\ down' = Tail(down)
  /\ UNCHANGED <<server, hub, picked, refused>>
  /\ IF videoOff \/ stale \/ gone
     THEN still
     ELSE CASE m.kind = "RTC_CONFIG" ->
                 available' = TRUE /\ MaybeRtc(FALSE) /\ UNCHANGED <<page, up, channel, crossed, left>>
            [] m.kind = "STREAM_STATE" ->
                 /\ page' = [page EXCEPT !.told = m.of]
                 /\ UNCHANGED <<up, attempts, channel, available, crossed, left>>
            [] m.kind = "CONFIG" ->
                 /\ UNCHANGED <<available, crossed, left>>
                 /\ OnConfig(m.of, "websocket")
            [] m.kind = "VIDEO" ->
                 Decoder(m) /\ UNCHANGED <<attempts, channel, available>>
            [] m.kind = "keyframe" ->
                 /\ page' = [page EXCEPT !.awaiting = TRUE]
                 /\ UNCHANGED <<up, attempts, channel, available, crossed, left>>
            [] m.kind = "answer" ->
                 /\ rtc' = [rtc EXCEPT !.at = IF @ = "offered" THEN "answered" ELSE @]
                 /\ UNCHANGED <<page, up, rtcGen, retryTimer, channel, available, crossed, left>>
            [] m.kind = "close" ->
                 /\ FailRtc /\ up' = up \o ClosingWord
                 /\ UNCHANGED <<page, available, crossed, left>>

\* The next message on the open channel.
FromChannel ==
  LET m == Head(channel) IN
  /\ rtc.at = "open" /\ channel # <<>>
  /\ channel' = Tail(channel)
  /\ UNCHANGED <<server, hub, down, picked, available, refused>>
  /\ IF m.kind = "CONFIG"
     THEN /\ page' = IF m.of < page.told \/ m.of <= page.stream THEN page
                     ELSE [page EXCEPT !.stream = m.of, !.seq = -1, !.awaiting = TRUE, !.last = NoFrame]
          /\ up' = IF page' = page THEN up ELSE up \o KeyWanted
          /\ UNCHANGED <<attempts, crossed, left>>
     ELSE Decoder(m) /\ UNCHANGED attempts

\* The socket closes and another one opens: a new session with a stream and a
\* hub entry of its own, and nothing of the old one reaches the page.
Reconnect ==
  /\ Spend("faults")
  /\ encoder' = NewEncoder(1) /\ wsConfig' = None /\ waiting' = FALSE
  /\ claim' = NoClaim /\ mailbox' = <<>> /\ peer' = NoPeer /\ notices' = {}
  /\ down' = <<Say("RTC_CONFIG", None), Say("STREAM_STATE", 1)>>
  /\ up' = <<>>
  /\ CloseRtc
  /\ available' = FALSE
  /\ page' = FreshPage
  /\ dropped' = NoFrame /\ keyLost' = FALSE /\ crossed' = FALSE
  /\ UNCHANGED picked

-----------------------------------------------------------------------------
Init ==
  /\ encoder = NewEncoder(1) /\ wsConfig = None /\ waiting = FALSE
  /\ claim = NoClaim /\ mailbox = <<>> /\ peer = NoPeer /\ notices = {}
  /\ down = <<Say("RTC_CONFIG", None), Say("STREAM_STATE", 1)>>
  /\ up = <<>> /\ channel = <<>>
  /\ rtc = NoRtc /\ rtcGen = 0 /\ retryTimer = FALSE
  /\ picked \in Transport /\ available = FALSE
  /\ page = FreshPage
  /\ dropped = NoFrame /\ keyLost = FALSE /\ crossed = FALSE
  /\ left \in Budgets

Session == Restart \/ Info \/ SendFrame \/ Receive
Hub == TakeMail \/ ChannelOpen \/ ChannelClose \/ Flush \/ PeerDies \/ Notice
Page ==
  \/ SendOffer \/ OnOpen \/ GiveUp \/ Retry
  \/ \E t \in {"websocket", "webrtc"} \ {picked} : SetTransport(t)
  \/ FromSocket \/ FromChannel \/ Reconnect

Next == Session \/ Hub \/ Connect \/ Page

Spec == Init /\ [][Next]_vars

-----------------------------------------------------------------------------
(* Properties. *)

\* Every variable keeps its type.
TypeOK ==
  /\ encoder \in [epoch : Nat, announced : BOOLEAN, frames : Nat, wantKey : BOOLEAN]
  /\ wsConfig \in Nat /\ waiting \in BOOLEAN
  /\ claim \in [g : Nat, active : BOOLEAN]
  /\ mailbox \in Seq(Message) /\ Len(mailbox) <= MaxMail
  /\ peer \in [g : Nat, opening : BOOLEAN, open : BOOLEAN, config : Nat, queue : Seq(Message)]
  /\ notices \subseteq Nat
  /\ down \in Seq(Message) /\ up \in Seq(Message) /\ channel \in Seq(Message)
  /\ rtc \in [g : Nat, at : {"none", "offering", "offered", "answered", "connected", "open"}]
  /\ rtcGen \in 0 .. MaxAttempt /\ retryTimer \in BOOLEAN
  /\ picked \in {"websocket", "webrtc"} /\ available \in BOOLEAN
  /\ page \in [stream : Nat, told : Nat, seq : Int, awaiting : BOOLEAN, last : Frame]
  /\ dropped \in Frame /\ keyLost \in BOOLEAN /\ crossed \in BOOLEAN
  /\ left \in [encoders : Nat, frames : Nat, faults : Nat]

\* Whoever wants WebRTC and may have it is never left without it for good: an
\* attempt is under way, or the next one is scheduled, however the last one ended.
AlwaysTrying == picked = "webrtc" /\ available => rtc # NoRtc \/ retryTimer

Says(q, kind, g) == \E i \in DOMAIN q : q[i].kind = kind /\ q[i].of = g

\* A page that is connected, whether or not it has heard of its channel's opening, has the
\* hub's present peer, to which the channel is open or opening, or the word that it has
\* not is on its way: a close of an earlier attempt that arrives late, or a second offer,
\* never takes a later attempt's peer.
OpenIsServed ==
  rtc.at \in {"connected", "open"} =>
    \/ peer.g = rtc.g /\ (peer.open \/ peer.opening)
    \/ rtc.g \in notices \/ Says(down, "close", rtc.g)

\* Nothing is on its way on either path.
Settled ==
  /\ encoder.announced /\ ~waiting
  /\ up = <<>> /\ down = <<>> /\ channel = <<>> /\ mailbox = <<>> /\ notices = {}
  /\ ~peer.opening
  /\ peer.open => peer.queue = <<>> /\ rtc = [g |-> peer.g, at |-> "open"]

Newest == [epoch |-> encoder.epoch, n |-> encoder.frames - 1]

\* However often the video changed its path, once everything sent has arrived the
\* page has decoded the newest frame, or the encoder owes it a key.  There are four
\* exceptions: a newest frame that a full queue of the hub dropped; a page that waits
\* for a key which either the hub's full mailbox dropped or the session, with no word
\* yet of the channel, sent down the socket to a page that listens to its channel
\* (GapsAreRefreshed, both); and a page that took a frame of another stream (NoFrameCrosses).
NothingStaysLost ==
  Settled /\ ~crossed /\ encoder.frames > 0 =>
    \/ encoder.wantKey
    \/ [epoch |-> page.last.epoch, n |-> page.last.n] = Newest
    \/ [epoch |-> dropped.epoch, n |-> dropped.n] = Newest
    \/ page.awaiting /\ keyLost

\* rtc.rs: a delta after a gap makes the page request a key.  But a page that awaits one
\* already asks for none, and the awaited key may be what the mailbox dropped, or have
\* gone down the socket while the page listened to a channel that the hub had yet to see
\* open: deltas behind the gap arrive, none is decoded, and no key is due.
GapsAreRefreshed ==
  LET sawGap == page.stream = encoder.epoch /\ page.awaiting /\ page.seq > page.last.n
  IN  Settled /\ ~crossed /\ sawGap => encoder.wantKey

\* The decoder gets a delta only right behind the frame before it, across a change
\* of path and of stream, as long as no frame of another stream came to it.
DeltasFollow ==
  [][page'.last # page.last /\ ~page'.last.key /\ page'.last # NoFrame /\ ~crossed' =>
       page.last.epoch = page'.last.epoch /\ page'.last.n = page.last.n + 1]_vars

\* What the page decodes is of the stream its decoder is configured for.
NoFrameCrosses == ~crossed
=============================================================================
