# Verification of elsewhere

elsewhere runs a Wayland desktop on a server and shows it in browsers. This directory models the
parts of it where several actors touch one piece of state (browser pages, HTTP and MCP clients, the
compositor's thread, encoder threads, timers), model-checks them with TLC, and proves the most
important properties with TLAPS. Every definition is translated from the source; `PROJECT.json`
names the lines each stands for. Line numbers below are those of the commit the models were read from;
`server/` stands for `crates/elsewhere-server/src/`, `stream/` for `crates/elsewhere-stream/src/`,
`compositor/` for `crates/elsewhere-compositor/src/` and `page/` for `web/src/`.

    tlc -workers 2 -config Control_Input.cfg MCDesktopControl.tla     # a run: NAME.cfg with its module
    tlapm DesktopControlProofs.tla                                    # the proofs of a module

`PROJECT.json` names the module of each run.

## 1. Inventory

### 1.1 Threads, tasks and locks

* **The compositor's thread** (Smithay) owns windows, workspaces, focus, the seat and the clipboard. It
  takes `Command`s from an unbounded FIFO channel; everybody else only sends to it. It reports back by
  events that a server task turns into changes of `Viewers` and messages to the pages.
* **The server** (axum on tokio) has one task per socket, a task that sweeps every 100 ms, tasks for
  timers and D-Bus. Its shared records each have a mutex: `viewers` (sessions, participants, controller,
  display), `window_viewers`, `input_owner`, `notifications`, `broadcasts`, `active_tokens`, MCP's
  `owners`. Each token has an authority gate (`Access`) that orders what it does against its
  cancellation.
* **Encoder workers**: one thread per viewer stream or broadcast, sharing a `State` under a mutex with
  the compositor (which offers pictures) and the session (which changes settings), and a channel of two
  messages back to the session.
* **The WebRTC hub**: one task with a bounded mailbox for all peers.
* **The element scheduler**: one task that admits accessibility queries to worker tasks and mutations
  to their callers.
* **Pages**: JavaScript in the browser, one thread with many callbacks, reached by WebSocket or a WebRTC
  data channel, which may be slow, go away, or answer what is no longer the case.

### 1.2 Components

| Component | Source | State and operations | What makes it correct | Modelled in |
|---|---|---|---|---|
| Desktop control, input ownership | `server/participants.rs`, `auth.rs`, `ws.rs`, `api.rs` | sessions, participants, controller, epoch, requests, owner of the input; register, leave, take, hand off, request, decide, cancel, sweep, input, blur | records agree; requests die with the controller they were made to; keys of two sources never down together; nothing held by who has gone | `DesktopControl`, `DesktopOwnership` |
| Access tokens | `server/auth.rs`, `tokens.rs` | a token's life, its gate, weak references to live ones; expire, revoke, sweep, `cancel_token` | after cancellation nothing of a token is left | life and cleanup in `DesktopControl` |
| Viewer stream | `stream/viewer.rs` | State (epoch, pending picture, ready, pressure, …), the worker's place and snapshot | a picture meets only an encoder of its geometry; a blocked output recovers; every thread can be stopped | `ViewerStream` |
| Viewer session | `server/ws.rs`, `page/viewer.js` | codec selection, last described stream, the video's path, the page's decoder | no delta without its reference; the page gets the key it waits for, whichever path it comes by | `ViewerStream`, `VideoPath` |
| WebRTC hub | `server/rtc.rs`, `page/rtc.js` | peers, claims, queues, mailbox, attempts | a connected page has the hub's present peer or is told otherwise; a delayed close spares its successor | `VideoPath` |
| Notifications | `server/notify.rs` | open notifications by id and revision, timers, answers, lists on their way | a timer closes only what it was armed for; pages show what is open | `Notifications` |
| Element scheduler | `server/element_scheduler.rs` | queues and turns, leases, shared jobs and results | no token loses its turn; a reader is answered, by an observation that fits | `ElementAdmissions`, `ElementObservations`, `Turns` |
| Page: thumbnails | `page/thumbnails.js`, `Sidebar.jsx`, `api.js` | a scheduler per row, one shared queue | a changed window's picture is made again | `Thumbnails` |
| Page: microphone and webcam | `page/mic.js`, `cam.js`, `viewer.js` | captures waiting for permission, live tracks | recording ends with control | `PageCapture` |
| Page: clipboard | `page/clipboard.js` | what the panel names and shows, reads under way | no text under another selection's name; the status catches up | `PageClipboard` |
| Page: keys | `page/viewer.js` | forwarded keys, deferred paste, swallowed release | the desktop holds only what fingers are on | `PageKeys` |
| Window sessions | `server/ws.rs` | registration, biased select, own stream | the socket is not starved by video | registration and input in `DesktopControl` |
| MCP sessions | `server/mcp/sessions.rs` | who owns each session of the library, leases, the reaper | a session lives as long as its use | `McpSessions` |
| Broadcasts | `server/broadcast.rs`, `stream/broadcast.rs` | the registry, its sweep and stops; each worker's flag and state | a repeated start begins nothing twice; what was stopped stays stopped | `Broadcasts` |
| Display, rate, mixer, clipboard of the compositor, windows and workspaces, terminals, files, applications, elements, protocol, encoders, UI, CLI | see `PROJECT.json` | | | not modelled: see section 7 |

How they interact: a page's message enters its session task, which takes `viewers` and perhaps
`input_owner` nested inside it, changes the record, sends to the compositor's channel while it still
holds the lock, and publishes the roster to a watch channel every session reads. HTTP and MCP take
`input_owner` alone. Settings of the stream go from the session to the worker's `State`; results come
back through the bounded channel, each marked with the epoch it was made in, and go on to the page by the
socket or, through the hub's mailbox, by a data channel. A notification arrives on
D-Bus, changes its map under its own mutex and is broadcast under the two session locks one after
the other. An accessibility call asks the scheduler for a shared scan or refresh, and a mutation asks it
for a permit as well.

### 1.3 What is hard

`PROJECT.json` lists forty hazards at their lines, with the properties that would catch them. The
themes: **ownership handed between sources** whose commands are already queued; **answers to requests
that are no longer there**; **cleanup lock by lock** while the token's own tasks leave; **snapshots read
under one lock and used under another** (encoder geometry, epochs, lists of notifications); **bounded
queues** that block a thread or drop a message; **two paths** for one stream; **ids and revisions used
again**; **somebody who must be woken** though nobody reads what it waits for; and on the page **promises
that settle after what they were for is over**.

## 2. How the project is built

One module per component, with its properties at its end and its proofs in a module of its own.
`DesktopControl` implements the abstract `DesktopOwnership`. Modules that are proved about have no
RECURSIVE operator and name their assumptions. Components that share no state and are small enough are
checked in one run: `MCParts` picks a `subject` in the initial state and lets only that part take steps,
so that its state space is the sum of the parts' and not their product.

## 3. Modules

### 3.1 `DesktopControl` and `DesktopOwnership`

Sessions and participants, the controller, control requests, and whose keys are down.

| Variable | Code |
|---|---|
| `sessions`, `participants`, `controller`, `epoch`, `nextSession`, `nextRequest` | `Viewers` (`server/lib.rs`) |
| `roster` | the watch channel `Viewers.roster` |
| `windows`, `nextWindow` | `App.window_viewers`, the static `KEY` |
| `inputOwner` | `App.input_owner` |
| `commands`, `held` | the channel to the compositor, and its pressed keys, buttons, fingers and drag |
| `phase` | a token's `Access`: live, expired; cancelled, then how far `cancel_token` has come |
| `serving`, `leaving` | where a socket's task is: in its loop; out of it, with `release_input` still to come |

Actions are handlers, each under the lock the code holds from its beginning to its end. `Connect`,
`Disconnect`, `OpenWindow`, `CloseWindow`, `Leave` are a socket's life; `TakeControl`, `Handoff`,
`RequestControl`, `CancelControl`, `DecideControl`, `Sweep` the negotiation; `DesktopInput`,
`DesktopBlur`, `WindowInput`, `WindowBlur`, `ApiInput` the input; `Expire`, `Revoke`, `SweepToken`, then
`Unseat`, `CloseWindows`, `Disown` the end of a token, one action per lock that `cancel_token` takes;
`Apply` the compositor. A page's message names a request and an epoch it once saw, so these are
chosen from all that ever existed.

`DesktopOwnership` is what all of this promises of the keyboard and pointer: an owner that changes at
once, and what is down, which follows. It has no channel and no session. The refinement maps `inputOwner`
to its `owner` and `held` to its `down`; `KeepsOwnership` is its safety, `OwnershipIsLive` its fairness.

Abstractions. The seat is one set of sources that hold something. Commands that are not input, pointer
lock, mixer and display effects of a change of controller are left out; they change none of these
variables. A token that expires in the middle of a handler counts as expiring right after it. Admission
and the sending of a command are one step, since cancellation takes the token's gate as writer and
so waits for it. A paste leaves the owner of the input as it is. The 64-bit epoch does not wrap.
An HTTP request or MCP session that holds a reference to a token is not followed: `SweepToken` may happen
to any expired token, and must happen only to one a session refers to.

### 3.2 `ViewerStream`

The compositor's sink, the worker's thread, the channel, the session's task and the page's decoder.

| Variable | Code |
|---|---|
| `state`, `signal` | `State` in `stream/viewer.rs`, and the permit of the control `Notify` |
| `worker`, `active` | the locals of `run` and the place it is at; its encoder |
| `channel`, `closed` | `mpsc::channel::<StreamMsg>(2)` and its receiver |
| `due` | the compositor has a complete picture to offer |
| `selection`, `accepted`, `info` | `CodecSelection`; the message `viewer_session` has checked and not handled; the described stream |
| `page`, `asked` | the decoder in `page/viewer.js`, and its REQUEST_KEYFRAME under way |
| `left` | bound: what is left of a budget of changes, faults and losses |

Every acquisition of the mutex is an action, so the worker's turn is `Begin`, `Open`, `SetRate`, `Take`,
`Budget`, `Encode`, `Report`, then `Reserve`, `Full`, `Wake`, `Send` for a delivery. The session checks a
message's epoch in `Receive` and acts on it in `Configure`, `Recover` or `Present`, with anything in
between.

Abstractions. Pictures, packets and encoders are their geometry, rate, epoch and number. Effort and size
are one setting that restarts the stream (`Retune`). The byte budget is a debt that may arise
whenever a frame is sent; whether x264 changes its rate in place is open. The frame rate cap, refining
frames and the sink's `try_lock` only delay an offer. Enough good frames over two seconds is `Steady`
frames with time left open. The redraw that a step asks for is part of that step. Window sessions, whose
`select!` is biased, are not in it.

### 3.3 `VideoPath`

From the session's choice of path to the page's decoder: the session (`encoder`, `wsConfig`, `waiting`),
the hub (`mailbox`, `claim` — its `open` map, which the session reads — `peer`, `notices`), the two ways
down (`down`, `channel`) and the way up (`up`), the page's attempts (`rtc`, `rtcGen`, `retryTimer`,
`picked`, `available`) and its decoder (`page`). An encoder here is its epoch and a count of frames:
`ViewerStream` says how they come about. `dropped` (the newest frame a full queue of the hub dropped), `keyLost` (whether
the newest key never had a reader) and `crossed` are bookkeeping for the properties, and no guard reads them.
`keyLost` is a variable because a state of queues and decoder does not tell why a page waits for a key. A key is
lost in two ways: the hub's mailbox is full, or the session, whose claim is not there yet, sends it down the
socket to a page that listens to its channel already (`Unheard`; the page drops it at `viewer.js:625`).

The two ends hear of a channel's opening in either order. The page creates the channel, so its browser has
`onopen` as soon as it has sent the hub the word of the channel. `Connect` is that moment: the word is on its way
(`peer.opening`) and the page's event is due (`rtc.at` is "connected"). `OnOpen` (`rtc.js:34`, `viewer.js:853`) and
`ChannelOpen` (`rtc.rs:343`) then come each in its own time, neither waiting for the other; the hub's may find the
page gone again.

Either end may give a channel up at any moment; the hub stalls, a mailbox or queue is full, an attempt
times out, a socket closes and a new one brings a fresh page. ICE, DTLS and SCTP are the transport; the
fragments of a frame arrive together; the backoff between attempts takes any time.

### 3.4 `Notifications`

Open notifications by id, revisions, timers, viewers' answers, and the list's way to the pages.

`open` and `next` are `App.notifications` and `next_notification`; `timers` and `answers` are the tasks
that will close a revision; `lists` are the broadcasts whose list was built under the lock and which
have not reached every session; `copies` are lists read before registration; `queue` and `shown` are a
session's event channel and its page. `calls`, and the fields `call` and `life`, are bookkeeping that
names a notification in the properties; no guard of an action of the code reads them.
An application may name any id in `replaces_id`, as it may on the bus. Signals to the application,
texts and pictures are left out.

### 3.5 `ElementAdmissions`, `ElementObservations` and `Turns`

The two halves of the scheduler's task. They share its loop and its channel but no other state, and a
wake-up or request for one half only makes the other go round (`GoRound`, `Tick`), so each has the
loop to itself. `Turns` is what both do with a queue: find the first that may go, take it out, rotate,
retain.

`ElementAdmissions`: callers ask, give up, hold a permit and drop it, which is two steps on another
thread — the lease goes (`DropLease`), then the task is woken (`DropWakes`). The task accepts, prunes
(`Prune`) and admits one request after another (`Admit`, `Settle`). What the code does not promise: where
two tokens want one application, one of them can be overtaken for ever, since a token passed over because its
application is busy goes to the back of the turn with those that were served. docs/mcp.md's "Admission
rotates between competing tokens" holds for callers that have their application to themselves
(`LonersAreAdmitted`).

`ElementObservations`: readers of scans and refreshes, the queue of jobs, tasks that run, are aborted,
end nevertheless or are cancelled, and the results. A result is named by the task it comes from, be it
elements or an error. `since` is bookkeeping. A worker that panics is left out, as is the slice of 256
requests that one turn of the loop accepts. Nothing is assumed to be fair here: how long a scan takes is the
application's.

### 3.6 The page: `Thumbnails`, `PageCapture`, `PageClipboard`, `PageKeys`

JavaScript runs one callback at a time, so an action is the code from one `await` or event to the next;
the hazards lie in what settles late.

* `Thumbnails`: a row's scheduler (`row`), the queue of captures all rows share (`jobs`), and what is on
  the screen (`inView`). A row off the screen is looked at again only when it is updated: `refused` records
  that.
* `PageCapture`: each start of a device is a capture with a `stage`. A superseded start of the webcam
  whose permission comes later leaves the button on with no stream (viewer.js:62); no track is live
  then, which is what `CaptureFollowsControl` is about.
* `PageClipboard`: events, metadata reads and body reads, one of them current (`flight`) and one superseded
  and perhaps still answered (`late`), and the page's own write. Images, files and unreadable
  selections are left out.
* `PageKeys`: two keys, a modifier and the letter that pastes with it. A blur while dropped files are
  uploaded sends no BLUR (viewer.js:1328; docs/protocol.md:83 says a blurred window lets go of every key),
  and the swallowed release survives a blur; `slipped` records the keys such steps let slip, and `KeysLetGo`
  says that there are no others and that the page's next blur lets go of these too.

### 3.7 `McpSessions` and `Broadcasts`

* `McpSessions`: the library's sessions (`kept`) and the server's record beside them (`owners`: token, open
  responses, idle), which no lock joins. A request may be given up at any await; the client's DELETE, a
  token's cleanup and the reaper each remove from both maps in their own order. The reaper's write lock keeps out the
  requests whose session the library has and `owners` does not. Sessions the library ends by itself are left out.
* `Broadcasts`: the registry's lock is a variable (`guard`: who holds it, for what, and the entries still to visit), since
  workers write their state under another lock meanwhile. `Flag` and `Visit` are the two steps of
  `Running::stop`; a worker reads its flag and writes its state in steps of its own (`Loop`, `Break`,
  `ReportReconnecting`, `EndThread`, `LastWord`). What is encoded, the validation of settings and the
  limit of 256 entries are left out.

## 4. Runs

All configurations check with `CHECK_DEADLOCK FALSE`: with sessions, calls, faults and changes bounded,
a bounded system comes to rest. Each run takes less than three minutes with two workers.

| Run | Bounds | Shows |
|---|---|---|
| `Control_Negotiation` | 2 tokens, one may take control, 3 connections, 2 requests, 2 voluntary changes of controller; the sweep is fair | `SeatsConsistent`, `RequestsAreCurrent`, `ControlIsHeld`, `RosterIsCurrent`, `RequestsSettleOnce`, `RequestsSettle` |
| `Control_Input` | 2 interchangeable tokens, 2 connections, 1 window session, API, queue of 1 plus releases | `OwnerDrives`, `HeldByOwner`, `CleanTokenHoldsNothing`, the refinement `KeepsOwnership` |
| `Control_Liveness` | 2 tokens, 1 connection, 1 window session; fair | `CancelledTokenLetsGo`, `ExpiredConnectionsLetGo`, `OwnershipIsLive` |
| `Control_Expiry` | 2 tokens, API only; fair | **violates** `ExpiryCleansUp` |
| `Stream_Safety` | 2 geometries, 2 rates, 1 codec; budgets: a change and a fault, two faults, or a lagging decoder | `PictureFits`, `ReadyIsOpen`, `PressureEnds`, `FailureCountsOnce`, `DeltasFollow` |
| `Stream_Liveness` | 1 geometry, 1 rate; a change, a fault or a loss; the worker is fair | `WorkerEnds`, `RestartWakes`, `PageRecovers` |
| `Video_Paths` | 2 attempts, mailbox of 2, queue of 1; budgets: 3 frames with a second encoder and one fault, 3 frames with two faults, or 5 frames; 6.7 million states | `AlwaysTrying`, `OpenIsServed`, `NothingStaysLost`, `DeltasFollow` |
| `Video_Crossing` | the same | **violates** `NoFrameCrosses` |
| `Notify_Sticky` | 1 id, 2 calls | **violates** `UntilClosed` |
| `Notify_Pages` | 1 page, 1 call | **violates** `PagesAgree` |
| `Keys_Swallowed` | 3 messages under way | **violates** `NothingStaysDown` |
| `Parts` | the nine parts below, 274,000 states together | |
| `Parts`: notifications | 1 id, 2 calls of Notify, 1 answer at a time, 1 list under way, 1 page, 1 window session; fair | `ReplacementsAreSpared`, `TimedOnesEnd` |
| `Parts`: admissions | 4 callers, 3 tokens, 2 applications, one permit at a time; one caller may give up, one token end; fair | `ReleaseWakes`, `LonersAreAdmitted` |
| `Parts`: observations | 4 readers of 2 tokens, a reference and a window of one application; one token may end | `AnswersFit`, `NobodyIsForgotten`, `OrderNamesQueuedJobs` |
| `Parts`: MCP sessions | 2 requests at a time, 2 tokens, 1 session; fair | `SessionsFollowUse` |
| `Parts`: broadcasts | 1 token, 1 request id, 2 workers of which one may run | `OneOutputEach`, `StopsForGood` |
| `Parts`: thumbnails | 2 rows, 1 size, 1 new content, one failure exhausts a state | `NeverForgotten` |
| `Parts`: capture | 2 starts of each device | `CaptureFollowsControl` |
| `Parts`: clipboard | 2 selections, 1 event under way, 1 upset; fair | `ContentMatches`, `StatusCatchesUp` |
| `Parts`: keys | 2 messages under way, control moves once | `KeysLetGo` |

Why the bounds are enough. Three connections and two tokens give a participant with two connections and
a rival, which is what handover, inheritance and pop-out need; two requests give one that is stale while
another pends. Two desktop sessions, a window session and the API are all kinds of source; a command
queued behind another's is enough for the order of release and press to matter. In a stream a batch of
two fills the channel of two, so a second frame blocks; one change besides the attachment, and the
restarts that follow up to two failures, let a new epoch arrive while the worker is between any two
locks. Three frames are a key, a delta that is lost and one that shows it, and five fill the hub's
mailbox in front of a key that a page already waits for; two attempts are one that is given up and the
one its delayed close must spare; a mailbox of two and a queue of one are full soon. Two calls and the
answer give an id that is opened and replaced, or closed and opened again. Four readers are two that
share a refresh, under two tokens, one of which ends, and two scans of which one is asked for while the
other runs. The budgets are alternatives, not sums: each is one initial state, and a behaviour has one
of them. The limits 8 and 4 of the scheduler never bind in the run (the one on jobs of one application
does), nor does `FAILURES` 2 (the run has 1); with one request id at a time the limit of broadcasts that
run at once does not bind either, and is proved. The theorems hold for any. One session, one worker that
is started again under the same request and two requests are the pairs that can disagree there. What the
safety runs show at these bounds is proved without them for the theorems below.

Type invariants and a few other facts are proved and not run as well: `OneHolder`, `BlockedKeepsNoPicture`, `UsedStay`
(in the run it is half of `SessionsFollowUse`), `OnePermit`, `Turned`, `Attempts`, `InOrder`.

### Fairness

* `DesktopControl`: the sweep task ticks every 100 ms (`auth.rs:191`), deadlines pass, a cleanup that
  began runs to its end, a session whose token ended leaves its loop (`key.ended()` is in its `select!`), a
  task that left its loop releases its input, the compositor drains its channel. No page and no user is
  obliged to anything. Expired tokens are found only when something refers to them: the sweep
  upgrades weak references. `SweepSpec` has only the sweep and the deadlines.
* `ViewerStream`: `WorkerSpec` has nothing but the worker's thread, so `WorkerEnds` and `RestartWakes` need
  nobody else. `PageRecovers` takes the others' fairness as its hypothesis (`OthersAreFair`): the compositor
  starts a stream and offers a picture that is due, the session reads its channel; `RequestKeyframe` has
  strong fairness, since tokio's `select!` polls the desktop session's branches in
  random order and so takes the socket's message eventually however much video is ready.
* `Notifications`: timers wake, and a task that built a list goes on to broadcast it.
* `ElementAdmissions`: the task runs, and admitted work ends (a mutation has ten seconds). Nobody
  has to ask or to stop asking.
* `PageClipboard`: the two-second timer runs, the server answers, answers are taken, and a read is given up
  after five seconds. In `MCParts` the fairness is on each part's own variables and binds it only where
  it is the subject.

### Findings

* **`ExpiryCleansUp`** (`auth.rs:196`). The documentation says expiry invokes the same cleanup as
  revocation. A token used only by `POST /api/input` is referred to by nobody once the request is over, so
  the sweep does not find it: it keeps the input, and keys stay down, until some other source takes over.
* **`UntilClosed`** (`notify.rs:158`). The revision of an id restarts at 0 when the id is used again after
  it was closed, so the first timer closes a later notification, also one that should stay until
  closed.
* **`PagesAgree`** (`ws.rs:244`). A page reads the list before it registers for broadcasts; a change in between
  reaches neither. Nothing resends the list until the next change. Window sessions have no list
  in their replay at all.
* **`NoFrameCrosses`** (`page/viewer.js:624`). rtc.rs says that accepted older video cannot cross a change of
  decoder. That holds on one path: a channel that brings a new stream's CONFIG and fails leaves the old
  stream's frames on the socket, and VIDEO names no stream.
* **`NothingStaysDown`** (`page/viewer.js:1233`). The paste event marks the paste key's release to be swallowed
  even when it has been released already; the next press of that key loses its release.

Two more are not in a run:

* **Stop "detaches frame input"** (docs/broadcasts.md:117; `broadcast.rs:84`), `DetachesInput` of `Broadcasts`. The sweep visits
  an entry, the worker ends, and the same sweep forgets the entry since it is older than `RETAIN`: its sink is
  still attached to the compositor and nothing detaches it. TLC finds it under `BroadcastSpec` with one token, two
  request ids, two workers and `MAX_OUTPUTS` 1.
* **A lost key** (`page/viewer.js:641`), `GapsAreRefreshed` of `VideoPath`. rtc.rs:111 says that the page asks for a key when it sees the
  gap a dropped frame leaves, and docs/protocol.md:53 that "a delta after a gap requests a keyframe". A page that
  awaits a key already asks for none, and the frame it misses may be the very key:
  * The hub's mailbox is full. The session has passed the request to the encoder, and the hub tells nobody
    that it refused the answer.
  * The page's channel opens before the hub has heard of it. The page asks for a key (`viewer.js:859`); the session has no claim
    yet and sends it down the socket (`ws.rs:349`), where the page takes no video any more (`viewer.js:625`). Then the
    hub's event comes and the deltas go down the channel. Nothing asks for a key when the claim becomes active (`rtc.rs:346`).

  The page then decodes none of the deltas that follow. What brings it back is a key for another reason:
  a step of the bitrate, the encoder's own interval (1024 frames in hardware, none in software, encoder.rs:117), a new
  stream or a change of path. TLC finds the first under the constants of `Video_Paths` with the budget of five frames,
  and the second with `MaxMail` 3 and a budget of three frames, no further encoder and no fault.

## 5. Proofs

`DesktopControlProofs` proves, for any tokens, grants and bounds (`TokenAssumption`, `BoundAssumption`):

* `TypeCorrect` — `TypeOK`. In particular the input has at most one owner.
* `RequestsStayCurrent`, `RosterStaysCurrent` — by the inductive invariant `Announced`: the roster is the
  one built from the present record, and every pending request carries the present epoch and is not the
  controller's. It is inductive because every change of controller goes through `UpdateController`,
  which ends all requests before it publishes, and every other change of a participant through
  `Republish`.
* `SeatsStayConsistent`, `ControlStaysHeld` — by the inductive invariant `Seated`, over the maps of a
  record that is about to be installed (`Consistent`, `HeldBy`), since `RemoveViewers` and `Connect` both
  compute new maps first. `ControlStaysHeld` needs the consistency: a controller that may control has a
  live session, and that session's participant is kept.

`DesktopControlInputProofs` proves, from the same assumptions, the rest of the module's safety properties:

* `KeysStayExclusive`, `KeysStayOwned` — `OneHolder` and `HeldByOwner`, by the inductive invariant `Exclusive`
  over the channel, the owner and what is held. Neither is inductive: they say nothing of commands still
  queued. `Exclusive` says where a release must lie: between two sources' commands, between a command and a
  later owner, and between a key that is down and another source's command or ownership. Every
  action is first reduced to one of four things it does to the input (`InputStep`).
* `OwnerKeepsDriving` — `OwnerDrives`, inductive as it stands given the types: whatever changes which
  session drives ends in `MoveInput`, which compares that session before and after.
* `CleanTokensHoldNothing` — `CleanTokenHoldsNothing`, from `HeldByOwner` and the inductive invariant `Gone`:
  what the cleanup has passed stays empty, since only a live token adds a session, a window or an
  owner (`NoneReturns`).
* `RequestsAreSettledOnce` — the action property `RequestsSettleOnce`, over any participants a handler is about
  to install (`SettledIn`): expiry comes first in every handler, so `Clear` with an answer only
  meets a request still due, and ending the rest settles them too. A registration needs `SeatsConsistent`:
  its new id is in no use, so it overwrites no participant.
* `ImplementsOwnership` — the refinement: the initial states map to `DesktopOwnership`'s, and every step to
  one of its steps or to none. `Exclusive` is what makes `Apply` a `Press` (nothing of another source is down
  when a key goes down) or a `Lift`.

`NotificationsProofs` proves, for any number of sessions, ids and calls and any capacity above 0:

* `TypeCorrect` — `TypeOK`, with no queue longer than its channel.
* `ReplacementsSpared` — the action property `ReplacementsAreSpared`, by the invariant `Apart`: within a life
  of an id a timer's or an answer's revision is at most the open one's, and equal only if it was made for
  it; lives under way began before the present call. The second part is what makes a new life one that
  nothing under way has seen, and the first what survives a replacement.

`VideoPathProofs` proves, for any budgets, attempts, mailbox and queue:

* `PathsAreTyped` — `TypeOK`, with the kinds of message each queue carries.
* `SomeAttemptIsDue`, `OpenChannelsAreServed` — `AlwaysTrying` and `OpenIsServed`. The latter says that a connected
  page has the hub's present peer, open or opening, or will be told; it holds whichever end hears first. It is not
  inductive: a close or an offer that is still on its way could take the peer of a page that is connected. The
  invariant's part `Ordered` speaks of the two queues from the page to the hub: offers are there in the order of
  their attempts, none after the newest one's, and a close names an attempt the page has given up.
* `NoDeltaIsSkipped` — `DeltasFollow` at the page, for every order in which the two paths can deliver.
* `AttemptsAgree` — `Attempts`: what the page, the session and the hub believe of an attempt agrees once what is between
  them has arrived. The page's attempts, the session's claim and the hub's peer are three counters that nobody
  reads together. An attempt of which the hub has the channel or
  is to hear (`Holds`) and which the page has given up has its close on the way; one that the hub has given up has the
  page's notice on the way. Which end hears first of an opening is left open.
* `FramesKeepOrder` — `InOrder`: the frames in every queue are in the encoder's order, what is in the data channel comes
  before what is in the hub's queue and that before the mailbox, and none is of a later stream than the
  encoder's.
* `NothingIsLostForGood` — `NothingStaysLost`. It speaks of a system at rest, so the invariant must say of every state
  what will come of what is under way: `Owed` says that unless a reason for a refresh is under way or due (`Due`),
  something still to come brings the page on (`Comes`): a key, or the newest frame behind an unbroken
  row, or neither because one of the four exceptions applies. It rests on `Waits` (a page that
  listens to a channel the hub has yet to see open awaits a key), on `PassedOver` (the key it awaits is owed or counts as lost), on `Ready` (a channel or socket in use has its configuration ahead
  of its frames), `Bounded` (the page is nowhere ahead of the encoder) and the two above. At rest the queues are empty, so
  what comes is there already.


`ElementObservationsProofs` proves, for any readers, jobs, applications, tokens and limits:

* `ReadersAreLookedAfter`, `AnswersAlwaysFit` — `NobodyIsForgotten` and `AnswersFit`, by an invariant that
  follows a reader through channel, queue and task: `Covered` (whoever waits for a job has the job in the
  order and its token in the turn), `Going` (readers wait only for a task that will tell its result, so that
  an aborted one can take nobody along), `Once` (what is known is neither asked for nor made again)
  and `Fresh` (a running scan has only readers who asked before it began). `Kept`, the model of `retain`, is
  defined by ranks in place of the recursive `SelectSeq`, and what it keeps is proved first.
* `JobsAreFoundInTheQueue` — `OrderNamesQueuedJobs`: the order names a job once, and one that nobody waits
  for only until the queues are pruned (`Ordered`).
* `ReleasesAlwaysWake`, `PermitsNeverShare`, `TurnsAlwaysHaveQueues` — of the admissions: `ReleaseWakes`, `OnePermit` (no two
  permits for one application, so a release frees what it was for) and `Turned` (the turn names each token that has
  a queue, once). By one invariant, `AdmissionInv`: a lease that is counted is somebody's, or was given up by a caller
  whose wake-up is still to come (`Leases`, `Stirs`), and while the task waits nothing that is queued could be admitted
  (`Rests`). A release is two steps on another thread; the wake-up under way is what carries the property
  from one to the other.

`PageProofs` proves of the page:

* `RowsAreNeverForgotten` — `NeverForgotten`: every handler but five ends in a pump, and what a pump leaves is
  looked after.
* `CaptureObeysControl` — `CaptureFollowsControl`: a device's live tracks are those of its current capture, and for the
  webcam, whose button says off while the browser asks, the current capture is also the newest start.
* `TextsStayTheirOwn` — `ContentMatches`: an observation names one content for good, whatever is under way has its content
  from that naming, and a body is read only for the selection the panel names.
* `KeysAreLetGo` — `KeysLetGo`, by `KeysInv`: what is down on the desktop, with what the messages under way will
  do to it, is what the page believes it has forwarded, but for `slipped`.

`ServerProofs` proves of the two registries, for any tokens, requests, workers and limit:

* `StartsAreIdempotent`, `StoppedStaysStopped` — `OneOutputEach`, with the limit of outputs, and `StopsForGood`. The invariant:
  what the registry has forgotten has ended and is old (`ForgottenIsOver`), so counting what it remembers
  counts every worker there is; and a worker whose state is final has left its loop, whichever thread wrote that
  state (`WorkersInv`), so no later report revives it.
* `UsedSessionsStay` — `UsedStay`, the safety half of `SessionsFollowUse`: a session is at one place at a time, with the
  request that creates it, with its owner, or with the cleanup of its token (`McpInv`). So what a cleanup closes is
  nobody else's, and the reaper, which waits for initializations, finds no session without an owner that is in use.

`ViewerStreamProofs` proves, for any geometries, rates, budgets and limits:

* `StreamTypeCorrect`, and by the invariant `CoreInv` `PicturesFit` (`PictureFits`), `ReadyMeansOpen` (`ReadyIsOpen`),
  `WaitingFreesPictures` (`BlockedKeepsNoPicture`) and `PressureIsOwned` (`PressureEnds`). The worker uses a snapshot it took under
  the lock after it has let go of it; the epoch tells whether that snapshot is still the state's, and what the
  invariant says of the encoder it says for the worker's present epoch only.
* `FailuresCountOnce` — `FailureCountsOnce`, by `WayInv`: a failure of the current epoch is at one place
  at a time — with the worker, in the channel, or with the session.
* `DeltasAlwaysFollow` — `DeltasFollow`, by `LineInv`. What is under way of the current epoch, from the page's decoder
  through the session and the channel back to the worker and its encoder, is one line: the stream's description,
  then frames that count up (`Orderly`). Between any two of its places stands somebody who may drop what passes:
  the worker drops a batch only when its epoch is over, and the session a message only when the epoch is over
  or no codec is left, and then nothing of that stream comes any more (`Knowing`). What the session has taken it handles
  later, in an epoch that may be over; `Taken` says that it is still the next the page is to get.

Only model-checked: all liveness (`RequestsSettle`,
`CancelledTokenLetsGo`, `ExpiredConnectionsLetGo`, `OwnershipIsLive`, `WorkerEnds`, `RestartWakes`, `PageRecovers`, `TimedOnesEnd`,
`LonersAreAdmitted`, `StatusCatchesUp`, and the half `UnusedGo` of `SessionsFollowUse`), which is beyond the prover.

## 6. Mutants

Beside many operators stands a variant that makes a plausible mistake: the next owner's command goes out
without a release, a change of controller leaves requests standing, a restart keeps the pending picture, a
timer closes whatever revision is there, an aborted task gets a new reader. `PROJECT.json` pairs each property
with one; put in place of the operator, it makes the property fail under the run's own configuration.

## 7. Not modelled

* **Window sessions' video** (`server/ws.rs:519`): a biased `select!` prefers video to the socket; whether that
  starves the socket is a matter of rates, which the modules leave open.
* **MCP's tools** and the sessions its library ends by itself; the **encoding and sending of a broadcast**.
* **Paste** (`server/paste.rs`) and the **compositor's clipboard** (`compositor/clipboard.rs`): their admission is the one
  of `DesktopControl`; reads from Wayland clients with a ten-second deadline are not followed.
* **Display sizing, rate adaptation, mixer, terminals**: one task or one lock each, arithmetic over measured
  times and sizes. The round trip of `ws.rs:978` is one subtraction.
* **Windows and workspaces** of the compositor: one thread, geometry.
* **Pointer input, picture-in-picture, file panels and other views of the page**; encoders, GPU, XWayland,
  decorations; parsing and formatting of messages; start-up and packaging.

The modules stand for a small share of the repository's lines, in particular of its JavaScript: most
of that is test harnesses (`web/checks/`), components that draw, and styles, which have no protocol to check. What
is modelled of `page/` is what waits for something and may find the world changed.
