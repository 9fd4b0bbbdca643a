# A TLA+ model of Surf

Surf streams a Chromium that runs on a computer to paired devices. A Go backend
launches and controls the browser over CDP, captures the active tab through a
small extension, and serves H.264, PCM audio and control messages to clients over
one websocket each. A desktop application keeps that backend running. Nearly
everything in it that is hard to test is concurrent: goroutines per client, timers,
callbacks of the capture, monitors, processes that die or do not close, and locks
that are released in the middle of an operation.

This directory holds the specifications of the parts that carry those risks, the
TLC configurations that check them on small instances, and proofs of all their
safety properties for every instance. `PROJECT.json` is the index: it maps every definition that models
code to the lines it stands for, and lists runs, mutants, hazards and theorems.

## 1. Inventory

Paths are below `src/backend/internal/` unless they say otherwise.

| Component | State | Operations | Module |
|---|---|---|---|
| `auth/auth.go` | registry and `devices.json`, the invitation, candidates, challenges, tickets | pair, confirm, challenge, ticket, revoke, expire, restart | AuthManager |
| `web/server.go` | cookies, requests between two steps | login, gate, revoke, websocket handshake | DeviceAccess |
| `transport/hub.go` | registered sockets; per socket three lanes, a pause epoch, a writer | send, pause, write, close | ClientLanes, DeviceAccess |
| `media/video.go` | subscriptions, generation, four timers | subscribe, close, reconfigure, push, keyframe | VideoPipeline |
| `media/capture*.go`, `media/extension/` | bridge sockets, waiting channels; in the extension the stream and the encoder | start, stop, trigger, report | TabCapture |
| `media/audio.go`, `browser/client_audio.go` | subscriptions, run number, idle timer; map of clients, pumps | subscribe, close, read, toggle | AudioLane |
| `browser/client_video.go` | map of clients to subscriptions, pumps | subscribe, retry, disconnect | VideoSubscribers |
| `browser/mode.go`, `browser/setup.go` | mode and revision, controller, setup browser, clients | open, resume, monitor, shutdown | BrowserManager |
| `browser/controller.go`, `tabs.go`, `session.go`, `setup.go` (poll), `input.go` (tab commands) | tabs, active tab, the startup batch, save timer, session file | start, attach, drop, switch, save, flush, restore, poll | TabSession |
| `browser/touch_input.go`, `pointer_input.go` | two ordered lanes, their owner, what it holds down | enqueue, coalesce, cancel, dispatch | InputLanes |
| `cdp/cdp.go`, `cdp/lifetime.go`, `process/` | pending calls, event queue; launcher, browser and their owner | launch, call, read, dispatch, close | BrowserConnection |
| `app/serve.go`, `control/control.go`, `process/lock_unix.go`, `chromium/profile.go` | locks, descriptor, context | start, publish, leave, release, remove | ServerLife |
| `app/recovery.go` | failure record of a profile | note, decide, quarantine, mark, clear | ServerProcess |
| `src/backend/cmd/surf/desktop.go`, `browser_desktop.go`, `updater/` | child, restart timer, flows of requests | start, stop, take over, restart, update, quit | DesktopSupervisor |
| `browser/adaptive.go`, `downloads.go`, `clipboard/` | quality level; downloads; revision | | candidates |
| `browser/store.go`, `logstore/` | bounded lists and files | | candidates |
| `discovery/`, `identity/`, `config/`, `protocol/`, `telemetry/`, `contentblocker/` | mostly none | files, OS calls, parsing | not planned |
| `src/client/core` (C) | session state of a client | dispatch of events | the revision check, in BrowserManager |
| `src/client/desktop`, `src/client/ios` | user interface | | not planned |

How they interact:

- The desktop starts `surf serve` as a child, watches it through its exit, the
  descriptor `daemon.json` and its control endpoint, and asks it to shut down. A child
  ends when the pipe to its parent closes.
- A server takes its locks, launches Chromium, recovers a profile that does not start,
  publishes the descriptor and gives these up in the reverse order.
- `web` calls `auth` for every request and hands admitted sockets to the hub; a
  revocation runs a callback that closes the hub's sockets of that device.
- The hub calls a handler per client: `BrowserManager` first, which passes commands
  on to its controller while it streams and mutes the clients' media otherwise. Touch
  and pointer messages go to their lanes, everything else to one command loop.
- The controller hears of pages from Chromium's target events, one goroutine each, and
  talks to them by calls that may time out.
- The controller subscribes clients to the video and audio pipelines; one pump
  goroutine per subscription moves data into the client's lanes.
- The video pipeline starts and stops the tab capture with its mutex held; the
  capture's bridge reader pushes frames back into the pipeline, under the same mutex.

The properties that make each part correct are stated at the end of its module, and
the hazards that led to them are listed with their lines in `PROJECT.json`.

## 2. Modules and the code they model

An action is what the code does without letting another goroutine in: a critical
section, or the stretch between two blocking points. Data is abstracted to what the
properties distinguish. Operators marked `Bug:` are faulty variants of the
definition that follows them; no specification uses them, they are the mutants that
each property has to catch.

**AuthManager.** All methods of `auth.Manager` run under one mutex, so each is an
action; `CompleteChallenge` unlocks to verify the signature and is two
(`TakeChallenge`, then `ChallengeFails` or `ChallengeSucceeds`). Random identifiers
are fresh numbers. A deadline can pass at any time (`Expire`), which covers every
TTL. `Save` may fail, `Restart` reloads what is on disk.

**DeviceAccess** extends AuthManager with the HTTP handlers and the hub's registry:
what `handleConfig` and `handleWS` do after the auth manager answered is a later
step, and so are the revoke callback (`CloseDevice`) and the closing of each socket
it has found (`CloseTarget`). A history variable, `racing`, remembers the handshakes that
were under way when a callback looked for sockets.

**ClientLanes** is one socket: lanes `control`, `video` and `audio` with their drop
policies, `SetMediaPaused`, and `writeLoop` with its three selects. The lanes are
channels and the writer receives without `Client.mu`, so the loops that empty a lane
under the mutex take one step per receive. Pumps are environment: any frame may be
handed to `write` at any time, since what an ended subscription had buffered may still
come after a handoff. Two history variables record what the client depends on: the
frames sent when the mode last changed (`since`) and the frame that the writer received
last (`taken`).

**VideoPipeline** has subscriptions with bounded queues, generations, the start
retry, the keyframe cooldown and the idle stop. `Push` takes several steps, because
it offers a unit to the subscriptions after it has unlocked.

**TabCapture** follows a start of the encoder through `StartVideo`, the two bridge
sockets (each ordered, no order between them) and the extension, one action per
message or awaited continuation. `pc # "idle"` means that the pipeline's mutex is
held. Chromium may refuse a tab or an encoder, or take for ever.

**AudioLane** has the shared capture with its run number and idle timer, and the
controller's map and pumps. **VideoSubscribers** does the same for video, where
`subscribeVideo` holds no lock from its first check to the store and runs on two
goroutines; `stopVideo` and `ClientDisconnected` take an entry out of the map in one step
(`StopVideo`) and close it in a later one (`CloseStopped`). It includes the handoff whose
session cannot be saved, which releases the clients and then greets them again.

**BrowserManager** is the handoff. `op` is the operation lock, `task` the next step
of the goroutine that holds it. Closing, launching and saving may fail, forced or not;
the monitor polls without `op` and looks again before it acts. A setup browser is a
launch number, so that the monitor can confuse two of them. What the core of a client
shows (`core`) follows the revision check in `src/client/core/src/core.c`.

**TabSession** is the controller's view of Chromium's pages. Each created and each
destroyed target has a goroutine, commands have one; these are `Flows`, with a place
`at` and a list `todo` of calls that switch, create or close. Chromium's pages (`open`,
`page`) and the events it has yet to deliver (`news`) are separate from the tabs that
Surf knows. A start gets its tabs in one of four ways (`StartNative`, `StartCreated`,
`StartExact`, `Normal`), depending on the session file and on what Chromium restored by
itself. A save is two steps, because a timer's save and a handoff's flush compete; the
file is known by whose snapshot it holds.

**InputLanes** is the way of an event from a client to a page. `EnqueueInput` has the
replacement of motion and the limit of the queue; `Verdict` is the order of the checks
in `process` (alive, owner, tab, surface, sequence), and an event that needs the
viewport takes two steps (`Ask`, `Answered`) between which the tab may change. What
Chromium holds down (`contacts`, `pressed`) is separate from what a lane believes.

**BrowserConnection** has the launcher, the browser behind it (they may be one process
or two) and another browser that may publish its endpoint in the same profile; the
steps of `Launch`; the calls, the reader and the dispatcher of `cdp.Client`, at the
grain of single channel operations; and `CloseBrowser`, which may time out and be tried
again. `launcher` is also the state of the channel `Started.Done`, which gets one result
and is then closed, and from which `waitForURL` and every close receive. Its specification
is `ConnSpec`.

**ServerLife** is the life of the server processes of one home as others see it: pc,
kind, locks, descriptor. It is used twice. **DesktopSupervisor** extends it, adding the
desktop: `startBackend` and `stopBackend` run on several goroutines (after startup,
from timers, from a restart or an update, from quitting), each with a place of its own,
and a request over HTTP and what the desktop does with its answer are different steps.
The browser's mode is there as the supervisor meets it: `revision` grows with every
`setState`, and a handoff ends in a setup, in streaming, or in a rollback that takes two
more revisions (`NextModes`). It belongs to the server that runs, and a successor counts
from the beginning; `same` (history) says whether the server whose mode was read is still
there.
**ServerProcess** extends it with the recovery of a profile: the steps of a failed
start, each of which may fail or be the last of its process, and the record that the
processes hand on. `Seen` maps those steps to "launch", and `IsServerLife` states that
a process with its recovery implements ServerLife, fairness included. The supervisor is
therefore checked against an abstraction that the detailed server is shown to satisfy.

The `MC...` modules give these modules their small sets and symmetries.
The `...Proofs` modules hold the proofs (section 4); those about one part of the system
share a module.

## 3. Runs

| Run (configuration) | What it shows |
|---|---|
| `device_access` (MCDeviceAccess.cfg) | Pairing, login, revocation, restarts and sockets together: memory and `devices.json` agree, each admission uses up its invitation, a challenge and a ticket are good once, only a socket whose handshake a revocation overtook outlives it, and each socket that a revocation finds goes away. |
| `client_lanes` (MCClientLanes.cfg) | The lane continues what the writer took from it, or starts at an IDR or a change of mode; no media crosses a change of mode, and control messages arrive or the connection ends. |
| `video_pipeline` (MCVideoPipeline.cfg) | Subscriptions have an encoder or a pending retry, queues are decodable and of one generation, and deferred keyframe requests reach the encoder. |
| `tab_capture` (MCTabCapture.cfg) | A reported acquisition failure is never hidden until the timeout, and a start and a bridge reader that wait for each other get out of it. |
| `audio_lane` (MCAudioLane.cfg) | A capture while somebody listens, and for nobody only until its pending stop; clients that know their state. |
| `video_subscribers` (MCVideoSubscribers.cfg) | No open subscription that nobody will close, two known races excepted; no client that was told "ready" without one. |
| `browser_manager` (MCBrowserManager.cfg) | Never two browsers on the profile, none lost, no input after the snapshot, clients in step with the manager; Shutdown returns. |
| `tab_session` (MCTabSession.cfg) | No tab without its page once things are quiet, whatever order events and answers come in; the active tab of a restored session is active again; a flush is not overwritten by an earlier save; what the setup browser takes for saved is in the file. |
| `input_lanes` (MCInputLanes.cfg) | Nothing is held down on a page that the lanes do not know of; no press, release or key is dropped or overtaken; a client that leaves ends up holding nothing. |
| `browser_connection` (MCBrowserConnection.cfg) | Every answer finds room in the channel of its call; calls return although handlers call back; no event and no loss of the connection goes unnoticed; a browser that is gone can be closed, also at a second attempt. |
| `server_process` (MCServerProcess.cfg) | A profile is set aside only after two failures within the window, a recovery that could not be done is tried again, and the process implements ServerLife. |
| `desktop` (MCDesktopSupervisor.cfg) | No child out of sight, no setup closed at another revision than the confirmed one while its server lives, and no desktop without a server for good. |

Every property has a mutant: a plausible mistake in the code it is about, under which
TLC finds the property violated in the same configuration.

### Bounds

Every bound is a constant named `Max...`, a capacity, or the size of a set, and appears
in a guard.

- DeviceAccess: one device, two candidates, two attempts and four identifiers: two
  sockets, or a second invitation that meets what the first has left, or pairing again
  after a revocation with an old ticket about. That devices do not get in each other's
  way is what the theorems of section 4 add, for any number of them.
- ClientLanes: capacities of one or two instead of 64, 4 and 3; four frames overflow
  a lane of two with one in the writer's hand, and two chunks or events a lane of one;
  two mode changes are one pause and its end.
- VideoPipeline: two subscriptions with queues of one, three generations (a start and
  a reconfiguration that fails or not, or two failures and a retry) and three units per
  encoder: the IDR, one that is dropped and one that depends on it.
- TabCapture: two starts, so that what the first has left meets the second; two
  actions, so that two acquisitions overlap; one frame, so that the reader waits for
  the mutex.
- AudioLane: two clients, two subscriptions, three commands (on, off and on again, or
  a toggle while the other client listens), two chunks for channels of one.
- VideoSubscribers: two clients, two subscriptions, one retry, one handoff.
- BrowserManager: one client (clients do not affect each other), two setup browsers, so
  that the monitor's poll of one meets the other, and no handoff begins at revision 7
  or later: two opens with a resume between them, each of which may fail at any step.
- TabSession: three targets and two moves of users and pages, from four beginnings: a
  saved session to be created, one from the setup browser, and two that Chromium
  restored itself, one with a page to be discarded and one whose second tab was active.
- InputLanes: two clients, two tabs, two fingers, one button, queues of two, three
  messages and two events around the lanes. A behaviour uses one of the lanes, as they
  share nothing but the tabs (`LaneSets`).
- BrowserConnection: one caller, one handler that calls, two events, one of which
  arrives while the handler waits.
- ServerProcess: two processes that reuse their names, so any number one after another,
  two profiles, and a counter that stops at three, above the threshold of two.
- DesktopSupervisor: two servers (a child and another, or a child and its successor),
  one timer beside the other flows, one restart or update request, and revisions up to
  4: a setup that has opened, a handoff that failed, or one that is being rolled back, and
  on the next server a setup at the revision at which the first one streamed.

`CHECK_DEADLOCK FALSE` stands where the system may stop: a bound is used up, a
socket has closed, the server has shut down.

### Fairness

- DeviceAccess: the revoke callback, the closes it asks for and the removal of an
  ended socket happen; they are straight-line code without waits on clients.
- ClientLanes: the writer and the read loop run (a write has a deadline) and the
  loops that empty lanes go on.
- VideoPipeline: timers elapse and their callbacks get the mutex.
- TabCapture: the goroutine in `StartVideo` runs, its timers expire, bridge readers
  run, and the extension handles its messages. The reader that waits for the mutex
  gets strong fairness, as Go's mutex hands over to a waiter that starves. Nothing is
  assumed of Chromium.
- AudioLane: timers fire, the controller goes on with a command it has taken, pumps
  run, and a read loop whose source has ended sees it. Its two properties are
  invariants and do not use this.
- BrowserManager: the handoff goroutine goes on (its waits have timeouts), the
  monitor ticks, and polls do not fail for ever (strong fairness of a successful
  poll).
- InputLanes: workers run, calls return or time out, and the hub reports a closed
  client.
- BrowserConnection: reader, dispatcher and callers run, and Chromium answers while it
  lives; a close that can go on does. Timeouts of calls and closes are not fair, so
  `CallsReturn` and `CloseEnds` do not rest on them, and nothing is assumed of the end of
  a browser or of its launcher.
- ServerProcess and ServerLife: a process with something to do does it; one that serves
  may do so for ever, until its context is cancelled.
- DesktopSupervisor: goroutines run, timers fire, the monitor ticks. A start that is
  tried again and again succeeds at some time (strong fairness; without it there is
  nothing to supervise), and a goroutine that waits for the mutex gets it.

## 4. Proofs

TLC checks small instances; the theorems hold for every value of the constants that
satisfies the named `ASSUME`s: any number of clients, targets, servers, subscriptions,
queue capacities, revisions. The assumptions say that bounds are natural numbers, that
a capacity is at least one where the code has a buffered channel, and that the names
that stand for "nobody" are not names of anybody (`NoTarget`, `NoServer`, `NoTimer`; a
restart timer of the desktop is not called like one of its three goroutines). Two are more
than that: `SubscribersAssumption` has finitely many clients, and `InputAssumption` has a
tab to begin with, as the code has: input is taken once the controller has started, and a
start ends with an active tab.

Every proof has the same shape. The properties are rarely inductive, so the end of each
module states a strengthening, `...Inv`, as a conjunction of named parts; it was checked
with TLC in the configuration of the module's run before it was proved (`InputInv` on
instances with two buttons and one lane, or both; the touch lane to the end, the others as
far as some eleven million states). The proof module
has a lemma per action, or per group of actions that disturb the same parts, and a last
theorem `...Invariant` from which the properties follow.

| Proof module | Theorem | Property |
|---|---|---|
| DeviceAccessProofs | `RegistryIsDurable`, `ChallengesAreSingleUse`, `AdmissionNeedsInvitation` | RegistryDurable, ChallengeSingleUse, AdmissionConsumesInvitation |
| | `TicketsOpenOneSocket`, `OnlyRacersOutliveRevocation` | TicketOpensOneSocket, RevokedSocketsRaced |
| | `OnlyInvitedConfirmable`, `AuthTypeCorrect`, `AccessImplementsAuth` | (no run states them) |
| LanesProofs | `VideoLaneContinuous`, `PauseIsABoundary` | LaneContinuous, PauseBoundary |
| | `HeldInputIsOwned`, `EdgesAreReliable` | HeldInputOwned, EdgesReliable |
| VideoProofs | `SubscribersNeverStranded`, `QueuesDecodable` | NeverStranded, Decodable |
| | `CaptureFailuresReported` | CaptureFailureReported |
| AudioLaneProofs | `CaptureRunsAsNeeded`, `ClientsKnow` | CaptureAsNeeded, ClientKnows |
| VideoSubscribersProofs | `SubscriptionsNeverStray`, `ReadyClientsServed` | NoStraySubscription, ReadyIsServed |
| BrowserManagerProofs | `BrowsersAlwaysAccountedFor`, `SnapshotFreezesInput`, `WatchersConverge` | BrowsersAccountedFor, NoInputAfterSnapshot, ClientsConverge |
| ChromiumProofs | `RepliesAlwaysFit` | RepliesFit |
| | `TabsHavePages`, `RestoreFindsFocus`, `FlushIsFinal`, `SetupIsSaved` | NoGhostTabs, RestoreFocuses, FlushedStands, SetupSaved |
| ServerProofs | `RecoveryIsJustified`, `DeferredRecoveryIsTried` | RecoveryJustified, DeferredRecoveryStands |
| | `ChildrenAlwaysHeld`, `SetupEndsWithConsent` | ChildrenHeld, SetupNeedsConsent |
| | `OneServerAtATime`, `DesktopKeepsOneServer`, `RecoveryIsUnseen` | (no run states them as such) |

What each inductive invariant adds, and why:

**DeviceAccessProofs.** That a confirmable candidate is the one the invitation remembers
survives a new candidate only if identifiers are not given twice, and single use of a
challenge needs the same of challenges. `AuthInv` therefore has `IdsIssued` (what exists
has an identifier below `nextId`) and `IdsUnique` (an identifier names one thing), and with
them `UsedHasCandidate`, `AttemptsBounded` and `ChallengeOfPaired`. `AccessInv` does the
same for tickets, handshakes and sockets (`TicketsIssued`, `TicketsUnique`): without it
a fresh ticket could bear the name of a socket that is open. `HandshakesRaced` carries
`RevokedSocketsRaced` back to the handshakes: one whose device is not paired was under way
when the callback of the revocation looked, or the callback is still to come.
`AccessImplementsAuth`
(`AccessSpec => AuthSpec`) carries the theorems about the auth manager over to the server.
`AdmissionOfStep` shows that of all actions only a saved `ConfirmPair` adds a device.

**LanesProofs, clients.** `LaneContinuous` is about a lane that nobody is emptying, and says
what an empty one promises: after a frame that was received out of turn the lane drops
until an IDR. It is inductive only together with the end of the lane: a lane that does
not drop ends with the frame that was sent last, or the writer has that frame, or none
was sent since the mode changed (`LaneFollows`); the lane holds frames of one epoch but
while a change of mode empties it (`LaneOfEpoch`), and such a change makes a fresh start
until a frame is accepted (`FreshStart`). Nothing is assumed of the frames themselves.
`PauseBoundary` needs that no event runs ahead of the change it tells of
and that what the writer found current stays no older than an event written before it
(`EventsFollow`, `AudioOfEpoch`, `VideoOfEpoch`).

**LanesProofs, input.** A worker that waits for a viewport has let go of everything, or
holds it in the tab it waits for (`LaneOwned`); what a handoff cancelled is let go before
the handoff goes on (`PausedLetGo`). The hard part is a pressed button: the lane adopts
the set of buttons that each report carries, so a button could drop out of that set and
stay down in Chromium. It does not because the reports of a client follow one upon the
other, from the one the lane acted upon last to what the client holds now: a button that
one has and a later one has not is let go by an edge between them (`ReportsFollow`), and
edges are never dropped or overtaken. Hence the two properties are proved together in
`InputInv`. The edges of a queue are counted as the set of their places, so that what
enters and leaves a queue changes the count by a bijection of places and no induction over
sequences is needed; the motion that is dropped and the free contact number are least
elements, which exist because the natural numbers are well founded (`LeastNatural`).

**VideoProofs, pipeline.** `Push` stamps a unit, unlocks and offers it later, so the proof has
to know what a unit on its way is worth: it is of a past generation, or the encoder that
made it has made no other since (`PushCurrent`). `InStep` then says that a subscription
that does not wait for an IDR has missed nothing.

**VideoProofs, capture.** The channel that a start waits on holds one result, and reports of
earlier actions arrive late. `FailureSeen` says where a reported failure can be while a
start waits: in the channel, or it is from before an action that this start has triggered
and whose first report is still to come. That needs that the extension announces an action
before it does anything else (`AcquiringAnnounced`), that the server's flag is the last
report it read (`MediaAsReported`) and that the channel is there from the first critical
section of a start to its return (`ChannelOpen`).

**AudioLaneProofs.** `EntryOwned` and `HandlerHolds` fix whose a subscription is between the
capture, the map and the handler. `ToldOrPending` is the argument for `ClientKnows`: what
a client was told is true of its entry, or a pump is on its way to put one of them right.

**VideoSubscribersProofs.** A subscription between its removal from the map and its close
belongs to the goroutine that took it out (`Stopped`), and what is stored for a client
that has gone, or is left by one that goes during a handoff, is among the `strays`: the
theorem says that there is no third way to lose one. `CallsHoldTheirOwn`: no two calls of `subscribeVideo`, which holds
no lock, hold the same subscription. `ReadyFromPump`: outside a handoff a "ready" came
from a pump that still relays.

**BrowserManagerProofs.** `HandoffLocked` and `HandoffKnows` say what a step of a handoff may
rely on about the two browsers although polls, focus requests and a shutdown run beside
it; `InputStopped` ties the flag that stops input to the recorded session; `ShownOrComing`
says that a client shows the current revision or will be told it.

**ChromiumProofs, connection.** `Answerable`: a call takes each of its places once, so a channel gets one answer, of the
reader or of `failAll` and never of both.

**ChromiumProofs, tabs.** `LivesOnce` and `AboutToGo` give a target one life: it is created
once, and a tab without a page has a drop before it or a failing attachment behind it.
`FlushIsLast` orders the saves. The focus of a restored batch is the longest argument
(`BatchInv`, until something outside the batch comes for the focus). A tab's ID is its
place in the batch, so no two tabs have the same (`IdsApart`); a target that the batch no
longer waits for has finished or has no tab to finish (`BatchWaits`); while the batch
lasts nothing is active and the only switches under way are to tabs that are gone
(`BatchIsStill`); from then on the wanted tab is active or some flow will switch to it,
and none switches to another (`BatchIsFocused`). `FocusFinish` is the step from one to
the other, `FocusKept` what all other flows share.

**ServerProofs.** `LifeInv` says who holds the locks at every place of a process
(`LockHeld`), which is what a process that ends frees. `ProcInv` adds that one process at
a time works on the record (`LockOwned`), that a recent failure in the record is one the
named profile really had (`RecordTrue`) and that a decision stays true until it is carried
out (`DecisionPaired`). `DeferInv` adds that a recovery that was decided and not done is
still due by the record, and that the record is that of its profile (`DeferredRecorded`),
which a marked recovery leaves true because nothing is deferred by then
(`DecisionRecorded`). `RecoveryIsUnseen`: the initial states and every step of
ServerProcess map to those of ServerLife, or to a stutter, so that with `IsServerLife`
checked by TLC fairness is the only part of the refinement that rests on a bound.
`DeskInv` keeps `LifeInv` and knows what the goroutines of the desktop wait for
(`WaitsForChild`). Consent rests on revisions that only grow while a server lives: the
revision that was read is no later than the present one, and if it is the present one
and the browser is away, it is the one that was agreed to (`ReadWithConsent`).

Every safety property of the runs, state invariant or action property, is thus proved.
Model-checked only are the liveness properties `RevocationReachesSockets`,
`ControlDelivered`, `KeyframeNotDiscarded`, `StartEnds`, `ShutdownCompletes`, `Supervised`,
`DepartedLetGo`, `CloseEnds`, `CallsReturn`, `EventsDispatched` and `LossNoticed`, and the
fairness of
`IsServerLife`: the proof system does not handle fairness here.

## 5. Where code and documents disagree, and behaviours without a property

The models have the following executions, because the code has them. No run asserts
their absence. The first seven contradict a document or a comment of the repository.

1. `docs/security.md:48`: "Revoking a device removes it, invalidates its challenges and
   tickets, and closes its connections." `handleWS` verifies the ticket
   (`web/server.go:380`), and only later `ServeHTTPForDevice` adds the socket to the hub
   (`hub.go:253`). A revocation whose `CloseDevice` runs in between finds nothing, and the
   socket registers and stays (DeviceAccess: `HandleWS`, `RevokeByAdmin`, `CloseDevice`,
   `Register`). `RevokedSocketsRaced` says that no other socket does.
2. `media/video.go:485`: "Every attempt advances the encoder generation. Keep subscribers
   attached, drain stale AUs, and require the successful attempt's IDR." A `Subscribe`
   while a retry is pending starts the encoder and cancels the retry, but resets only
   the new subscription (`video.go:159`); the older ones ignore every unit until somebody
   asks for a keyframe (VideoPipeline: `SubscribeStart`).
3. `config/config.go:74` calls video-retry an "explicit retry after an unavailable encoder
   state". `videoFailed` sends "unavailable" before `stopVideo` (`client_video.go:184`); a
   retry handled in between finds the failed subscription, answers "starting" and
   subscribes nothing (VideoSubscribers: `PumpFails`, `Retry`, `PumpStops`).
4. `docs/backend.md:79-80`: "If normal resume cannot close the browser, Surf stays paused
   and offers a separate force-close confirmation." The monitor's next tick resumes again
   by itself (`mode.go:343`), withdraws the offer and makes its revision stale
   (BrowserManager: `CloseSetup(FALSE)`, `Tick`, `Poll`, `Act`).
5. `browser/session.go:156`: "A hard process kill can lose at most this short debounce
   window". A tab that navigates without a change of title is recorded by `tabNavigated`
   (`tabs.go:384`), which does not schedule a save; the file keeps the former address
   until something else saves (TabSession: `TabNavigated`).
6. `browser/input.go:802`: "Reuse that final target as Surf's New Tab instead." The close
   command counts the tabs under the lock (`input.go:794`) and acts after it; two closes
   that overlap, or one that overlaps with a page closing itself, can each find a second
   tab, and the last one is closed. `FinishDrop` then opens a new page.
7. `control/control.go:155`: "This prevents an old process from deleting a descriptor
   published by a successor." `RemoveOwned` loads the descriptor, compares the token and
   then unlinks the file (`control.go:157`); a successor that publishes in between loses
   its descriptor (ServerLife: `RemoveOwnedLoad`, `Publish`, `RemoveOwnedUnlink`). The
   desktop's monitor notices, since the server no longer answers.

Others, without a sentence that they contradict:

- The loop that discards an overflowing video lane (`hub.go:466`) competes with the
  writer, which can take a frame whose reference was just discarded (ClientLanes,
  `DrainOverflow` and `Select...`). The client sees a gap; `LaneContinuous` says that the
  next frame it is sent is an IDR.
- `VideoSubscription.Close` does not empty its channel, so the pump of a subscription
  that a handoff has released may relay what was buffered after the handoff failed to save
  and media was unpaused (`client_video.go:144`, `mode.go:186-194`). The first frames
  after such a change of mode may depend on frames that the client never got, until the
  IDR of the new subscription (ClientLanes: `SendVideo`, `SetMediaPaused`).
- `startLocked` waits for "video-active" with the mutex that the bridge's reader needs
  to get past an earlier frame (TabCapture, `ReadFrame`, `Push`, `WaitTimeout`): the
  start then times out with its answer unread. `StartEnds` shows that it costs the
  timeout and not more.
- The extension keeps the video configuration after "stop-video" (`offscreen.js:554`), and
  the next acquisition starts the encoder for nobody (TabCapture, `CaptureTab`,
  `Acquired`).
- A client can be released between the last check and the store of its subscription,
  for video (VideoSubscribers, `CheckClosed`, `Store`) and for audio (AudioLane,
  `TakeCommand`, `HandleOn`); the subscription then keeps the capture running. The same
  happens to the subscription of a client that leaves after the handoff has taken the
  controller and before it lists the clients to release (`Suspend`, `ClientDisconnected`,
  `Drained`). `NoStraySubscription` allows for these two and for no other.
- A late "video-active" after a stop, and the error of a superseded start, are taken
  for answers to the next start (TabCapture). What that costs can be said only of
  TabCapture and VideoPipeline together.
- `startSetup` offers force for a browser that was never closed normally
  (BrowserManager, `StartSetup("retained")`).
- `stopBackend` reads the browser's mode and asks for the shutdown in two requests, each of
  which looks up the server anew (`desktop.go:487`, `:504`, `:1170`). A server that streams
  at revision 4, after a handoff that could not save, may be followed by one whose setup
  has revision 4; the shutdown then closes a setup that nobody confirmed
  (DesktopSupervisor: `Confirm`, `Lose`, `ChangeMode`, `Ask`; `SetupNeedsConsent` is about
  one server).
- A takeover asks for the mode and then sends a shutdown without a revision
  (`desktop.go:318`, `:366`): a setup opened in between is closed (`TakeControl`,
  `TakeProbe`).
- A child that exits between the shutdown request and the section that lets go of it
  (`desktop.go:504`, `:527`) is taken for one that crashed, and a restart is planned; in an
  update the timer may start a server while the executable is being replaced (`Ask`,
  `ChildExits`, `LetGo`, `Replace`).
- A restart request first cancels the planned restart (`desktop.go:477`) and plans none
  when it is refused. One request leaves the desktop to its monitor, which plans again;
  requests without end could keep it from that, which is why `MaxRequests` bounds them.
- An active tab whose attachment fails, or that is destroyed before its batch ends, leaves
  `activeID` without a tab until the next switch (TabSession: `Attached`, `DropTab`;
  `RestoreFocuses` is about tabs that exist). Two switches may activate their pages
  in the opposite order (`Activated`).
- A flush that fails at a handoff does not arm the timer again (TabSession: `Flush`,
  `WriteSession`); the next change of a tab does.
- A `Launch` that fails before it has tracked the browser kills what it started; when the
  launcher had handed over and exited, the browser may stay, and the error says so
  (`ErrUnverifiedLaunch`; BrowserConnection: `WaitForURL`, `Dial`). BrowserManager and
  ServerProcess treat such a profile as taken.

## 6. What is not modelled

Three places are coarser than the code, where no property can tell. `stopAudio` deletes
under one lock and closes under another (`client_audio.go:42-49`); in AudioLane it is one
step. `send` is silent while the controller is suspended or dead (`controller.go:456`);
AudioLane has no handoff, so there every client is told, and its properties are about
clients outside one. A reply to `attachToTarget` without a session (`tabs.go:226`), which
Chromium does not send, is not an outcome of `Attached` in TabSession.

Within the modelled components, and beside what the notes of `PROJECT.json` say:
signatures, cookies' HMAC, encodings, statistics, logging, clock probes and pings; PCM
transport and reconnecting bridges; `Capture.Close` and `AudioPipeline.Shutdown`; the
release and greeting of clients in a handoff that succeeds (VideoSubscribers has the
one that fails); titles, icons and emulation of tabs; coordinates and key codes; the
guardian process and the Windows variants; the desktop's windows. Components without a
module are listed in section 1 and, with the reason, in `PROJECT.json`: mostly parsing,
files and OS calls, and three (downloads, the adaptive governor, the clipboard) that
have state of their own and no module yet.

## 7. Plan

1. Compositions: VideoPipeline with TabCapture; BrowserManager with VideoSubscribers and
   with BrowserConnection in the place of its close and launch outcomes.
2. Downloads (publication without replacing a file), the adaptive governor, clipboard
   revisions.
