--------------------------- MODULE BrowserManager ---------------------------
(***************************************************************************)
(* Which Chromium owns the profile: Manager (backend/internal/browser/     *)
(* mode.go) hands it from the streaming browser to a visible setup browser *)
(* (setup.go) and back, on request, when the setup windows are closed, and *)
(* at shutdown, and tells the clients.                                     *)
(*                                                                         *)
(* The operation lock op is held through a whole handoff; mu only through  *)
(* single steps, so clients, the page input in progress, the monitor's     *)
(* poll and the sends of setState interleave with it.  Whether a Chromium  *)
(* closes, launches or dies is nondeterministic, and the check that the    *)
(* profile is free is not relied on.                                       *)
(***************************************************************************)
EXTENDS Naturals, FiniteSets

CONSTANTS
  Clients,      \* websocket clients
  MaxRevision,  \* bound: revisions after which no handoff begins
  MaxSetups     \* bound: setup browsers launched

ASSUME ManagerAssumption == MaxRevision \in Nat /\ MaxSetups \in Nat

VARIABLES
  state,      \* Manager.state: [mode, revision, canForce]
  standalone, \* state.Standalone
  op,         \* who holds the operation lock
  task,       \* the next step of the handoff under op, or "none"
  sends,      \* whom setState has yet to send its event: [client, aware]
  stop,       \* the stop channel is closed
  done,       \* the done channel is closed
  shutdown,   \* Manager.Shutdown: "none", "lock", "wait", "returned"
  monitor,    \* the monitor goroutine: [at, setup, closed]
  current,    \* Manager.current # nil
  suspended,  \* the controller's suspended flag
  stream,     \* the streaming Chromium: "none", "up", or "lost": its connection closed
  setup,      \* Manager.setup: 0, or which launch it is
  visible,    \* the setup Chromium: [launch, process, windows]
  input,      \* a page command on the controller: "none", "queued", "running"
  snapshot,   \* flushSession has recorded the session of this controller
  clients,    \* client -> "absent", "plain", "aware", "gone"
  watch,      \* client -> the status its read goroutine sends: Idle, or [at, revision]
  paused,     \* client -> SetMediaPaused
  core        \* client -> the revision its core shows

serverVars == <<stop, done, shutdown>>
browserVars == <<current, suspended, stream, setup, visible>>
inputVars == <<input, snapshot>>
clientVars == <<clients, watch, paused, core>>
vars == <<state, standalone, op, task, sends, serverVars, monitor, browserVars,
          inputVars, clientVars>>

Alive(p) == p \in {"up", "lost"}
Streaming == state.mode = "streaming"
Present == {c \in Clients : clients[c] \in {"plain", "aware"}}
Idle == [at |-> "idle"]

\* Start has launched the streaming browser, or, standalone, the setup browser.
Init ==
  /\ standalone \in BOOLEAN
  /\ state = [mode |-> IF standalone THEN "setup" ELSE "streaming", revision |-> 2,
              canForce |-> FALSE]
  /\ op = "free" /\ task = "none" /\ sends = {}
  /\ stop = FALSE /\ done = FALSE /\ shutdown = "none"
  /\ monitor = Idle
  /\ current = ~standalone
  /\ suspended = FALSE
  /\ stream = IF standalone THEN "none" ELSE "up"
  /\ setup = IF standalone THEN 1 ELSE 0
  /\ visible = [launch |-> IF standalone THEN 1 ELSE 0,
                process |-> IF standalone THEN "up" ELSE "none", windows |-> standalone]
  /\ input = "none" /\ snapshot = FALSE
  /\ clients = [c \in Clients |-> "absent"]
  /\ watch = [c \in Clients |-> Idle]
  /\ paused = [c \in Clients |-> FALSE]
  /\ core = [c \in Clients |-> 0]

----------------------------------------------------------------------------
(* setState *)

\* The event for the clients connected now; they get it one by one, before the
\* holder of op goes on.
SetState(mode, can, cur) ==
  /\ state' = [mode |-> mode, revision |-> state.revision + 1, canForce |-> can]
  /\ suspended' = IF cur THEN mode # "streaming" ELSE suspended
  /\ sends' = {[client |-> c, aware |-> clients[c] = "aware"] : c \in Present}

\* Bug: the core shows whatever came last.
ShowAny(c, revision) == core' = [core EXCEPT ![c] = revision]
\* The client's core drops an event older than what it shows.
Show(c, revision) == core' = [core EXCEPT ![c] = IF revision < @ THEN @ ELSE revision]

Send ==
  \E m \in sends :
    /\ sends' = sends \ {m}
    /\ paused' = [paused EXCEPT ![m.client] = ~Streaming]
    /\ IF m.aware THEN Show(m.client, state.revision) ELSE UNCHANGED core
    /\ UNCHANGED <<state, standalone, op, task, serverVars, monitor, browserVars,
                   inputVars, clients, watch>>

----------------------------------------------------------------------------
(* Request and PrepareShutdown: a request with a stale revision, or while op is *)
(* held or the server stops, is refused without effect *)

\* "open" while setup is open only focuses its window, with op held.
RequestFocus ==
  /\ op = "free" /\ ~stop /\ state.mode = "setup" /\ ~state.canForce
  /\ op' = "focus"
  /\ UNCHANGED <<state, standalone, task, sends, serverVars, monitor, browserVars,
                 inputVars, clientVars>>

\* Bug: the lock is kept when the window cannot be focused.
FocusDoneKeepsLock ==
  /\ op = "focus"
  /\ op' \in {"free", "leaked"}
  /\ UNCHANGED <<state, standalone, task, sends, serverVars, monitor, browserVars,
                 inputVars, clientVars>>

FocusDone ==
  /\ op = "focus"
  /\ op' = "free"
  /\ UNCHANGED <<state, standalone, task, sends, serverVars, monitor, browserVars,
                 inputVars, clientVars>>

RequestOpen ==
  /\ op = "free" /\ ~stop /\ Streaming
  /\ state.revision < MaxRevision /\ visible.launch < MaxSetups
  /\ SetState("opening", FALSE, current)
  /\ op' = "request" /\ task' = "open"
  /\ UNCHANGED <<standalone, serverVars, monitor, current, stream, setup, visible,
                 inputVars, clientVars>>

\* A forced resume, accepted where canForce offers it, differs only in how the close
\* is tried: both may fail.
RequestResume ==
  /\ op = "free" /\ ~stop /\ ~standalone /\ ~Streaming
  /\ state.revision < MaxRevision
  /\ SetState("resuming", FALSE, current)
  /\ op' = "request" /\ task' = "resume"
  /\ UNCHANGED <<standalone, serverVars, monitor, current, stream, setup, visible,
                 inputVars, clientVars>>

PrepareShutdown ==
  /\ op = "free" /\ ~standalone
  /\ stop' = TRUE
  /\ UNCHANGED <<state, standalone, op, task, sends, done, shutdown, monitor,
                 browserVars, inputVars, clientVars>>

----------------------------------------------------------------------------
(* A handoff: steps of the goroutine that holds op *)

Step(at) == op \in {"request", "monitor"} /\ task = at /\ sends = {}
Goto(at) == task' = at /\ UNCHANGED <<op, state, suspended, sends>>
\* The handoff ends in a state that setState announces, or has announced.
End(mode, can, cur) ==
  /\ SetState(mode, can, cur)
  /\ task' = "end"
  /\ UNCHANGED op

Finish ==
  /\ Step("end")
  /\ op' = "free" /\ task' = "none"
  /\ UNCHANGED <<state, standalone, sends, serverVars, monitor, browserVars, inputVars,
                 clientVars>>

\* openSetup takes the controller from the manager ...
TakeController ==
  /\ Step("open")
  /\ current' = FALSE
  /\ Goto("drain")
  /\ UNCHANGED <<standalone, serverVars, monitor, stream, setup, visible,
                 inputVars, clientVars>>

\* Bug: the command in progress is not waited for.
DrainNoWait ==
  /\ Step("drain")
  /\ Goto("flush")
  /\ UNCHANGED <<standalone, serverVars, monitor, current, stream, setup, visible,
                 inputVars, clientVars>>

\* ... waits for the command in progress (inputMu) ...
Drain ==
  /\ Step("drain") /\ input # "running"
  /\ Goto("flush")
  /\ UNCHANGED <<standalone, serverVars, monitor, current, stream, setup, visible,
                 inputVars, clientVars>>

\* ... and saves the session, or streams on.
Flush(ok) ==
  /\ Step("flush")
  /\ snapshot' = ok
  /\ current' = ~ok
  /\ IF ok THEN Goto("close") ELSE End("streaming", FALSE, TRUE)
  /\ UNCHANGED <<standalone, serverVars, monitor, stream, setup, visible,
                 input, clientVars>>

\* CloseBrowser of the streaming browser.  One that cannot be closed stays.
CloseStream(ok) ==
  /\ Step("close")
  /\ IF ok
       THEN /\ stream' = "none"
            /\ input' = "none" /\ snapshot' = FALSE
            /\ Goto("launch")
            /\ UNCHANGED current
       ELSE /\ current' = TRUE
            /\ End("failed", TRUE, TRUE)
            /\ UNCHANGED <<stream, inputVars>>
  /\ UNCHANGED <<standalone, serverVars, monitor, setup, visible, clientVars>>

Launched(process) == [launch |-> visible.launch + 1, process |-> process,
                      windows |-> process = "up"]

\* startSetup: it works, nothing is left of it, or its browser cannot be closed
\* and is retained.
StartSetup(outcome) ==
  /\ Step("launch")
  /\ \/ outcome = "ok" /\ visible' = Launched("up")
        /\ setup' = visible'.launch /\ End("setup", FALSE, FALSE)
     \/ outcome = "retained" /\ visible' = Launched("up")
        /\ setup' = visible'.launch /\ End("setup", TRUE, FALSE)
     \/ outcome = "failed" /\ visible' = Launched("none")
        /\ UNCHANGED setup /\ Goto("stream")
  /\ UNCHANGED <<standalone, serverVars, monitor, current, stream, inputVars, clientVars>>

\* Bug: resume goes on after a close that failed.
CloseSetupRegardless(ok) ==
  /\ Step("resume") /\ setup # 0
  /\ visible' = IF ok THEN [visible EXCEPT !.process = "none"] ELSE visible
  /\ setup' = 0
  /\ Goto("resume")
  /\ UNCHANGED <<standalone, serverVars, monitor, current, stream, inputVars,
                 clientVars>>

\* resume closes the setup browser, whose connection may be gone already ...
CloseSetup(ok) ==
  /\ Step("resume") /\ setup # 0
  /\ IF ok
       THEN /\ visible' = [visible EXCEPT !.process = "none"]
            /\ setup' = 0
            /\ Goto("resume")
       ELSE /\ End("setup", TRUE, current)
            /\ UNCHANGED <<setup, visible>>
  /\ UNCHANGED <<standalone, serverVars, monitor, current, stream, inputVars, clientVars>>

\* ... and a streaming browser that a failed handoff has left.
CloseOld(ok) ==
  /\ Step("resume") /\ setup = 0 /\ current
  /\ IF ok
       THEN /\ stream' = "none"
            /\ current' = FALSE
            /\ input' = "none" /\ snapshot' = FALSE
            /\ Goto("stream")
       ELSE /\ End("failed", TRUE, TRUE)
            /\ UNCHANGED <<stream, current, inputVars>>
  /\ UNCHANGED <<standalone, serverVars, monitor, setup, visible, clientVars>>

NothingOld ==
  /\ Step("resume") /\ setup = 0 /\ ~current
  /\ Goto("stream")
  /\ UNCHANGED <<standalone, serverVars, monitor, current, stream, setup, visible,
                 inputVars, clientVars>>

\* startStreaming; a browser that fails to start is shut down.  The new controller
\* is suspended until setState says "streaming".
StartStreaming(ok) ==
  /\ Step("stream")
  /\ IF ok
       THEN /\ stream' = "up"
            /\ current' = TRUE
            /\ suspended' = TRUE
            /\ input' = "none" /\ snapshot' = FALSE
            /\ task' = "streaming"
            /\ UNCHANGED <<state, sends, op>>
       ELSE /\ End("failed", FALSE, FALSE)
            /\ UNCHANGED <<stream, current, inputVars>>
  /\ UNCHANGED <<standalone, serverVars, monitor, setup, visible, clientVars>>

Stream ==
  /\ Step("streaming")
  /\ End("streaming", FALSE, TRUE)
  /\ UNCHANGED <<standalone, serverVars, monitor, current, stream, setup, visible,
                 inputVars, clientVars>>

----------------------------------------------------------------------------
(* monitor *)

\* A tick, unless op is taken: it notes the setup browser to poll and lets op go,
\* or looks at the streaming one.
Tick ==
  /\ monitor.at = "idle" /\ op = "free" /\ ~stop
  /\ \/ /\ setup # 0
        /\ monitor' = [at |-> "poll", setup |-> setup]
        /\ UNCHANGED done
     \/ /\ setup = 0 /\ Streaming /\ current /\ stream = "lost" /\ ~done
        /\ done' = TRUE
        /\ UNCHANGED monitor
  /\ UNCHANGED <<state, standalone, op, task, sends, stop, shutdown, browserVars,
                 inputVars, clientVars>>

\* The poll, without op: it may fail; a browser that was replaced is closed.
Poll(ok) ==
  /\ monitor.at = "poll"
  /\ monitor' = [at |-> "act", setup |-> monitor.setup,
                 closed |-> ok /\ (monitor.setup # visible.launch \/ ~visible.windows)]
  /\ UNCHANGED <<state, standalone, op, task, sends, serverVars, browserVars,
                 inputVars, clientVars>>

\* op again, and the same setup browser.
StillSetup == op = "free" /\ ~stop /\ setup = monitor.setup

\* Its windows are closed: the standalone server ends, another resumes.
Act ==
  /\ monitor.at = "act"
  /\ monitor' = Idle
  /\ IF StillSetup /\ monitor.closed /\ (standalone \/ state.revision < MaxRevision)
       THEN \/ /\ standalone
               /\ done' = TRUE
               /\ visible' \in {visible, [visible EXCEPT !.process = "none"]}
               /\ UNCHANGED <<state, sends, op, task, suspended>>
            \/ /\ ~standalone
               /\ SetState("resuming", FALSE, current)
               /\ op' = "monitor" /\ task' = "resume"
               /\ UNCHANGED <<done, visible>>
       ELSE UNCHANGED <<state, sends, op, task, suspended, done, visible>>
  /\ UNCHANGED <<standalone, stop, shutdown, current, stream, setup,
                 inputVars, clientVars>>

MonitorStops ==
  /\ stop /\ monitor.at = "idle"
  /\ monitor' = [at |-> "stopped"]
  /\ UNCHANGED <<state, standalone, op, task, sends, serverVars, browserVars,
                 inputVars, clientVars>>

----------------------------------------------------------------------------
(* Shutdown *)

Shutdown ==
  /\ shutdown = "none"
  /\ stop' = TRUE
  /\ shutdown' = "lock"
  /\ UNCHANGED <<state, standalone, op, task, sends, done, monitor, browserVars,
                 inputVars, clientVars>>

\* With op: the setup browser is closed, by force if need be (and that may fail),
\* and the controller shut down.
ShutdownBrowsers ==
  /\ shutdown = "lock" /\ op = "free"
  /\ visible' \in {visible, [visible EXCEPT !.process = "none"]}
  /\ current' = FALSE
  /\ stream' = IF current THEN "none" ELSE stream
  /\ suspended' = (suspended \/ current)
  /\ shutdown' = "wait"
  /\ UNCHANGED <<state, standalone, op, task, sends, stop, done, monitor, setup,
                 inputVars, clientVars>>

ShutdownReturns ==
  /\ shutdown = "wait" /\ monitor.at = "stopped"
  /\ shutdown' = "returned"
  /\ UNCHANGED <<state, standalone, op, task, sends, stop, done, monitor,
                 browserVars, inputVars, clientVars>>

----------------------------------------------------------------------------
(* Chromium and its user *)

StreamLost ==
  /\ stream = "up"
  /\ stream' = "lost"
  /\ UNCHANGED <<state, standalone, op, task, sends, serverVars, monitor, current,
                 suspended, setup, visible, inputVars, clientVars>>

WindowsClosed ==
  /\ visible.windows
  /\ visible' = [visible EXCEPT !.windows = FALSE]
  /\ UNCHANGED <<state, standalone, op, task, sends, serverVars, monitor, current,
                 suspended, stream, setup, inputVars, clientVars>>

----------------------------------------------------------------------------
(* Page input: HandleMessage queues it while streaming; the controller runs it  *)
(* between beginInput and the release of inputMu *)

HandleMessage ==
  /\ current /\ Streaming /\ input = "none" /\ \E c \in Present : TRUE
  /\ input' = "queued"
  /\ UNCHANGED <<state, standalone, op, task, sends, serverVars, monitor,
                 browserVars, snapshot, clientVars>>

BeginInput ==
  /\ input = "queued"
  /\ input' = IF suspended THEN "none" ELSE "running"
  /\ UNCHANGED <<state, standalone, op, task, sends, serverVars, monitor,
                 browserVars, snapshot, clientVars>>

EndInput ==
  /\ input = "running"
  /\ input' = "none"
  /\ UNCHANGED <<state, standalone, op, task, sends, serverVars, monitor,
                 browserVars, snapshot, clientVars>>

----------------------------------------------------------------------------
(* Clients *)

managerVars == <<state, standalone, op, task, sends, serverVars, monitor, browserVars,
                 inputVars>>

ClientConnected(c) ==
  /\ clients[c] = "absent" /\ ~standalone
  /\ clients' = [clients EXCEPT ![c] = "plain"]
  /\ paused' = [paused EXCEPT ![c] = ~Streaming]
  /\ UNCHANGED <<managerVars, watch, core>>

ClientDisconnected(c) ==
  /\ c \in Present /\ watch[c] = Idle
  /\ clients' = [clients EXCEPT ![c] = "gone"]
  /\ UNCHANGED <<managerVars, watch, paused, core>>

\* browser-watch marks the client; a browser-resume that is refused (its revision is
\* stale, op is held, the server stops) has no effect; both then send the status ...
Watch(c) ==
  /\ c \in Present /\ watch[c] = Idle
  /\ clients' \in {clients, [clients EXCEPT ![c] = "aware"]}
  /\ watch' = [watch EXCEPT ![c] = [at |-> "status"]]
  /\ UNCHANGED <<managerVars, paused, core>>

\* ... which is read ...
ReadStatus(c) ==
  /\ watch[c].at = "status"
  /\ watch' = [watch EXCEPT ![c] = [at |-> "send", revision |-> state.revision]]
  /\ UNCHANGED <<managerVars, clients, paused, core>>

\* ... and sent.
SendStatus(c) ==
  /\ watch[c].at = "send"
  /\ watch' = [watch EXCEPT ![c] = Idle]
  /\ Show(c, watch[c].revision)
  /\ UNCHANGED <<managerVars, clients, paused>>

----------------------------------------------------------------------------

Request == RequestFocus \/ RequestOpen \/ RequestResume

Handoff ==
  \/ Send \/ FocusDone \/ TakeController \/ Drain \/ NothingOld \/ Stream \/ Finish
  \/ \E ok \in BOOLEAN : \/ Flush(ok) \/ CloseStream(ok) \/ CloseSetup(ok)
                         \/ CloseOld(ok) \/ StartStreaming(ok)
  \/ \E outcome \in {"ok", "retained", "failed"} : StartSetup(outcome)

Input == HandleMessage \/ BeginInput \/ EndInput

Client(c) ==
  \/ ClientConnected(c) \/ ClientDisconnected(c) \/ Watch(c)
  \/ ReadStatus(c) \/ SendStatus(c)

Next ==
  \/ Request \/ PrepareShutdown
  \/ Handoff
  \/ Tick \/ Act \/ MonitorStops \/ \E ok \in BOOLEAN : Poll(ok)
  \/ Shutdown \/ ShutdownBrowsers \/ ShutdownReturns
  \/ StreamLost \/ WindowsClosed
  \/ Input
  \/ \E c \in Clients : Client(c)

\* A handoff and a command in progress end (their waits have timeouts), the monitor
\* ticks, and polls do not always fail.
Fairness ==
  /\ WF_vars(Handoff) /\ WF_vars(EndInput)
  /\ WF_vars(Tick) /\ SF_vars(Poll(TRUE))
  /\ WF_vars(\E ok \in BOOLEAN : Poll(ok)) /\ WF_vars(Act) /\ WF_vars(MonitorStops)
  /\ WF_vars(ShutdownBrowsers) /\ WF_vars(ShutdownReturns)

Spec == Init /\ [][Next]_vars
FairSpec == Spec /\ Fairness

----------------------------------------------------------------------------
(* Properties *)

\* The profile never has two browsers, whatever fails to close, start or poll in a
\* handoff and whoever resumes (openSetup, resume, startSetup's retained browser).
AtMostOneBrowser == ~(Alive(stream) /\ Alive(visible.process))

\* No browser is lost track of: the manager, or the handoff in progress, still holds
\* what can close it (openSetup puts the controller back, startSetup returns the
\* browser it could not close).
BrowsersAreOwned ==
  /\ Alive(stream) => current \/ task \in {"drain", "flush", "close"}
  /\ Alive(visible.process) => setup = visible.launch

\* Through every handoff the profile has at most one browser, and it is one that the
\* manager can still close: neither a failed step nor the monitor's retry forgets it
\* (openSetup, startSetup, resume, monitor).
BrowsersAccountedFor == AtMostOneBrowser /\ BrowsersAreOwned

\* No command reaches the page once its session is recorded for the setup browser:
\* openSetup drains inputMu after the suspended flag is up, and a failed close
\* leaves it up (beginInput).
NoInputAfterSnapshot == input = "running" => ~snapshot

\* When nothing is in flight every client that watches shows the manager's revision,
\* although a status read before a handoff may be sent after its event
\* (HandleMessage's browser-watch, setState, the core's revision check).
ClientsConverge ==
  sends = {} => \A c \in Clients :
    clients[c] = "aware" /\ watch[c] = Idle => core[c] = state.revision

\* Manager.Shutdown returns, whatever handoff or poll it meets.
ShutdownCompletes == shutdown = "lock" ~> shutdown = "returned"

----------------------------------------------------------------------------
(* What the three invariants rest on: the inductive invariant of *)
(* BrowserManagerProofs *)

Tasks == {"none", "open", "drain", "flush", "close", "launch", "resume", "stream",
          "streaming", "end"}
Modes == {"streaming", "opening", "setup", "resuming", "failed"}
States == [mode : Modes, revision : Nat, canForce : BOOLEAN]
SetupBrowser == [launch : Nat, process : {"none", "up"}, windows : BOOLEAN]
Statuses == {Idle} \cup [at : {"status"}] \cup [at : {"send"}, revision : Nat]

ManagerTypeOK ==
  /\ state \in States
  /\ op \in {"free", "focus", "request", "monitor"} /\ task \in Tasks
  /\ sends \subseteq [client : Clients, aware : BOOLEAN]
  /\ stop \in BOOLEAN /\ shutdown \in {"none", "lock", "wait", "returned"}
  /\ current \in BOOLEAN /\ suspended \in BOOLEAN
  /\ stream \in {"none", "up", "lost"} /\ setup \in Nat
  /\ visible \in SetupBrowser
  /\ input \in {"none", "queued", "running"} /\ snapshot \in BOOLEAN
  /\ clients \in [Clients -> {"absent", "plain", "aware", "gone"}]
  /\ watch \in [Clients -> Statuses]
  /\ core \in [Clients -> Nat]

\* A handoff is in progress only under op, and none once the browsers are shut down.
HandoffLocked ==
  /\ op \in {"free", "focus"} => task = "none"
  /\ shutdown # "none" => stop
  /\ task # "none" => shutdown \in {"none", "lock"}

\* What the steps of a handoff know of the two browsers when they come to them.
HandoffKnows ==
  /\ Streaming => setup = 0 /\ (current \/ shutdown \in {"wait", "returned"})
  /\ task \in {"open", "drain", "flush", "close", "launch"} => state.mode = "opening"
  /\ task \in {"open", "drain", "flush", "close", "launch", "stream", "streaming"} => setup = 0
  /\ task \in {"launch", "stream"} => stream = "none"
  /\ task = "resume" => ~Streaming
  /\ task = "streaming" => current /\ ~snapshot
  /\ Alive(visible.process) => setup # 0

\* The flag that stops page input is up from the start of a handoff, and stays up
\* for as long as a recorded session stands.
InputStopped ==
  /\ task \in {"open", "drain", "flush"} => suspended
  /\ task = "flush" => input # "running"
  /\ snapshot => suspended /\ input # "running"

\* What a watching client shows is the current revision, or the event or a status
\* with that revision is on its way to it.
Due(c) ==
  /\ core[c] <= state.revision
  /\ watch[c].at = "send" => watch[c].revision <= state.revision
  /\ clients[c] = "aware" =>
       \/ core[c] = state.revision
       \/ [client |-> c, aware |-> TRUE] \in sends
       \/ watch[c].at = "status"
       \/ watch[c].at = "send" /\ watch[c].revision = state.revision
ShownOrComing == \A c \in Clients : Due(c)

ManagerInv ==
  /\ ManagerTypeOK /\ HandoffLocked /\ HandoffKnows /\ BrowsersAccountedFor
  /\ InputStopped /\ ShownOrComing
=============================================================================
