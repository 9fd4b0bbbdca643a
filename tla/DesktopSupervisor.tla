-------------------------- MODULE DesktopSupervisor --------------------------
(***************************************************************************)
(* The desktop application that keeps a server running: it takes over or   *)
(* starts one, restarts it with a delay when it ends, watches its health,  *)
(* stops it for a restart, an update or its own end, and leaves alone a    *)
(* browser setup that nobody agreed to close.                              *)
(*   src/backend/cmd/surf/desktop.go, browser_desktop.go, instance.go      *)
(*                                                                         *)
(* startBackend and stopBackend run on several goroutines: after the tray  *)
(* is ready, from restart timers, from a restart (or new settings), from   *)
(* an update and from onExit.  Each is a member of Flows with a place of   *)
(* its own.  restartAttempt only chooses a delay and is left out.          *)
(***************************************************************************)
EXTENDS ServerLife

CONSTANTS
    Timers,      \* the restart timers and their callbacks that exist at one time
    NoTimer,     \* a.restartTimer is nil
    MaxRevision, \* bound on the revision of the browser mode
    MaxRequests  \* bound on the restarts and updates that users ask for

ASSUME DeskAssumption ==
    /\ NoTimer \notin Timers
    /\ {"ready", "manage", "exit"} \cap Timers = {}
    /\ MaxRevision \in Nat \ {0} /\ MaxRequests \in Nat

VARIABLES
    desk,     \* the desktop process: "off", "up", "closing" (a.closing) or "gone"
    cmd,      \* a.cmd: the child that the desktop has
    timer,    \* a.restartTimer
    at,       \* at[f]: where flow f stands
    held,     \* held[f]: the child, or the taken over server, that f is stopping
    seen,     \* seen[f]: whose descriptor f loaded, when there was no child to stop
    job,      \* what the "manage" flow is for: "restart" or "update"
    agreed,   \* the browser revision that its user confirmed
    reading,  \* the revision that it read before it asks
    watch,    \* watch[n]: the goroutine that waits for child n, "plan": about to restart
    healthy,  \* monitorHealth has heard from a healthy server and has yet to act on it
    mode,     \* the browser of the serving server: see Modes
    revision, \* the revision of its mode
    stopping, \* its PrepareShutdown has closed m.stop
    same,     \* the server whose mode the "manage" flow read still runs (history)
    requests  \* how many restarts and updates users have asked for (bounded)

browser == <<mode, revision, stopping, same>>
deskVars == <<desk, cmd, timer, at, held, seen, job, agreed, reading, watch, healthy, browser, requests>>
vars == <<pc, kind, cancelled, lock, daemon, deskVars>>

NoRevision == 0
Flows == {"ready", "manage", "exit"} \cup Timers

DeskInit ==
    /\ LifeInit
    /\ desk = "off" /\ cmd = NoServer /\ timer = NoTimer
    /\ at = [f \in Flows |-> "idle"]
    /\ held = [f \in Flows |-> NoServer]
    /\ seen = [f \in Flows |-> NoServer]
    /\ job = "restart" /\ agreed = NoRevision /\ reading = NoRevision
    /\ watch = [n \in Servers |-> "idle"]
    /\ healthy = FALSE
    /\ mode = "streaming" /\ revision = 2 /\ stopping = FALSE /\ same = FALSE
    /\ requests = 0

\* "handoff": opening, or resuming, with m.op held; "setup": setup, or failed, with m.op
\* free; "undone": streaming again after a setup that did not open, with m.op held.
Modes == {"streaming", "handoff", "setup", "undone"}
Away == mode \in {"handoff", "setup"}

\* Some server answers on the control endpoint that daemon.json names.
Answers == daemon # NoServer /\ Serving(daemon)
InSetup == Answers /\ (Away \/ kind[daemon] = "standalone")
\* A live standalone setup owns the profile.
Standalone == daemon # NoServer /\ kind[daemon] = "standalone" /\ Running(daemon)

Enter(f, place) == at' = [at EXCEPT ![f] = place]
\* The browser mode goes with the server that has it; the next one that publishes has
\* gone from starting, revision 1, to streaming, revision 2.
Lost == \E n \in Servers : pc[n] = "run" /\ pc'[n] # "run"
ModeFollows ==
    IF Lost THEN mode' = "streaming" /\ revision' = 2 /\ stopping' = FALSE /\ same' = FALSE
            ELSE UNCHANGED browser

Kill(n) == IF Running(n) THEN Die(n) ELSE UNCHANGED lifeVars

\* Timer.Stop recalls a timer that has not fired; one that has finds itself replaced.
Recalled == IF timer # NoTimer /\ at[timer] = "armed" THEN [at EXCEPT ![timer] = "idle"] ELSE at

\* scheduleBackendRestart, of a caller after which the flows stand as in "after".
PlanRestart(after) ==
    IF desk # "up" \/ cmd # NoServer \/ timer # NoTimer
    THEN timer' = timer /\ at' = after
    ELSE \E t \in Timers : /\ after[t] = "idle"
                           /\ timer' = t
                           /\ at' = [after EXCEPT ![t] = "armed"]

----------------------------------------------------------------------------
\* takeControlOfExistingBackend

\* It loads the descriptor and asks its server for its mode.
TakeControl ==
    /\ desk # "gone" /\ at["ready"] = "take"
    /\ Enter("ready", IF daemon = NoServer \/ Standalone \/ InSetup THEN "start" ELSE "probe")
    /\ held' = [held EXCEPT !["ready"] = IF at'["ready"] = "start" THEN NoServer ELSE daemon]
    /\ UNCHANGED <<lifeVars, desk, cmd, timer, seen, job, agreed, reading, watch, healthy, browser, requests>>

\* A server that answers is told to shut down, whatever its mode is by now; one that
\* answers with an error is left alone, and so is a silent process of another executable.
TakeProbe ==
    /\ desk # "gone" /\ at["ready"] = "probe"
    /\ \/ /\ Answers
          /\ \E asked \in {{}, {daemon}} : Cancel(asked)
          /\ Enter("ready", "takewait") /\ UNCHANGED <<pc, kind, lock, daemon>>
       \/ ~Answers /\ Enter("ready", "takeload") /\ Kill(held["ready"])
       \/ /\ Answers \/ Running(held["ready"])
          /\ Enter("ready", "start") /\ UNCHANGED lifeVars
    /\ UNCHANGED <<desk, cmd, timer, held, seen, job, agreed, reading, watch, healthy, requests>>
    /\ ModeFollows

\* The probe fails at last, or five seconds pass and the server is killed.
TakeWait ==
    /\ desk # "gone" /\ at["ready"] = "takewait"
    /\ \/ ~Answers /\ UNCHANGED lifeVars
       \/ Kill(held["ready"])
    /\ Enter("ready", "takeload")
    /\ UNCHANGED <<desk, cmd, timer, held, seen, job, agreed, reading, watch, healthy, requests>>
    /\ ModeFollows

TakeRemove ==
    /\ desk # "gone"
    /\ \/ /\ at["ready"] = "takeload"
          /\ Enter("ready", IF daemon = held["ready"] THEN "takeunlink" ELSE "start")
          /\ UNCHANGED daemon
       \/ at["ready"] = "takeunlink" /\ daemon' = NoServer /\ Enter("ready", "start")
    /\ UNCHANGED <<pc, kind, cancelled, lock, desk, cmd, timer, held, seen, job, agreed, reading,
                   watch, healthy, browser, requests>>

----------------------------------------------------------------------------
\* startBackend

StartCheck(f) ==
    /\ desk # "gone" /\ at[f] = "start"
    /\ Enter(f, IF Standalone \/ InSetup THEN "idle" ELSE "launch")
    /\ held' = [held EXCEPT ![f] = NoServer]
    /\ UNCHANGED <<lifeVars, desk, cmd, timer, seen, job, agreed, reading, watch, healthy, browser, requests>>

StartChild(f, n) ==
    /\ desk = "up" /\ at[f] = "launch" /\ cmd = NoServer
    /\ watch[n] = "idle" /\ \A g \in Flows : held[g] # n /\ seen[g] # n
    /\ Spawn(n, "child")
    /\ timer' = NoTimer
    /\ at' = [Recalled EXCEPT ![f] = "idle"]
    /\ cmd' = n
    /\ watch' = [watch EXCEPT ![n] = "waiting"]
    /\ UNCHANGED <<desk, held, seen, job, agreed, reading, healthy, browser, requests>>

\* Closing, or another flow was first; or process.Start fails, and then a restart
\* is planned once the lock is free.
StartNot(f) ==
    /\ desk # "gone" /\ at[f] = "launch"
    /\ IF desk # "up" \/ cmd # NoServer
       THEN Enter(f, "idle") /\ timer' = timer
       ELSE timer' = NoTimer /\ at' = [Recalled EXCEPT ![f] = "plan"]
    /\ UNCHANGED <<lifeVars, desk, cmd, held, seen, job, agreed, reading, watch, healthy, browser, requests>>

PlanAfter(f) ==
    /\ desk # "gone" /\ at[f] = "plan"
    /\ PlanRestart([at EXCEPT ![f] = "idle"])
    /\ UNCHANGED <<lifeVars, desk, cmd, held, seen, job, agreed, reading, watch, healthy, browser, requests>>

TimerFires(t) ==
    /\ desk # "gone" /\ at[t] = "armed"
    /\ Enter(t, "fired")
    /\ UNCHANGED <<lifeVars, desk, cmd, timer, held, seen, job, agreed, reading, watch, healthy, browser, requests>>

TimerRuns(t) ==
    /\ desk # "gone" /\ at[t] = "fired"
    /\ IF desk = "up" /\ timer = t THEN timer' = NoTimer /\ Enter(t, "start")
                                   ELSE timer' = timer /\ Enter(t, "idle")
    /\ UNCHANGED <<lifeVars, desk, cmd, held, seen, job, agreed, reading, watch, healthy, browser, requests>>

\* Bug: a child that ends is not missed.
ChildExitsUnnoticed(n) ==
    /\ desk # "gone" /\ watch[n] = "waiting" /\ ~Running(n)
    /\ watch' = [watch EXCEPT ![n] = "idle"]
    /\ UNCHANGED <<lifeVars, desk, cmd, timer, at, held, seen, job, agreed, reading, healthy, browser, requests>>

\* The goroutine of startBackend: a child has ended.  Only one that was still the
\* desktop's own is replaced.
ChildExits(n) ==
    /\ desk # "gone" /\ watch[n] = "waiting" /\ ~Running(n)
    /\ watch' = [watch EXCEPT ![n] = IF cmd = n /\ desk = "up" THEN "plan" ELSE "idle"]
    /\ cmd' = IF cmd = n THEN NoServer ELSE cmd
    /\ UNCHANGED <<lifeVars, desk, timer, at, held, seen, job, agreed, reading, healthy, browser, requests>>

ChildReplaced(n) ==
    /\ desk # "gone" /\ watch[n] = "plan"
    /\ watch' = [watch EXCEPT ![n] = "idle"]
    /\ PlanRestart(at)
    /\ UNCHANGED <<lifeVars, desk, cmd, held, seen, job, agreed, reading, healthy, browser, requests>>

\* monitorHealth: the request is answered.
MonitorHears ==
    /\ desk = "up" /\ ~healthy /\ Answers
    /\ healthy' = TRUE
    /\ UNCHANGED <<lifeVars, desk, cmd, timer, at, held, seen, job, agreed, reading, watch, browser, requests>>

\* A healthy server that is not its own calls off a restart, though it may have ended
\* meanwhile; a failed request and no child ask for one.  A request to a running server
\* may fail too, so a failure that is old by now is no different from one that is not.
MonitorTick ==
    /\ desk = "up"
    /\ healthy' = FALSE
    /\ IF ~healthy THEN PlanRestart(at)
       ELSE IF cmd = NoServer THEN timer' = NoTimer /\ at' = Recalled ELSE UNCHANGED <<timer, at>>
    /\ UNCHANGED <<lifeVars, desk, cmd, held, seen, job, agreed, reading, watch, browser, requests>>

----------------------------------------------------------------------------
\* stopBackend

\* What the caller of stopBackend does next.  The end of onExit is the end of the
\* desktop process, whose pipes to its children then close.
Return(f, ok, places) ==
    /\ held' = [held EXCEPT ![f] = NoServer]
    /\ seen' = [seen EXCEPT ![f] = NoServer]
    /\ IF f = "exit" THEN UNCHANGED <<job, agreed, reading>> /\ at' = [places EXCEPT ![f] = "exited"]
       ELSE /\ job' = "restart" /\ agreed' = NoRevision /\ reading' = NoRevision
            /\ at' = [places EXCEPT ![f] = IF ~ok THEN "idle" ELSE IF job = "update" THEN "replace" ELSE "start"]

\* Only a restart and an update come with a confirmation.
Confirms(f) == f # "exit"

Stop(f) ==
    /\ desk # "gone" /\ at[f] = "stop"
    /\ timer' = NoTimer
    /\ IF cmd = NoServer /\ daemon = NoServer THEN Return(f, TRUE, Recalled)
       ELSE /\ held' = [held EXCEPT ![f] = cmd]
            /\ seen' = [seen EXCEPT ![f] = IF cmd = NoServer THEN daemon ELSE NoServer]
            /\ at' = [Recalled EXCEPT ![f] = IF Confirms(f) THEN "confirm" ELSE "ask"]
            /\ UNCHANGED <<job, agreed, reading>>
    /\ UNCHANGED <<lifeVars, desk, cmd, watch, healthy, browser, requests>>

Confirm(f) ==
    /\ desk # "gone" /\ at[f] = "confirm"
    /\ IF ~Answers \/ (InSetup /\ (kind[daemon] = "standalone" \/ agreed # revision))
       THEN Return(f, FALSE, at) /\ same' = FALSE
       ELSE /\ reading' = revision /\ same' = TRUE
            /\ Enter(f, "ask")
            /\ UNCHANGED <<held, seen, job, agreed>>
    /\ UNCHANGED <<lifeVars, desk, cmd, timer, watch, healthy, mode, revision, stopping, requests>>

\* Bug: the server takes whatever revision the dashboard read earlier.
PreparedUnchecked(f) == TRUE

\* PrepareShutdown on the server needs m.op and checks the revision once more.
Prepared(f) ==
    Confirms(f) => /\ mode \in {"streaming", "setup"} /\ kind[daemon] # "standalone"
                   /\ revision = reading

\* POST /admin/shutdown: the server may shut down although its answer is lost.
Outcomes(f) ==
    {[graceful |-> FALSE, asked |-> {}]} \cup
    IF Answers /\ Prepared(f) THEN [graceful : BOOLEAN, asked : {{daemon}}] ELSE {}

Refused(f, o) == ~o.graceful /\ (Confirms(f) \/ held[f] = NoServer)

\* Closing the pipe is the signal to a child that did not answer.
Cut(f, o) == IF o.graceful \/ Confirms(f) THEN {} ELSE {held[f]}

\* The confirmation and the revision go with the request that they were for.
Used(f) ==
    IF Confirms(f) THEN agreed' = NoRevision /\ reading' = NoRevision ELSE UNCHANGED <<agreed, reading>>

\* Bug: the child is let go before it is known that it will be stopped.
AskLetsGo(f) ==
    /\ desk # "gone" /\ at[f] = "ask"
    /\ \E o \in Outcomes(f) :
         /\ Cancel(o.asked \cup Cut(f, o))
         /\ stopping' = (stopping \/ (Confirms(f) /\ o.asked # {}))
         /\ IF Refused(f, o) THEN Return(f, FALSE, at)
            ELSE /\ Enter(f, IF held[f] = NoServer THEN "watch" ELSE IF desk = "up" THEN "letgo" ELSE "wait")
                 /\ UNCHANGED <<held, seen, job>> /\ Used(f)
    /\ cmd' = IF cmd = held[f] THEN NoServer ELSE cmd
    /\ same' = (same /\ ~Confirms(f))
    /\ UNCHANGED <<pc, kind, lock, daemon, desk, timer, watch, healthy, mode, revision, requests>>

\* While the desktop is up it lets go of the child in a later step: a child that exits
\* in between is replaced.  Once it is closing none is, and the two are one step here.
Ask(f) ==
    /\ desk # "gone" /\ at[f] = "ask"
    /\ \E o \in Outcomes(f) :
         /\ Cancel(o.asked \cup Cut(f, o))
         /\ stopping' = (stopping \/ (Confirms(f) /\ o.asked # {}))
         /\ IF Refused(f, o) THEN Return(f, FALSE, at) /\ UNCHANGED cmd
            ELSE /\ Enter(f, IF held[f] = NoServer THEN "watch" ELSE IF desk = "up" THEN "letgo" ELSE "wait")
                 /\ cmd' = IF at'[f] = "wait" /\ cmd = held[f] THEN NoServer ELSE cmd
                 /\ UNCHANGED <<held, seen, job>> /\ Used(f)
    /\ same' = (same /\ ~Confirms(f))
    /\ UNCHANGED <<pc, kind, lock, daemon, desk, timer, watch, healthy, mode, revision, requests>>

LetGo(f) ==
    /\ desk # "gone" /\ at[f] = "letgo"
    /\ cmd' = IF cmd = held[f] THEN NoServer ELSE cmd
    /\ Enter(f, "wait")
    /\ UNCHANGED <<lifeVars, desk, timer, held, seen, job, agreed, reading, watch, healthy, browser, requests>>

\* An owner that is not a child is waited for by its descriptor, for 15 seconds.
WatchOwner(f) ==
    /\ desk # "gone" /\ at[f] = "watch"
    /\ \/ daemon # seen[f] /\ Return(f, TRUE, at)
       \/ Return(f, FALSE, at)
    /\ UNCHANGED <<lifeVars, desk, cmd, timer, watch, healthy, browser, requests>>

\* A child is waited for, and killed after 15 seconds.
WaitChild(f) ==
    /\ desk # "gone" /\ at[f] = "wait"
    /\ \/ watch[held[f]] # "waiting" /\ Return(f, TRUE, at) /\ UNCHANGED lifeVars
       \/ Running(held[f]) /\ Die(held[f]) /\ UNCHANGED <<at, held, seen, job, agreed, reading>>
    /\ UNCHANGED <<desk, cmd, timer, watch, healthy, requests>>
    /\ ModeFollows

----------------------------------------------------------------------------
\* Requests of the dashboard and the tray

\* confirmBrowserInterruption
Allowed(c) == InSetup => kind[daemon] # "standalone" /\ c = revision

\* The page sends the revision of the setup that its user agreed to close.
Sent == IF InSetup THEN revision ELSE NoRevision

\* Restart, new settings, or an update, whose download comes first.
Request(j, c) ==
    /\ desk = "up" /\ at["ready"] = "idle" /\ at["manage"] = "idle" /\ Allowed(c)
    /\ requests < MaxRequests /\ requests' = requests + 1
    /\ job' = j /\ agreed' = c
    /\ Enter("manage", IF j = "update" THEN "download" ELSE "stop")
    /\ UNCHANGED <<lifeVars, desk, cmd, timer, held, seen, reading, watch, healthy, browser>>

Download ==
    /\ desk # "gone" /\ at["manage"] = "download"
    /\ \/ Enter("manage", "stop") /\ UNCHANGED <<job, agreed>>
       \/ Enter("manage", "idle") /\ job' = "restart" /\ agreed' = NoRevision
    /\ UNCHANGED <<lifeVars, desk, cmd, timer, held, seen, reading, watch, healthy, browser, requests>>

\* ReplaceExecutable and the start of what it put in place: done, undone, or done and
\* not started.
ReplaceOutcomes == {"quit", "start", "idle"}

\* The executable is replaced and the new one started; a failure starts the server
\* again, except when only the start of a new AppImage failed.
Replace ==
    /\ desk # "gone" /\ at["manage"] = "replace"
    /\ \E result \in ReplaceOutcomes : Enter("manage", result)
    /\ UNCHANGED <<lifeVars, desk, cmd, timer, held, seen, job, agreed, reading, watch, healthy, browser, requests>>

\* A timer that was stopped, and starts that will find the desktop closing and return.
Futile == {"armed", "fired", "start", "launch", "plan"}

\* Tray.Quit, from the menu, /api/quit or an update, and onExit.
Quit ==
    /\ desk = "up"
    /\ desk' = "closing" /\ healthy' = FALSE
    /\ timer' = NoTimer
    /\ at' = [f \in Flows |-> IF f = "exit" THEN "stop" ELSE IF at[f] \in Futile THEN "idle" ELSE at[f]]
    /\ watch' = [n \in Servers |-> IF watch[n] = "plan" THEN "idle" ELSE watch[n]]
    /\ UNCHANGED <<lifeVars, cmd, held, seen, job, agreed, reading, browser, requests>>

\* The process ends, after onExit or in a crash: the pipe of every child closes.
DesktopEnds ==
    /\ desk \in {"up", "closing"}
    /\ desk' = "gone"
    /\ cmd' = NoServer /\ timer' = NoTimer
    /\ at' = [f \in Flows |-> "idle"]
    /\ held' = [f \in Flows |-> NoServer] /\ seen' = [f \in Flows |-> NoServer]
    /\ job' = "restart" /\ agreed' = NoRevision /\ reading' = NoRevision
    /\ watch' = [n \in Servers |-> "idle"] /\ healthy' = FALSE /\ same' = FALSE
    /\ Cancel({n \in Servers : kind[n] = "child"})
    /\ UNCHANGED <<pc, kind, lock, daemon, mode, revision, stopping, requests>>

\* runTray, in a home where servers may be running, or ending, already.
DesktopStarts ==
    /\ desk = "off"
    /\ desk' = "up"
    /\ Enter("ready", "take")
    /\ UNCHANGED <<lifeVars, cmd, timer, held, seen, job, agreed, reading, watch, healthy, browser, requests>>

----------------------------------------------------------------------------
\* Servers

\* "surf serve" or "surf browser" in a terminal.
ForeignServer(n, k) ==
    /\ k # "child" /\ desk = "off" /\ \A m \in Servers : ~Running(m)
    /\ Spawn(n, k)
    /\ UNCHANGED deskVars

\* The browser manager: Request, or the monitor that finds the setup's windows closed,
\* begins a handoff while m.op is free and m.stop open; every way it can end is one
\* setState, or two when a setup that did not open is rolled back.  Nobody asks for the
\* mode once the desktop is gone.
NextModes ==
    CASE mode \in {"streaming", "setup"} -> IF stopping THEN {} ELSE {"handoff"}
      [] mode = "handoff" -> {"setup", "streaming", "undone"}
      [] mode = "undone" -> {"streaming"}

ChangeMode(n) ==
    /\ desk # "gone" /\ pc[n] = "run" /\ kind[n] # "standalone" /\ revision < MaxRevision
    /\ mode' \in NextModes
    /\ revision' = revision + 1
    /\ UNCHANGED <<lifeVars, desk, cmd, timer, at, held, seen, job, agreed, reading, watch, healthy, stopping, same, requests>>

\* A server takes a step of its own, loses its browser, or dies.
Serve(n) == /\ ServeStep(n)
            /\ ModeFollows
            /\ UNCHANGED <<desk, cmd, timer, at, held, seen, job, agreed, reading, watch, healthy, requests>>

Lose(n) == /\ Leave(n) \/ Die(n)
           /\ ModeFollows
           /\ UNCHANGED <<desk, cmd, timer, at, held, seen, job, agreed, reading, watch, healthy, requests>>

Starts(f) == StartCheck(f) \/ (\E n \in Servers : StartChild(f, n)) \/ StartNot(f) \/ PlanAfter(f)
Stops(f) == Stop(f) \/ Confirm(f) \/ Ask(f) \/ LetGo(f) \/ WatchOwner(f) \/ WaitChild(f)

Flow(f) ==
    \/ f = "ready" /\ (TakeControl \/ TakeProbe \/ TakeWait \/ TakeRemove \/ Starts(f))
    \/ f = "manage" /\ (Download \/ Replace \/ Starts(f) \/ Stops(f) \/ (at[f] = "quit" /\ Quit))
    \/ f = "exit" /\ (Stops(f) \/ (at[f] = "exited" /\ DesktopEnds))
    \/ f \in Timers /\ (TimerFires(f) \/ TimerRuns(f) \/ Starts(f))

Desktop ==
    \/ \E f \in Flows : Flow(f)
    \/ \E n \in Servers : ChildExits(n) \/ ChildReplaced(n)
    \/ MonitorHears \/ MonitorTick

DeskNext ==
    \/ Desktop
    \/ \E j \in {"restart", "update"}, c \in {NoRevision, Sent} : Request(j, c)
    \/ Quit \/ DesktopEnds \/ DesktopStarts
    \/ \E n \in Servers :
        \/ \E k \in Kinds : ForeignServer(n, k)
        \/ ChangeMode(n)
        \/ Serve(n) \/ Lose(n)

\* Goroutines run, timers fire and the monitor ticks.  A start that is tried again
\* and again succeeds at some time, and a goroutine gets the mutex at some time.
DeskFairness ==
    /\ \A f \in Flows : WF_vars(Flow(f))
    /\ SF_vars(\E f \in Flows, n \in Servers : StartChild(f, n))
    /\ SF_vars(\E n \in Servers : ChildExits(n) \/ ChildReplaced(n))
    /\ WF_vars(MonitorHears \/ MonitorTick)
    /\ \A n \in Servers : WF_vars(Serve(n))

DeskSpec == DeskInit /\ [][DeskNext]_vars /\ DeskFairness

----------------------------------------------------------------------------
\* A child that the desktop started is its current one, or some flow waits for its
\* end: no stop that is refused, fails or is overtaken loses sight of a running
\* server (desktop.go:511, 527).
ChildrenHeld ==
    \A n \in Servers : watch[n] = "waiting" /\ Running(n) =>
        cmd = n \/ \E f \in Flows : at[f] = "wait" /\ held[f] = n

\* A restart or an update ends a browser setup only at the revision that the user
\* confirmed, although handoffs, failed and rolled back ones too, may come between the
\* reading of the mode and the request (desktop.go:484, mode.go:74).  This is a promise
\* about one server: the successor of the one that was read counts from 1 again.
SetupNeedsConsent ==
    [][\A n \in Servers :
         at["manage"] = "ask" /\ at'["manage"] # "ask" /\ Away /\ pc[n] = "run" /\ cancelled'[n] /\ ~cancelled[n]
           => desk' = "gone" \/ ~same \/ agreed = revision]_vars

\* While the desktop is up it does not stay without a server, whatever its own
\* restarts, updates and the exits of children do to each other (desktop.go:639);
\* its exit ends, and "Closing the app closes the backend" (backend.md:163), also
\* when the app crashed.
Supervised ==
    (desk # "off") ~>
        \/ desk = "up" /\ \E n \in Servers : Running(n)
        \/ desk = "gone" /\ \A n \in Servers : kind[n] = "child" => ~Running(n)

----------------------------------------------------------------------------
(* The inductive invariant *)

Places == {"idle", "take", "probe", "takewait", "takeload", "takeunlink", "start", "launch", "plan",
           "armed", "fired", "stop", "confirm", "ask", "letgo", "watch", "wait", "download",
           "replace", "quit", "exited"}

DeskTypeOK ==
    /\ desk \in {"off", "up", "closing", "gone"}
    /\ cmd \in Servers \cup {NoServer}
    /\ timer \in Timers \cup {NoTimer}
    /\ at \in [Flows -> Places]
    /\ held \in [Flows -> Servers \cup {NoServer}]
    /\ watch \in [Servers -> {"idle", "waiting", "plan"}]
    /\ mode \in Modes /\ revision \in Nat

\* Only a restart, an update and the end of the desktop wait for a child, and they
\* know which one, as does who takes over; the end of the desktop begins once and asks nobody.
WaitsForChild ==
    /\ \A f \in Flows : at[f] \in {"letgo", "wait"} => f \in {"manage", "exit"} /\ held[f] \in Servers
    /\ at["ready"] \in {"probe", "takewait"} => held["ready"] \in Servers
    /\ desk \in {"off", "up"} => at["exit"] = "idle"
    /\ at["exit"] # "confirm"
    /\ desk = "off" => \A n \in Servers : watch[n] = "idle"

\* What was read of a server that still runs is its mode, or an earlier one: a revision
\* that was read outside of setup is not the one of a later setup of this server.
ReadWithConsent ==
    at["manage"] = "ask" /\ same =>
        reading \in 0..revision /\ (reading = revision /\ Away => agreed = reading)

DeskInv == LifeInv /\ DeskTypeOK /\ WaitsForChild /\ ChildrenHeld /\ ReadWithConsent
=============================================================================
