-------------------------- MODULE BrowserConnection --------------------------
(***************************************************************************)
(* Chromium as Surf owns it: Launch, which must find the endpoint of the   *)
(* browser it started and of no other; the DevTools connection with its    *)
(* calls, timeouts and events; and CloseBrowser, which waits for the       *)
(* socket, the launcher and the browser to go and may be tried again.      *)
(*   src/backend/internal/cdp/cdp.go, lifetime.go,                         *)
(*   src/backend/internal/process/process.go, browser_owner_unix.go        *)
(*                                                                         *)
(* A caller makes one call, so it stands for the identifier of the call    *)
(* too: identifiers are never used again.                                  *)
(***************************************************************************)
EXTENDS Naturals, Sequences, FiniteSets

CONSTANTS
    Callers,     \* goroutines that call
    Handler,     \* the one among them that handles events
    MaxEvents    \* bound: events that Chromium reports

ASSUME ConnectionAssumption == Handler \in Callers /\ MaxEvents \in Nat

VARIABLES
    step,      \* where Launch, and later CloseBrowser, stand
    launcher,  \* the process that Start started: "running", "exited" with its result in
               \* Started.Done, or "reaped" when the result was received from there
    browser,   \* the browser that it starts: "starting", "listening", "leaving" or "gone"
    foreign,   \* another browser has the profile
    banner,    \* the endpoint was printed to stderr
    port,      \* whose endpoint DevToolsActivePort holds: "none", "left", "foreign" or "own"
    before,    \* readActivePortState at the start
    endpoint,  \* whose endpoint was dialled
    call,      \* call[c]: "idle", "write", "wait", or the outcome
    pending,   \* Client.pending
    chan,      \* chan[c]: the reply channel of c, of capacity 1
    requests,  \* calls that Chromium has received
    down,      \* what Chromium has sent: replies and events
    emitted,   \* how many events that were
    reader,    \* readLoop: "read", "deliver", "signal" or "closed"
    evQueue, evSignal,
    disp,      \* dispatchLoop: [pc, batch]
    handled    \* history: the events that the handler was given

launchVars == <<step, launcher, browser, foreign, banner, port, before, endpoint>>
callVars == <<call, pending, chan, requests>>
eventVars == <<evQueue, evSignal, disp, handled>>
connVars == <<launchVars, callVars, down, emitted, reader, eventVars>>

\* A browser of an earlier day may have left its endpoint behind.
ConnInit ==
    /\ step = "url" /\ launcher = "running" /\ browser = "starting"
    /\ foreign = FALSE /\ banner = FALSE
    /\ before \in {"none", "left"} /\ port = before
    /\ endpoint = "none"
    /\ call = [c \in Callers |-> "idle"] /\ pending = {} /\ chan = [c \in Callers |-> <<>>]
    /\ requests = {} /\ down = <<>> /\ emitted = 0
    /\ reader = "read" /\ evQueue = <<>> /\ evSignal = FALSE
    /\ disp = [pc |-> "select", batch |-> <<>>] /\ handled = <<>>

\* The connection to the dialled browser.
Connected == endpoint = "own" /\ browser = "listening"
Answering == endpoint = "foreign" \/ Connected
InUse == step \notin {"url", "dial", "track", "extensions", "failed"}
Closing == step \in {"socket", "process", "owned"}

----------------------------------------------------------------------------
\* External: the processes

\* The launcher may be a bootstrapper that is gone before its browser listens.  Start
\* sends its result to Done, once, and closes the channel.
LauncherExits ==
    /\ launcher = "running" /\ launcher' = "exited"
    /\ UNCHANGED <<step, browser, foreign, banner, port, before, endpoint,
                   callVars, down, emitted, reader, eventVars>>

\* Builds differ in where they publish the endpoint.
BrowserListens ==
    /\ browser = "starting"
    /\ browser' = "listening"
    /\ banner' \in BOOLEAN /\ port' = "own"
    /\ UNCHANGED <<step, launcher, foreign, before, endpoint,
                   callVars, down, emitted, reader, eventVars>>

\* A browser that is not Surf's takes the profile first; ours hands over and ends.
ForeignTakes ==
    /\ browser = "starting" /\ step = "url"
    /\ foreign' = TRUE /\ port' = "foreign" /\ browser' = "gone"
    /\ UNCHANGED <<step, launcher, banner, before, endpoint,
                   callVars, down, emitted, reader, eventVars>>

\* It crashes, or closes as it was asked to: first its sockets and then the process.
BrowserLeaves ==
    /\ \/ browser = "listening" /\ browser' = "leaving"
       \/ browser = "leaving" /\ browser' = "gone"
    /\ UNCHANGED <<step, launcher, foreign, banner, port, before, endpoint,
                   callVars, down, emitted, reader, eventVars>>

----------------------------------------------------------------------------
\* Launch

ClientIdle == UNCHANGED <<callVars, down, emitted, reader, eventVars>>

\* What TrackBrowser's handle tells of the browser: waitOwned and killOwned ask it.
OwnedGone == browser = "gone"

\* Kill before TrackBrowser refuses once the launcher has gone; after it, the group
\* of the browser is killed if the browser lives.
Kill(tracked) ==
    IF (tracked /\ ~OwnedGone) \/ (~tracked /\ launcher = "running")
    THEN browser' = "gone" /\ launcher' = IF launcher = "running" THEN "exited" ELSE launcher
    ELSE UNCHANGED <<browser, launcher>>

\* waitForURL: the banner, a port file that changed, or no endpoint in 30 seconds.
\* The banner's channel and the earlier state of the file go with its return.
WaitForURL ==
    /\ step = "url"
    /\ \/ /\ \/ banner /\ endpoint' = "own"
             \/ port # before /\ (port = "own" => browser = "listening") /\ endpoint' = port
          /\ step' = "dial" /\ UNCHANGED <<browser, launcher>>
       \/ step' = "failed" /\ Kill(FALSE) /\ UNCHANGED endpoint
    /\ banner' = FALSE /\ before' = "none"
    /\ UNCHANGED <<foreign, port>> /\ ClientIdle

\* waitForURL keeps the launcher's result for its own error only: the endpoint decides.
NoticeLauncher ==
    /\ step = "url" /\ launcher = "exited" /\ launcher' = "reaped"
    /\ UNCHANGED <<step, browser, foreign, banner, port, before, endpoint>> /\ ClientIdle

Dial ==
    /\ step = "dial"
    /\ \/ Answering /\ step' = "track" /\ UNCHANGED <<browser, launcher>>
       \/ step' = "failed" /\ Kill(FALSE)
    /\ UNCHANGED <<foreign, banner, port, before, endpoint>> /\ ClientIdle

\* trackBrowserOwner: the browser that answers must be of the launcher's group.
TrackBrowserOwner ==
    /\ step = "track"
    /\ \/ Connected /\ step' = "extensions" /\ UNCHANGED <<browser, launcher>>
       \/ step' = "failed" /\ Kill(FALSE)
    /\ UNCHANGED <<foreign, banner, port, before, endpoint>> /\ ClientIdle

EnsureUnpackedExtensions ==
    /\ step = "extensions"
    /\ \/ Answering /\ step' = "ready" /\ UNCHANGED <<browser, launcher>>
       \/ step' = "failed" /\ Kill(TRUE)
    /\ UNCHANGED <<foreign, banner, port, before, endpoint>> /\ ClientIdle

----------------------------------------------------------------------------
\* CloseBrowser

\* Without force the browser is only asked; a confirmed force kills its group.
CloseBrowser(force) ==
    /\ step = "ready"
    /\ step' = "socket"
    /\ IF force THEN Kill(TRUE) ELSE UNCHANGED <<browser, launcher>>
    /\ UNCHANGED <<foreign, banner, port, before, endpoint>> /\ ClientIdle

\* Bug: Done is not closed, so that the launcher's result can be received only once.
CloseWaitsForResult ==
    /\ \/ step = "socket" /\ reader = "closed" /\ step' = "process" /\ UNCHANGED launcher
       \/ step = "process" /\ launcher = "exited" /\ step' = "owned" /\ launcher' = "reaped"
       \/ step = "owned" /\ OwnedGone /\ step' = "over" /\ UNCHANGED launcher
    /\ UNCHANGED <<browser, foreign, banner, port, before, endpoint>> /\ ClientIdle

\* The socket, the launcher and then the browser itself must go.  Done is closed, and
\* lets pass whoever comes after the one that received the result.
CloseWaits ==
    /\ \/ step = "socket" /\ reader = "closed" /\ step' = "process" /\ UNCHANGED launcher
       \/ step = "process" /\ launcher # "running" /\ step' = "owned" /\ launcher' = "reaped"
       \/ step = "owned" /\ OwnedGone /\ step' = "over" /\ UNCHANGED launcher
    /\ UNCHANGED <<browser, foreign, banner, port, before, endpoint>> /\ ClientIdle

\* One deadline is for all three: after it the caller may try again.
CloseTimesOut ==
    /\ Closing /\ step' = "ready"
    /\ UNCHANGED <<launcher, browser, foreign, banner, port, before, endpoint>> /\ ClientIdle

----------------------------------------------------------------------------
\* CallTimeout

Becomes(c, out) == call' = [call EXCEPT ![c] = out]
CallsOnly == UNCHANGED <<launchVars, down, emitted, reader, eventVars>>

CallStarts(c) ==
    /\ InUse /\ c # Handler /\ call[c] = "idle"
    /\ Becomes(c, "write") /\ pending' = pending \cup {c}
    /\ UNCHANGED <<chan, requests>> /\ CallsOnly

\* Writing to a broken connection fails, or goes nowhere.
CallWrites(c) ==
    /\ call[c] = "write"
    /\ \/ Connected /\ requests' = requests \cup {c} /\ Becomes(c, "wait") /\ UNCHANGED pending
       \/ ~Connected /\ Becomes(c, "wait") /\ UNCHANGED <<requests, pending>>
       \/ ~Connected /\ pending' = pending \ {c} /\ Becomes(c, "failed") /\ UNCHANGED requests
    /\ UNCHANGED chan /\ CallsOnly

CallReturns(c) ==
    /\ call[c] = "wait"
    /\ \/ chan[c] # <<>> /\ Becomes(c, Head(chan[c])) /\ chan' = [chan EXCEPT ![c] = Tail(@)]
       \/ reader = "closed" /\ Becomes(c, "closed") /\ UNCHANGED chan
    /\ UNCHANGED <<pending, requests>> /\ CallsOnly

CallTimesOut(c) ==
    /\ call[c] = "wait"
    /\ Becomes(c, "timeout") /\ pending' = pending \ {c}
    /\ UNCHANGED <<chan, requests>> /\ CallsOnly

----------------------------------------------------------------------------
\* External: Chromium answers, in any order, and reports events.

Answers(c) ==
    /\ Connected /\ c \in requests
    /\ requests' = requests \ {c}
    /\ down' = Append(down, [kind |-> "reply", of |-> c])
    /\ UNCHANGED <<launchVars, call, pending, chan, emitted, reader, eventVars>>

Emits ==
    /\ Connected /\ InUse /\ emitted < MaxEvents
    /\ emitted' = emitted + 1
    /\ down' = Append(down, [kind |-> "event", of |-> emitted + 1])
    /\ UNCHANGED <<launchVars, callVars, reader, eventVars>>

----------------------------------------------------------------------------
\* readLoop

\* Bug: the call stays in pending when its reply is read.
ReadReplyKeepsPending ==
    LET c == Head(down).of IN
    /\ reader = "read" /\ down # <<>> /\ Head(down).kind = "reply"
    /\ IF c \in pending THEN reader' = "deliver" /\ UNCHANGED down
                       ELSE down' = Tail(down) /\ UNCHANGED reader
    /\ UNCHANGED <<launchVars, call, pending, chan, requests, emitted, eventVars>>

\* A reply that comes after its call timed out is dropped.
ReadReply ==
    LET c == Head(down).of IN
    /\ reader = "read" /\ down # <<>> /\ Head(down).kind = "reply"
    /\ pending' = pending \ {c}
    /\ IF c \in pending THEN reader' = "deliver" /\ UNCHANGED down
                       ELSE down' = Tail(down) /\ UNCHANGED reader
    /\ UNCHANGED <<launchVars, call, chan, requests, emitted, eventVars>>

\* Bug: the reply channel has no room, so somebody must be there to take the reply.
DeliverUnbuffered ==
    LET c == Head(down).of IN
    /\ reader = "deliver" /\ call[c] = "wait" /\ chan[c] = <<>>
    /\ chan' = [chan EXCEPT ![c] = <<"answered">>]
    /\ reader' = "read" /\ down' = Tail(down)
    /\ UNCHANGED <<launchVars, call, pending, requests, emitted, eventVars>>

\* The lock is free while the reply is handed over: the call may time out meanwhile.
Deliver ==
    LET c == Head(down).of IN
    /\ reader = "deliver" /\ chan[c] = <<>>
    /\ chan' = [chan EXCEPT ![c] = <<"answered">>]
    /\ reader' = "read" /\ down' = Tail(down)
    /\ UNCHANGED <<launchVars, call, pending, requests, emitted, eventVars>>

\* Bug: the loop waits for the handler.
ReadEventInline ==
    /\ reader = "read" /\ down # <<>> /\ Head(down).kind = "event"
    /\ call[Handler] \notin {"write", "wait"}
    /\ evQueue' = Append(evQueue, Head(down).of) /\ reader' = "signal" /\ down' = Tail(down)
    /\ UNCHANGED <<launchVars, callVars, emitted, evSignal, disp, handled>>

\* enqueueEvent: the queue first,
ReadEvent ==
    /\ reader = "read" /\ down # <<>> /\ Head(down).kind = "event"
    /\ evQueue' = Append(evQueue, Head(down).of) /\ reader' = "signal" /\ down' = Tail(down)
    /\ UNCHANGED <<launchVars, callVars, emitted, evSignal, disp, handled>>

\* Bug: the signal has no room, and is lost unless the dispatcher waits for it.
SignalUnbuffered ==
    /\ reader = "signal" /\ reader' = "read"
    /\ evSignal' = (disp.pc = "select")
    /\ UNCHANGED <<launchVars, callVars, down, emitted, evQueue, disp, handled>>

\* then a signal, of which one is enough.
SignalEvent ==
    /\ reader = "signal" /\ reader' = "read"
    /\ evSignal' = TRUE
    /\ UNCHANGED <<launchVars, callVars, down, emitted, evQueue, disp, handled>>

\* The read fails: failAll answers every pending call, and the client is closed.
\* What Chromium sent last may be lost.
FailAll ==
    /\ InUse /\ ~Connected /\ reader = "read"
    /\ \A c \in pending : chan[c] = <<>>
    /\ chan' = [c \in Callers |-> IF c \in pending THEN <<"failed">> ELSE chan[c]]
    /\ pending' = {} /\ reader' = "closed"
    /\ UNCHANGED <<launchVars, call, requests, down, emitted, eventVars>>

----------------------------------------------------------------------------
\* dispatchLoop

DispatchWakes ==
    /\ disp.pc = "select"
    /\ \/ evSignal /\ evSignal' = FALSE /\ disp' = [disp EXCEPT !.pc = "drain"]
       \/ reader = "closed" /\ disp' = [disp EXCEPT !.pc = "over"] /\ UNCHANGED evSignal
    /\ UNCHANGED <<launchVars, callVars, down, emitted, reader, evQueue, handled>>

DispatchTakes ==
    /\ disp.pc = "drain"
    /\ IF evQueue = <<>> THEN disp' = [disp EXCEPT !.pc = "rest"]
                         ELSE disp' = [pc |-> "run", batch |-> evQueue]
    /\ evQueue' = <<>>
    /\ UNCHANGED <<launchVars, callVars, down, emitted, reader, evSignal, handled>>

DispatchRests ==
    /\ disp.pc = "rest" /\ disp' = [disp EXCEPT !.pc = "select"]
    /\ UNCHANGED <<launchVars, callVars, down, emitted, reader, evQueue, evSignal, handled>>

\* The handler of an event may wait for a call of its own.
DispatchRuns ==
    /\ disp.pc = "run"
    /\ \/ /\ disp.batch = <<>> /\ disp' = [disp EXCEPT !.pc = "drain"]
          /\ UNCHANGED <<call, pending, handled>>
       \/ /\ disp.batch # <<>> /\ handled' = Append(handled, Head(disp.batch))
          /\ \/ disp' = [disp EXCEPT !.batch = Tail(@)] /\ UNCHANGED <<call, pending>>
             \/ /\ call[Handler] = "idle"
                /\ Becomes(Handler, "write") /\ pending' = pending \cup {Handler}
                /\ disp' = [pc |-> "handling", batch |-> Tail(disp.batch)]
    /\ UNCHANGED <<launchVars, chan, requests, down, emitted, reader, evQueue, evSignal>>

DispatchReturns ==
    /\ disp.pc = "handling" /\ call[Handler] \notin {"write", "wait"}
    /\ disp' = [disp EXCEPT !.pc = "run"]
    /\ UNCHANGED <<launchVars, callVars, down, emitted, reader, evQueue, evSignal, handled>>

----------------------------------------------------------------------------
Launch == WaitForURL \/ NoticeLauncher \/ Dial \/ TrackBrowserOwner \/ EnsureUnpackedExtensions
Reader == ReadReply \/ Deliver \/ ReadEvent \/ SignalEvent \/ FailAll
Dispatcher == DispatchWakes \/ DispatchTakes \/ DispatchRests \/ DispatchRuns \/ DispatchReturns

ConnNext ==
    \/ LauncherExits \/ BrowserListens \/ ForeignTakes \/ BrowserLeaves
    \/ Launch
    \/ (\E force \in BOOLEAN : CloseBrowser(force)) \/ CloseWaits \/ CloseTimesOut
    \/ \E c \in Callers : CallStarts(c) \/ CallWrites(c) \/ CallReturns(c) \/ CallTimesOut(c) \/ Answers(c)
    \/ Emits \/ Reader \/ Dispatcher

\* Goroutines run, and Chromium answers while it lives.  No call and no close is helped
\* by its timeout, and nothing says that the browser or its launcher ever leaves.
ConnFairness ==
    /\ \A c \in Callers : WF_connVars(CallWrites(c)) /\ WF_connVars(CallReturns(c)) /\ WF_connVars(Answers(c))
    /\ WF_connVars(Reader) /\ WF_connVars(Dispatcher) /\ WF_connVars(CloseWaits)

ConnSpec == ConnInit /\ [][ConnNext]_connVars /\ ConnFairness

----------------------------------------------------------------------------
\* Whoever answers a call finds room in its channel: readLoop with a reply, failAll
\* with the end of the connection, which sends to one channel after the other with the
\* client's lock held (cdp.go:524, 538).  A full channel would stop the one reader, and
\* every caller with it.
RepliesFit ==
    /\ \A c \in pending : chan[c] = <<>>
    /\ reader = "deliver" => chan[Head(down).of] = <<>>

\* A CloseBrowser whose browser and launcher are gone ends without the help of its
\* deadline, whoever noticed what before it: the reader notices the lost socket whatever
\* calls are pending or were given up, and the launcher's end is seen by a close although
\* waitForURL, or an earlier close that timed out, has received the result already
\* (lifetime.go:27-37, cdp.go:385, process_unix.go:77).  Else a browser that is gone could
\* never be closed, and the profile never be handed over.
CloseEnds == (Closing /\ browser = "gone" /\ launcher # "running") ~> ~Closing

\* Every call returns without the help of its timeout, also while the handler of an
\* event waits for a call of its own: "a handler that blocks ... can never stall
\* response delivery and deadlock the client" (cdp.go:46).
CallsReturn == \A c \in Callers : call[c] = "wait" ~> call[c] # "wait"

\* An event that was read reaches the handler, in order, unless the connection ends:
\* no wakeup is lost between enqueueEvent and dispatchLoop.
EventsDispatched ==
    \A n \in 1 .. MaxEvents :
        n \in {evQueue[i] : i \in DOMAIN evQueue} ~>
            (Len(handled) >= n /\ handled[n] = n) \/ reader = "closed"

\* When the browser is lost the client closes, which the manager and serve watch,
\* whatever calls were pending, answered or given up (readLoop, failAll).
LossNoticed == (InUse /\ ~Connected) ~> (reader = "closed")

----------------------------------------------------------------------------
\* What the proofs need: a call takes each of its places once, so that what was taken
\* out of pending for an answer never comes back to it.

CallPlaces == {"idle", "write", "wait", "answered", "failed", "closed", "timeout"}
FromChromium == [kind : {"reply"}, of : Callers] \cup [kind : {"event"}, of : Nat]

ConnTypeOK ==
    /\ step \in {"url", "dial", "track", "extensions", "ready", "socket", "process", "owned", "over", "failed"}
    /\ launcher \in {"running", "exited", "reaped"}
    /\ browser \in {"starting", "listening", "leaving", "gone"}
    /\ call \in [Callers -> CallPlaces] /\ pending \subseteq Callers
    /\ chan \in [Callers -> Seq({"answered", "failed"})]
    /\ requests \subseteq Callers /\ down \in Seq(FromChromium) /\ emitted \in Nat
    /\ reader \in {"read", "deliver", "signal", "closed"}

\* Nobody has answered a call that was not made, and the reply that is being handed
\* over is for a call that left pending.
Answerable ==
    /\ \A c \in Callers : call[c] = "idle" => chan[c] = <<>> /\ c \notin pending
    /\ \A c \in pending : chan[c] = <<>>
    /\ reader = "deliver" => /\ down # <<>> /\ Head(down).kind = "reply"
                             /\ call[Head(down).of] # "idle" /\ Head(down).of \notin pending
                             /\ chan[Head(down).of] = <<>>

ConnInv == ConnTypeOK /\ Answerable
=============================================================================
