-------------------------- MODULE VideoSubscribers --------------------------
(***************************************************************************)
(* Which clients hold a subscription to the H.264 lane: the Controller's   *)
(* subscribeVideo, pumpVideo and stopVideo                                 *)
(* (backend/internal/browser/client_video.go), the goroutines that call    *)
(* them, and the part of a browser handoff that releases and reconnects    *)
(* the clients (openSetup in mode.go, when the session cannot be saved).   *)
(*                                                                         *)
(* subscribeVideo holds no lock from its first check to the last: it runs  *)
(* on the timer goroutine that ClientConnected starts and on the           *)
(* controller goroutine, for "video-retry", while ClientDisconnected runs  *)
(* on the client's read goroutine and on the manager's.  The pipeline is   *)
(* its set of open subscriptions; VideoPipeline has the rest.              *)
(***************************************************************************)
EXTENDS Naturals, Sequences, FiniteSets

CONSTANTS
  Clients,     \* websocket clients
  MaxSubs,     \* bound: subscriptions created
  MaxRetries,  \* bound: "video-retry" commands
  MaxHandoffs  \* bound: handoffs

ASSUME SubscribersAssumption == IsFiniteSet(Clients) /\ MaxSubs \in Nat

NoSub == 0
SubIDs == 1..MaxSubs
Callers == Clients \cup {"retry"}   \* a client's timer goroutine, the controller's

VARIABLES
  conn,       \* client -> "open", "closed" (done closed), "gone" (ClientDisconnected ran)
  timer,      \* clients whose 150 ms timer is armed
  call,       \* caller -> its subscribeVideo in progress: [at, client, sub]
  videoSubs,  \* Controller.videoSubs: client -> subscription or NoSub
  open,       \* subscriptions in the pipeline; the channel of any other is closed
  closing,    \* deleted from the map and not yet closed: [by, sub]
  pump,       \* subscription -> [client, at, restarted]: its pumpVideo goroutine
  told,       \* client -> the last video-config sent to it since it was greeted
  suspended,  \* Controller.suspended: nothing is sent
  handoff,    \* openSetup: "none", or what it does next
  release,    \* clients that openSetup has yet to disconnect
  strays,     \* history: entries that no disconnection will find any more
  used        \* what the bounds count

vars == <<conn, timer, call, videoSubs, open, closing, pump, told, suspended, handoff, release,
          strays, used>>

Idle == [at |-> "idle"]

\* Every client has just been greeted by ClientConnected.
Init ==
  /\ conn = [c \in Clients |-> "open"]
  /\ timer = Clients
  /\ call = [a \in Callers |-> Idle]
  /\ videoSubs = [c \in Clients |-> NoSub]
  /\ open = {} /\ closing = {}
  /\ pump = <<>>
  /\ told = [c \in Clients |-> "none"]
  /\ suspended = FALSE
  /\ handoff = "none"
  /\ release = {} /\ strays = {}
  /\ used = [retries |-> 0, handoffs |-> 0]

\* Controller.send.
Tell(c, state) == told' = IF suspended THEN told ELSE [told EXCEPT ![c] = state]

----------------------------------------------------------------------------
(* subscribeVideo *)

\* It is not called for a closed client, and returns if suspended.
Enter(a, c) ==
  call' = [call EXCEPT ![a] = IF suspended THEN Idle ELSE [at |-> "exists", client |-> c]]

TimerFires(c) ==
  /\ c \in timer /\ call[c] = Idle
  /\ timer' = timer \ {c}
  /\ IF conn[c] = "open" THEN Enter(c, c) ELSE UNCHANGED call
  /\ UNCHANGED <<conn, videoSubs, open, closing, pump, told, suspended, handoff,
                 release, strays, used>>

\* "video-retry": a client with a subscription is told that the encoder starts
\* again; Restart moves every subscription to a new generation.
Retry(c) ==
  /\ conn[c] = "open" /\ call["retry"] = Idle
  /\ ~suspended
  /\ used.retries < MaxRetries
  /\ used' = [used EXCEPT !.retries = @ + 1]
  /\ pump' = [s \in DOMAIN pump |-> [pump[s] EXCEPT !.restarted = TRUE]]
  /\ IF videoSubs[c] # NoSub
       THEN Tell(c, "starting") /\ UNCHANGED call
       ELSE Enter("retry", c) /\ UNCHANGED told
  /\ UNCHANGED <<conn, timer, videoSubs, open, closing, suspended, handoff, release,
                 strays>>

\* A client that has a subscription needs no other.
CheckExists(a) ==
  /\ call[a].at = "exists"
  /\ call' = [call EXCEPT ![a] = IF videoSubs[call[a].client] # NoSub THEN Idle
                                 ELSE [@ EXCEPT !.at = "announce"]]
  /\ UNCHANGED <<conn, timer, videoSubs, open, closing, pump, told, suspended, handoff,
                 release, strays, used>>

Announce(a) ==
  /\ call[a].at = "announce"
  /\ Tell(call[a].client, "starting")
  /\ call' = [call EXCEPT ![a].at = "subscribe"]
  /\ UNCHANGED <<conn, timer, videoSubs, open, closing, pump, suspended, handoff,
                 release, strays, used>>

Subscribe(a) ==
  /\ call[a].at = "subscribe"
  /\ LET s == Len(pump) + 1 IN
       /\ s \in SubIDs
       /\ open' = open \cup {s}
       /\ pump' = Append(pump, [client |-> call[a].client, at |-> "none",
                                restarted |-> FALSE])
       /\ call' = [call EXCEPT ![a] = [at |-> "suspended", client |-> @.client,
                                       sub |-> s]]
  /\ UNCHANGED <<conn, timer, videoSubs, closing, told, suspended, handoff, release,
                 strays, used>>

\* VideoSubscription.Close, and the return from subscribeVideo.
GiveUp(a) ==
  /\ open' = open \ {call[a].sub}
  /\ call' = [call EXCEPT ![a] = Idle]

\* A handoff has begun, or the client has left, in the meantime.
CheckSuspended(a) ==
  /\ call[a].at = "suspended"
  /\ IF suspended THEN GiveUp(a)
     ELSE call' = [call EXCEPT ![a].at = "closed"] /\ UNCHANGED open
  /\ UNCHANGED <<conn, timer, videoSubs, closing, pump, told, suspended, handoff,
                 release, strays, used>>

CheckClosed(a) ==
  /\ call[a].at = "closed"
  /\ IF conn[call[a].client] # "open" THEN GiveUp(a)
     ELSE call' = [call EXCEPT ![a].at = "store"] /\ UNCHANGED open
  /\ UNCHANGED <<conn, timer, videoSubs, closing, pump, told, suspended, handoff,
                 release, strays, used>>

\* Bug: the second look at the map is missing.
StoreBlindly(a) ==
  /\ call[a].at = "store"
  /\ videoSubs' = [videoSubs EXCEPT ![call[a].client] = call[a].sub]
  /\ pump' = [pump EXCEPT ![call[a].sub].at = "first"]
  /\ call' = [call EXCEPT ![a] = Idle]
  /\ UNCHANGED <<conn, timer, open, closing, told, suspended, handoff, release, strays,
                 used>>

\* The other caller may have been faster.
Store(a) ==
  /\ call[a].at = "store"
  /\ IF videoSubs[call[a].client] # NoSub
       THEN GiveUp(a) /\ UNCHANGED <<videoSubs, pump, strays>>
       ELSE /\ videoSubs' = [videoSubs EXCEPT ![call[a].client] = call[a].sub]
            /\ pump' = [pump EXCEPT ![call[a].sub].at = "first"]
            /\ call' = [call EXCEPT ![a] = Idle]
            /\ strays' = IF conn[call[a].client] = "gone" /\ call[a].client \notin release
                           THEN strays \cup {call[a].sub} ELSE strays
            /\ UNCHANGED open
  /\ UNCHANGED <<conn, timer, closing, told, suspended, handoff, release, used>>

----------------------------------------------------------------------------
(* pumpVideo *)

\* An access unit, which onVideoFrame pushes only while a client is connected:
\* the first one, and the first of a new generation, is announced.
PumpUnit(s) ==
  /\ pump[s].at = "first" \/ (pump[s].at = "relay" /\ pump[s].restarted)
  /\ s \in open
  /\ \E c \in Clients : conn[c] = "open"
  /\ Tell(pump[s].client, "ready")
  /\ pump' = [pump EXCEPT ![s].at = "relay", ![s].restarted = FALSE]
  /\ UNCHANGED <<conn, timer, call, videoSubs, open, closing, suspended, handoff,
                 release, strays, used>>

\* Bug: a pump whose channel is closed returns at once.
PumpFailsSilently(s) ==
  /\ pump[s].at = "first" \/ (pump[s].at = "relay" /\ s \notin open)
  /\ pump' = [pump EXCEPT ![s].at = "stop"]
  /\ UNCHANGED <<conn, timer, call, videoSubs, open, closing, told, suspended, handoff,
                 release, strays, used>>

\* The channel is closed, or the first unit does not come within firstAUWait.
PumpFails(s) ==
  /\ pump[s].at = "first" \/ (pump[s].at = "relay" /\ s \notin open)
  /\ Tell(pump[s].client, "unavailable")
  /\ pump' = [pump EXCEPT ![s].at = "stop"]
  /\ UNCHANGED <<conn, timer, call, videoSubs, open, closing, suspended, handoff,
                 release, strays, used>>

\* stopVideo and ClientDisconnected take whatever subscription the client has out
\* of the map, and close it after they have unlocked mediaMu.
StopVideo(who, c) ==
  /\ videoSubs' = [videoSubs EXCEPT ![c] = NoSub]
  /\ closing' = closing \cup {[by |-> who, sub |-> s] : s \in {videoSubs[c]} \ {NoSub}}

CloseStopped(k) ==
  /\ open' = open \ {k.sub}
  /\ closing' = closing \ {k}
  /\ UNCHANGED <<conn, timer, call, videoSubs, pump, told, suspended, handoff, release,
                 strays, used>>

PumpStops(s) ==
  /\ pump[s].at = "stop"
  /\ StopVideo("pump", pump[s].client)
  /\ pump' = [pump EXCEPT ![s].at = "done"]
  /\ UNCHANGED <<conn, timer, call, open, told, suspended, handoff, release, strays,
                 used>>

----------------------------------------------------------------------------
(* Disconnections and handoffs *)

SocketCloses(c) ==
  /\ conn[c] = "open"
  /\ conn' = [conn EXCEPT ![c] = "closed"]
  /\ UNCHANGED <<timer, call, videoSubs, open, closing, pump, told, suspended, handoff,
                 release, strays, used>>

\* Manager.ClientDisconnected finds no controller while openSetup has taken it.
ClientDisconnected(c) ==
  /\ conn[c] = "closed"
  /\ conn' = [conn EXCEPT ![c] = "gone"]
  /\ IF handoff \in {"none", "resume"}
       THEN StopVideo("reader", c) /\ UNCHANGED strays
       ELSE /\ strays' = IF c \in release THEN strays ELSE strays \cup ({videoSubs[c]} \ {NoSub})
            /\ UNCHANGED <<videoSubs, closing>>
  /\ UNCHANGED <<timer, call, open, pump, told, suspended, handoff, release, used>>

\* setState suspends the controller; openSetup takes it from the manager ...
Suspend ==
  /\ handoff = "none" /\ used.handoffs < MaxHandoffs
  /\ used' = [used EXCEPT !.handoffs = @ + 1]
  /\ suspended' = TRUE
  /\ handoff' = "drain"
  /\ UNCHANGED <<conn, timer, call, videoSubs, open, closing, pump, told, release,
                 strays>>

\* ... and waits for the command in progress, which holds inputMu.
Drained ==
  /\ handoff = "drain" /\ call["retry"] = Idle
  /\ handoff' = "release"
  /\ release' = {c \in Clients : conn[c] # "gone"}
  /\ UNCHANGED <<conn, timer, call, videoSubs, open, closing, pump, told, suspended,
                 strays, used>>

Releasing == \E k \in closing : k.by = "manager"

Release(c) ==
  /\ handoff = "release" /\ c \in release
  /\ ~Releasing
  /\ StopVideo("manager", c)
  /\ release' = release \ {c}
  /\ UNCHANGED <<conn, timer, call, open, pump, told, suspended, handoff, strays, used>>

\* The session could not be saved: streaming goes on, and ClientConnected greets
\* the clients again, which start afresh.
Resume ==
  /\ handoff = "release" /\ release = {}
  /\ ~Releasing
  /\ suspended' = FALSE
  /\ handoff' = "resume"
  /\ UNCHANGED <<conn, timer, call, videoSubs, open, closing, pump, told, release,
                 strays, used>>

Reconnect ==
  /\ handoff = "resume"
  /\ handoff' = "none"
  /\ timer' = timer \cup {c \in Clients : conn[c] # "gone"}
  /\ told' = [c \in Clients |-> "none"]
  /\ UNCHANGED <<conn, call, videoSubs, open, closing, pump, suspended, release, strays,
                 used>>

Next ==
  \/ \E c \in Clients : TimerFires(c) \/ Retry(c)
  \/ \E a \in Callers :
       \/ CheckExists(a)
       \/ Announce(a)
       \/ Subscribe(a)
       \/ CheckSuspended(a)
       \/ CheckClosed(a)
       \/ Store(a)
  \/ \E s \in DOMAIN pump : PumpUnit(s) \/ PumpFails(s) \/ PumpStops(s)
  \/ \E k \in closing : CloseStopped(k)
  \/ \E c \in Clients : SocketCloses(c) \/ ClientDisconnected(c)
  \/ Suspend
  \/ Drained
  \/ \E c \in release : Release(c)
  \/ Resume
  \/ Reconnect

Spec == Init /\ [][Next]_vars

----------------------------------------------------------------------------
(* Properties *)

\* The subscription is its client's entry in the map, its pump runs, and the client's
\* disconnection, or the handoff's release of it, is still to come.
Entered(s) ==
  /\ videoSubs[pump[s].client] = s
  /\ pump[s].at \in {"first", "relay", "stop"}
  /\ conn[pump[s].client] # "gone" \/ pump[s].client \in release \/ s \in strays

\* It belongs to a subscribeVideo that is still to store or close it.
Held(s) ==
  \E a \in Callers : call[a].at \in {"suspended", "closed", "store"} /\ call[a].sub = s

\* It was taken out of the map to be closed.
Stopped(s) == \E k \in closing : k.sub = s

\* Every subscription that keeps the encoder running has an owner that will close it:
\* the map, where a disconnection or a release is still to find it, a subscribeVideo,
\* or the goroutine that took it out of the map.  The only exceptions are the strays:
\* what subscribeVideo stores for a client whose ClientDisconnected has run, and the
\* entry of a client that leaves while a handoff has taken the controller.
NoStraySubscription == \A s \in open : Entered(s) \/ Held(s) \/ Stopped(s)

\* The goroutines have come to rest.
AtRest ==
  /\ handoff = "none" /\ timer = {} /\ closing = {}
  /\ \A a \in Callers : call[a] = Idle
  /\ \A s \in DOMAIN pump : pump[s].at \in {"none", "done"}
                            \/ (pump[s].at = "relay" /\ s \in open)

\* Then a connected client that was last told "ready" has a live subscription,
\* through retries, two callers at once, a pump that stops what another has
\* subscribed, and a handoff that came to nothing.
ReadyIsServed ==
  AtRest => \A c \in Clients :
    conn[c] = "open" /\ told[c] = "ready" => videoSubs[c] \in open

----------------------------------------------------------------------------
(* What the two rest on: the inductive invariant of VideoSubscribersProofs *)

Goroutine == [client : Clients, at : {"none", "first", "relay", "stop", "done"},
              restarted : BOOLEAN]
Unsubscribed == [at : {"exists", "announce", "subscribe"}, client : Clients]
Holding == [at : {"suspended", "closed", "store"}, client : Clients, sub : Nat \ {NoSub}]

SubscribersTypeOK ==
  /\ conn \in [Clients -> {"open", "closed", "gone"}]
  /\ call \in [Callers -> {Idle} \cup Unsubscribed \cup Holding]
  /\ videoSubs \in [Clients -> Nat]
  /\ pump \in Seq(Goroutine)
  /\ open \subseteq 1..Len(pump)
  /\ told \in [Clients -> {"none", "starting", "ready", "unavailable"}]
  /\ suspended \in BOOLEAN
  /\ handoff \in {"none", "drain", "release", "resume"}
  /\ release \subseteq Clients /\ (handoff # "release" => release = {})

\* What subscribeVideo holds is its client's, no other call has it, and its pump
\* is not yet started.
CallsHoldTheirOwn ==
  \A a \in Callers : call[a] \in Holding =>
    /\ call[a].sub \in 1..Len(pump)
    /\ pump[call[a].sub].client = call[a].client /\ pump[call[a].sub].at = "none"
    /\ \A b \in Callers \ {a} : call[b] \in Holding => call[b].sub # call[a].sub

\* Outside a handoff, "ready" came from a pump that still relays, and that will
\* say so when it no longer does.
ReadyFromPump ==
  /\ handoff \in {"none", "resume"} => ~suspended
  /\ handoff = "none" =>
       \A c \in Clients : told[c] = "ready" =>
         \E s \in 1..Len(pump) : pump[s].client = c /\ pump[s].at = "relay"

SubscribersInv ==
  SubscribersTypeOK /\ CallsHoldTheirOwn /\ NoStraySubscription /\ ReadyFromPump
=============================================================================
