----------------------- MODULE VideoSubscribersProofs -----------------------
(***************************************************************************)
(* Proofs about VideoSubscribers for every set of clients and every number *)
(* of subscriptions, retries and handoffs.                                 *)
(***************************************************************************)
EXTENDS VideoSubscribers, TLAPS

----------------------------------------------------------------------------
(* Pumps and calls *)

LEMMA PumpsTyped ==
  ASSUME pump \in Seq(Goroutine)
  PROVE  /\ Len(pump) \in Nat /\ DOMAIN pump = 1..Len(pump)
         /\ \A s \in 1..Len(pump) : pump[s] \in Goroutine /\ pump[s].client \in Clients
<1>1. /\ Len(pump) \in Nat /\ DOMAIN pump = 1..Len(pump)
      /\ \A s \in 1..Len(pump) : pump[s] \in Goroutine
  OBVIOUS
<1> QED
  BY <1>1 DEF Goroutine

\* A pump becomes another goroutine record of the same client.
LEMMA PumpMoves ==
  ASSUME pump \in Seq(Goroutine), NEW s \in 1..Len(pump), NEW g \in Goroutine,
         g.client = pump[s].client, pump' = [pump EXCEPT ![s] = g]
  PROVE  /\ pump' \in Seq(Goroutine) /\ Len(pump') = Len(pump) /\ pump'[s] = g
         /\ \A r \in 1..Len(pump) : r # s => pump'[r] = pump[r]
         /\ \A r \in 1..Len(pump) : pump'[r].client = pump[r].client
<1>1. /\ pump' \in Seq(Goroutine) /\ Len(pump') = Len(pump) /\ pump'[s] = g
      /\ \A r \in 1..Len(pump) : r # s => pump'[r] = pump[r]
  OBVIOUS
<1> QED
  BY <1>1

\* The steps of a pump, as the invariants see them: it moves from one place to
\* another, and the pumps of other subscriptions stand still.
LEMMA PumpEffect ==
  ASSUME SubscribersTypeOK, NEW s \in 1..Len(pump),
         NEW x \in {"none", "first", "relay", "stop", "done"},
         \/ pump' = [pump EXCEPT ![s].at = x]
         \/ pump' = [pump EXCEPT ![s].at = x, ![s].restarted = FALSE]
  PROVE  /\ pump' \in Seq(Goroutine) /\ Len(pump') = Len(pump) /\ pump'[s].at = x
         /\ \A r \in 1..Len(pump) : r # s => pump'[r] = pump[r]
         /\ \A r \in 1..Len(pump) : pump'[r].client = pump[r].client
<1>1. pump \in Seq(Goroutine) /\ pump[s] \in Goroutine
  BY PumpsTyped DEF SubscribersTypeOK
<1>2. \E g \in Goroutine : g.client = pump[s].client /\ g.at = x
                           /\ pump' = [pump EXCEPT ![s] = g]
  <2>1. CASE pump' = [pump EXCEPT ![s].at = x]
    <3> DEFINE g == [pump[s] EXCEPT !.at = x]
    <3>1. g \in Goroutine /\ g.client = pump[s].client /\ g.at = x
      BY <1>1 DEF Goroutine
    <3>2. pump' = [pump EXCEPT ![s] = g]
      BY <2>1
    <3> HIDE DEF g
    <3> QED
      BY <3>1, <3>2
  <2>2. CASE pump' = [pump EXCEPT ![s].at = x, ![s].restarted = FALSE]
    <3> DEFINE g == [pump[s] EXCEPT !.at = x, !.restarted = FALSE]
    <3>1. g \in Goroutine /\ g.client = pump[s].client /\ g.at = x
      BY <1>1 DEF Goroutine
    <3>2. pump' = [pump EXCEPT ![s] = g]
      BY <1>1, <2>2 DEF Goroutine
    <3> HIDE DEF g
    <3> QED
      BY <3>1, <3>2
  <2> QED
    BY <2>1, <2>2
<1>3. PICK g \in Goroutine : g.client = pump[s].client /\ g.at = x
                             /\ pump' = [pump EXCEPT ![s] = g]
  BY <1>2
<1> QED
  BY <1>1, <1>3, PumpMoves

\* The three kinds of call are told apart by where they are.
LEMMA CallKinds ==
  ASSUME NEW k \in {Idle} \cup Unsubscribed \cup Holding
  PROVE  /\ k \in Holding <=> k.at \in {"suspended", "closed", "store"}
         /\ k \in Unsubscribed <=> k.at \in {"exists", "announce", "subscribe"}
         /\ k = Idle <=> k.at = "idle"
         /\ k \in Unsubscribed \cup Holding => k.client \in Clients
BY DEF Idle, Unsubscribed, Holding

----------------------------------------------------------------------------
(* What most steps leave as it is *)

PumpsStand ==
  /\ Len(pump') = Len(pump)
  /\ \A r \in 1..Len(pump) : /\ pump'[r].client = pump[r].client
                             /\ pump[r].at = "none" => pump'[r].at = "none"

\* A call that holds a subscription afterwards held it before.
CallsStand ==
  \A a \in Callers : call'[a] \in Holding =>
    call[a] \in Holding /\ call'[a].sub = call[a].sub /\ call'[a].client = call[a].client

\* What stays open keeps the entry or the goroutine that accounts for it, or leaves the
\* map for a goroutine that is to close it.
OpenStands ==
  \A s \in open' :
    /\ s \in open
    /\ Entered(s) => Entered(s)' \/ Stopped(s)'
    /\ Stopped(s) => Stopped(s)'
    /\ \A a \in Callers : call[a] \in Holding /\ call[a].sub = s => call'[a] \in Holding

LEMMA NoStrayMeans ==
  ASSUME SubscribersTypeOK
  PROVE  NoStraySubscription <=>
           \A s \in open : \/ Entered(s) \/ Stopped(s)
                           \/ \E a \in Callers : call[a] \in Holding /\ call[a].sub = s
<1>1. \A a \in Callers : call[a] \in Holding <=> call[a].at \in {"suspended", "closed", "store"}
  <2> TAKE a \in Callers
  <2>1. call[a] \in {Idle} \cup Unsubscribed \cup Holding
    BY DEF SubscribersTypeOK
  <2> QED
    BY <2>1, CallKinds
<1> QED
  BY <1>1 DEF NoStraySubscription, Held

\* An entry stays as long as the map, its client and its pump do.
LEMMA EnteredStands ==
  ASSUME SubscribersTypeOK, UNCHANGED <<videoSubs, closing, conn, release, strays>>,
         \A r \in 1..Len(pump) :
           /\ pump'[r].client = pump[r].client
           /\ pump[r].at \in {"first", "relay", "stop"} => pump'[r].at \in {"first", "relay", "stop"}
  PROVE  \A s \in open : (Entered(s) => Entered(s)') /\ (Stopped(s) => Stopped(s)')
<1>1. open \subseteq 1..Len(pump)
  BY DEF SubscribersTypeOK
<1> QED
  BY <1>1 DEF Entered, Stopped

LEMMA StandInv ==
  ASSUME SubscribersInv, SubscribersTypeOK', PumpsStand, CallsStand, OpenStands, ReadyFromPump'
  PROVE  SubscribersInv'
<1>1. CallsHoldTheirOwn'
  <2> SUFFICES ASSUME NEW a \in Callers, call'[a] \in Holding
               PROVE  /\ call'[a].sub \in 1..Len(pump')
                      /\ pump'[call'[a].sub].client = call'[a].client
                      /\ pump'[call'[a].sub].at = "none"
                      /\ \A b \in Callers \ {a} : call'[b] \in Holding => call'[b].sub # call'[a].sub
    BY DEF CallsHoldTheirOwn
  <2>1. /\ call[a].sub \in 1..Len(pump)
        /\ pump[call[a].sub].client = call[a].client /\ pump[call[a].sub].at = "none"
        /\ \A b \in Callers \ {a} : call[b] \in Holding => call[b].sub # call[a].sub
        /\ call'[a].sub = call[a].sub /\ call'[a].client = call[a].client
    BY DEF SubscribersInv, CallsHoldTheirOwn, CallsStand
  <2> QED
    BY <2>1 DEF PumpsStand, CallsStand
<1>2. NoStraySubscription'
  <2> DEFINE P == \A s \in open : \/ Entered(s) \/ Stopped(s)
                                  \/ \E a \in Callers : call[a] \in Holding /\ call[a].sub = s
  <2>1. P
    BY NoStrayMeans DEF SubscribersInv
  <2>2. ASSUME NEW s \in open'
        PROVE  \/ Entered(s)' \/ Stopped(s)'
               \/ \E a \in Callers : call'[a] \in Holding /\ call'[a].sub = s
    <3>1. s \in open
      BY DEF OpenStands
    <3> QED
      BY <2>1, <3>1 DEF OpenStands, CallsStand
  <2>3. P'
    BY <2>2
  <2>4. (NoStraySubscription <=> P)'
    BY NoStrayMeans, PTL
  <2> QED
    BY <2>3, <2>4
<1> QED
  BY <1>1, <1>2 DEF SubscribersInv

\* "ready" is not said, and no pump that relays stops.
LEMMA ReadyStands ==
  ASSUME ReadyFromPump, handoff' = handoff, suspended' = suspended, Len(pump') = Len(pump),
         \A r \in 1..Len(pump) : /\ pump'[r].client = pump[r].client
                                 /\ pump[r].at = "relay" => pump'[r].at = "relay",
         \A c \in Clients : told'[c] = "ready" => told[c] = "ready"
  PROVE  ReadyFromPump'
BY DEF ReadyFromPump

\* A call moves to another place without a subscription.
LEMMA CallReplaced ==
  ASSUME SubscribersTypeOK, NEW a \in Callers, call[a] \notin Holding,
         NEW k \in {Idle} \cup Unsubscribed, call' = [call EXCEPT ![a] = k]
  PROVE  /\ call' \in [Callers -> {Idle} \cup Unsubscribed \cup Holding]
         /\ CallsStand
         /\ \A b \in Callers : call[b] \in Holding => call'[b] \in Holding
<1>1. k \notin Holding
  BY DEF Idle, Unsubscribed, Holding
<1> QED
  BY <1>1 DEF SubscribersTypeOK, CallsStand

\* A call that gives up, or goes on with what it holds.
LEMMA CallGivesUp ==
  ASSUME SubscribersTypeOK, NEW a \in Callers, call[a] \in Holding, GiveUp(a),
         UNCHANGED <<videoSubs, closing, pump, conn, release, strays>>
  PROVE  /\ call' \in [Callers -> {Idle} \cup Unsubscribed \cup Holding]
         /\ CallsStand /\ OpenStands /\ open' \subseteq open
<1>1. Idle \notin Holding
  BY DEF Idle, Holding
<1>2. \A s \in open : (Entered(s) => Entered(s)') /\ (Stopped(s) => Stopped(s)')
  BY EnteredStands
<1>3. call' = [call EXCEPT ![a] = Idle] /\ open' = open \ {call[a].sub}
  BY DEF GiveUp
<1> QED
  BY <1>1, <1>2, <1>3 DEF SubscribersTypeOK, CallsStand, OpenStands

LEMMA CallGoesOn ==
  ASSUME SubscribersTypeOK, NEW a \in Callers, call[a] \in Holding,
         NEW x \in {"suspended", "closed", "store"}, call' = [call EXCEPT ![a].at = x]
  PROVE  /\ call' \in [Callers -> {Idle} \cup Unsubscribed \cup Holding]
         /\ CallsStand
         /\ \A b \in Callers : call[b] \in Holding => call'[b] \in Holding
<1>1. /\ [call[a] EXCEPT !.at = x] \in Holding
      /\ [call[a] EXCEPT !.at = x].sub = call[a].sub
      /\ [call[a] EXCEPT !.at = x].client = call[a].client
  BY DEF Holding
<1>2. call' = [call EXCEPT ![a] = [call[a] EXCEPT !.at = x]]
  OBVIOUS
<1> QED
  BY <1>1, <1>2 DEF SubscribersTypeOK, CallsStand

LEMMA ToldTyped ==
  ASSUME SubscribersTypeOK, NEW c \in Clients,
         NEW x \in {"none", "starting", "ready", "unavailable"}, Tell(c, x)
  PROVE  /\ told' \in [Clients -> {"none", "starting", "ready", "unavailable"}]
         /\ \A d \in Clients : d # c => told'[d] = told[d]
         /\ told'[c] = IF suspended THEN told[c] ELSE x
BY DEF Tell, SubscribersTypeOK

----------------------------------------------------------------------------
(* One lemma per kind of step *)

\* Nothing moves but the calls that hold no subscription, the timers, and what
\* clients are told short of "ready".
LEMMA QuietInv ==
  ASSUME SubscribersInv, UNCHANGED <<conn, videoSubs, open, closing, suspended, handoff, release, strays>>,
         PumpsStand, pump' \in Seq(Goroutine),
         \A r \in 1..Len(pump) : pump'[r].at = pump[r].at,
         told' = told \/ \E c \in Clients : Tell(c, "starting"),
         \/ call' = call
         \/ \E a \in Callers : \E k \in {Idle} \cup Unsubscribed :
              call[a] \notin Holding /\ call' = [call EXCEPT ![a] = k]
  PROVE  SubscribersInv'
<1>1. SubscribersTypeOK /\ ReadyFromPump
  BY DEF SubscribersInv
<1>2. /\ call' \in [Callers -> {Idle} \cup Unsubscribed \cup Holding]
      /\ CallsStand
      /\ \A b \in Callers : call[b] \in Holding => call'[b] \in Holding
  <2>1. CASE call' = call
    BY <1>1, <2>1 DEF CallsStand, SubscribersTypeOK
  <2> QED
    BY <1>1, <2>1, CallReplaced
<1>3. /\ told' \in [Clients -> {"none", "starting", "ready", "unavailable"}]
      /\ \A c \in Clients : told'[c] = "ready" => told[c] = "ready"
  <2>1. CASE told' = told
    BY <1>1, <2>1 DEF SubscribersTypeOK
  <2>2. ASSUME NEW c \in Clients, Tell(c, "starting")
        PROVE  /\ told' \in [Clients -> {"none", "starting", "ready", "unavailable"}]
               /\ \A d \in Clients : told'[d] = "ready" => told[d] = "ready"
    BY <1>1, <2>2, ToldTyped
  <2> QED
    BY <2>1, <2>2
<1>4. SubscribersTypeOK'
  BY <1>1, <1>2, <1>3 DEF SubscribersTypeOK, PumpsStand
<1>5. OpenStands
  BY <1>1, <1>2, EnteredStands DEF OpenStands, PumpsStand
<1>6. ReadyFromPump'
  BY <1>1, <1>3, ReadyStands DEF PumpsStand
<1> QED
  BY <1>2, <1>4, <1>5, <1>6, StandInv

\* The steps of subscribeVideo up to its Subscribe.
LEMMA BeforeSubscribeInv ==
  ASSUME SubscribersInv,
         \/ \E c \in Clients : TimerFires(c) \/ Retry(c)
         \/ \E a \in Callers : CheckExists(a) \/ Announce(a)
         \/ UNCHANGED vars
  PROVE  SubscribersInv'
<1>1. SubscribersTypeOK /\ pump \in Seq(Goroutine)
      /\ call \in [Callers -> {Idle} \cup Unsubscribed \cup Holding]
  BY DEF SubscribersInv, SubscribersTypeOK
<1>2. ASSUME pump' = pump
      PROVE  PumpsStand /\ pump' \in Seq(Goroutine)
             /\ \A r \in 1..Len(pump) : pump'[r].at = pump[r].at
  BY <1>1, <1>2 DEF PumpsStand
<1>3. Idle \notin Holding /\ \A c \in Clients : [at |-> "exists", client |-> c] \in Unsubscribed
  BY DEF Idle, Holding, Unsubscribed
<1>4. ASSUME NEW a \in Callers, NEW c \in Clients, call[a] = Idle, Enter(a, c)
      PROVE  \E k \in {Idle} \cup Unsubscribed :
               call[a] \notin Holding /\ call' = [call EXCEPT ![a] = k]
  BY <1>3, <1>4 DEF Enter
<1>5. ASSUME NEW c \in Clients, TimerFires(c) PROVE SubscribersInv'
  <2>1. c \in Callers /\ call[c] = Idle /\ (call' = call \/ Enter(c, c))
        /\ UNCHANGED <<conn, videoSubs, open, closing, suspended, handoff, release, strays, pump, told>>
    BY <1>5 DEF TimerFires, Callers
  <2> QED
    BY <1>2, <1>4, <2>1, QuietInv
<1>6. ASSUME NEW c \in Clients, Retry(c) PROVE SubscribersInv'
  <2>1. /\ "retry" \in Callers /\ call["retry"] = Idle
        /\ UNCHANGED <<conn, videoSubs, open, closing, suspended, handoff, release, strays>>
        /\ pump' = [s \in DOMAIN pump |-> [pump[s] EXCEPT !.restarted = TRUE]]
        /\ \/ Tell(c, "starting") /\ call' = call
           \/ Enter("retry", c) /\ told' = told
    BY <1>6 DEF Retry, Callers
  <2>2. PumpsStand /\ pump' \in Seq(Goroutine)
        /\ \A r \in 1..Len(pump) : pump'[r].at = pump[r].at
    <3>1. DOMAIN pump = 1..Len(pump) /\ Len(pump) \in Nat
          /\ \A s \in 1..Len(pump) : pump[s] \in Goroutine
      BY <1>1, PumpsTyped
    <3>2. \A s \in 1..Len(pump) : /\ [pump[s] EXCEPT !.restarted = TRUE] \in Goroutine
                                  /\ [pump[s] EXCEPT !.restarted = TRUE].client = pump[s].client
                                  /\ [pump[s] EXCEPT !.restarted = TRUE].at = pump[s].at
      BY <3>1 DEF Goroutine
    <3>3. \A s \in 1..Len(pump) : pump'[s] = [pump[s] EXCEPT !.restarted = TRUE]
      BY <2>1, <3>1
    <3>4. pump' \in [1..Len(pump) -> Goroutine]
      BY <2>1, <3>1, <3>2
    <3>5. pump' \in Seq(Goroutine) /\ Len(pump') = Len(pump)
      BY <3>1, <3>4
    <3> QED
      BY <3>2, <3>3, <3>5 DEF PumpsStand
  <2> QED
    BY <1>4, <2>1, <2>2, QuietInv
<1>7. ASSUME NEW a \in Callers, CheckExists(a) PROVE SubscribersInv'
  <2>1. call[a] \in Unsubscribed /\ call[a] \notin Holding
    BY <1>1, <1>7, CallKinds DEF CheckExists
  <2>2. [call[a] EXCEPT !.at = "announce"] \in Unsubscribed
    BY <2>1 DEF Unsubscribed
  <2>3. \E k \in {Idle} \cup Unsubscribed : call' = [call EXCEPT ![a] = k]
    BY <1>1, <1>7, <2>2 DEF CheckExists
  <2> QED
    BY <1>2, <1>7, <2>1, <2>3, QuietInv DEF CheckExists
<1>8. ASSUME NEW a \in Callers, Announce(a) PROVE SubscribersInv'
  <2>1. call[a] \in Unsubscribed /\ call[a] \notin Holding /\ call[a].client \in Clients
    BY <1>1, <1>8, CallKinds DEF Announce
  <2>2. [call[a] EXCEPT !.at = "subscribe"] \in Unsubscribed
    BY <2>1 DEF Unsubscribed
  <2>3. call' = [call EXCEPT ![a] = [call[a] EXCEPT !.at = "subscribe"]]
    BY <1>8 DEF Announce
  <2>4. /\ UNCHANGED <<conn, videoSubs, open, closing, suspended, handoff, release, strays, pump>>
        /\ Tell(call[a].client, "starting")
    BY <1>8 DEF Announce
  <2> QED
    BY <1>2, <2>1, <2>2, <2>3, <2>4, QuietInv
<1>9. CASE UNCHANGED vars
  BY <1>2, <1>9, QuietInv DEF vars
<1> QED
  BY <1>5, <1>6, <1>7, <1>8, <1>9

\* A new subscription, which the call holds.
LEMMA SubscribeInv ==
  ASSUME SubscribersInv, NEW a \in Callers, Subscribe(a) PROVE SubscribersInv'
<1>1. SubscribersTypeOK /\ CallsHoldTheirOwn /\ ReadyFromPump /\ NoStraySubscription
      /\ call \in [Callers -> {Idle} \cup Unsubscribed \cup Holding]
  BY DEF SubscribersInv, SubscribersTypeOK
<1>2. call[a] \in Unsubscribed /\ call[a] \notin Holding /\ call[a].client \in Clients
  BY <1>1, CallKinds DEF Subscribe
<1>3. PICK c \in Clients : c = call[a].client
  BY <1>2
<1> DEFINE s == Len(pump) + 1
           g == [client |-> c, at |-> "none", restarted |-> FALSE]
           k == [at |-> "suspended", client |-> c, sub |-> s]
<1>4. /\ open' = open \cup {s} /\ pump' = Append(pump, g) /\ call' = [call EXCEPT ![a] = k]
      /\ UNCHANGED <<conn, videoSubs, closing, told, suspended, handoff, release, strays>>
  BY <1>3 DEF Subscribe
<1>5. pump \in Seq(Goroutine) /\ Len(pump) \in Nat /\ s \in Nat \ {NoSub}
  BY <1>1 DEF SubscribersTypeOK, NoSub
<1>6. g \in Goroutine /\ g.client = c /\ g.at = "none"
  BY DEF Goroutine
<1>7. k \in Holding /\ k.client = c /\ k.sub = s
  BY <1>5 DEF Holding
<1>8. s \notin 1..Len(pump) /\ \A r \in 1..Len(pump) : r \in 1..s
  BY <1>5
<1> HIDE DEF g, k
<1>9. /\ pump' \in Seq(Goroutine) /\ Len(pump') = s /\ pump'[s] = g
      /\ \A r \in 1..Len(pump) : pump'[r] = pump[r]
  BY <1>4, <1>5, <1>6
<1>10. s \in 1..Len(pump')
  BY <1>5, <1>9
<1> HIDE DEF s
<1>11. call' \in [Callers -> {Idle} \cup Unsubscribed \cup Holding]
       /\ call'[a] = k /\ \A b \in Callers : b # a => call'[b] = call[b]
  BY <1>1, <1>4, <1>7
<1>12. SubscribersTypeOK'
  <2>1. open' \subseteq 1..Len(pump')
    BY <1>1, <1>4, <1>8, <1>9, <1>10 DEF SubscribersTypeOK
  <2> QED
    BY <1>1, <1>4, <1>9, <1>11, <2>1 DEF SubscribersTypeOK
<1>13. CallsHoldTheirOwn'
  <2>1. ASSUME NEW b \in Callers, b # a, call[b] \in Holding
        PROVE  /\ call[b].sub \in 1..Len(pump) /\ call[b].sub # s
               /\ pump'[call[b].sub].client = call[b].client /\ pump'[call[b].sub].at = "none"
               /\ \A d \in Callers \ {b} : call[d] \in Holding => call[d].sub # call[b].sub
    BY <1>1, <1>8, <1>9, <2>1 DEF CallsHoldTheirOwn
  <2> QED
    BY <1>6, <1>7, <1>8, <1>9, <1>10, <1>11, <2>1 DEF CallsHoldTheirOwn
<1>14. NoStraySubscription'
  <2>1. call'[a].at = "suspended" /\ call'[a].sub = s
    BY <1>11 DEF k
  <2>2. \A b \in Callers : call[b].at \in {"suspended", "closed", "store"} => call'[b] = call[b]
    BY <1>1, <1>2, <1>11, CallKinds
  <2>3. ASSUME NEW r \in open
        PROVE  Entered(r)' \/ Held(r)' \/ Stopped(r)'
    <3>1. (Entered(r) => Entered(r)') /\ (Stopped(r) => Stopped(r)')
      BY <1>1, <1>4, <1>9, EnteredStands
    <3>2. Held(r) => Held(r)'
      BY <2>2 DEF Held
    <3> QED
      BY <1>1, <3>1, <3>2 DEF NoStraySubscription
  <2>4. ASSUME NEW r, r = s PROVE Held(r)'
    BY <2>1, <2>4 DEF Held
  <2> QED
    BY <1>4, <2>3, <2>4 DEF NoStraySubscription
<1>15. ReadyFromPump'
  BY <1>1, <1>4, <1>8, <1>9 DEF ReadyFromPump
<1> QED
  BY <1>12, <1>13, <1>14, <1>15 DEF SubscribersInv

\* The two checks, and the call that finds another subscription in the map.
LEMMA CheckInv ==
  ASSUME SubscribersInv, NEW a \in Callers,
         \/ CheckSuspended(a) \/ CheckClosed(a)
         \/ Store(a) /\ videoSubs[call[a].client] # NoSub
  PROVE  SubscribersInv'
<1>1. SubscribersTypeOK /\ ReadyFromPump
      /\ call \in [Callers -> {Idle} \cup Unsubscribed \cup Holding]
  BY DEF SubscribersInv, SubscribersTypeOK
<1>2. call[a] \in Holding
  BY <1>1, CallKinds DEF CheckSuspended, CheckClosed, Store
<1>3. UNCHANGED <<conn, videoSubs, closing, pump, told, suspended, handoff, release, strays>>
  BY DEF CheckSuspended, CheckClosed, Store
<1>4. \/ GiveUp(a)
      \/ \E x \in {"suspended", "closed", "store"} : call' = [call EXCEPT ![a].at = x]
                                                     /\ open' = open
  BY DEF CheckSuspended, CheckClosed, Store
<1>5. /\ call' \in [Callers -> {Idle} \cup Unsubscribed \cup Holding]
      /\ CallsStand /\ OpenStands /\ open' \subseteq open
  <2>1. CASE GiveUp(a)
    BY <1>1, <1>2, <1>3, <2>1, CallGivesUp
  <2>2. ASSUME NEW x \in {"suspended", "closed", "store"}, call' = [call EXCEPT ![a].at = x],
               open' = open
        PROVE  /\ call' \in [Callers -> {Idle} \cup Unsubscribed \cup Holding]
               /\ CallsStand /\ OpenStands /\ open' \subseteq open
    BY <1>1, <1>2, <1>3, <2>2, CallGoesOn, EnteredStands DEF OpenStands
  <2> QED
    BY <1>4, <2>1, <2>2
<1>6. SubscribersTypeOK'
  BY <1>1, <1>3, <1>5 DEF SubscribersTypeOK
<1>7. PumpsStand /\ ReadyFromPump'
  BY <1>1, <1>3, ReadyStands DEF PumpsStand
<1> QED
  BY <1>5, <1>6, <1>7, StandInv

\* The subscription enters the map, and its pump starts.
LEMMA StoreInv ==
  ASSUME SubscribersInv, NEW a \in Callers, Store(a), videoSubs[call[a].client] = NoSub
  PROVE  SubscribersInv'
<1>1. SubscribersTypeOK /\ CallsHoldTheirOwn /\ ReadyFromPump /\ NoStraySubscription
      /\ call \in [Callers -> {Idle} \cup Unsubscribed \cup Holding]
  BY DEF SubscribersInv, SubscribersTypeOK
<1>2. call[a] \in Holding /\ call[a].client \in Clients
  BY <1>1, CallKinds DEF Store
<1>3. PICK c \in Clients, s \in 1..Len(pump) : c = call[a].client /\ s = call[a].sub
  BY <1>1, <1>2 DEF CallsHoldTheirOwn
<1>4. /\ pump[s].client = c /\ pump[s].at = "none"
      /\ \A b \in Callers \ {a} : call[b] \in Holding => call[b].sub # s
  BY <1>1, <1>2, <1>3 DEF CallsHoldTheirOwn
<1>5. /\ videoSubs' = [videoSubs EXCEPT ![c] = s]
      /\ pump' = [pump EXCEPT ![s].at = "first"]
      /\ call' = [call EXCEPT ![a] = Idle]
      /\ strays' = IF conn[c] = "gone" /\ c \notin release THEN strays \cup {s} ELSE strays
      /\ UNCHANGED <<open, closing, conn, told, suspended, handoff, release>>
  BY <1>3 DEF Store
<1>6. /\ pump' \in Seq(Goroutine) /\ Len(pump') = Len(pump) /\ pump'[s].at = "first"
      /\ \A r \in 1..Len(pump) : r # s => pump'[r] = pump[r]
      /\ \A r \in 1..Len(pump) : pump'[r].client = pump[r].client
  BY <1>1, <1>5, PumpEffect
<1>7. /\ call' \in [Callers -> {Idle} \cup Unsubscribed \cup Holding]
      /\ call'[a] = Idle /\ call'[a] \notin Holding
      /\ \A b \in Callers : b # a => call'[b] = call[b]
  <2>1. Idle \notin Holding
    BY DEF Idle, Holding
  <2> QED
    BY <1>1, <1>5, <2>1
<1>8. /\ videoSubs' \in [Clients -> Nat] /\ videoSubs'[c] = s
      /\ \A d \in Clients : d # c => videoSubs'[d] = videoSubs[d]
  BY <1>1, <1>5 DEF SubscribersTypeOK
<1>9. SubscribersTypeOK'
  BY <1>1, <1>5, <1>6, <1>7, <1>8 DEF SubscribersTypeOK
<1>10. CallsHoldTheirOwn'
  <2> SUFFICES ASSUME NEW b \in Callers, call'[b] \in Holding
               PROVE  /\ call'[b].sub \in 1..Len(pump')
                      /\ pump'[call'[b].sub].client = call'[b].client
                      /\ pump'[call'[b].sub].at = "none"
                      /\ \A d \in Callers \ {b} : call'[d] \in Holding => call'[d].sub # call'[b].sub
    BY DEF CallsHoldTheirOwn
  <2>1. b # a /\ call'[b] = call[b] /\ call[b].sub \in 1..Len(pump) /\ call[b].sub # s
    BY <1>1, <1>4, <1>7 DEF CallsHoldTheirOwn
  <2> QED
    BY <1>1, <1>6, <1>7, <2>1, SMTT(30) DEF CallsHoldTheirOwn
<1>11. NoStraySubscription'
  <2> SUFFICES ASSUME NEW r \in open
               PROVE  Entered(r)' \/ Held(r)' \/ Stopped(r)'
    BY <1>5 DEF NoStraySubscription
  <2>1. r \in 1..Len(pump) /\ pump'[r].client = pump[r].client /\ r # NoSub
        /\ pump[r].client \in Clients
    BY <1>1, <1>6, PumpsTyped DEF SubscribersTypeOK, NoSub
  <2>2. CASE r = s
    BY <1>4, <1>5, <1>6, <1>8, <2>1, <2>2 DEF Entered
  <2>3. CASE r # s /\ Entered(r)
    <3>1. pump[r].client # c
      BY <1>3, <2>1, <2>3 DEF Entered
    <3> QED
      BY <1>5, <1>6, <1>8, <2>1, <2>3, <3>1 DEF Entered
  <2>4. CASE r # s /\ Held(r)
    BY <1>3, <1>7, <2>4 DEF Held
  <2>5. CASE Stopped(r)
    BY <1>5, <2>5 DEF Stopped
  <2> QED
    BY <1>1, <2>2, <2>3, <2>4, <2>5 DEF NoStraySubscription
<1>12. ReadyFromPump'
  BY <1>1, <1>4, <1>5, <1>6, ReadyStands
<1> QED
  BY <1>9, <1>10, <1>11, <1>12 DEF SubscribersInv

\* A pump announces a unit, or that there are none.
LEMMA PumpTellsInv ==
  ASSUME SubscribersInv, NEW s \in 1..Len(pump), PumpUnit(s) \/ PumpFails(s)
  PROVE  SubscribersInv'
<1>1. SubscribersTypeOK /\ ReadyFromPump /\ pump \in Seq(Goroutine)
  BY DEF SubscribersInv, SubscribersTypeOK
<1>2. PICK c \in Clients : c = pump[s].client
  BY <1>1, PumpsTyped
<1>3. /\ pump[s].at # "none"
      /\ UNCHANGED <<conn, call, videoSubs, open, closing, suspended, handoff, release, strays>>
  BY DEF PumpUnit, PumpFails
<1>4. PICK x \in {"relay", "stop"}, y \in {"ready", "unavailable"} :
        /\ Tell(c, y) /\ (x = "relay" <=> y = "ready")
        /\ \/ pump' = [pump EXCEPT ![s].at = x]
           \/ pump' = [pump EXCEPT ![s].at = x, ![s].restarted = FALSE]
  BY <1>2 DEF PumpUnit, PumpFails
<1>5. /\ pump' \in Seq(Goroutine) /\ Len(pump') = Len(pump) /\ pump'[s].at = x
      /\ \A r \in 1..Len(pump) : r # s => pump'[r] = pump[r]
      /\ \A r \in 1..Len(pump) : pump'[r].client = pump[r].client
  BY <1>1, <1>4, PumpEffect
<1>6. /\ told' \in [Clients -> {"none", "starting", "ready", "unavailable"}]
      /\ \A d \in Clients : d # c => told'[d] = told[d]
      /\ told'[c] = IF suspended THEN told[c] ELSE y
  BY <1>1, <1>4, ToldTyped
<1>7. SubscribersTypeOK'
  BY <1>1, <1>3, <1>5, <1>6 DEF SubscribersTypeOK
<1>8. PumpsStand
  BY <1>3, <1>5 DEF PumpsStand
<1>9. CallsStand /\ OpenStands
  <2>1. \A r \in 1..Len(pump) : pump[r].at \in {"first", "relay", "stop"}
                                   => pump'[r].at \in {"first", "relay", "stop"}
    BY <1>5
  <2> QED
    BY <1>1, <1>3, <1>5, <2>1, EnteredStands DEF CallsStand, OpenStands
\* Only this pump moves.  If it no longer relays it has just said so.
<1>10. ReadyFromPump'
  <2> SUFFICES ASSUME handoff = "none", NEW d \in Clients, told'[d] = "ready"
               PROVE  \E r \in 1..Len(pump) : pump'[r].client = d /\ pump'[r].at = "relay"
    BY <1>1, <1>3, <1>5 DEF ReadyFromPump
  <2>1. ~suspended
    BY <1>1 DEF ReadyFromPump
  <2>2. CASE d = c
    BY <1>2, <1>4, <1>5, <1>6, <2>1, <2>2
  <2>3. CASE d # c
    BY <1>1, <1>2, <1>5, <1>6, <2>3 DEF ReadyFromPump
  <2> QED
    BY <2>2, <2>3
<1> QED
  BY <1>7, <1>8, <1>9, <1>10, StandInv

\* stopVideo takes the client's entry out of the map to close it: what else is open
\* keeps its place.
LEMMA StopOpenStands ==
  ASSUME SubscribersTypeOK, NEW c \in Clients, NEW w, StopVideo(w, c), UNCHANGED <<call, open, strays>>,
         \A r \in 1..Len(pump) : /\ pump'[r].client = pump[r].client
                                 /\ pump[r].client # c => pump'[r] = pump[r],
         \A d \in Clients : d # c => conn'[d] = conn[d] /\ (d \in release => d \in release')
  PROVE  videoSubs' \in [Clients -> Nat] /\ OpenStands /\ CallsStand
<1>1. /\ videoSubs' \in [Clients -> Nat]
      /\ \A d \in Clients : d # c => videoSubs'[d] = videoSubs[d]
      /\ closing \subseteq closing'
      /\ videoSubs[c] # NoSub => [by |-> w, sub |-> videoSubs[c]] \in closing'
  BY DEF StopVideo, SubscribersTypeOK, NoSub
<1>2. \A s \in open : s \in 1..Len(pump) /\ pump[s].client \in Clients /\ s # NoSub
  BY PumpsTyped DEF SubscribersTypeOK, NoSub
<1>3. ASSUME NEW s \in open, Entered(s) PROVE Entered(s)' \/ Stopped(s)'
  <2>1. CASE pump[s].client = c
    <3>1. [by |-> w, sub |-> s] \in closing'
      BY <1>1, <1>2, <1>3, <2>1 DEF Entered
    <3> QED
      BY <3>1 DEF Stopped
  <2>2. CASE pump[s].client # c
    BY <1>1, <1>2, <1>3, <2>2 DEF Entered
  <2> QED
    BY <2>1, <2>2
<1>4. ASSUME NEW s \in open, Stopped(s) PROVE Stopped(s)'
  BY <1>1, <1>4 DEF Stopped
<1> QED
  BY <1>1, <1>3, <1>4 DEF OpenStands, CallsStand

LEMMA PumpStopsInv ==
  ASSUME SubscribersInv, NEW s \in 1..Len(pump), PumpStops(s) PROVE SubscribersInv'
<1>1. SubscribersTypeOK /\ ReadyFromPump /\ pump \in Seq(Goroutine)
  BY DEF SubscribersInv, SubscribersTypeOK
<1>2. PICK c \in Clients : c = pump[s].client
  BY <1>1, PumpsTyped
<1>3. /\ StopVideo("pump", c) /\ pump' = [pump EXCEPT ![s].at = "done"] /\ pump[s].at = "stop"
      /\ UNCHANGED <<conn, call, open, told, suspended, handoff, release, strays>>
  BY <1>2 DEF PumpStops
<1>4. /\ pump' \in Seq(Goroutine) /\ Len(pump') = Len(pump) /\ pump'[s].at = "done"
      /\ \A r \in 1..Len(pump) : r # s => pump'[r] = pump[r]
      /\ \A r \in 1..Len(pump) : pump'[r].client = pump[r].client
  BY <1>1, <1>3, PumpEffect
<1>5. videoSubs' \in [Clients -> Nat] /\ OpenStands /\ CallsStand
  <2>1. \A r \in 1..Len(pump) : pump[r].client # c => pump'[r] = pump[r]
    BY <1>2, <1>4
  <2> QED
    BY <1>1, <1>3, <1>4, <2>1, StopOpenStands
<1>6. SubscribersTypeOK'
  BY <1>1, <1>3, <1>4, <1>5 DEF SubscribersTypeOK
<1>7. PumpsStand
  BY <1>3, <1>4 DEF PumpsStand
<1>8. ReadyFromPump'
  BY <1>1, <1>3, <1>4, ReadyStands
<1> QED
  BY <1>5, <1>6, <1>7, <1>8, StandInv

\* A client leaves, by itself or because openSetup releases it.
LEMMA LeaveInv ==
  ASSUME SubscribersInv, NEW c \in Clients,
         SocketCloses(c) \/ ClientDisconnected(c) \/ Release(c)
  PROVE  SubscribersInv'
<1>1. SubscribersTypeOK /\ ReadyFromPump
  BY DEF SubscribersInv
<1>2. UNCHANGED <<call, pump, open, told, suspended, handoff>>
  BY DEF SocketCloses, ClientDisconnected, Release
<1>3. /\ conn' \in [Clients -> {"open", "closed", "gone"}] /\ release' \subseteq Clients
      /\ \A d \in Clients : d # c => conn'[d] = conn[d] /\ (d \in release => d \in release')
      /\ handoff # "release" => release' = {}
  BY <1>1 DEF SubscribersTypeOK, SocketCloses, ClientDisconnected, Release
<1>4. videoSubs' \in [Clients -> Nat] /\ OpenStands /\ CallsStand
  <2>1. ASSUME NEW w, StopVideo(w, c), UNCHANGED strays
        PROVE  videoSubs' \in [Clients -> Nat] /\ OpenStands /\ CallsStand
    BY <1>1, <1>2, <1>3, <2>1, StopOpenStands
  \* Its entry stays, for the disconnection that follows, for openSetup or as a stray.
  <2>2. ASSUME UNCHANGED <<videoSubs, closing, release>>, strays \subseteq strays',
               \/ conn'[c] = "closed"
               \/ c \in release
               \/ videoSubs[c] # NoSub => videoSubs[c] \in strays'
        PROVE  videoSubs' \in [Clients -> Nat] /\ OpenStands /\ CallsStand
    <3>1. \A s \in open : s \in 1..Len(pump) /\ pump[s].client \in Clients /\ s # NoSub
      BY <1>1, PumpsTyped DEF SubscribersTypeOK, NoSub
    <3>2. ASSUME NEW s \in open, Entered(s) PROVE Entered(s)'
      BY <1>2, <1>3, <2>2, <3>1, <3>2 DEF Entered
    <3>3. ASSUME NEW s \in open, Stopped(s) PROVE Stopped(s)'
      BY <2>2, <3>3 DEF Stopped
    <3> QED
      BY <1>1, <1>2, <2>2, <3>2, <3>3 DEF SubscribersTypeOK, OpenStands, CallsStand
  <2>3. CASE SocketCloses(c)
    BY <1>1, <2>2, <2>3 DEF SocketCloses, SubscribersTypeOK
  <2>4. CASE ClientDisconnected(c)
    BY <2>1, <2>2, <2>4 DEF ClientDisconnected
  <2>5. CASE Release(c)
    BY <2>1, <2>5 DEF Release
  <2> QED
    BY <2>3, <2>4, <2>5
<1>5. SubscribersTypeOK'
  BY <1>1, <1>2, <1>3, <1>4 DEF SubscribersTypeOK
<1>6. PumpsStand /\ ReadyFromPump'
  BY <1>1, <1>2, ReadyStands DEF PumpsStand
<1> QED
  BY <1>4, <1>5, <1>6, StandInv

\* What was taken out of the map is closed.
LEMMA CloseInv ==
  ASSUME SubscribersInv, NEW k \in closing, CloseStopped(k) PROVE SubscribersInv'
<1>1. SubscribersTypeOK /\ ReadyFromPump
  BY DEF SubscribersInv
<1>2. /\ open' = open \ {k.sub} /\ closing' = closing \ {k}
      /\ UNCHANGED <<conn, call, videoSubs, pump, told, suspended, handoff, release, strays>>
  BY DEF CloseStopped
<1>3. SubscribersTypeOK'
  BY <1>1, <1>2 DEF SubscribersTypeOK
<1>4. ASSUME NEW s \in open' PROVE (Entered(s) => Entered(s)') /\ (Stopped(s) => Stopped(s)')
  BY <1>2 DEF Entered, Stopped
<1>5. PumpsStand /\ CallsStand /\ OpenStands
  BY <1>2, <1>4 DEF PumpsStand, CallsStand, OpenStands
<1>6. ReadyFromPump'
  BY <1>1, <1>2, ReadyStands
<1> QED
  BY <1>3, <1>5, <1>6, StandInv

\* A handoff that came to nothing greets every client anew.
LEMMA HandoffInv ==
  ASSUME SubscribersInv, Suspend \/ Drained \/ Resume \/ Reconnect PROVE SubscribersInv'
<1>1. SubscribersTypeOK
  BY DEF SubscribersInv
<1>2. UNCHANGED <<conn, call, videoSubs, open, closing, pump, strays>>
  BY DEF Suspend, Drained, Resume, Reconnect
<1>3. SubscribersTypeOK'
  BY <1>1, <1>2 DEF SubscribersTypeOK, Suspend, Drained, Resume, Reconnect
<1>4. PumpsStand /\ CallsStand /\ OpenStands
  <2>1. \A c \in release : c \in release'
    BY <1>1 DEF SubscribersTypeOK, Suspend, Drained, Resume, Reconnect
  <2>2. ASSUME NEW s \in open PROVE (Entered(s) => Entered(s)') /\ (Stopped(s) => Stopped(s)')
    BY <1>2, <2>1 DEF Entered, Stopped
  <2> QED
    BY <1>2, <2>2 DEF PumpsStand, CallsStand, OpenStands
<1>5. ReadyFromPump
  BY DEF SubscribersInv
<1>6. ReadyFromPump'
  BY <1>5 DEF ReadyFromPump, Suspend, Drained, Resume, Reconnect
<1> QED
  BY <1>3, <1>4, <1>6, StandInv

----------------------------------------------------------------------------
(* The invariant and what it says of the clients *)

\* The controller keeps its inductive invariant.
THEOREM SubscribersInvariant == Spec => []SubscribersInv
<1>1. Init => SubscribersInv
  <2> SUFFICES ASSUME Init PROVE SubscribersInv
    OBVIOUS
  <2>1. pump = <<>>
    BY DEF Init
  <2>2. pump \in Seq(Goroutine) /\ Len(pump) = 0
    BY <2>1
  <2>3. SubscribersTypeOK
    BY <2>2 DEF Init, SubscribersTypeOK, NoSub
  <2>4. Idle \notin Holding
    BY DEF Idle, Holding
  <2> QED
    BY <2>2, <2>3, <2>4 DEF Init, SubscribersInv, CallsHoldTheirOwn, NoStraySubscription,
       ReadyFromPump
<1>2. SubscribersInv /\ [Next]_vars => SubscribersInv'
  <2> SUFFICES ASSUME SubscribersInv, [Next]_vars PROVE SubscribersInv'
    OBVIOUS
  <2>1. \A a \in Callers : Store(a) => SubscribersInv'
    BY CheckInv, StoreInv
  <2>2. \A s \in DOMAIN pump : PumpUnit(s) \/ PumpFails(s) \/ PumpStops(s) => SubscribersInv'
    BY PumpTellsInv, PumpStopsInv, PumpsTyped DEF SubscribersInv, SubscribersTypeOK
  <2>3. \A c \in release : Release(c) => SubscribersInv'
    BY LeaveInv DEF SubscribersInv, SubscribersTypeOK
  <2> QED
    BY <2>1, <2>2, <2>3, BeforeSubscribeInv, SubscribeInv, CheckInv, LeaveInv, CloseInv,
       HandoffInv
    DEF Next
<1> QED
  BY <1>1, <1>2, PTL DEF Spec

\* client_video.go: whatever subscribeVideo, the pumps, disconnections and
\* handoffs do to each other, a subscription that keeps the encoder running has an owner
\* that will close it: the map, a subscribeVideo or the goroutine that took it out of the
\* map.  The strays of the two known races alone stay in the map after their client left.
THEOREM SubscriptionsNeverStray == Spec => []NoStraySubscription
BY SubscribersInvariant, PTL DEF SubscribersInv

\* client_video.go: at rest, a connected client that was last told "ready" has a
\* live subscription.
THEOREM ReadyClientsServed == Spec => []ReadyIsServed
<1>1. SubscribersInv => ReadyIsServed
  <2> SUFFICES ASSUME SubscribersInv, AtRest, NEW c \in Clients, told[c] = "ready"
               PROVE  videoSubs[c] \in open
    BY DEF ReadyIsServed
  <2>1. PICK s \in 1..Len(pump) : pump[s].client = c /\ pump[s].at = "relay"
    BY DEF SubscribersInv, ReadyFromPump, AtRest
  <2>2. s \in open
    BY <2>1, PumpsTyped DEF AtRest, SubscribersInv, SubscribersTypeOK
  <2>3. \A a \in Callers : call[a].at = "idle"
    BY DEF AtRest, Idle
  <2> QED
    BY <2>1, <2>2, <2>3 DEF SubscribersInv, NoStraySubscription, Entered, Held, Stopped, AtRest
<1> QED
  BY <1>1, SubscribersInvariant, PTL
=============================================================================
