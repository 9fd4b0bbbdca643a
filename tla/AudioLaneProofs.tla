--------------------------- MODULE AudioLaneProofs --------------------------
(***************************************************************************)
(* Proofs about AudioLane for every set of clients, every capacity of the  *)
(* channels and every value of the bounds.                                 *)
(***************************************************************************)
EXTENDS AudioLane, TLAPS

----------------------------------------------------------------------------
(* The capture *)

\* The capture's two rules are inductive by themselves.
LEMMA CaptureStep == CaptureAsNeeded /\ [Next]_vars => CaptureAsNeeded'
<1> SUFFICES ASSUME CaptureAsNeeded, [Next]_vars PROVE CaptureAsNeeded'
  OBVIOUS
<1>1. ASSUME UNCHANGED <<subs, running, stopTimer>> PROVE CaptureAsNeeded'
  BY <1>1 DEF CaptureAsNeeded
<1>2. ASSUME NEW s, Close(s) PROVE CaptureAsNeeded'
  BY <1>2 DEF Close, CaptureAsNeeded
<1>3. ASSUME NEW c, StopAudio(c) PROVE CaptureAsNeeded'
  BY <1>1, <1>2, <1>3 DEF StopAudio, pipelineVars
<1>4. ASSUME NEW opens \in BOOLEAN, HandleOn(opens) PROVE CaptureAsNeeded'
  BY <1>1, <1>4 DEF HandleOn, Subscribe, CaptureAsNeeded, pipelineVars
<1>5. CASE IdleStop
  BY <1>5 DEF IdleStop, CaptureAsNeeded
<1>6. ASSUME NEW r \in readers, ReadEnds(r) PROVE CaptureAsNeeded'
  BY <1>6 DEF ReadEnds, CaptureAsNeeded
<1> QED
  BY <1>1, <1>3, <1>4, <1>5, <1>6 DEF Next, SourceEnds, ReadChunk, TakeCommand, HandleOff,
     HandleStarted, PumpChunk, PumpEnds, PumpStops, SocketCloses, ClientDisconnected, vars,
     pipelineVars

\* AudioPipeline: whoever subscribes, leaves or is closed with a failing source,
\* the capture runs for its subscriptions, and for nobody only while a timer that
\* will stop it is pending.
THEOREM CaptureRunsAsNeeded == Spec => []CaptureAsNeeded
<1>1. Init => CaptureAsNeeded
  BY DEF Init, CaptureAsNeeded
<1> QED
  BY <1>1, CaptureStep, PTL DEF Spec

----------------------------------------------------------------------------
(* What a step does to the state that the other invariants read *)

\* A function on 1..n is a sequence of length n.
LEMMA FunctionIsSequence ==
  ASSUME NEW S, NEW n \in Nat, NEW f \in [1..n -> S]
  PROVE  f \in Seq(S) /\ Len(f) = n
OBVIOUS

LEMMA PumpsTyped ==
  ASSUME pump \in Seq(Goroutine)
  PROVE  /\ Len(pump) \in Nat /\ DOMAIN pump = 1..Len(pump)
         /\ \A s \in 1..Len(pump) : pump[s] \in Goroutine /\ pump[s].client \in Clients
<1>1. /\ Len(pump) \in Nat /\ DOMAIN pump = 1..Len(pump)
      /\ \A s \in 1..Len(pump) : pump[s] \in Goroutine
  OBVIOUS
<1> QED
  BY <1>1 DEF Goroutine

\* A pump goroutine moves on, and nothing else of any pump changes.
LEMMA PumpMoves ==
  ASSUME pump \in Seq(Goroutine), NEW s \in 1..Len(pump),
         NEW x \in {"none", "relay", "stop", "done"},
         pump' = [pump EXCEPT ![s].at = x]
  PROVE  /\ pump' \in Seq(Goroutine) /\ Len(pump') = Len(pump)
         /\ pump'[s].client = pump[s].client /\ pump'[s].at = x
         /\ \A r \in 1..Len(pump) : r # s => pump'[r] = pump[r]
         /\ \A r \in 1..Len(pump) : pump'[r].client = pump[r].client
<1>1. pump[s] \in Goroutine
  OBVIOUS
<1>2. /\ [pump[s] EXCEPT !.at = x] \in Goroutine
      /\ [pump[s] EXCEPT !.at = x].at = x
      /\ [pump[s] EXCEPT !.at = x].client = pump[s].client
  BY <1>1 DEF Goroutine
<1>3. pump' = [pump EXCEPT ![s] = [pump[s] EXCEPT !.at = x]]
  OBVIOUS
<1> HIDE DEF Goroutine
<1>4. /\ pump' \in Seq(Goroutine) /\ Len(pump') = Len(pump)
      /\ pump'[s] = [pump[s] EXCEPT !.at = x]
      /\ \A r \in 1..Len(pump) : r # s => pump'[r] = pump[r]
  BY <1>2, <1>3
<1> QED
  BY <1>2, <1>4

\* The channels keep their shape through a chunk that is offered or relayed.
LEMMA OfferTyped ==
  ASSUME NEW q \in Seq(Nat), NEW n \in Nat PROVE Offer(q, n) \in Seq(Nat)
<1>1. CASE Len(q) < QueueCap
  BY <1>1 DEF Offer
<1>2. CASE ~(Len(q) < QueueCap)
  <2>1. q # <<>>
    BY <1>2, AudioAssumption
  <2>2. Tail(q) \in Seq(Nat)
    BY <2>1
  <2> QED
    BY <1>2, <2>2 DEF Offer
<1> QED
  BY <1>1, <1>2

\* The state is well typed initially, and after every step.
LEMMA TypeStep ==
  ASSUME LaneTypeOK, HandlerHolds, EntryOwned, [Next]_vars PROVE LaneTypeOK'
<1> USE DEF LaneTypeOK
<1>1. CASE IdleStop
  BY <1>1 DEF IdleStop, controllerVars
<1>2. ASSUME NEW r, SourceEnds(r) PROVE LaneTypeOK'
  BY <1>2 DEF SourceEnds, controllerVars
<1>3. ASSUME NEW r, ReadChunk(r) PROVE LaneTypeOK'
  <2>1. audioSubs' = audioSubs /\ handler' = handler /\ pump' = pump /\ told' = told
        /\ subs' = subs /\ running' = running /\ stopTimer' = stopTimer
    BY <1>3 DEF ReadChunk, controllerVars
  <2>2. seq' \in Nat
    BY <1>3 DEF ReadChunk
  <2>3. chan' \in Seq(Seq(Nat)) /\ Len(chan') = Len(chan)
    <3>1. CASE chan' = chan
      BY <3>1
    <3>2. ASSUME chan' = [s \in DOMAIN chan |-> IF s \in subs THEN Offer(chan[s], seq + 1)
                                                ELSE chan[s]]
          PROVE  chan' \in Seq(Seq(Nat)) /\ Len(chan') = Len(chan)
      <4>1. DOMAIN chan = 1..Len(chan) /\ Len(chan) \in Nat /\ seq + 1 \in Nat
            /\ \A s \in 1..Len(chan) : chan[s] \in Seq(Nat)
        OBVIOUS
      <4>2. \A s \in 1..Len(chan) : Offer(chan[s], seq + 1) \in Seq(Nat)
        BY <4>1, OfferTyped
      <4>3. \A s \in 1..Len(chan) : chan'[s] \in Seq(Nat)
        BY <3>2, <4>1, <4>2
      <4> DEFINE S == Seq(Nat)
      <4>4. chan' \in [1..Len(chan) -> S]
        BY <3>2, <4>1, <4>3
      <4> HIDE DEF S
      <4>5. chan' \in Seq(S) /\ Len(chan') = Len(chan)
        BY <4>1, <4>4, FunctionIsSequence
      <4> QED
        BY <4>5 DEF S
    <3> QED
      BY <1>3, <3>1, <3>2 DEF ReadChunk
  <2> QED
    BY <2>1, <2>2, <2>3
<1>4. ASSUME NEW r, ReadEnds(r) PROVE LaneTypeOK'
  BY <1>4 DEF ReadEnds, controllerVars
<1>5. ASSUME NEW c \in Clients, NEW on \in BOOLEAN, TakeCommand(c, on) PROVE LaneTypeOK'
  BY <1>5 DEF TakeCommand, pipelineVars, Command, NoSub
<1>6. ASSUME NEW c \in Clients, StopAudio(c)
      PROVE  /\ audioSubs' \in [Clients -> Nat] /\ subs' \subseteq subs
             /\ running' \in BOOLEAN /\ stopTimer' \in BOOLEAN
             /\ chan' = chan /\ seq' = seq
  BY <1>6 DEF StopAudio, Close, pipelineVars, NoSub
<1>7. CASE HandleOff
  <2>1. handler.client \in Clients
    BY <1>7 DEF HandleOff, Command
  <2> QED
    BY <1>6, <1>7, <2>1 DEF HandleOff
<1>8. ASSUME NEW opens \in BOOLEAN, HandleOn(opens) PROVE LaneTypeOK'
  <2>1. handler \in Command /\ handler.client \in Clients
    BY <1>8 DEF HandleOn, Command
  <2>2. CASE audioSubs[handler.client] # NoSub
    BY <1>8, <2>2 DEF HandleOn, pipelineVars
  <2>3. CASE audioSubs[handler.client] = NoSub
    <3> DEFINE s == Len(chan) + 1
               g == [client |-> handler.client, at |-> "none"]
    <3>1. /\ Subscribe(s, opens)
          /\ audioSubs' = [audioSubs EXCEPT ![handler.client] = s]
          /\ handler' = [handler EXCEPT !.sub = s]
          /\ pump' = Append(pump, g)
          /\ told' = told
      BY <1>8, <2>3 DEF HandleOn
    <3>2. g \in Goroutine /\ <<>> \in Seq(Nat)
      BY <2>1 DEF Goroutine
    <3>3. s \in Nat /\ s = Len(pump) + 1
      OBVIOUS
    <3>4. /\ chan' = Append(chan, <<>>) /\ running' \in BOOLEAN /\ stopTimer' \in BOOLEAN
          /\ seq' = seq /\ subs' \subseteq subs \cup {s}
      BY <3>1 DEF Subscribe
    <3> HIDE DEF s, g
    <3>5. audioSubs' \in [Clients -> Nat] /\ handler' \in Command
      BY <2>1, <3>1, <3>3 DEF Command
    <3>6. pump' \in Seq(Goroutine) /\ Len(pump') = Len(pump) + 1
      BY <3>1, <3>2
    <3>7. chan' \in Seq(Seq(Nat)) /\ Len(chan') = Len(chan) + 1
      BY <3>2, <3>4
    <3>8. subs' \subseteq 1..Len(pump')
      BY <3>3, <3>4, <3>6
    <3> QED
      BY <3>1, <3>4, <3>5, <3>6, <3>7, <3>8
  <2> QED
    BY <2>2, <2>3
<1>9. CASE HandleStarted
  <2>1. handler.client \in Clients /\ handler.sub \in 1..Len(pump)
    BY <1>9 DEF HandleStarted, Command, HandlerHolds
  <2>2. pump' = [pump EXCEPT ![handler.sub].at = "relay"]
    BY <1>9 DEF HandleStarted
  <2>3. pump' \in Seq(Goroutine) /\ Len(pump') = Len(pump)
    BY <2>1, <2>2, PumpMoves
  <2> QED
    BY <1>9, <2>1, <2>3 DEF HandleStarted, Tell, pipelineVars
<1>10. ASSUME NEW s \in DOMAIN pump, PumpChunk(s) PROVE LaneTypeOK'
  <2>1. chan \in Seq(Seq(Nat)) /\ s \in 1..Len(chan) /\ chan[s] \in Seq(Nat)
        /\ chan[s] # <<>>
    BY <1>10 DEF PumpChunk
  <2>2. Tail(chan[s]) \in Seq(Nat)
    BY <2>1
  <2> DEFINE r == Tail(chan[s])
             S == Seq(Nat)
  <2>3. chan' = [chan EXCEPT ![s] = r] /\ r \in S /\ chan \in Seq(S)
    BY <1>10, <2>1, <2>2 DEF PumpChunk
  <2> HIDE DEF r, S
  <2>4. chan' \in Seq(S) /\ Len(chan') = Len(chan)
    BY <2>1, <2>3
  <2>5. chan' \in Seq(Seq(Nat)) /\ Len(chan') = Len(chan)
    BY <2>4 DEF S
  <2> QED
    BY <1>10, <2>5 DEF PumpChunk, controllerVars
<1>11. ASSUME NEW s \in DOMAIN pump, PumpEnds(s) PROVE LaneTypeOK'
  <2>1. s \in 1..Len(pump) /\ pump[s].client \in Clients
    BY PumpsTyped
  <2>2. pump' \in Seq(Goroutine) /\ Len(pump') = Len(pump)
    BY <1>11, <2>1, PumpMoves DEF PumpEnds
  <2> QED
    BY <1>11, <2>1, <2>2 DEF PumpEnds, Tell, pipelineVars
<1>12. ASSUME NEW s \in DOMAIN pump, PumpStops(s) PROVE LaneTypeOK'
  <2>1. s \in 1..Len(pump) /\ pump[s].client \in Clients
    BY PumpsTyped
  <2>2. pump' \in Seq(Goroutine) /\ Len(pump') = Len(pump)
    BY <1>12, <2>1, PumpMoves DEF PumpStops
  <2> QED
    BY <1>6, <1>12, <2>1, <2>2 DEF PumpStops
<1>13. ASSUME NEW c \in Clients, SocketCloses(c) \/ ClientDisconnected(c) PROVE LaneTypeOK'
  BY <1>6, <1>13 DEF SocketCloses, ClientDisconnected, pipelineVars
<1>14. CASE UNCHANGED vars
  BY <1>14 DEF vars, controllerVars, pipelineVars
<1> QED
  BY <1>1, <1>2, <1>3, <1>4, <1>5, <1>7, <1>8, <1>9, <1>10, <1>11, <1>12, <1>13, <1>14
  DEF Next

----------------------------------------------------------------------------
(* Clients and what they are told *)

Aware == EntryOwned /\ HandlerHolds /\ ToldOrPending

\* The pipeline drops subscriptions, and the controller's state stands still.
LEMMA SubsShrink ==
  ASSUME LaneTypeOK, Aware, UNCHANGED <<audioSubs, handler, pump, told>>, subs' \subseteq subs
  PROVE  Aware'
<1>1. EntryOwned' /\ HandlerHolds'
  BY DEF Aware, EntryOwned, HandlerHolds
<1>2. \A c \in Clients : (Unheard(c) => Unheard(c)') /\ (Leaving(c) => Leaving(c)')
  BY DEF Unheard, Leaving
<1>3. ToldOrPending'
  BY <1>2 DEF Aware, ToldOrPending
<1> QED
  BY <1>1, <1>3 DEF Aware

\* A command is taken: no pump waits for the handler, which had nothing to do.
LEMMA TakeAware ==
  ASSUME LaneTypeOK, Aware, NEW c \in Clients, NEW on \in BOOLEAN, TakeCommand(c, on)
  PROVE  Aware'
<1>1. UNCHANGED <<audioSubs, pump, told, subs>> /\ handler = NoCommand /\ handler'.sub = NoSub
  BY DEF TakeCommand, pipelineVars
<1>2. EntryOwned' /\ HandlerHolds'
  BY <1>1 DEF Aware, EntryOwned, HandlerHolds
<1>3. \A d \in Clients : (Unheard(d) => Unheard(d)') /\ (Leaving(d) => Leaving(d)')
  BY <1>1 DEF Unheard, Leaving
<1>4. ToldOrPending'
  BY <1>1, <1>3 DEF Aware, ToldOrPending
<1> QED
  BY <1>2, <1>4 DEF Aware

\* What stopAudio does to the entries and to the set of live subscriptions.
LEMMA StopEffect ==
  ASSUME LaneTypeOK, NEW c \in Clients, StopAudio(c)
  PROVE  /\ audioSubs'[c] = NoSub
         /\ \A d \in Clients : d # c => audioSubs'[d] = audioSubs[d]
         /\ subs' \subseteq subs
         /\ audioSubs[c] # NoSub => audioSubs[c] \notin subs'
BY DEF StopAudio, Close, LaneTypeOK, pipelineVars

\* stopAudio, whoever calls it, with its caller's own step: the handler that
\* returns, or a pump that ends.  If the client still believes that it hears
\* something, the pump of the entry it lost will tell it.
LEMMA StopAware ==
  ASSUME LaneTypeOK, Aware, NEW c \in Clients, StopAudio(c), told' = told,
         \/ handler' = handler
         \/ handler' = NoCommand /\ \A s \in 1..Len(pump) : pump[s].at # "none",
         \/ pump' = pump
         \/ \E s \in 1..Len(pump) : /\ pump[s].at = "stop" /\ pump[s].client = c
                                    /\ pump' = [pump EXCEPT ![s].at = "done"]
  PROVE  Aware'
<1>1. /\ Len(pump') = Len(pump)
      /\ \A s \in 1..Len(pump) :
           /\ pump'[s].client = pump[s].client
           /\ \/ pump'[s] = pump[s]
              \/ pump[s].at = "stop" /\ pump'[s].at = "done" /\ pump[s].client = c
  BY PumpMoves DEF LaneTypeOK
<1>2. /\ audioSubs'[c] = NoSub
      /\ \A d \in Clients : d # c => audioSubs'[d] = audioSubs[d]
      /\ subs' \subseteq subs
      /\ audioSubs[c] # NoSub => audioSubs[c] \notin subs'
  BY StopEffect
<1>3. EntryOwned'
  <2>1. ASSUME NEW d \in Clients, audioSubs'[d] # NoSub
        PROVE  /\ audioSubs'[d] \in 1..Len(pump')
               /\ pump'[audioSubs'[d]].client = d /\ pump'[audioSubs'[d]].at # "done"
    BY <1>1, <1>2, <2>1 DEF Aware, EntryOwned
  <2>2. ASSUME NEW s \in subs' PROVE audioSubs'[pump'[s].client] = s
    <3>1. s \in subs /\ s \in 1..Len(pump) /\ pump[s].client \in Clients /\ s # NoSub
      BY <1>2, <2>2, PumpsTyped DEF LaneTypeOK, NoSub
    <3>2. audioSubs[pump[s].client] = s
      BY <3>1 DEF Aware, EntryOwned
    <3>3. pump[s].client # c
      BY <1>2, <2>2, <3>1, <3>2
    <3> QED
      BY <1>1, <1>2, <3>1, <3>2, <3>3
  <2> QED
    BY <2>1, <2>2 DEF EntryOwned
<1>4. HandlerHolds'
  <2>1. CASE handler' = handler
    <3>1. ASSUME NEW s \in 1..Len(pump), pump'[s].at = "none" PROVE handler # NoCommand /\ handler.sub = s
      BY <1>1, <3>1 DEF Aware, HandlerHolds
    <3>2. ASSUME handler # NoCommand, handler.sub # NoSub
          PROVE  /\ handler.on /\ handler.sub \in 1..Len(pump)
                 /\ pump'[handler.sub] = [client |-> handler.client, at |-> "none"]
                 /\ audioSubs'[handler.client] \in {NoSub, handler.sub}
      <4>1. handler.client \in Clients
        BY <3>2 DEF LaneTypeOK, Command
      <4>2. /\ handler.on /\ handler.sub \in 1..Len(pump)
            /\ pump[handler.sub] = [client |-> handler.client, at |-> "none"]
            /\ audioSubs[handler.client] \in {NoSub, handler.sub}
        BY <3>2 DEF Aware, HandlerHolds
      <4> QED
        BY <1>1, <1>2, <4>1, <4>2
    <3> QED
      BY <1>1, <2>1, <3>1, <3>2 DEF HandlerHolds
  <2>2. CASE handler' = NoCommand /\ \A s \in 1..Len(pump) : pump[s].at # "none"
    BY <1>1, <2>2 DEF HandlerHolds
  <2> QED
    BY <2>1, <2>2
<1>5. \A d \in Clients : /\ Unheard(d) => Unheard(d)'
                         /\ d # c => (Leaving(d) => Leaving(d)')
  BY <1>1, <1>2 DEF Unheard, Leaving
<1>6. ASSUME told[c] = "on" PROVE Unheard(c)'
  <2>1. CASE audioSubs[c] = NoSub
    BY <1>5, <1>6, <2>1 DEF Aware, ToldOrPending
  <2>2. CASE audioSubs[c] # NoSub
    <3> DEFINE s == audioSubs[c]
    <3>1. s \in 1..Len(pump) /\ pump[s].client = c /\ pump[s].at # "done"
      BY <2>2 DEF Aware, EntryOwned
    <3>2. CASE pump[s].at = "none"
      BY <1>5, <1>6, <2>2, <3>2 DEF Aware, ToldOrPending
    <3>3. CASE pump[s].at = "relay"
      BY <1>1, <1>2, <2>2, <3>1, <3>3 DEF Unheard
    <3>4. pump[s].at # "stop"
      BY <1>6, <2>2 DEF Aware, ToldOrPending
    <3>5. pump[s].at \in {"none", "relay", "stop", "done"}
      BY <3>1, PumpsTyped DEF LaneTypeOK, Goroutine
    <3> QED
      BY <3>1, <3>2, <3>3, <3>4, <3>5
  <2> QED
    BY <2>1, <2>2
<1>7. ASSUME NEW d \in Clients, d # c, audioSubs[d] # NoSub
      PROVE  pump'[audioSubs[d]] = pump[audioSubs[d]]
  BY <1>1, <1>7 DEF Aware, EntryOwned
<1>8. ToldOrPending'
  BY <1>2, <1>5, <1>6, <1>7 DEF Aware, ToldOrPending
<1> QED
  BY <1>3, <1>4, <1>8 DEF Aware

\* handleAudio returns at once, or makes a subscription whose pump it has yet to
\* start.
LEMMA OnAware ==
  ASSUME LaneTypeOK, Aware, NEW opens \in BOOLEAN, HandleOn(opens) PROVE Aware'
<1>1. handler # NoCommand /\ handler \in Command /\ handler.client \in Clients
      /\ handler.sub = NoSub /\ handler.on
  BY DEF HandleOn, LaneTypeOK, Command
<1>2. \A s \in 1..Len(pump) : pump[s].at # "none"
  BY <1>1 DEF Aware, HandlerHolds, NoSub
<1>3. CASE audioSubs[handler.client] # NoSub
  <2>1. UNCHANGED <<audioSubs, pump, told, subs>> /\ handler' = NoCommand
    BY <1>3 DEF HandleOn, pipelineVars
  <2>2. EntryOwned' /\ HandlerHolds'
    BY <1>2, <2>1 DEF Aware, EntryOwned, HandlerHolds
  <2>3. \A d \in Clients : (Unheard(d) => Unheard(d)') /\ (Leaving(d) => Leaving(d)')
    BY <2>1 DEF Unheard, Leaving
  <2>4. ToldOrPending'
    BY <2>1, <2>3 DEF Aware, ToldOrPending
  <2> QED
    BY <2>2, <2>4 DEF Aware
<1>4. CASE audioSubs[handler.client] = NoSub
  <2> DEFINE s == Len(chan) + 1
  <2>0. PICK c \in Clients : c = handler.client
    BY <1>1
  <2> DEFINE g == [client |-> c, at |-> "none"]
  <2>1. /\ Subscribe(s, opens)
        /\ audioSubs' = [audioSubs EXCEPT ![c] = s]
        /\ handler' = [handler EXCEPT !.sub = s]
        /\ pump' = Append(pump, g)
        /\ told' = told
    BY <1>4, <2>0 DEF HandleOn
  <2>2. s = Len(pump) + 1 /\ s \in Nat /\ s # NoSub /\ Len(pump) \in Nat
    BY DEF LaneTypeOK, NoSub
  <2>3. subs' \subseteq subs \cup {s}
    BY <2>1 DEF Subscribe
  <2>4. g \in Goroutine /\ g.client = c /\ g.at = "none"
    BY DEF Goroutine
  <2>5. handler'.client = c /\ handler'.sub = s /\ handler'.on
    BY <1>1, <2>0, <2>1 DEF Command
  <2>6. audioSubs'[c] = s
        /\ \A d \in Clients : d # c => audioSubs'[d] = audioSubs[d]
    BY <2>1 DEF LaneTypeOK
  <2> HIDE DEF s, g
  <2>7. Len(pump') = Len(pump) + 1 /\ pump'[s] = g
        /\ \A r \in 1..Len(pump) : pump'[r] = pump[r]
    BY <2>1, <2>2, <2>4 DEF LaneTypeOK
  <2>8. s \in 1..Len(pump') /\ \A r \in 1..Len(pump') : r # s => r \in 1..Len(pump)
    BY <2>2, <2>7
  <2>9. \A r \in 1..Len(pump) : r \in 1..Len(pump') /\ r # s
    BY <2>2, <2>7
  <2>10. EntryOwned'
    <3>1. ASSUME NEW d \in Clients, audioSubs'[d] # NoSub
          PROVE  /\ audioSubs'[d] \in 1..Len(pump')
                 /\ pump'[audioSubs'[d]].client = d
                 /\ pump'[audioSubs'[d]].at # "done"
      BY <2>4, <2>6, <2>7, <2>8, <2>9, <3>1 DEF Aware, EntryOwned
    <3>2. ASSUME NEW r \in subs' PROVE audioSubs'[pump'[r].client] = r
      <4>1. CASE r = s
        BY <2>4, <2>6, <2>7, <4>1
      <4>2. CASE r # s
        <5>1. r \in subs /\ r \in 1..Len(pump) /\ pump[r].client \in Clients
          BY <2>3, <3>2, <4>2, PumpsTyped DEF LaneTypeOK
        <5>2. audioSubs[pump[r].client] = r /\ r # NoSub
          BY <5>1 DEF Aware, EntryOwned, NoSub
        <5>3. pump[r].client # c
          BY <1>4, <2>0, <5>2
        <5> QED
          BY <2>6, <2>7, <5>1, <5>2, <5>3
      <4> QED
        BY <4>1, <4>2
    <3> QED
      BY <3>1, <3>2 DEF EntryOwned
  <2>11. HandlerHolds'
    <3>1. \A r \in 1..Len(pump') : pump'[r].at = "none" => r = s
      BY <1>2, <2>7, <2>8
    <3>2. handler' # NoCommand
      <4>1. \A h \in Command : h # NoCommand
        BY DEF Command, NoCommand
      <4>2. handler' \in Command
        BY <1>1, <2>1, <2>2 DEF Command
      <4> QED
        BY <4>1, <4>2
    <3>3. pump'[handler'.sub] = [client |-> handler'.client, at |-> "none"]
      BY <2>5, <2>7 DEF g
    <3> QED
      BY <2>2, <2>5, <2>6, <2>8, <3>1, <3>2, <3>3 DEF HandlerHolds
  <2>12. \A d \in Clients : (Unheard(d) => Unheard(d)') /\ (Leaving(d) => Leaving(d)')
    BY <2>3, <2>7, <2>9 DEF Unheard, Leaving
  <2>13. ASSUME NEW d \in Clients, d # c, audioSubs[d] # NoSub
         PROVE  pump'[audioSubs[d]] = pump[audioSubs[d]]
    BY <2>7, <2>13 DEF Aware, EntryOwned
  <2>14. ToldOrPending'
    <3>0. audioSubs[c] = NoSub
      BY <1>4, <2>0
    <3>1. told[c] = "on" => Unheard(c)'
      BY <2>6, <2>12, <3>0 DEF Aware, ToldOrPending
    <3>2. pump'[audioSubs'[c]].at = "none" /\ audioSubs'[c] # NoSub
      BY <2>2, <2>4, <2>6, <2>7
    <3> DEFINE Right(d) == /\ told[d] = "on" /\ audioSubs[d] = NoSub => Unheard(d)
                           /\ audioSubs[d] # NoSub =>
                                LET at == pump[audioSubs[d]].at IN
                                /\ told[d] = "on" /\ at = "none" => Unheard(d)
                                /\ at = "stop" => told[d] # "on"
                                /\ at = "relay" /\ told[d] # "on" => Leaving(d)
    <3>3. Right(c)'
      BY <2>1, <3>1, <3>2
    <3>4. ASSUME NEW d \in Clients, d # c PROVE Right(d)'
      BY <2>1, <2>6, <2>12, <2>13, <3>4 DEF Aware, ToldOrPending
    <3> QED
      BY <3>3, <3>4 DEF ToldOrPending
  <2> QED
    BY <2>10, <2>11, <2>14 DEF Aware
<1> QED
  BY <1>3, <1>4

\* handleAudio tells the client "on" and starts the pump of the subscription it
\* holds, which may have lost its place in the map meanwhile.
LEMMA StartedAware ==
  ASSUME LaneTypeOK, Aware, HandleStarted PROVE Aware'
<1>1. PICK c \in Clients, s \in 1..Len(pump) : c = handler.client /\ s = handler.sub
  BY DEF HandleStarted, Aware, HandlerHolds, LaneTypeOK, Command
<1>2. /\ handler # NoCommand /\ s # NoSub
      /\ pump[s] = [client |-> c, at |-> "none"]
      /\ audioSubs[c] \in {NoSub, s}
  BY <1>1 DEF HandleStarted, Aware, HandlerHolds
<1>3. /\ told' = [told EXCEPT ![c] = "on"] /\ handler' = NoCommand
      /\ UNCHANGED <<audioSubs, subs>>
      /\ pump' = [pump EXCEPT ![s].at = "relay"]
  BY <1>1 DEF HandleStarted, Tell, pipelineVars
<1>4. \A r \in 1..Len(pump) : pump[r].at = "none" => r = s
  BY <1>1 DEF Aware, HandlerHolds
<1>5. pump[s].client = c /\ pump[s].at = "none"
  BY <1>2
<1>6. /\ Len(pump') = Len(pump)
      /\ pump'[s].client = c /\ pump'[s].at = "relay"
      /\ \A r \in 1..Len(pump) : r # s => pump'[r] = pump[r]
      /\ \A r \in 1..Len(pump) : pump'[r].client = pump[r].client
  BY <1>3, <1>5, PumpMoves DEF LaneTypeOK
<1>7. told'[c] = "on" /\ \A d \in Clients : d # c => told'[d] = told[d]
  BY <1>3 DEF LaneTypeOK
<1>8. EntryOwned'
  <2>1. \A r \in subs : pump'[r].client = pump[r].client
    BY <1>6 DEF LaneTypeOK
  <2> QED
    BY <1>3, <1>5, <1>6, <2>1 DEF Aware, EntryOwned
<1>9. HandlerHolds'
  BY <1>3, <1>4, <1>6 DEF HandlerHolds
<1>10. \A d \in Clients : (Unheard(d) => Unheard(d)') /\ (Leaving(d) => Leaving(d)')
  BY <1>3, <1>5, <1>6 DEF Unheard, Leaving
<1>11. ASSUME NEW d \in Clients, d # c, audioSubs[d] # NoSub
       PROVE  pump'[audioSubs[d]] = pump[audioSubs[d]]
  BY <1>5, <1>6, <1>11 DEF Aware, EntryOwned
<1>12. audioSubs[c] = NoSub => Unheard(c)'
  <2>1. audioSubs[c] = NoSub => s \notin subs
    BY <1>2, <1>5 DEF Aware, EntryOwned
  <2> QED
    BY <1>3, <1>6, <2>1 DEF Unheard
<1>13. ToldOrPending'
  <2> DEFINE Right(d) == /\ told[d] = "on" /\ audioSubs[d] = NoSub => Unheard(d)
                         /\ audioSubs[d] # NoSub =>
                              LET at == pump[audioSubs[d]].at IN
                              /\ told[d] = "on" /\ at = "none" => Unheard(d)
                              /\ at = "stop" => told[d] # "on"
                              /\ at = "relay" /\ told[d] # "on" => Leaving(d)
  <2>1. Right(c)'
    BY <1>2, <1>3, <1>6, <1>7, <1>12
  <2>2. ASSUME NEW d \in Clients, d # c PROVE Right(d)'
    BY <1>3, <1>7, <1>10, <1>11, <2>2 DEF Aware, ToldOrPending
  <2> QED
    BY <2>1, <2>2 DEF ToldOrPending
<1> QED
  BY <1>8, <1>9, <1>13 DEF Aware

\* A pump whose channel is closed and drained tells its client "off".
LEMMA EndsAware ==
  ASSUME LaneTypeOK, Aware, NEW s \in 1..Len(pump), PumpEnds(s) PROVE Aware'
<1>1. PICK c \in Clients : c = pump[s].client
  BY PumpsTyped DEF LaneTypeOK
<1>2. /\ told' = [told EXCEPT ![c] = "off"] /\ pump[s].at = "relay"
      /\ UNCHANGED <<audioSubs, subs, handler>>
      /\ pump' = [pump EXCEPT ![s].at = "stop"]
  BY <1>1 DEF PumpEnds, Tell, pipelineVars
<1>3. /\ Len(pump') = Len(pump)
      /\ pump'[s].client = c /\ pump'[s].at = "stop"
      /\ \A r \in 1..Len(pump) : r # s => pump'[r] = pump[r]
      /\ \A r \in 1..Len(pump) : pump'[r].client = pump[r].client
  BY <1>1, <1>2, PumpMoves DEF LaneTypeOK
<1>4. told'[c] = "off" /\ \A d \in Clients : d # c => told'[d] = told[d]
  BY <1>2 DEF LaneTypeOK
<1>5. EntryOwned'
  <2>1. \A r \in subs : pump'[r].client = pump[r].client
    BY <1>3 DEF LaneTypeOK
  <2> QED
    BY <1>2, <1>3, <2>1 DEF Aware, EntryOwned
<1>6. HandlerHolds'
  <2>1. ASSUME handler # NoCommand, handler.sub # NoSub
        PROVE  handler.sub \in 1..Len(pump) /\ pump'[handler.sub] = pump[handler.sub]
    <3>1. handler.sub \in 1..Len(pump)
          /\ pump[handler.sub] = [client |-> handler.client, at |-> "none"]
      BY <2>1 DEF Aware, HandlerHolds
    <3> QED
      BY <1>2, <1>3, <3>1
  <2> QED
    BY <1>2, <1>3, <2>1 DEF Aware, HandlerHolds
<1>7. \A d \in Clients : /\ d # c => (Unheard(d) => Unheard(d)')
                         /\ Leaving(d) => Leaving(d)'
  BY <1>1, <1>2, <1>3 DEF Unheard, Leaving
<1>8. Leaving(c)'
  BY <1>3 DEF Leaving
<1>9. ASSUME NEW d \in Clients, d # c, audioSubs[d] # NoSub
      PROVE  pump'[audioSubs[d]] = pump[audioSubs[d]]
  BY <1>1, <1>3, <1>9 DEF Aware, EntryOwned
<1>10. ToldOrPending'
  <2> DEFINE Right(d) == /\ told[d] = "on" /\ audioSubs[d] = NoSub => Unheard(d)
                         /\ audioSubs[d] # NoSub =>
                              LET at == pump[audioSubs[d]].at IN
                              /\ told[d] = "on" /\ at = "none" => Unheard(d)
                              /\ at = "stop" => told[d] # "on"
                              /\ at = "relay" /\ told[d] # "on" => Leaving(d)
  <2>1. Right(c)'
    BY <1>4, <1>8
  <2>2. ASSUME NEW d \in Clients, d # c PROVE Right(d)'
    BY <1>2, <1>4, <1>7, <1>9, <2>2 DEF Aware, ToldOrPending
  <2> QED
    BY <2>1, <2>2 DEF ToldOrPending
<1> QED
  BY <1>5, <1>6, <1>10 DEF Aware

\* Every step keeps the clients aware.
LEMMA AwareStep ==
  ASSUME LaneTypeOK, Aware, [Next]_vars PROVE Aware'
<1>1. ASSUME \/ IdleStop
             \/ \E r \in sources : SourceEnds(r)
             \/ \E r \in readers : ReadChunk(r) \/ ReadEnds(r)
             \/ \E s \in DOMAIN pump : PumpChunk(s)
             \/ \E c \in Clients : SocketCloses(c)
             \/ UNCHANGED vars
      PROVE  Aware'
  <2>1. UNCHANGED <<audioSubs, handler, pump, told>> /\ subs' \subseteq subs
    BY <1>1 DEF IdleStop, SourceEnds, ReadChunk, ReadEnds, PumpChunk, SocketCloses, vars,
       controllerVars, pipelineVars
  <2> QED
    BY <2>1, SubsShrink
<1>2. CASE HandleOff
  <2>1. handler # NoCommand /\ ~handler.on /\ handler.client \in Clients
    BY <1>2 DEF HandleOff, LaneTypeOK, Command
  <2>2. \A s \in 1..Len(pump) : pump[s].at # "none"
    BY <2>1 DEF Aware, HandlerHolds, NoSub
  <2> QED
    BY <1>2, <2>1, <2>2, StopAware DEF HandleOff
<1>3. ASSUME NEW s \in DOMAIN pump, PumpStops(s) PROVE Aware'
  <2>1. s \in 1..Len(pump) /\ pump[s].client \in Clients
    BY PumpsTyped DEF LaneTypeOK
  <2>2. PICK c \in Clients : c = pump[s].client
    BY <2>1
  <2>3. /\ StopAudio(c) /\ told' = told /\ handler' = handler
        /\ pump[s].at = "stop" /\ pump' = [pump EXCEPT ![s].at = "done"]
    BY <1>3, <2>2 DEF PumpStops
  <2> QED
    BY <2>1, <2>2, <2>3, StopAware
<1>4. ASSUME NEW c \in Clients, ClientDisconnected(c) PROVE Aware'
  BY <1>4, StopAware DEF ClientDisconnected
<1>5. ASSUME NEW s \in DOMAIN pump, PumpEnds(s) PROVE Aware'
  BY <1>5, EndsAware, PumpsTyped DEF LaneTypeOK
<1> QED
  BY <1>1, <1>2, <1>3, <1>4, <1>5, TakeAware, OnAware, StartedAware DEF Next

\* The lane keeps its inductive invariant.
THEOREM LaneInvariant == Spec => []LaneInv
<1>1. Init => LaneInv
  <2> SUFFICES ASSUME Init PROVE LaneInv
    OBVIOUS
  <2>1. pump = <<>> /\ chan = <<>>
    BY DEF Init
  <2>2. pump \in Seq(Goroutine) /\ Len(pump) = 0
    BY <2>1
  <2>3. chan \in Seq(Seq(Nat)) /\ Len(chan) = 0
    BY <2>1
  <2>4. LaneTypeOK
    BY <2>2, <2>3 DEF Init, LaneTypeOK, NoSub
  <2> QED
    BY <2>2, <2>4 DEF Init, LaneInv, CaptureAsNeeded, EntryOwned, HandlerHolds, ToldOrPending
<1>2. LaneInv /\ [Next]_vars => LaneInv'
  BY TypeStep, CaptureStep, AwareStep DEF LaneInv, Aware
<1> QED
  BY <1>1, <1>2, PTL DEF Spec

\* client_audio.go: through quick toggles, disconnections and lost captures, once
\* the goroutines have come to rest a client was last told "on" exactly if it has
\* a subscription, and that subscription is live.
THEOREM ClientsKnow == Spec => []ClientKnows
<1>1. LaneInv => ClientKnows
  <2> SUFFICES ASSUME LaneInv, AtRest, NEW c \in Clients
               PROVE  /\ told[c] = "on" <=> audioSubs[c] # NoSub
                      /\ audioSubs[c] # NoSub => audioSubs[c] \in subs
    BY DEF ClientKnows
  <2>1. \A s \in 1..Len(pump) : pump[s].at = "done" \/ (pump[s].at = "relay" /\ s \in subs)
    BY PumpsTyped DEF AtRest, LaneInv, LaneTypeOK
  <2>2. ~Unheard(c) /\ ~Leaving(c)
    BY <2>1 DEF Unheard, Leaving
  <2> QED
    BY <2>1, <2>2 DEF LaneInv, EntryOwned, ToldOrPending
<1> QED
  BY <1>1, LaneInvariant, PTL
=============================================================================
