----------------------------- MODULE AudioLane ------------------------------
(***************************************************************************)
(* The audio lane: AudioPipeline (backend/internal/media/audio.go), which  *)
(* shares one PCM capture between its subscriptions, and the Controller's  *)
(* use of it (backend/internal/browser/client_audio.go): the map from      *)
(* clients to subscriptions and one pump goroutine per subscription.       *)
(*                                                                         *)
(* An action is a critical section of AudioPipeline.mu or of mediaMu.      *)
(* handleAudio holds both while the capture opens, so it subscribes in one *)
(* step.  Commands run on the controller goroutine, a disconnection on the *)
(* client's read goroutine.  A client that toggles audio, leaves, or loses *)
(* the capture meets pumps and read loops that are still finishing.        *)
(***************************************************************************)
EXTENDS Naturals, Sequences

CONSTANTS
  Clients,      \* websocket clients
  QueueCap,     \* queueCap
  MaxSubs,      \* bound: subscriptions created
  MaxChunks,    \* bound: chunks read
  MaxCommands   \* bound: audio commands handled

ASSUME AudioAssumption == QueueCap \in Nat \ {0}

NoSub == 0
NoCommand == [at |-> "idle"]
SubIDs == 1..MaxSubs

VARIABLES
  conn,       \* client -> "open", "closed" (done closed), "gone" (ClientDisconnected ran)
  audioSubs,  \* Controller.audioSubs: client -> subscription or NoSub
  handler,    \* handleAudio on the controller goroutine: NoCommand, or its next step
  pump,       \* subscription -> [client, at]: its pumpAudio goroutine
  told,       \* client -> the last audio-config sent to it
  subs,       \* AudioPipeline.subs; the channel of any other subscription is closed
  chan,       \* subscription -> chunks in its channel
  running, runID, seq,
  capture,    \* the run that AudioPipeline.capture belongs to, or 0
  sources,    \* runs whose PCM source has not ended
  readers,    \* runs whose readLoop is alive
  stopTimer,  \* an idle callback is armed, or has fired and waits for the mutex
  commands    \* what MaxCommands counts

controllerVars == <<conn, audioSubs, handler, pump, told, commands>>
pipelineVars == <<subs, chan, running, runID, seq, capture, sources, readers, stopTimer>>
vars == <<controllerVars, pipelineVars>>

Init ==
  /\ conn = [c \in Clients |-> "open"]
  /\ audioSubs = [c \in Clients |-> NoSub]
  /\ handler = NoCommand
  /\ pump = <<>>
  /\ told = [c \in Clients |-> "none"]
  /\ subs = {}
  /\ chan = <<>>
  /\ running = FALSE
  /\ runID = 0 /\ seq = 0 /\ capture = 0
  /\ sources = {} /\ readers = {}
  /\ stopTimer = FALSE
  /\ commands = 0

----------------------------------------------------------------------------
(* AudioPipeline *)

\* Subscribe of a new subscription: a timer that has fired cannot be stopped.
\* If it finds the capture stopped, startLocked opens it, or closes every
\* subscription.
Subscribe(s, opens) ==
  /\ chan' = Append(chan, <<>>)
  /\ stopTimer' \in {stopTimer, FALSE}
  /\ IF running
       THEN /\ subs' = subs \cup {s}
            /\ UNCHANGED <<running, runID, capture, sources, readers>>
       ELSE /\ subs' = IF opens THEN subs \cup {s} ELSE {}
            /\ running' = opens
            /\ runID' = IF opens THEN runID + 1 ELSE runID
            /\ capture' = IF opens THEN runID + 1 ELSE capture
            /\ sources' = IF opens THEN sources \cup {runID + 1} ELSE sources
            /\ readers' = IF opens THEN readers \cup {runID + 1} ELSE readers
  /\ UNCHANGED seq

\* Bug: the timer is armed by what was there before the subscription left.
CloseLooksFirst(s) ==
  /\ subs' = subs \ {s}
  /\ stopTimer' = IF s \in subs /\ subs = {} /\ running THEN TRUE ELSE stopTimer
  /\ UNCHANGED <<chan, running, runID, seq, capture, sources, readers>>

\* AudioSubscription.Close, once; the last one arms the idle timer.
Close(s) ==
  /\ subs' = subs \ {s}
  /\ stopTimer' = IF s \in subs /\ subs' = {} /\ running THEN TRUE ELSE stopTimer
  /\ UNCHANGED <<chan, running, runID, seq, capture, sources, readers>>

\* The timer's callback.
IdleStop ==
  /\ stopTimer
  /\ stopTimer' = FALSE
  /\ IF subs = {} /\ running
       THEN /\ runID' = runID + 1
            /\ running' = FALSE
            /\ sources' = sources \ {capture}
            /\ capture' = 0
       ELSE UNCHANGED <<runID, running, sources, capture>>
  /\ UNCHANGED <<controllerVars, subs, chan, seq, readers>>

\* The tab capture closes the source by itself.
SourceEnds(r) ==
  /\ r \in sources
  /\ sources' = sources \ {r}
  /\ UNCHANGED <<controllerVars, subs, chan, running, runID, seq, capture, readers,
                 stopTimer>>

\* A full channel makes room by losing its oldest chunk.
Offer(q, n) == Append(IF Len(q) < QueueCap THEN q ELSE Tail(q), n)

\* readLoop of run r has read a chunk; it ends if it is not the current run.
ReadChunk(r) ==
  /\ r \in readers \cap sources
  /\ IF r = runID /\ running
       THEN /\ seq < MaxChunks
            /\ seq' = seq + 1
            /\ chan' = [s \in DOMAIN chan |-> IF s \in subs THEN Offer(chan[s], seq + 1)
                                              ELSE chan[s]]
            /\ UNCHANGED readers
       ELSE /\ readers' = readers \ {r}
            /\ UNCHANGED <<seq, chan>>
  /\ UNCHANGED <<controllerVars, subs, running, runID, capture, sources, stopTimer>>

\* readLoop after its source has ended: the current run stops, and with it every
\* subscription.
ReadEnds(r) ==
  /\ r \in readers \ sources
  /\ readers' = readers \ {r}
  /\ IF r = runID
       THEN running' = FALSE /\ capture' = 0 /\ subs' = {}
       ELSE UNCHANGED <<running, capture, subs>>
  /\ UNCHANGED <<controllerVars, chan, runID, seq, sources, stopTimer>>

----------------------------------------------------------------------------
(* The Controller *)

\* runController takes a command of a client that is not closed.
TakeCommand(c, on) ==
  /\ handler = NoCommand
  /\ conn[c] = "open"
  /\ commands < MaxCommands
  /\ commands' = commands + 1
  /\ handler' = [client |-> c, on |-> on, sub |-> NoSub]
  /\ UNCHANGED <<conn, audioSubs, pump, told, pipelineVars>>

\* stopAudio, of the handler and of a pump that ends.
StopAudio(c) ==
  /\ audioSubs' = [audioSubs EXCEPT ![c] = NoSub]
  /\ IF audioSubs[c] = NoSub THEN UNCHANGED pipelineVars ELSE Close(audioSubs[c])

HandleOff ==
  /\ handler # NoCommand /\ ~handler.on
  /\ StopAudio(handler.client)
  /\ handler' = NoCommand
  /\ UNCHANGED <<conn, pump, told, commands>>

\* handleAudio: the subscription enters the map ...
HandleOn(opens) ==
  /\ handler # NoCommand /\ handler.on /\ handler.sub = NoSub
  /\ IF audioSubs[handler.client] # NoSub
       THEN /\ handler' = NoCommand
            /\ UNCHANGED <<audioSubs, pump, pipelineVars>>
       ELSE LET s == Len(chan) + 1 IN
            /\ s \in SubIDs
            /\ Subscribe(s, opens)
            /\ audioSubs' = [audioSubs EXCEPT ![handler.client] = s]
            /\ handler' = [handler EXCEPT !.sub = s]
            /\ pump' = Append(pump, [client |-> handler.client, at |-> "none"])
  /\ UNCHANGED <<conn, told, commands>>

Tell(c, state) == told' = [told EXCEPT ![c] = state]

\* ... then the client is told, and the pump started.
HandleStarted ==
  /\ handler # NoCommand /\ handler.sub # NoSub
  /\ Tell(handler.client, "on")
  /\ pump' = [pump EXCEPT ![handler.sub].at = "relay"]
  /\ handler' = NoCommand
  /\ UNCHANGED <<conn, audioSubs, commands, pipelineVars>>

\* pumpAudio relays chunks; a closed channel is drained first.
PumpChunk(s) ==
  /\ pump[s].at = "relay" /\ chan[s] # <<>>
  /\ chan' = [chan EXCEPT ![s] = Tail(@)]
  /\ UNCHANGED <<controllerVars, subs, running, runID, seq, capture, sources, readers,
                 stopTimer>>

PumpEnds(s) ==
  /\ pump[s].at = "relay" /\ chan[s] = <<>> /\ s \notin subs
  /\ Tell(pump[s].client, "off")
  /\ pump' = [pump EXCEPT ![s].at = "stop"]
  /\ UNCHANGED <<conn, audioSubs, handler, commands, pipelineVars>>

\* Bug: the pump leaves its subscription in the map.
PumpStopsSilently(s) ==
  /\ pump[s].at = "stop"
  /\ pump' = [pump EXCEPT ![s].at = "done"]
  /\ UNCHANGED <<conn, handler, told, commands, audioSubs, pipelineVars>>

\* Its last call is stopAudio, for whatever subscription the client has by now.
PumpStops(s) ==
  /\ pump[s].at = "stop"
  /\ StopAudio(pump[s].client)
  /\ pump' = [pump EXCEPT ![s].at = "done"]
  /\ UNCHANGED <<conn, handler, told, commands>>

\* The socket breaks: the hub closes done, then calls ClientDisconnected.
SocketCloses(c) ==
  /\ conn[c] = "open"
  /\ conn' = [conn EXCEPT ![c] = "closed"]
  /\ UNCHANGED <<audioSubs, handler, pump, told, commands, pipelineVars>>

ClientDisconnected(c) ==
  /\ conn[c] = "closed"
  /\ conn' = [conn EXCEPT ![c] = "gone"]
  /\ StopAudio(c)
  /\ UNCHANGED <<handler, pump, told, commands>>

Next ==
  \/ IdleStop
  \/ \E r \in sources : SourceEnds(r)
  \/ \E r \in readers : ReadChunk(r) \/ ReadEnds(r)
  \/ \E c \in Clients, on \in BOOLEAN : TakeCommand(c, on)
  \/ HandleOff
  \/ \E opens \in BOOLEAN : HandleOn(opens)
  \/ HandleStarted
  \/ \E s \in DOMAIN pump : PumpChunk(s) \/ PumpEnds(s) \/ PumpStops(s)
  \/ \E c \in Clients : SocketCloses(c) \/ ClientDisconnected(c)

\* Timers fire and goroutines run; a source whose pipe is closed is seen to end.
Fairness ==
  /\ WF_vars(IdleStop)
  /\ WF_vars(\E r \in readers : ReadEnds(r))
  /\ WF_vars(HandleOff) /\ WF_vars(HandleStarted)
  /\ WF_vars(\E opens \in BOOLEAN : HandleOn(opens))
  /\ \A s \in SubIDs :
       WF_vars(s \in DOMAIN pump /\ (PumpChunk(s) \/ PumpEnds(s) \/ PumpStops(s)))
  /\ \A c \in Clients : WF_vars(ClientDisconnected(c))

Spec == Init /\ [][Next]_vars /\ Fairness

----------------------------------------------------------------------------
(* Properties *)

\* The capture runs while somebody is subscribed (one that has ended took all its
\* subscriptions with it), and for nobody only until a pending timer stops it,
\* however Subscribe, Close, a failing source and late callbacks interleave.
CaptureAsNeeded ==
  /\ subs # {} => running
  /\ running /\ subs = {} => stopTimer

\* When the goroutines have come to rest, a client was last told "on" exactly if
\* it has a subscription, and that subscription is live: quick toggles, after
\* which an old pump closes the new subscription, never leave it silent and
\* unaware.
AtRest ==
  /\ handler = NoCommand
  /\ \A s \in DOMAIN pump : pump[s].at = "done" \/ (pump[s].at = "relay" /\ s \in subs)
ClientKnows ==
  AtRest => \A c \in Clients : conn[c] = "open" =>
              /\ told[c] = "on" <=> audioSubs[c] # NoSub
              /\ audioSubs[c] # NoSub => audioSubs[c] \in subs

----------------------------------------------------------------------------
(* What the two rest on: the inductive invariant of AudioLaneProofs *)

Goroutine == [client : Clients, at : {"none", "relay", "stop", "done"}]
Command == [client : Clients, on : BOOLEAN, sub : Nat]

LaneTypeOK ==
  /\ audioSubs \in [Clients -> Nat]
  /\ handler = NoCommand \/ handler \in Command
  /\ pump \in Seq(Goroutine)
  /\ told \in [Clients -> {"none", "on", "off"}]
  /\ chan \in Seq(Seq(Nat)) /\ Len(chan) = Len(pump)
  /\ subs \subseteq 1..Len(pump)
  /\ running \in BOOLEAN /\ stopTimer \in BOOLEAN
  /\ seq \in Nat

\* A client's entry is a subscription of its own, whose pump has yet to run
\* stopAudio, and every live subscription is its client's entry.
EntryOwned ==
  /\ \A c \in Clients : audioSubs[c] # NoSub =>
       /\ audioSubs[c] \in 1..Len(pump)
       /\ pump[audioSubs[c]].client = c /\ pump[audioSubs[c]].at # "done"
  /\ \A s \in subs : audioSubs[pump[s].client] = s

\* Only the handler has a pump that is not started, and no later subscription
\* can have taken the place of the one it holds.
HandlerHolds ==
  /\ handler # NoCommand /\ handler.sub # NoSub =>
       /\ handler.on /\ handler.sub \in 1..Len(pump)
       /\ pump[handler.sub] = [client |-> handler.client, at |-> "none"]
       /\ audioSubs[handler.client] \in {NoSub, handler.sub}
  /\ \A s \in 1..Len(pump) : pump[s].at = "none" => handler # NoCommand /\ handler.sub = s

\* A pump of c that is about to tell it "off", and one that has.
Unheard(c) ==
  \E s \in 1..Len(pump) : pump[s].client = c /\ pump[s].at = "relay" /\ s \notin subs
Leaving(c) ==
  \E s \in 1..Len(pump) : pump[s].client = c /\ pump[s].at = "stop"

\* What a client was told is true of its entry, or a pump is on its way to put
\* one of the two right.
ToldOrPending ==
  \A c \in Clients :
    /\ told[c] = "on" /\ audioSubs[c] = NoSub => Unheard(c)
    /\ audioSubs[c] # NoSub =>
         LET at == pump[audioSubs[c]].at IN
         /\ told[c] = "on" /\ at = "none" => Unheard(c)
         /\ at = "stop" => told[c] # "on"
         /\ at = "relay" /\ told[c] # "on" => Leaving(c)

LaneInv == LaneTypeOK /\ CaptureAsNeeded /\ EntryOwned /\ HandlerHolds /\ ToldOrPending
=============================================================================
