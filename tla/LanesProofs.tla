----------------------------- MODULE LanesProofs -----------------------------
(***************************************************************************)
(* Proofs about lanes.  Those of one client (ClientLanes), for lanes of    *)
(* any capacity and any number of messages and changes of mode; and those  *)
(* of the input of all clients (InputLanes), for any number of clients,    *)
(* tabs, fingers and buttons and queues of any length.                     *)
(***************************************************************************)
EXTENDS ClientLanes, InputLanes, FiniteSetTheorems, WellFoundedInduction, TLAPS

----------------------------------------------------------------------------
(* Queues *)

\* What is left of a lane after a receive.
LEMMA AfterReceive ==
  ASSUME NEW S, NEW q \in Seq(S), q # <<>>
  PROVE  /\ q[1] = Head(q) /\ q[1] \in S /\ Tail(q) \in Seq(S)
         /\ Len(q) \in Nat \ {0} /\ DOMAIN q = 1..Len(q)
         /\ Len(Tail(q)) = Len(q) - 1 /\ DOMAIN Tail(q) = 1..(Len(q) - 1)
         /\ \A i \in 1..(Len(q) - 1) : Tail(q)[i] = q[i + 1]
         /\ Tail(q) = <<>> <=> Len(q) = 1
<1>1. Len(q) \in Nat /\ Len(q) # 0 /\ DOMAIN q = 1..Len(q) /\ Tail(q) \in Seq(S) /\ Len(Tail(q)) = Len(q) - 1
  OBVIOUS
<1>2. \A i \in 1..(Len(q) - 1) : Tail(q)[i] = q[i + 1]
  OBVIOUS
<1>3. q[1] = Head(q) /\ q[1] \in S
  BY <1>1
<1>4. ASSUME NEW r \in Seq(S) PROVE (r = <<>> <=> Len(r) = 0) /\ DOMAIN r = 1..Len(r)
  OBVIOUS
<1> HIDE DEF Seq
<1>5. Tail(q) = <<>> <=> Len(Tail(q)) = 0
  BY <1>1, <1>4
<1>6. DOMAIN Tail(q) = 1..(Len(q) - 1)
  BY <1>1, <1>4
<1> QED
  BY <1>1, <1>2, <1>3, <1>5, <1>6

\* And after a send.
LEMMA AfterSend ==
  ASSUME NEW S, NEW q \in Seq(S), NEW m \in S
  PROVE  /\ Append(q, m) \in Seq(S) /\ Append(q, m) # <<>>
         /\ Len(q) \in Nat /\ DOMAIN q = 1..Len(q)
         /\ Len(Append(q, m)) = Len(q) + 1 /\ DOMAIN Append(q, m) = 1..(Len(q) + 1)
         /\ Append(q, m)[Len(q) + 1] = m
         /\ \A i \in 1..Len(q) : Append(q, m)[i] = q[i]
         /\ q = <<>> <=> Len(q) = 0
  OBVIOUS

\* The three states of the loop that empties a lane.
LEMMA DrainCases ==
  ASSUME drain \in Drains
  PROVE  \/ drain = NoDrain /\ drain.by = "none"
         \/ drain # NoDrain /\ drain.by = "pause" /\ drain = [by |-> "pause", frame |-> <<>>]
         \/ /\ drain # NoDrain /\ drain.by = "overflow"
            /\ \E m \in VideoMessages : drain.frame[1] = m /\ drain = [by |-> "overflow", frame |-> <<m>>]
<1>1. CASE drain = NoDrain
  BY <1>1 DEF NoDrain
<1>2. CASE drain = [by |-> "pause", frame |-> <<>>]
  BY <1>2 DEF NoDrain
<1>3. ASSUME NEW m \in VideoMessages, drain = [by |-> "overflow", frame |-> <<m>>]
      PROVE  drain # NoDrain /\ drain.by = "overflow" /\ drain.frame[1] = m
  BY <1>3 DEF NoDrain
<1> QED
  BY <1>1, <1>2, <1>3 DEF Drains

\* A message of each kind.
LEMMA MadeMessages ==
  ASSUME mediaEpoch \in Nat, NEW n \in Nat, NEW e \in Nat, NEW idr \in BOOLEAN
  PROVE  /\ Text(n, e) \in TextMessages /\ Text(n, e).epoch = e
         /\ Frame(n, idr) \in VideoMessages /\ Frame(n, idr).epoch = mediaEpoch
         /\ Frame(n, idr).n = n /\ Frame(n, idr).idr = idr
         /\ Chunk(n) \in AudioMessages /\ Chunk(n).epoch = mediaEpoch
  BY DEF Text, Frame, Chunk, TextMessages, VideoMessages, AudioMessages, MessagesOf

\* What is known of a message from its lane.
LEMMA MessageKinds ==
  /\ \A m \in TextMessages : m \in Messages /\ m.kind = "text"
  /\ \A m \in VideoMessages : m \in Messages /\ m.kind = "video"
  /\ \A m \in AudioMessages : m \in Messages /\ m.kind = "audio"
  /\ \A m \in Messages : m.kind \in {"text", "video", "audio"} /\ m.n \in Nat /\ m.idr \in BOOLEAN /\ m.epoch \in Nat
  BY DEF Messages, TextMessages, VideoMessages, AudioMessages, MessagesOf

----------------------------------------------------------------------------
(* Types *)

\* What each producer step does to its lane.
LEMMA EnqueueIs ==
  ASSUME control \in Seq(TextMessages), NEW m \in TextMessages, Enqueue(m)
  PROVE  /\ control' \in Seq(TextMessages)
         /\ \A i \in DOMAIN control' : control'[i] = m \/ (i \in DOMAIN control /\ control'[i] = control[i])
<1>1. CASE control' = control
  BY <1>1
<1>2. CASE control' = Append(control, m)
  <2> DEFINE q == Append(control, m)
  <2>1. /\ q \in Seq(TextMessages) /\ Len(control) \in Nat /\ DOMAIN control = 1..Len(control)
        /\ DOMAIN q = 1..(Len(control) + 1) /\ q[Len(control) + 1] = m
        /\ \A i \in 1..Len(control) : q[i] = control[i]
    BY AfterSend
  <2> HIDE DEF q
  <2>2. control' = q
    BY <1>2 DEF q
  <2>3. \A i \in DOMAIN q : i = Len(control) + 1 \/ i \in 1..Len(control)
    BY <2>1
  <2> QED
    BY <2>1, <2>2, <2>3
<1> QED
  BY <1>1, <1>2 DEF Enqueue

\* One more message on a counter.
LEMMA Counted ==
  ASSUME sent \in SentCounts
  PROVE  /\ [sent EXCEPT !.text = @ + 1] \in SentCounts
         /\ [sent EXCEPT !.video = @ + 1] \in SentCounts
         /\ [sent EXCEPT !.audio = @ + 1] \in SentCounts
         /\ sent.text + 1 \in Nat /\ sent.video + 1 \in Nat /\ sent.audio + 1 \in Nat
         /\ [sent EXCEPT !.text = @ + 1].video = sent.video
         /\ [sent EXCEPT !.audio = @ + 1].video = sent.video
         /\ [sent EXCEPT !.video = @ + 1].video = sent.video + 1
  BY DEF SentCounts

\* A refused frame leaves the lane; an accepted one is its last; a full lane
\* is handed to the loop that empties it.
LEMMA SendVideoIs ==
  ASSUME LanesTypeOK, NEW idr \in BOOLEAN, SendVideo(idr)
  PROVE  LET m == Frame(sent.video + 1, idr) IN
         \/ /\ mediaPaused \/ videoDropping
            /\ video' = video /\ drain' = drain /\ videoDropping' = videoDropping
         \/ /\ ~mediaPaused /\ (videoDropping => idr)
            /\ video' = Append(video, m) /\ drain' = drain /\ videoDropping' = FALSE
         \/ /\ ~mediaPaused
            /\ video' = video /\ drain' = [by |-> "overflow", frame |-> <<m>>]
            /\ videoDropping' \in BOOLEAN
<1> DEFINE m == Frame(sent.video + 1, idr)
<1>1. m.idr = idr
  BY MadeMessages, Counted DEF LanesTypeOK
<1>2. WriteVideo(m)
  BY DEF SendVideo
<1> HIDE DEF m
<1>3. CASE Refused(m)
  BY <1>2, <1>3 DEF WriteVideo, Refused
<1>4. CASE ~Refused(m)
  <2>1. ~mediaPaused /\ (videoDropping => idr) /\ ~(videoDropping /\ ~m.idr)
    BY <1>1, <1>4 DEF Refused
  <2>2. ASSUME videoDropping' = (videoDropping /\ ~m.idr) PROVE videoDropping' = FALSE
    BY <2>1, <2>2, Zenon
  <2>3. /\ videoDropping' = (videoDropping /\ ~m.idr)
        /\ \/ video' = Append(video, m) /\ drain' = drain
           \/ video' = video /\ drain' = [by |-> "overflow", frame |-> <<m>>]
    BY <1>2, <1>4, Zenon DEF WriteVideo, Accept
  <2>4. videoDropping' = FALSE
    BY <2>2, <2>3
  <2> QED
    BY <2>1, <2>3, <2>4, Zenon DEF m
<1> QED
  BY <1>3, <1>4 DEF m

\* A message put on the wire.
LEMMA OnWireIs ==
  ASSUME wire \in WireStates, NEW m \in Messages
  PROVE  /\ OnWire(m) \in WireStates
         /\ m.kind = "text" => /\ OnWire(m).video = wire.video /\ OnWire(m).audio = wire.audio
                               /\ OnWire(m).mode \in {wire.mode, m.epoch}
         /\ m.kind # "text" => OnWire(m).mode = wire.mode /\ OnWire(m).epoch = m.epoch
         /\ m.kind = "video" => OnWire(m).video = m.n
         /\ m.kind = "audio" => OnWire(m).video = wire.video
<1>1. m.kind \in {"text", "video", "audio"} /\ m.n \in Nat /\ m.epoch \in Nat /\ m.idr \in BOOLEAN
  BY MessageKinds
<1>2. CASE m.kind = "text"
  <2> DEFINE e == IF m.epoch > wire.mode THEN m.epoch ELSE wire.mode
  <2>1. OnWire(m) = [wire EXCEPT !.text = m.n, !.mode = e]
    BY <1>2 DEF OnWire, WireStates
  <2>2. e \in Nat /\ e \in {wire.mode, m.epoch}
    BY <1>1 DEF WireStates
  <2> HIDE DEF e
  <2> QED
    BY <1>1, <1>2, <2>1, <2>2 DEF WireStates
<1>3. CASE m.kind = "video"
  <2>1. OnWire(m) = [wire EXCEPT !.video = m.n, !.epoch = m.epoch]
    BY <1>3 DEF OnWire
  <2> QED
    BY <1>1, <1>3, <2>1 DEF WireStates
<1>4. CASE m.kind = "audio"
  <2>1. OnWire(m) = [wire EXCEPT !.audio = m.n, !.epoch = m.epoch]
    BY <1>4 DEF OnWire
  <2> QED
    BY <1>1, <1>4, <2>1 DEF WireStates
<1> QED
  BY <1>1, <1>2, <1>3, <1>4

\* A select takes the first message of one lane, or nothing.
LEMMA SelectIs ==
  ASSUME LanesTypeOK, WriterHolds, SelectControl \/ SelectVideo \/ SelectAny
  PROVE  /\ UNCHANGED <<videoDropping, mediaPaused, mediaEpoch, drain, sent, since, announce, wire>>
         /\ held = <<>> /\ pc \in {"first", "second", "third"}
         /\ \/ /\ held' = <<>> /\ UNCHANGED <<lanes, taken>> /\ pc' \in {"second", "third", "stopped"}
            \/ /\ pc' = "write" /\ control # <<>> /\ held' = <<control[1]>> /\ control' = Tail(control)
               /\ UNCHANGED <<video, audio, taken>>
            \/ /\ pc' = "write" /\ video # <<>> /\ held' = <<video[1]>> /\ video' = Tail(video)
               /\ taken' = [n |-> video[1].n, torn |-> Torn(video[1])] /\ UNCHANGED <<control, audio>>
            \/ /\ pc' = "write" /\ audio # <<>> /\ held' = <<audio[1]>> /\ audio' = Tail(audio)
               /\ UNCHANGED <<control, video, taken>>
<1>1. pc \in {"first", "second", "third"}
  BY DEF SelectControl, SelectVideo, SelectAny
<1>2. held = <<>>
  BY <1>1 DEF WriterHolds
<1>3. UNCHANGED <<videoDropping, mediaPaused, mediaEpoch, drain, sent, since, announce, wire>>
  BY DEF SelectControl, SelectVideo, SelectAny
<1>4. /\ control # <<>> => Head(control) = control[1]
      /\ video # <<>> => Head(video) = video[1]
      /\ audio # <<>> => Head(audio) = audio[1]
  BY AfterReceive DEF LanesTypeOK
<1>5. \/ FromControl \/ FromVideo \/ FromAudio \/ Goto("second") \/ Goto("third") \/ Goto("stopped")
  BY DEF SelectControl, SelectVideo, SelectAny
<1>6. CASE Goto("second") \/ Goto("third") \/ Goto("stopped")
  BY <1>1, <1>2, <1>3, <1>6 DEF Goto, lanes
<1>7. CASE FromControl \/ FromVideo \/ FromAudio
  BY <1>1, <1>2, <1>3, <1>4, <1>7 DEF FromControl, FromVideo, FromAudio, Select
<1> QED
  BY <1>5, <1>6, <1>7

\* A frame that the writer receives.
LEMMA TakenIs ==
  ASSUME NEW m \in VideoMessages, taken' = [n |-> m.n, torn |-> Torn(m)]
  PROVE  taken' \in TakenFrames /\ taken'.n = m.n /\ taken'.torn = Torn(m)
<1>1. Torn(m) \in BOOLEAN
  BY DEF Torn
<1>2. m.n \in Nat
  BY MessageKinds
<1> QED
  BY <1>1, <1>2 DEF TakenFrames

\* The lanes keep messages, whoever sends, receives and empties.
LEMMA TypeStep ==
  ASSUME LanesInv, [Next]_vars
  PROVE  LanesTypeOK' /\ WriterHolds'
<1> USE DEF LanesInv
<1>0. /\ control \in Seq(TextMessages) /\ video \in Seq(VideoMessages) /\ audio \in Seq(AudioMessages)
      /\ mediaPaused \in BOOLEAN /\ videoDropping \in BOOLEAN /\ mediaEpoch \in Nat
      /\ drain \in Drains /\ sent \in SentCounts /\ wire \in WireStates
      /\ since \in Nat /\ taken \in TakenFrames
  BY DEF LanesTypeOK
<1>1. ASSUME UNCHANGED <<pc, held>> PROVE WriterHolds'
  BY <1>1 DEF WriterHolds
<1>2. CASE UNCHANGED vars
  BY <1>1, <1>2 DEF vars, LanesTypeOK
<1>3. CASE SendText
  <2>1. Text(sent.text + 1, 0) \in TextMessages
    BY <1>0, MadeMessages, Counted
  <2>2. control' \in Seq(TextMessages)
    BY <1>0, <1>3, <2>1, EnqueueIs DEF SendText
  <2>3. sent' \in SentCounts
    BY <1>0, <1>3, Counted DEF SendText
  <2> QED
    BY <1>1, <1>3, <2>2, <2>3 DEF SendText, LanesTypeOK
<1>4. ASSUME NEW idr \in BOOLEAN, SendVideo(idr) PROVE LanesTypeOK' /\ WriterHolds'
  <2> DEFINE m == Frame(sent.video + 1, idr)
  <2>1. m \in VideoMessages
    BY <1>0, MadeMessages, Counted
  <2>2. \/ video' = video /\ drain' = drain /\ videoDropping' = videoDropping
        \/ video' = Append(video, m) /\ drain' = drain /\ videoDropping' = FALSE
        \/ video' = video /\ drain' = [by |-> "overflow", frame |-> <<m>>] /\ videoDropping' \in BOOLEAN
    BY <1>4, SendVideoIs
  <2> HIDE DEF m
  <2>3. drain' \in Drains /\ videoDropping' \in BOOLEAN
    BY <1>0, <2>1, <2>2 DEF Drains
  <2>4. video' \in Seq(VideoMessages)
    <3>1. Append(video, m) \in Seq(VideoMessages)
      BY <1>0, <2>1, AfterSend
    <3> QED
      BY <1>0, <2>2, <3>1
  <2>5. sent' \in SentCounts /\ UNCHANGED <<control, audio, mediaPaused, mediaEpoch, pc, held, since, taken, wire>>
    BY <1>0, <1>4, Counted DEF SendVideo
  <2> QED
    BY <1>0, <1>1, <2>3, <2>4, <2>5 DEF LanesTypeOK
<1>5. /\ control # <<>> => Tail(control) \in Seq(TextMessages)
      /\ video # <<>> => Tail(video) \in Seq(VideoMessages)
      /\ audio # <<>> => Tail(audio) \in Seq(AudioMessages)
  BY <1>0, AfterReceive
<1>6. CASE DrainOverflow
  <2>1. UNCHANGED <<control, audio, mediaPaused, mediaEpoch, pc, held, sent, since, taken, wire>>
    BY <1>6 DEF DrainOverflow
  <2>2. CASE video # <<>>
    <3>1. video' = Tail(video) /\ UNCHANGED <<videoDropping, drain>>
      BY <1>6, <2>2 DEF DrainOverflow
    <3> QED
      BY <1>0, <1>1, <1>5, <2>1, <2>2, <3>1 DEF LanesTypeOK
  <2>3. CASE video = <<>>
    <3> DEFINE m == drain.frame[1]
    <3>1. m \in VideoMessages /\ m.idr \in BOOLEAN
      BY <1>0, <1>6, DrainCases, MessageKinds DEF DrainOverflow
    <3>2. video' = (IF m.idr THEN <<m>> ELSE <<>>) /\ videoDropping' = ~m.idr /\ drain' = NoDrain
      BY <1>6, <2>3 DEF DrainOverflow
    <3> HIDE DEF m
    <3>3. videoDropping' \in BOOLEAN
      BY <3>2, Zenon
    <3>4. video' \in Seq(VideoMessages)
      <4>1. CASE m.idr
        BY <3>1, <3>2, <4>1
      <4>2. CASE ~m.idr
        BY <3>1, <3>2, <4>2
      <4> QED
        BY <4>1, <4>2
    <3>5. drain' \in Drains
      BY <3>2 DEF Drains
    <3> QED
      BY <1>0, <1>1, <2>1, <3>3, <3>4, <3>5 DEF LanesTypeOK
  <2> QED
    BY <2>2, <2>3
<1>7. CASE SendAudio
  <2>1. Chunk(sent.audio + 1) \in AudioMessages
    BY <1>0, MadeMessages, Counted
  <2>3. audio' \in Seq(AudioMessages)
    <3>1. CASE audio' = audio
      BY <1>0, <3>1
    <3>2. CASE audio' = Append(audio, Chunk(sent.audio + 1))
      BY <1>0, <2>1, <3>2, AfterSend
    <3>3. CASE audio # <<>> /\ audio' = Append(Tail(audio), Chunk(sent.audio + 1))
      BY <1>0, <2>1, <3>3, AfterSend, AfterReceive
    <3>4. ~(Len(audio) < AudioCap) => audio # <<>>
      BY <1>0, LanesAssumption
    <3> QED
      BY <1>7, <3>1, <3>2, <3>3, <3>4 DEF SendAudio
  <2>4. sent' \in SentCounts
    BY <1>0, <1>7, Counted DEF SendAudio
  <2> QED
    BY <1>0, <1>1, <1>7, <2>3, <2>4 DEF SendAudio, LanesTypeOK
<1>8. ASSUME NEW stop \in BOOLEAN, SetMediaPaused(stop) PROVE LanesTypeOK' /\ WriterHolds'
  <2>1. drain' \in Drains /\ mediaPaused' \in BOOLEAN /\ videoDropping' \in BOOLEAN
    BY <1>8 DEF SetMediaPaused, Drains
  <2>2. since' \in Nat /\ taken' \in TakenFrames /\ mediaEpoch' \in Nat
    <3>1. [taken EXCEPT !.torn = FALSE] \in TakenFrames
      BY <1>0 DEF TakenFrames
    <3>2. sent.video \in Nat /\ mediaEpoch + 1 \in Nat
      BY <1>0 DEF SentCounts
    <3> QED
      BY <1>8, <3>1, <3>2 DEF SetMediaPaused
  <2>3. UNCHANGED <<control, video, audio, pc, held, sent, wire>>
    BY <1>8 DEF SetMediaPaused
  <2> QED
    BY <1>0, <1>1, <2>1, <2>2, <2>3 DEF LanesTypeOK
<1>9. CASE DrainPaused
  <2>1. video' \in Seq(VideoMessages)
    BY <1>0, <1>5, <1>9 DEF DrainPaused
  <2>2. audio' \in Seq(AudioMessages)
    BY <1>0, <1>5, <1>9 DEF DrainPaused
  <2>3. drain' \in Drains
    BY <1>0, <1>9 DEF DrainPaused, Drains
  <2> QED
    BY <1>0, <1>1, <1>9, <2>1, <2>2, <2>3 DEF DrainPaused, LanesTypeOK
<1>10. CASE AnnounceMode
  <2>1. announce[1] \in Nat
    BY <1>10 DEF AnnounceMode, EventsFollow
  <2>2. Text(sent.text + 1, announce[1]) \in TextMessages
    BY <1>0, <2>1, MadeMessages, Counted
  <2>3. control' \in Seq(TextMessages)
    BY <1>0, <1>10, <2>2, EnqueueIs DEF AnnounceMode
  <2>4. sent' \in SentCounts
    BY <1>0, <1>10, Counted DEF AnnounceMode
  <2> QED
    BY <1>0, <1>1, <1>10, <2>3, <2>4 DEF AnnounceMode, LanesTypeOK
<1>11. CASE SelectControl \/ SelectVideo \/ SelectAny
  <2>1. UNCHANGED <<videoDropping, mediaPaused, mediaEpoch, drain, sent, since, wire>>
    BY <1>11, SelectIs
  <2>2. control' \in Seq(TextMessages) /\ audio' \in Seq(AudioMessages)
    BY <1>0, <1>5, <1>11, SelectIs DEF lanes
  <2>3. video' \in Seq(VideoMessages)
    BY <1>0, <1>5, <1>11, SelectIs DEF lanes
  <2>4. WriterHolds'
    <3>1. /\ control # <<>> => control[1] \in Messages
          /\ video # <<>> => video[1] \in Messages
          /\ audio # <<>> => audio[1] \in Messages
      BY <1>0, AfterReceive, MessageKinds
    <3> QED
      BY <1>11, <3>1, SelectIs DEF WriterHolds
  <2>5. taken' \in TakenFrames
    <3>1. taken' = taken \/ (video # <<>> /\ taken' = [n |-> video[1].n, torn |-> Torn(video[1])])
      BY <1>11, SelectIs
    <3> QED
      BY <1>0, <3>1, AfterReceive, TakenIs
  <2> QED
    BY <1>0, <2>1, <2>2, <2>3, <2>4, <2>5 DEF LanesTypeOK
<1>12. CASE WriteOne
  BY <1>0, <1>12 DEF WriteOne, WriterHolds, LanesTypeOK, lanes
<1>13. CASE Flush
  <2>1. PICK m \in Messages : held = <<m>>
    BY <1>13 DEF Flush, WriterHolds
  <2>2. wire' \in WireStates
    <3>1. wire' = wire \/ wire' = OnWire(m)
      BY <1>13, <2>1 DEF Flush
    <3> QED
      BY <1>0, <3>1, OnWireIs
  <2>3. WriterHolds'
    BY <1>13 DEF Flush, WriterHolds
  <2> QED
    BY <1>0, <1>13, <2>2, <2>3 DEF Flush, LanesTypeOK, lanes
<1>14. CASE CloseConn \/ ReadLoopEnds
  BY <1>0, <1>1, <1>14 DEF CloseConn, ReadLoopEnds, LanesTypeOK, lanes
<1> QED
  BY <1>2, <1>3, <1>4, <1>6, <1>7, <1>8, <1>9, <1>10, <1>11, <1>12, <1>13, <1>14 DEF Next

----------------------------------------------------------------------------
(* The video lane *)

\* A step that leaves the lane, the mode and what was taken alone.
LEMMA LaneStands ==
  ASSUME LanesInv, UNCHANGED <<video, videoDropping, drain, mediaPaused, mediaEpoch, since, taken>>,
         sent'.video = sent.video
  PROVE  LaneOfEpoch' /\ FreshStart' /\ LaneContinuous' /\ LaneFollows' /\ VideoOfEpoch'
<1>1. Unlocked' = Unlocked
  BY DEF Unlocked
<1>2. LaneOfEpoch' /\ FreshStart' /\ VideoOfEpoch'
  BY DEF LanesInv, LaneOfEpoch, FreshStart, VideoOfEpoch
<1>3. LaneContinuous'
  BY <1>1 DEF LanesInv, LaneContinuous
<1>4. LaneFollows'
  BY <1>1 DEF LanesInv, LaneFollows
<1> QED
  BY <1>2, <1>3, <1>4

\* While a lane is being emptied nothing is said of its order.
LEMMA LaneLocked ==
  ASSUME ~Unlocked'
  PROVE  LaneContinuous' /\ LaneFollows'
  BY DEF LaneContinuous, LaneFollows

\* A receive keeps the epochs of the frames.
LEMMA EpochsAfterReceive ==
  ASSUME LanesInv, video # <<>>, video' = Tail(video),
         UNCHANGED <<drain, mediaPaused, mediaEpoch, sent>>
  PROVE  LaneOfEpoch' /\ VideoOfEpoch'
<1>1. /\ Len(video) \in Nat /\ DOMAIN video' = 1..(Len(video) - 1)
      /\ DOMAIN video = 1..Len(video) /\ \A i \in 1..(Len(video) - 1) : video'[i] = video[i + 1]
  BY AfterReceive DEF LanesInv, LanesTypeOK
<1>2. \A i \in DOMAIN video' : i + 1 \in DOMAIN video /\ video'[i] = video[i + 1]
  BY <1>1
<1>3. VideoOfEpoch'
  BY <1>2 DEF LanesInv, VideoOfEpoch
<1>4. LaneOfEpoch'
  <2>1. drain.by # "pause" => ~mediaPaused /\ \A i \in DOMAIN video : video[i].epoch = mediaEpoch
    BY DEF LanesInv, LaneOfEpoch
  <2>2. drain'.by # "pause" => ~mediaPaused' /\ \A i \in DOMAIN video' : video'[i].epoch = mediaEpoch'
    BY <1>2, <2>1
  <2>3. drain'.by = "overflow" =>
          /\ ~mediaPaused' /\ drain'.frame[1].epoch = mediaEpoch' /\ drain'.frame[1].n = sent'.video
    BY DEF LanesInv, LaneOfEpoch
  <2>4. drain'.by = "pause" => \A i \in DOMAIN video' : video'[i].epoch # mediaEpoch'
    BY <1>2 DEF LanesInv, LaneOfEpoch
  <2> QED
    BY <2>2, <2>3, <2>4 DEF LaneOfEpoch
<1> QED
  BY <1>3, <1>4

\* A frame that is accepted continues the lane; one that is refused leaves it paused or
\* dropping.
LEMMA SendVideoFollows ==
  ASSUME LanesInv, NEW idr \in BOOLEAN, SendVideo(idr)
  PROVE  LaneOfEpoch' /\ FreshStart' /\ LaneContinuous' /\ LaneFollows' /\ VideoOfEpoch'
<1> DEFINE m == Frame(sent.video + 1, idr)
<1>1. m \in VideoMessages /\ m.epoch = mediaEpoch /\ m.n = sent.video + 1 /\ m.idr = idr
  BY MadeMessages, Counted DEF LanesInv, LanesTypeOK
<1>2. \/ /\ mediaPaused \/ videoDropping
         /\ video' = video /\ drain' = drain /\ videoDropping' = videoDropping
      \/ /\ ~mediaPaused /\ (videoDropping => idr)
         /\ video' = Append(video, m) /\ drain' = drain /\ videoDropping' = FALSE
      \/ /\ ~mediaPaused
         /\ video' = video /\ drain' = [by |-> "overflow", frame |-> <<m>>]
  BY SendVideoIs DEF LanesInv
<1> HIDE DEF m
<1>3. /\ UNCHANGED <<mediaPaused, mediaEpoch, since, taken>> /\ Unlocked
      /\ sent'.video = sent.video + 1
  BY Counted DEF SendVideo, LanesInv, LanesTypeOK
<1>5. drain.by = "none"
  BY <1>3 DEF Unlocked, NoDrain
<1>6. CASE /\ mediaPaused \/ videoDropping
           /\ video' = video /\ drain' = drain /\ videoDropping' = videoDropping
  <2>1. LaneOfEpoch' /\ FreshStart' /\ VideoOfEpoch'
    BY <1>3, <1>5, <1>6 DEF LanesInv, LaneOfEpoch, FreshStart, VideoOfEpoch
  <2>2. LaneContinuous'
    BY <1>3, <1>6 DEF LanesInv, LaneContinuous, Unlocked
  <2>3. LaneFollows'
    BY <1>3, <1>6 DEF LaneFollows
  <2> QED
    BY <2>1, <2>2, <2>3
<1>7. CASE /\ ~mediaPaused
           /\ video' = video /\ drain' = [by |-> "overflow", frame |-> <<m>>]
  <2>1. drain'.by = "overflow" /\ drain'.frame[1] = m
    BY <1>7
  <2>2. LaneOfEpoch' /\ FreshStart' /\ VideoOfEpoch'
    BY <1>1, <1>3, <1>5, <1>7, <2>1 DEF LanesInv, LaneOfEpoch, FreshStart, VideoOfEpoch
  <2>3. ~Unlocked'
    BY <2>1 DEF Unlocked, NoDrain
  <2> QED
    BY <2>2, <2>3, LaneLocked
<1>8. CASE /\ ~mediaPaused /\ (videoDropping => idr)
           /\ video' = Append(video, m) /\ drain' = drain /\ videoDropping' = FALSE
  <2>1. /\ Len(video') = Len(video) + 1 /\ DOMAIN video' = 1..(Len(video) + 1) /\ video' # <<>>
        /\ video'[Len(video) + 1] = m /\ \A i \in 1..Len(video) : video'[i] = video[i]
        /\ Len(video) \in Nat /\ DOMAIN video = 1..Len(video) /\ (video = <<>> <=> Len(video) = 0)
    BY <1>1, <1>8, AfterSend DEF LanesInv, LanesTypeOK
  <2>2. \A i \in DOMAIN video' : i = Len(video) + 1 \/ i \in DOMAIN video
    BY <2>1
  <2>3. VideoOfEpoch'
    <3>1. m.epoch <= mediaEpoch
      BY <1>1 DEF LanesInv, LanesTypeOK
    <3> QED
      BY <1>3, <2>1, <2>2, <3>1 DEF LanesInv, VideoOfEpoch
  <2>4. LaneOfEpoch' /\ FreshStart'
    <3>1. \A i \in DOMAIN video' : video'[i].epoch = mediaEpoch
      BY <1>1, <1>5, <2>1, <2>2 DEF LanesInv, LaneOfEpoch
    <3> QED
      BY <1>3, <1>5, <1>8, <3>1 DEF LaneOfEpoch, FreshStart
  \* A frame that is no IDR comes while the lane is not dropping.
  <2>5. /\ \A i \in 2..Len(video) : video[i].idr \/ video[i].n = video[i - 1].n + 1
        /\ video # <<>> => video[1].idr \/ (~taken.torn /\ video[1].n \in {taken.n + 1, since + 1})
        /\ ~idr => IF video # <<>> THEN video[Len(video)].n = sent.video
                                   ELSE ~taken.torn /\ sent.video \in {taken.n, since}
    BY <1>3, <1>8 DEF LanesInv, LaneContinuous, LaneFollows
  <2>6. \A i \in 2..Len(video') : video'[i].idr \/ video'[i].n = video'[i - 1].n + 1
    <3> TAKE i \in 2..Len(video')
    <3>1. CASE i = Len(video) + 1
      <4>1. i - 1 \in 1..Len(video) /\ video # <<>> /\ i - 1 = Len(video)
        BY <2>1, <3>1
      <4> QED
        BY <1>1, <2>1, <2>5, <3>1, <4>1
    <3>2. CASE i \in 2..Len(video)
      <4>1. i - 1 \in 1..Len(video) /\ i \in 1..Len(video)
        BY <2>1, <3>2
      <4> QED
        BY <2>1, <2>5, <3>2, <4>1
    <3> QED
      BY <2>1, <3>1, <3>2
  <2>7. video'[1].idr \/ (~taken.torn /\ video'[1].n \in {taken.n + 1, since + 1})
    <3>1. CASE video = <<>>
      BY <1>1, <2>1, <2>5, <3>1
    <3>2. CASE video # <<>>
      <4>1. 1 \in 1..Len(video)
        BY <2>1, <3>2
      <4> QED
        BY <2>1, <2>5, <3>2, <4>1
    <3> QED
      BY <3>1, <3>2
  <2>8. LaneContinuous'
    BY <1>3, <2>1, <2>6, <2>7 DEF LaneContinuous
  <2>9. video'[Len(video')].n = sent'.video
    BY <1>1, <1>3, <2>1
  <2>10. LaneFollows'
    BY <2>1, <2>9 DEF LaneFollows
  <2> QED
    BY <2>3, <2>4, <2>8, <2>10
<1> QED
  BY <1>2, <1>6, <1>7, <1>8

\* An emptied lane restarts with the IDR that overflowed it, or drops until one comes.
LEMMA OverflowFollows ==
  ASSUME LanesInv, DrainOverflow
  PROVE  LaneOfEpoch' /\ FreshStart' /\ LaneContinuous' /\ LaneFollows' /\ VideoOfEpoch'
<1>1. UNCHANGED <<mediaPaused, mediaEpoch, sent, since, taken>>
  BY DEF DrainOverflow
<1>2. PICK m \in VideoMessages : drain.frame[1] = m
  BY DrainCases DEF DrainOverflow, LanesInv, LanesTypeOK
<1>3. m.epoch = mediaEpoch /\ ~mediaPaused /\ m.epoch \in Nat
  BY <1>2 DEF DrainOverflow, LanesInv, LaneOfEpoch, LanesTypeOK
<1>4. CASE video # <<>>
  <2>1. video' = Tail(video) /\ UNCHANGED <<videoDropping, drain>>
    BY <1>4 DEF DrainOverflow
  <2>2. ~Unlocked' /\ FreshStart'
    BY <1>1, <1>3, <2>1 DEF DrainOverflow, Unlocked, NoDrain, FreshStart
  <2> QED
    BY <1>1, <1>4, <2>1, <2>2, EpochsAfterReceive, LaneLocked
<1>5. CASE video = <<>>
  <2>1. video' = (IF m.idr THEN <<m>> ELSE <<>>) /\ videoDropping' = ~m.idr /\ drain' = NoDrain
    BY <1>2, <1>5 DEF DrainOverflow
  <2>2. drain'.by = "none"
    BY <2>1 DEF NoDrain
  <2>3. FreshStart'
    BY <1>1, <1>3, <2>2 DEF FreshStart
  <2>4. CASE m.idr
    <3>1. video' = <<m>>
      BY <2>1, <2>4
    <3>2. video' # <<>> /\ Len(video') = 1 /\ DOMAIN video' = {1} /\ video'[1] = m
      BY <3>1
    <3>3. LaneOfEpoch' /\ VideoOfEpoch'
      BY <1>1, <1>3, <2>2, <3>1, <3>2 DEF LaneOfEpoch, VideoOfEpoch
    <3>4. LaneContinuous'
      <4>1. \A i \in 2..Len(video') : FALSE
        BY <3>2
      <4> QED
        BY <2>4, <3>2, <4>1 DEF LaneContinuous
    <3>5. LaneFollows'
      <4>1. m.n = sent.video
        BY <1>2 DEF LanesInv, DrainOverflow, LaneOfEpoch
      <4> QED
        BY <1>1, <3>2, <4>1 DEF LaneFollows
    <3> QED
      BY <2>3, <3>3, <3>4, <3>5
  <2>5. CASE ~m.idr
    <3>1. video' = <<>> /\ videoDropping'
      BY <2>1, <2>5
    <3>2. LaneOfEpoch' /\ VideoOfEpoch'
      BY <1>1, <1>3, <2>2, <3>1 DEF LaneOfEpoch, VideoOfEpoch
    <3>3. LaneContinuous' /\ LaneFollows'
      BY <3>1 DEF LaneContinuous, LaneFollows
    <3> QED
      BY <2>3, <3>2, <3>3
  <2> QED
    BY <2>4, <2>5
<1> QED
  BY <1>4, <1>5

\* A change of mode empties the lanes for a fresh start.
LEMMA PauseFollows ==
  ASSUME LanesInv, DrainPaused \/ \E stop \in BOOLEAN : SetMediaPaused(stop)
  PROVE  LaneOfEpoch' /\ FreshStart' /\ LaneContinuous' /\ LaneFollows' /\ VideoOfEpoch'
<1>1. ASSUME NEW stop \in BOOLEAN, SetMediaPaused(stop)
      PROVE  LaneOfEpoch' /\ FreshStart' /\ LaneContinuous' /\ LaneFollows' /\ VideoOfEpoch'
  <2>1. /\ drain'.by = "pause" /\ video' = video /\ mediaEpoch' = mediaEpoch + 1
        /\ mediaEpoch \in Nat /\ video \in Seq(VideoMessages)
    BY <1>1 DEF SetMediaPaused, LanesInv, LanesTypeOK
  <2>2. \A i \in DOMAIN video : video[i].epoch \in Nat /\ video[i].epoch <= mediaEpoch
    <3> TAKE i \in DOMAIN video
    <3>1. video[i] \in VideoMessages
      BY <2>1
    <3> QED
      BY <3>1, MessageKinds DEF LanesInv, VideoOfEpoch
  <2>3. LaneOfEpoch' /\ VideoOfEpoch'
    BY <2>1, <2>2 DEF LaneOfEpoch, VideoOfEpoch
  <2>4. FreshStart'
    <3>1. since' = sent.video /\ sent' = sent /\ videoDropping' = FALSE
      BY <1>1 DEF SetMediaPaused
    <3>2. taken'.torn = FALSE
      BY <1>1 DEF SetMediaPaused, LanesInv, LanesTypeOK, TakenFrames
    <3> QED
      BY <3>1, <3>2 DEF FreshStart
  <2>5. ~Unlocked'
    BY <2>1 DEF Unlocked, NoDrain
  <2> QED
    BY <2>3, <2>4, <2>5, LaneLocked
<1>2. CASE DrainPaused
  <2>1. /\ drain.by = "pause"
        /\ UNCHANGED <<videoDropping, mediaPaused, mediaEpoch, sent, since, taken>>
    BY <1>2 DEF DrainPaused
  <2>2. since = sent.video /\ ~videoDropping /\ ~taken.torn
    BY <2>1 DEF LanesInv, FreshStart
  <2>3. FreshStart'
    BY <2>1, <2>2 DEF FreshStart
  <2>4. CASE UNCHANGED drain
    <3>1. ~Unlocked'
      BY <2>1, <2>4 DEF Unlocked, NoDrain
    <3>2. LaneOfEpoch' /\ VideoOfEpoch'
      <4>1. CASE UNCHANGED video
        BY <2>1, <2>4, <4>1 DEF LanesInv, LaneOfEpoch, VideoOfEpoch
      <4>2. CASE video # <<>> /\ video' = Tail(video)
        BY <2>1, <2>4, <4>2, EpochsAfterReceive
      <4> QED
        BY <1>2, <4>1, <4>2 DEF DrainPaused
    <3> QED
      BY <2>3, <3>1, <3>2, LaneLocked
  <2>5. CASE ~UNCHANGED drain
    <3>1. drain' = NoDrain /\ video = <<>> /\ video' = video
      BY <1>2, <2>5 DEF DrainPaused
    <3>2. drain'.by = "none" /\ video' = <<>>
      BY <3>1 DEF NoDrain
    <3>3. LaneOfEpoch' /\ VideoOfEpoch'
      BY <2>1, <3>2 DEF LanesInv, LaneOfEpoch, VideoOfEpoch
    \* No frame was accepted since the change of mode.
    <3>4. LaneContinuous'
      BY <2>1, <2>2, <3>2 DEF LaneContinuous
    <3>5. LaneFollows'
      BY <2>1, <2>2, <3>2 DEF LaneFollows
    <3> QED
      BY <2>3, <3>3, <3>4, <3>5
  <2> QED
    BY <2>4, <2>5
<1> QED
  BY <1>1, <1>2

\* The writer takes the first message of a lane.
LEMMA SelectFollows ==
  ASSUME LanesInv, SelectControl \/ SelectVideo \/ SelectAny
  PROVE  LaneOfEpoch' /\ FreshStart' /\ LaneContinuous' /\ LaneFollows' /\ VideoOfEpoch'
<1>1. /\ UNCHANGED <<videoDropping, mediaPaused, mediaEpoch, drain, sent, since>>
      /\ \/ UNCHANGED <<video, taken>>
         \/ video # <<>> /\ video' = Tail(video) /\ taken' = [n |-> video[1].n, torn |-> Torn(video[1])]
  BY SelectIs DEF LanesInv, lanes
<1>2. CASE UNCHANGED <<video, taken>>
  BY <1>1, <1>2, LaneStands
<1>3. CASE video # <<>> /\ video' = Tail(video) /\ taken' = [n |-> video[1].n, torn |-> Torn(video[1])]
  <2>1. LaneOfEpoch' /\ VideoOfEpoch'
    BY <1>1, <1>3, EpochsAfterReceive
  <2>2. /\ Len(video) \in Nat \ {0} /\ Len(video') = Len(video) - 1 /\ DOMAIN video = 1..Len(video)
        /\ \A i \in 1..(Len(video) - 1) : video'[i] = video[i + 1]
        /\ video' = <<>> <=> Len(video) = 1
        /\ video[1] \in VideoMessages
    BY <1>3, AfterReceive DEF LanesInv, LanesTypeOK
  <2>3. /\ taken'.n = video[1].n
        /\ taken'.torn = Torn(video[1])
    BY <1>3, <2>2, TakenIs
  \* A frame of an earlier epoch is not torn.
  <2>4. FreshStart'
    <3>1. drain.by = "pause" => video[1].epoch # mediaEpoch
      <4>1. 1 \in DOMAIN video
        BY <2>2
      <4> QED
        BY <4>1 DEF LanesInv, LaneOfEpoch
    <3>2. mediaPaused => drain.by = "pause"
      BY <1>3 DEF LanesInv, LaneOfEpoch
    <3>3. drain.by = "pause" => since = sent.video /\ ~videoDropping
      BY DEF LanesInv, FreshStart
    <3> QED
      BY <1>1, <2>3, <3>1, <3>2, <3>3 DEF FreshStart, Torn
  <2>5. CASE Unlocked
    <3>1. /\ \A i \in 2..Len(video) : video[i].idr \/ video[i].n = video[i - 1].n + 1
          /\ video[1].idr \/ (~taken.torn /\ video[1].n \in {taken.n + 1, since + 1})
          /\ ~videoDropping /\ ~mediaPaused => video[Len(video)].n = sent.video
      BY <1>3, <2>5 DEF LanesInv, LaneContinuous, LaneFollows
    <3>2. ~taken'.torn
      BY <2>3, <3>1 DEF Torn
    <3>3. \A i \in 2..Len(video') : video'[i].idr \/ video'[i].n = video'[i - 1].n + 1
      <4> TAKE i \in 2..Len(video')
      <4>1. /\ i \in 1..(Len(video) - 1) /\ i - 1 \in 1..(Len(video) - 1) /\ i + 1 \in 2..Len(video)
            /\ (i + 1) - 1 = i /\ (i - 1) + 1 = i
        BY <2>2
      <4>2. video'[i] = video[i + 1] /\ video'[i - 1] = video[i]
        BY <2>2, <4>1
      <4>3. video[i + 1].idr \/ video[i + 1].n = video[i].n + 1
        BY <3>1, <4>1
      <4> QED
        BY <4>2, <4>3
    <3>4. video' # <<>> => video'[1].idr \/ video'[1].n = taken'.n + 1
      <4> HAVE video' # <<>>
      <4>1. 1 \in 1..(Len(video) - 1) /\ 2 \in 2..Len(video)
        BY <2>2
      <4>2. video'[1] = video[2]
        BY <2>2, <4>1
      <4>3. video[2].idr \/ video[2].n = video[1].n + 1
        BY <3>1, <4>1
      <4> QED
        BY <2>3, <4>2, <4>3
    <3>5. LaneContinuous'
      BY <3>2, <3>3, <3>4 DEF LaneContinuous
    <3>6. ~videoDropping /\ ~mediaPaused =>
            IF video' # <<>> THEN video'[Len(video')].n = sent.video ELSE taken'.n = sent.video
      <4>1. CASE video' # <<>>
        <5>1. Len(video') \in 1..(Len(video) - 1) /\ Len(video') + 1 = Len(video)
          BY <2>2, <4>1
        <5>2. video'[Len(video')] = video[Len(video)]
          BY <2>2, <5>1
        <5> QED
          BY <3>1, <4>1, <5>2
      <4>2. CASE video' = <<>>
        <5>1. Len(video) = 1
          BY <2>2, <4>2
        <5> QED
          BY <2>3, <3>1, <4>2, <5>1
      <4> QED
        BY <4>1, <4>2
    <3>7. LaneFollows'
      BY <1>1, <3>2, <3>6 DEF LaneFollows
    <3> QED
      BY <2>1, <2>4, <3>5, <3>7
  <2>6. CASE ~Unlocked
    <3>1. ~Unlocked'
      BY <1>1, <2>6 DEF Unlocked
    <3> QED
      BY <2>1, <2>4, <3>1, LaneLocked
  <2> QED
    BY <2>5, <2>6
<1> QED
  BY <1>1, <1>2, <1>3

\* Every step keeps the order of the video lane.
LEMMA LaneStep ==
  ASSUME LanesInv, [Next]_vars
  PROVE  LaneOfEpoch' /\ FreshStart' /\ LaneContinuous' /\ LaneFollows' /\ VideoOfEpoch'
<1>1. CASE UNCHANGED vars
  <2>1. UNCHANGED <<video, videoDropping, drain, mediaPaused, mediaEpoch, since, taken, sent>>
    BY <1>1 DEF vars
  <2> QED
    BY <2>1, LaneStands
<1>2. CASE SendText \/ SendAudio \/ AnnounceMode \/ WriteOne \/ Flush \/ CloseConn \/ ReadLoopEnds
  <2>1. UNCHANGED <<video, videoDropping, drain, mediaPaused, mediaEpoch, since, taken>>
    BY <1>2 DEF SendText, SendAudio, AnnounceMode, WriteOne, Flush, CloseConn, ReadLoopEnds, lanes
  <2>2. sent'.video = sent.video
    BY <1>2, Counted DEF SendText, SendAudio, AnnounceMode, WriteOne, Flush, CloseConn, ReadLoopEnds,
       LanesInv, LanesTypeOK
  <2> QED
    BY <2>1, <2>2, LaneStands
<1> QED
  BY <1>1, <1>2, SendVideoFollows, OverflowFollows, PauseFollows, SelectFollows DEF Next

----------------------------------------------------------------------------
(* Epochs *)

\* No message carries an epoch that has not begun, and an event that was written tells
\* of no later one than the media that the writer has checked.
LEMMA EpochStep ==
  ASSUME LanesInv, [Next]_vars
  PROVE  EventsFollow' /\ AudioOfEpoch'
<1> USE DEF LanesInv
<1>0. /\ control \in Seq(TextMessages) /\ video \in Seq(VideoMessages) /\ audio \in Seq(AudioMessages)
      /\ mediaEpoch \in Nat /\ sent \in SentCounts /\ wire \in WireStates
  BY DEF LanesTypeOK
<1>1. mediaEpoch' \in Nat /\ mediaEpoch <= mediaEpoch'
  <2>1. mediaEpoch' = mediaEpoch \/ mediaEpoch' = mediaEpoch + 1
    BY DEF Next, vars, SendText, SendVideo, DrainOverflow, SendAudio, SetMediaPaused, DrainPaused,
       AnnounceMode, SelectControl, SelectVideo, SelectAny, WriteOne, Flush, CloseConn, ReadLoopEnds
  <2> QED
    BY <1>0, <2>1
<1>2. wire.mode \in Nat /\ wire.mode <= mediaEpoch'
  BY <1>0, <1>1 DEF EventsFollow, WireStates
<1>3. /\ \A i \in DOMAIN control : control[i].epoch \in Nat /\ control[i].epoch <= mediaEpoch'
      /\ \A i \in DOMAIN audio : audio[i].epoch \in Nat /\ audio[i].epoch <= mediaEpoch'
      /\ \A i \in DOMAIN video : video[i].epoch \in Nat /\ video[i].epoch <= mediaEpoch'
  <2>1. /\ \A i \in DOMAIN control : control[i] \in TextMessages
        /\ \A i \in DOMAIN audio : audio[i] \in AudioMessages
        /\ \A i \in DOMAIN video : video[i] \in VideoMessages
    BY <1>0
  <2>2. /\ \A i \in DOMAIN control : control[i].epoch \in Nat /\ control[i].epoch <= mediaEpoch
        /\ \A i \in DOMAIN audio : audio[i].epoch \in Nat /\ audio[i].epoch <= mediaEpoch
        /\ \A i \in DOMAIN video : video[i].epoch \in Nat /\ video[i].epoch <= mediaEpoch
    BY <2>1, MessageKinds DEF EventsFollow, AudioOfEpoch, VideoOfEpoch
  <2> QED
    BY <1>0, <1>1, <2>2
<1>4. held # <<>> => held[1] \in Messages /\ held[1].epoch \in Nat /\ held[1].epoch <= mediaEpoch'
  <2> HAVE held # <<>>
  <2>1. held[1] \in Messages
    BY DEF WriterHolds
  <2>2. held[1].epoch \in Nat /\ held[1].epoch <= mediaEpoch
    BY <2>1, MessageKinds DEF EventsFollow
  <2> QED
    BY <1>0, <1>1, <2>1, <2>2
<1>5. announce = <<>> \/ \E e \in Nat : announce = <<e>> /\ e <= mediaEpoch'
  BY <1>0, <1>1 DEF EventsFollow
\* The lanes.
<1>6. AudioOfEpoch'
  <2>1. CASE audio' = audio
    BY <1>3, <2>1 DEF AudioOfEpoch
  <2>2. CASE audio # <<>> /\ audio' = Tail(audio)
    BY <1>0, <1>3, <2>2, AfterReceive DEF AudioOfEpoch
  <2>3. CASE SendAudio /\ audio' # audio
    <3> DEFINE m == Chunk(sent.audio + 1)
    <3>1. m \in AudioMessages /\ m.epoch = mediaEpoch
      BY <1>0, MadeMessages, Counted
    <3>2. PICK q : audio' = Append(q, m) /\ (q = audio \/ (audio # <<>> /\ q = Tail(audio)))
      <4>1. ~(Len(audio) < AudioCap) => audio # <<>>
        BY <1>0, LanesAssumption
      <4> QED
        BY <2>3, <4>1 DEF SendAudio
    <3> HIDE DEF m
    <3>3. q \in Seq(AudioMessages) /\ \A i \in DOMAIN q : q[i].epoch <= mediaEpoch'
      <4>1. CASE q = audio
        BY <1>0, <1>3, <4>1
      <4>2. CASE q = Tail(audio) /\ audio # <<>>
        BY <1>0, <1>3, <4>2, AfterReceive
      <4> QED
        BY <3>2, <4>1, <4>2
    <3>4. /\ DOMAIN audio' = 1..(Len(q) + 1) /\ audio'[Len(q) + 1] = m /\ Len(q) \in Nat
          /\ DOMAIN q = 1..Len(q) /\ \A i \in 1..Len(q) : audio'[i] = q[i]
      BY <3>1, <3>2, <3>3, AfterSend
    <3>5. \A i \in DOMAIN audio' : i = Len(q) + 1 \/ i \in 1..Len(q)
      BY <3>4
    <3> QED
      BY <1>1, <3>1, <3>3, <3>4, <3>5 DEF AudioOfEpoch
  <2>4. audio' = audio \/ (audio # <<>> /\ audio' = Tail(audio)) \/ SendAudio
    <3>1. CASE SelectControl \/ SelectVideo \/ SelectAny
      BY <3>1, SelectIs DEF lanes
    <3> QED
      BY <3>1 DEF Next, vars, SendText, SendVideo, DrainOverflow, SetMediaPaused, DrainPaused,
         AnnounceMode, WriteOne, Flush, CloseConn, ReadLoopEnds, lanes
  <2> QED
    BY <2>1, <2>2, <2>3, <2>4
<1>7. \A i \in DOMAIN control' : control'[i].epoch <= mediaEpoch'
  <2>1. CASE control' = control
    BY <1>3, <2>1
  <2>2. CASE control # <<>> /\ control' = Tail(control)
    BY <1>0, <1>3, <2>2, AfterReceive
  <2>3. CASE SendText \/ AnnounceMode
    <3>1. PICK e \in Nat : e <= mediaEpoch' /\ Enqueue(Text(sent.text + 1, e))
      <4>1. CASE SendText
        BY <1>1, <4>1 DEF SendText
      <4>2. CASE AnnounceMode
        BY <1>5, <4>2 DEF AnnounceMode
      <4> QED
        BY <2>3, <4>1, <4>2
    <3> DEFINE m == Text(sent.text + 1, e)
    <3>2. m \in TextMessages /\ m.epoch = e
      BY <1>0, MadeMessages, Counted
    <3>3. \A i \in DOMAIN control' : control'[i] = m \/ (i \in DOMAIN control /\ control'[i] = control[i])
      BY <1>0, <3>1, <3>2, EnqueueIs
    <3> HIDE DEF m
    <3> QED
      BY <1>3, <3>1, <3>2, <3>3
  <2>4. control' = control \/ (control # <<>> /\ control' = Tail(control)) \/ SendText \/ AnnounceMode
    <3>1. CASE SelectControl \/ SelectVideo \/ SelectAny
      BY <3>1, SelectIs DEF lanes
    <3> QED
      BY <3>1 DEF Next, vars, SendVideo, DrainOverflow, SendAudio, SetMediaPaused, DrainPaused,
         WriteOne, Flush, CloseConn, ReadLoopEnds, lanes
  <2> QED
    BY <2>1, <2>2, <2>3, <2>4
\* The announcement.
<1>8. announce' = <<>> \/ \E e \in Nat : announce' = <<e>> /\ e <= mediaEpoch'
  <2>1. CASE announce' = announce \/ announce' = <<>>
    BY <1>5, <2>1
  <2>2. ASSUME NEW stop \in BOOLEAN, SetMediaPaused(stop)
        PROVE  \E e \in Nat : announce' = <<e>> /\ e <= mediaEpoch'
    BY <1>0, <2>2 DEF SetMediaPaused
  <2> QED
    BY <2>1, <2>2 DEF Next, vars, SendText, SendVideo, DrainOverflow, SendAudio, DrainPaused,
       AnnounceMode, SelectControl, SelectVideo, SelectAny, WriteOne, Flush, CloseConn, ReadLoopEnds
\* The writer.
<1>9. /\ held' # <<>> => held'[1].epoch <= mediaEpoch'
      /\ wire'.mode <= mediaEpoch'
      /\ pc' = "flush" /\ held'[1].kind # "text" => held'[1].epoch >= wire'.mode
  <2>1. CASE UNCHANGED <<pc, held, wire>>
    BY <1>2, <1>4, <2>1 DEF EventsFollow
  <2>2. CASE SelectControl \/ SelectVideo \/ SelectAny
    <3>1. wire' = wire /\ pc' # "flush"
      BY <2>2, SelectIs
    <3>2. \/ held' = <<>>
          \/ control # <<>> /\ held' = <<control[1]>>
          \/ video # <<>> /\ held' = <<video[1]>>
          \/ audio # <<>> /\ held' = <<audio[1]>>
      BY <2>2, SelectIs
    <3>3. /\ control # <<>> => 1 \in DOMAIN control
          /\ video # <<>> => 1 \in DOMAIN video
          /\ audio # <<>> => 1 \in DOMAIN audio
      BY <1>0, AfterReceive
    <3>4. held' # <<>> => held'[1].epoch <= mediaEpoch'
      BY <1>3, <3>2, <3>3
    <3> QED
      BY <1>2, <3>1, <3>4
  <2>3. CASE WriteOne
    <3>1. wire' = wire /\ mediaEpoch' = mediaEpoch /\ held # <<>>
      BY <2>3 DEF WriteOne, WriterHolds
    <3>2. \/ held' = <<>> /\ pc' = "first"
          \/ held' = held /\ (held[1].kind # "text" => held[1].epoch = mediaEpoch)
      BY <2>3 DEF WriteOne, Stale
    <3> QED
      BY <1>2, <1>4, <3>1, <3>2
  <2>4. CASE Flush
    <3>1. held' = <<>> /\ pc' # "flush" /\ held # <<>>
      BY <2>4 DEF Flush, WriterHolds
    <3>2. wire' = wire \/ wire' = OnWire(held[1])
      BY <2>4 DEF Flush
    <3>3. OnWire(held[1]).mode \in {wire.mode, held[1].epoch}
      <4>1. held[1] \in Messages
        BY <1>4, <3>1
      <4> QED
        BY <1>0, <4>1, OnWireIs
    <3> QED
      BY <1>2, <1>4, <3>1, <3>2, <3>3
  <2> QED
    BY <2>1, <2>2, <2>3, <2>4 DEF Next, vars, SendText, SendVideo, DrainOverflow, SendAudio,
       SetMediaPaused, DrainPaused, AnnounceMode, CloseConn, ReadLoopEnds
<1> QED
  BY <1>6, <1>7, <1>8, <1>9 DEF EventsFollow

----------------------------------------------------------------------------
(* What is promised *)

\* Whatever sends, overflows, handoffs and receives interleave, the invariant stands.
THEOREM LanesInvariant == Spec => []LanesInv
<1>1. Init => LanesInv
  <2> SUFFICES ASSUME Init PROVE LanesInv
    OBVIOUS
  <2>1. LanesTypeOK
    <3>1. control = <<>> /\ video = <<>> /\ audio = <<>> /\ mediaEpoch = 0 /\ drain \in Drains
      BY DEF Init, Drains
    <3>2. mediaPaused \in BOOLEAN /\ videoDropping \in BOOLEAN /\ since \in Nat /\ taken \in TakenFrames
      BY DEF Init, TakenFrames
    <3>3. sent \in SentCounts /\ wire \in WireStates
      BY DEF Init, SentCounts, WireStates
    <3> QED
      BY <3>1, <3>2, <3>3 DEF LanesTypeOK
  <2>2. drain.by = "none"
    BY DEF Init, NoDrain
  <2>3. LaneOfEpoch /\ FreshStart /\ LaneContinuous /\ LaneFollows /\ VideoOfEpoch /\ AudioOfEpoch
    BY <2>2 DEF Init, LaneOfEpoch, FreshStart, LaneContinuous, LaneFollows, VideoOfEpoch, AudioOfEpoch
  <2>4. WriterHolds /\ EventsFollow
    BY DEF Init, WriterHolds, EventsFollow
  <2> QED
    BY <2>1, <2>3, <2>4 DEF LanesInv
<1>2. LanesInv /\ [Next]_vars => LanesInv'
  BY TypeStep, LaneStep, EpochStep DEF LanesInv
<1> QED
  BY <1>1, <1>2, PTL DEF Spec

\* The writer gets the frames of an epoch in order, and an IDR where frames were lost, for
\* lanes of every capacity and whatever frames the pumps hand over.
THEOREM VideoLaneContinuous == Spec => []LaneContinuous
<1>1. LanesInv => LaneContinuous
  BY DEF LanesInv
<1> QED
  BY <1>1, LanesInvariant, PTL

\* Once the client has read the event of a change of mode, it reads no media of an
\* earlier epoch.
THEOREM PauseIsABoundary == Spec => PauseBoundary
<1>1. LanesInv /\ [Next]_vars =>
        [wire'.video # wire.video \/ wire'.audio # wire.audio => wire'.epoch >= wire.mode]_vars
  <2> SUFFICES ASSUME LanesInv, Next, wire'.video # wire.video \/ wire'.audio # wire.audio
               PROVE  wire'.epoch >= wire.mode
    OBVIOUS
  <2>1. Flush /\ wire' = OnWire(held[1])
    <3>1. wire' # wire
      OBVIOUS
    <3>2. CASE SelectControl \/ SelectVideo \/ SelectAny
      BY <3>1, <3>2, SelectIs DEF LanesInv
    <3> QED
      BY <3>1, <3>2 DEF Next, SendText, SendVideo, DrainOverflow, SendAudio, SetMediaPaused,
         DrainPaused, AnnounceMode, WriteOne, Flush, CloseConn, ReadLoopEnds
  <2>2. pc = "flush" /\ held[1] \in Messages /\ wire \in WireStates
    BY <2>1 DEF Flush, LanesInv, WriterHolds, LanesTypeOK
  <2>3. held[1].kind # "text" /\ wire'.epoch = held[1].epoch
    BY <2>1, <2>2, OnWireIs
  <2> QED
    BY <2>2, <2>3 DEF LanesInv, EventsFollow
<1> QED
  BY <1>1, LanesInvariant, PTL DEF Spec, PauseBoundary

----------------------------------------------------------------------------
(* Queues of input *)

\* A set of natural numbers that is not empty has a least one.
LEMMA LeastNatural ==
  ASSUME NEW S \in SUBSET Nat, S # {}
  PROVE  \E n \in S : \A m \in S : n <= m
<1>1. PICK n \in S : \A m \in S : ~(<<m, n>> \in OpToRel(<, Nat))
  BY NatLessThanWellFounded, WFMin
<1>2. \A m \in S : m < n => <<m, n>> \in OpToRel(<, Nat)
  BY DEF OpToRel
<1>3. \A m \in S : ~(m < n)
  BY <1>1, <1>2
<1> QED
  BY <1>3

----------------------------------------------------------------------------
(* The input queues: what they hold after each of the ways to change them *)

\* The queue r is q without its work at place k.
Without(q, r, k) ==
    /\ k \in 1..Len(q) /\ Len(r) = Len(q) - 1
    /\ \A i \in 1..Len(r) : r[i] = IF i < k THEN q[i] ELSE q[i + 1]

\* The queue r is q with w in the place of its last work.
Replaced(q, r, w) ==
    /\ Len(q) # 0 /\ Len(r) = Len(q)
    /\ \A i \in 1..Len(q) : r[i] = IF i = Len(q) THEN w ELSE q[i]

\* What Append makes of an input queue.
LEMMA AppendIs ==
  ASSUME NEW q \in Seq(Works \cup {Cancel}), NEW w \in Works \cup {Cancel}
  PROVE  /\ Append(q, w) \in Seq(Works \cup {Cancel})
         /\ Len(q) \in Nat /\ DOMAIN q = 1..Len(q)
         /\ Len(Append(q, w)) = Len(q) + 1 /\ DOMAIN Append(q, w) = 1..(Len(q) + 1)
         /\ Append(q, w)[Len(q) + 1] = w
         /\ \A i \in 1..Len(q) : Append(q, w)[i] = q[i] /\ q[i] \in Works \cup {Cancel}
  OBVIOUS

\* run takes the first work.
LEMMA TailIs ==
  ASSUME NEW q \in Seq(Works \cup {Cancel}), q # <<>>
  PROVE  /\ Tail(q) \in Seq(Works \cup {Cancel}) /\ Without(q, Tail(q), 1)
         /\ Head(q) = q[1] /\ q[1] \in Works \cup {Cancel}
<1>1. Len(q) \in Nat \ {0} /\ Len(Tail(q)) = Len(q) - 1 /\ Tail(q) \in Seq(Works \cup {Cancel})
  BY AfterReceive
<1>2. \A i \in 1..Len(Tail(q)) : Tail(q)[i] = q[i + 1] /\ ~(i < 1)
  BY <1>1, AfterReceive
<1>3. Head(q) = q[1] /\ q[1] \in Works \cup {Cancel}
  BY AfterReceive
<1> QED
  BY <1>1, <1>2, <1>3 DEF Without

\* One queue behind another.
LEMMA ConcatIs ==
  ASSUME NEW S, NEW a \in Seq(S), NEW b \in Seq(S)
  PROVE  a \o b \in Seq(S) /\ Len(a \o b) = Len(a) + Len(b)
  OBVIOUS

\* A full queue gives up a work.
LEMMA RemoveAtIs ==
  ASSUME NEW q \in Seq(Works \cup {Cancel}), NEW k \in 1..Len(q)
  PROVE  RemoveAt(q, k) \in Seq(Works \cup {Cancel}) /\ Without(q, RemoveAt(q, k), k)
<1> DEFINE S == Works \cup {Cancel}  a == SubSeq(q, 1, k - 1)  b == SubSeq(q, k + 1, Len(q))
<1>0. q \in Seq(S)
  OBVIOUS
<1> HIDE DEF S
<1>1. Len(q) \in Nat /\ k \in Nat
  BY <1>0
<1>2. a \in Seq(S) /\ Len(a) = k - 1 /\ \A i \in 1..(k - 1) : a[i] = q[i]
  BY <1>0, <1>1
<1>3. b \in Seq(S) /\ Len(b) = Len(q) - k /\ \A i \in 1..(Len(q) - k) : b[i] = q[k + i]
  BY <1>0, <1>1
<1> HIDE DEF a, b
<1>4. a \o b \in Seq(S) /\ Len(a \o b) = Len(q) - 1
  <2>1. a \o b \in Seq(S) /\ Len(a \o b) = Len(a) + Len(b)
    BY <1>2, <1>3, ConcatIs
  <2> QED
    BY <2>1, <1>1, <1>2, <1>3
<1>5. ASSUME NEW i \in 1..(Len(q) - 1) PROVE (a \o b)[i] = IF i < k THEN q[i] ELSE q[i + 1]
  <2>1. CASE i < k
    BY <2>1, <1>1, <1>2, <1>3
  <2>2. CASE ~(i < k)
    <3>1. i - (k - 1) \in 1..(Len(q) - k) /\ k + (i - (k - 1)) = i + 1
      BY <2>2, <1>1
    <3>2. (a \o b)[i] = b[i - (k - 1)]
      BY <2>2, <1>1, <1>2, <1>3
    <3> QED
      BY <2>2, <3>1, <3>2, <1>3
  <2> QED
    BY <2>1, <2>2
<1>6. RemoveAt(q, k) = a \o b
  BY DEF RemoveAt, a, b
<1> QED
  BY <1>4, <1>5, <1>6 DEF Without, S

\* New motion takes the place of the last.
LEMMA ReplacedIs ==
  ASSUME NEW q \in Seq(Works \cup {Cancel}), q # <<>>, NEW w \in Works \cup {Cancel}
  PROVE  [q EXCEPT ![Len(q)] = w] \in Seq(Works \cup {Cancel}) /\ Replaced(q, [q EXCEPT ![Len(q)] = w], w)
  BY DEF Replaced

----------------------------------------------------------------------------
(* Edges *)

\* The edges of a client in a queue can be counted.
LEMMA EdgesFinite ==
  ASSUME NEW q \in Seq(Works \cup {Cancel}), NEW c
  PROVE  /\ IsFiniteSet(EdgesOf(q, c)) /\ Cardinality(EdgesOf(q, c)) \in Nat
         /\ EdgesOf(q, c) \subseteq 1..Len(q) /\ Len(q) \in Nat
<1>1. Len(q) \in Nat /\ DOMAIN q = 1..Len(q)
  OBVIOUS
<1>2. IsFiniteSet(1..Len(q))
  BY <1>1, FS_Interval
<1>3. EdgesOf(q, c) \in SUBSET (1..Len(q))
  BY <1>1 DEF EdgesOf
<1>4. IsFiniteSet(EdgesOf(q, c))
  BY <1>2, <1>3, FS_Subset
<1> QED
  BY <1>1, <1>3, <1>4, FS_CardinalityType

\* A work that is appended counts once, if it is an edge.
LEMMA EdgesAppend ==
  ASSUME NEW q \in Seq(Works \cup {Cancel}), NEW w \in Works \cup {Cancel}, NEW c
  PROVE  Cardinality(EdgesOf(Append(q, w), c)) =
             Cardinality(EdgesOf(q, c)) + IF w.client = c /\ ~Replaceable(w) THEN 1 ELSE 0
<1> DEFINE n == Len(q) + 1
<1>1. Len(q) \in Nat /\ DOMAIN q = 1..Len(q) /\ DOMAIN Append(q, w) = 1..n /\ Append(q, w)[n] = w
  BY AppendIs
<1>2. \A i \in 1..Len(q) : Append(q, w)[i] = q[i]
  BY AppendIs
<1>3. IsFiniteSet(EdgesOf(q, c)) /\ Cardinality(EdgesOf(q, c)) \in Nat /\ n \notin EdgesOf(q, c)
  BY <1>1, EdgesFinite
<1>4. CASE w.client = c /\ ~Replaceable(w)
  <2>1. EdgesOf(Append(q, w), c) = EdgesOf(q, c) \cup {n}
    BY <1>1, <1>2, <1>4 DEF EdgesOf
  <2>2. Cardinality(EdgesOf(q, c) \cup {n}) = Cardinality(EdgesOf(q, c)) + 1
    <3> HIDE DEF n
    <3> QED
      BY <1>3, FS_AddElement
  <2> QED
    BY <1>4, <2>1, <2>2
<1>5. CASE ~(w.client = c /\ ~Replaceable(w))
  <2>1. EdgesOf(Append(q, w), c) = EdgesOf(q, c)
    BY <1>1, <1>2, <1>5 DEF EdgesOf
  <2> QED
    BY <1>3, <1>5, <2>1
<1> QED
  BY <1>4, <1>5

\* A work that leaves the queue takes itself away and no other edge.
LEMMA EdgesWithout ==
  ASSUME NEW q \in Seq(Works \cup {Cancel}), NEW r \in Seq(Works \cup {Cancel}), NEW k, Without(q, r, k), NEW c
  PROVE  /\ k \in EdgesOf(q, c) => Cardinality(EdgesOf(r, c)) = Cardinality(EdgesOf(q, c)) - 1
         /\ k \notin EdgesOf(q, c) => Cardinality(EdgesOf(r, c)) = Cardinality(EdgesOf(q, c))
<1> DEFINE E == EdgesOf(q, c)
           A == E \ {k}
           B == EdgesOf(r, c)
           F == [i \in A |-> IF i < k THEN i ELSE i - 1]
<1>1. Len(q) \in Nat /\ Len(r) \in Nat /\ DOMAIN q = 1..Len(q) /\ DOMAIN r = 1..Len(r) /\ k \in 1..Len(q)
  BY DEF Without
<1>2. Len(r) = Len(q) - 1 /\ \A i \in 1..Len(r) : r[i] = IF i < k THEN q[i] ELSE q[i + 1]
  BY DEF Without
<1>3. A \subseteq 1..Len(q) /\ k \notin A
  BY <1>1 DEF EdgesOf
<1>4. ASSUME NEW i \in A PROVE F[i] \in B
  <2>1. CASE i < k
    BY <1>1, <1>2, <1>3, <2>1 DEF EdgesOf
  <2>2. CASE i > k
    <3>1. i - 1 \in 1..Len(r) /\ ~(i - 1 < k) /\ (i - 1) + 1 = i
      BY <1>1, <1>2, <1>3, <2>2
    <3>2. r[i - 1] = q[i]
      BY <1>2, <3>1
    <3> QED
      BY <1>1, <3>1, <3>2, <2>2 DEF EdgesOf
  <2> QED
    BY <1>1, <1>3, <2>1, <2>2
<1>5. F \in [A -> B]
  BY <1>4
<1>6. \A i, j \in A : F[i] = F[j] => i = j
  BY <1>1, <1>3
<1>7. ASSUME NEW j \in B PROVE \E i \in A : F[i] = j
  <2>1. j \in 1..Len(r) /\ r[j].client = c /\ ~Replaceable(r[j])
    BY <1>1 DEF EdgesOf
  <2>2. CASE j < k
    <3>1. j \in A
      BY <1>1, <1>2, <2>1, <2>2 DEF EdgesOf
    <3> QED
      BY <3>1, <2>2
  <2>3. CASE ~(j < k)
    <3>1. j + 1 \in A /\ ~(j + 1 < k) /\ (j + 1) - 1 = j
      BY <1>1, <1>2, <2>1, <2>3 DEF EdgesOf
    <3> QED
      BY <3>1
  <2> QED
    BY <2>2, <2>3
<1>8. IsFiniteSet(E) /\ Cardinality(E) \in Nat
  BY EdgesFinite
<1> HIDE DEF E, B
<1>9. F \in Bijection(A, B)
  BY <1>5, <1>6, <1>7 DEF Bijection, Injection, Surjection, IsInjective
<1>10. IsFiniteSet(A) /\ Cardinality(A) = IF k \in E THEN Cardinality(E) - 1 ELSE Cardinality(E)
  BY <1>8, FS_RemoveElement
<1>11. Cardinality(B) = Cardinality(A)
  <2>1. ExistsBijection(A, B)
    BY <1>9 DEF ExistsBijection
  <2> HIDE DEF A
  <2> QED
    BY <2>1, <1>10, FS_Bijection
<1> QED
  BY <1>10, <1>11 DEF E, B

\* Motion that takes the place of motion changes no edge.
LEMMA EdgesReplaced ==
  ASSUME NEW q \in Seq(Works \cup {Cancel}), NEW r \in Seq(Works \cup {Cancel}), NEW w, Replaced(q, r, w), NEW c,
         Replaceable(w), Replaceable(q[Len(q)])
  PROVE  EdgesOf(r, c) = EdgesOf(q, c)
<1>1. DOMAIN r = 1..Len(q) /\ DOMAIN q = 1..Len(q)
  BY DEF Replaced
<1>2. \A i \in 1..Len(q) : (r[i].client = c /\ ~Replaceable(r[i])) <=> (q[i].client = c /\ ~Replaceable(q[i]))
  BY DEF Replaced
<1> QED
  BY <1>1, <1>2 DEF EdgesOf

----------------------------------------------------------------------------
(* The order of the works of a client *)

InOrder(q) == \A i, j \in 1..Len(q) : i < j /\ q[i].client = q[j].client => q[i].seq <= q[j].seq
Since(q, n) == \A i \in 1..Len(q) : q[i].seq <= n

\* Works carry the number of their message; a cancellation carries none.
LEMMA WorkSeqs ==
  ASSUME NEW q \in Seq(Works \cup {Cancel})
  PROVE  \A i \in 1..Len(q) : q[i].seq \in Nat /\ (q[i].client = NoClient => q[i].seq = 0)
<1>1. \A i \in 1..Len(q) : q[i] \in Works \cup {Cancel}
  OBVIOUS
<1>2. \A u \in Works : u.client # NoClient /\ u.seq \in Nat
  BY InputAssumption DEF Works
<1>3. Cancel.seq = 0
  BY DEF Cancel
<1> QED
  BY <1>1, <1>2, <1>3

\* A work that leaves a queue leaves the others in their order.
LEMMA OrderWithout ==
  ASSUME NEW q \in Seq(Works \cup {Cancel}), NEW r \in Seq(Works \cup {Cancel}), NEW k, Without(q, r, k),
         NEW n \in Nat, InOrder(q), Since(q, n)
  PROVE  InOrder(r) /\ Since(r, n)
<1>1. Len(q) \in Nat /\ Len(r) \in Nat
  OBVIOUS
<1>2. k \in 1..Len(q) /\ Len(r) = Len(q) - 1 /\ \A i \in 1..Len(r) : r[i] = IF i < k THEN q[i] ELSE q[i + 1]
  BY DEF Without
<1>3. \A i \in 1..Len(r) : \E j \in 1..Len(q) : r[i] = q[j] /\ j = IF i < k THEN i ELSE i + 1
  BY <1>1, <1>2
<1>4. ASSUME NEW i \in 1..Len(r), NEW j \in 1..Len(r), i < j, r[i].client = r[j].client
      PROVE  r[i].seq <= r[j].seq
  <2>1. PICK a \in 1..Len(q) : r[i] = q[a] /\ a = IF i < k THEN i ELSE i + 1
    BY <1>3
  <2>2. PICK b \in 1..Len(q) : r[j] = q[b] /\ b = IF j < k THEN j ELSE j + 1
    BY <1>3
  <2>3. a < b
    BY <1>1, <1>2, <1>4, <2>1, <2>2
  <2> QED
    BY <1>4, <2>1, <2>2, <2>3 DEF InOrder
<1>5. \A i \in 1..Len(r) : r[i].seq <= n
  BY <1>3 DEF Since
<1> QED
  BY <1>4, <1>5 DEF InOrder, Since

\* A new work comes after all works of its client.
LEMMA OrderAppend ==
  ASSUME NEW q \in Seq(Works \cup {Cancel}), NEW w \in Works \cup {Cancel}, NEW n \in Nat, NEW m \in Nat, n <= m,
         InOrder(q), Since(q, n), w = Cancel \/ w.seq = m
  PROVE  InOrder(Append(q, w)) /\ Since(Append(q, w), m)
<1> DEFINE r == Append(q, w)
<1>1. Len(q) \in Nat /\ Len(r) = Len(q) + 1 /\ r[Len(q) + 1] = w
  BY AppendIs
<1>2. \A i \in 1..Len(q) : r[i] = q[i] /\ q[i].seq \in Nat /\ (q[i].client = NoClient => q[i].seq = 0)
  BY AppendIs, WorkSeqs
<1>3. Cancel.seq = 0 /\ Cancel.client = NoClient
  BY DEF Cancel
<1>4. \A u \in Works : u.client # NoClient
  BY InputAssumption DEF Works
<1>5. w.seq \in Nat /\ w.seq <= m /\ (w.client # NoClient => w.seq = m)
  BY <1>3, <1>4
<1> HIDE DEF r
<1>6. \A i \in 1..Len(r) : r[i].seq <= m
  BY <1>1, <1>2, <1>5 DEF Since
<1>7. ASSUME NEW i \in 1..Len(r), NEW j \in 1..Len(r), i < j, r[i].client = r[j].client
      PROVE  r[i].seq <= r[j].seq
  <2>1. i \in 1..Len(q) /\ r[i] = q[i] /\ q[i].seq <= n
    BY <1>1, <1>2, <1>7 DEF Since
  <2>2. CASE j = Len(q) + 1
    BY <1>1, <1>2, <1>5, <1>7, <2>1, <2>2
  <2>3. CASE j \in 1..Len(q)
    BY <1>2, <1>7, <2>1, <2>3 DEF InOrder
  <2> QED
    BY <1>1, <2>2, <2>3
<1> QED
  BY <1>6, <1>7 DEF InOrder, Since, r

\* So does motion that takes the place of motion of the same client.
LEMMA OrderReplaced ==
  ASSUME NEW q \in Seq(Works \cup {Cancel}), NEW r \in Seq(Works \cup {Cancel}), NEW w, Replaced(q, r, w),
         NEW n \in Nat, NEW m \in Nat, n <= m, InOrder(q), Since(q, n),
         w.seq = m, w.client = q[Len(q)].client
  PROVE  InOrder(r) /\ Since(r, m)
<1>1. Len(r) = Len(q) /\ Len(q) \in Nat \ {0}
  BY DEF Replaced
<1>2. \A i \in 1..Len(q) : (i = Len(q) => r[i] = w) /\ (i # Len(q) => r[i] = q[i])
  BY DEF Replaced
<1>3. \A i \in 1..Len(q) : q[i].seq \in Nat
  BY WorkSeqs
<1>4. \A i \in 1..Len(r) : r[i].seq <= m
  BY <1>1, <1>2, <1>3 DEF Since
<1>5. ASSUME NEW i \in 1..Len(r), NEW j \in 1..Len(r), i < j, r[i].client = r[j].client
      PROVE  r[i].seq <= r[j].seq
  <2>1. i \in 1..Len(q) /\ i # Len(q) /\ r[i] = q[i]
    BY <1>1, <1>2, <1>5
  <2>2. CASE j = Len(q)
    BY <1>1, <1>2, <1>3, <2>1, <2>2 DEF Since
  <2>3. CASE j # Len(q)
    BY <1>1, <1>2, <1>5, <2>1, <2>3 DEF InOrder
  <2> QED
    BY <2>2, <2>3
<1> QED
  BY <1>4, <1>5 DEF InOrder, Since

----------------------------------------------------------------------------
(* What a client holds, and its reports of it *)

\* A client that is said to hold more keeps as much.
LEMMA KeepsMore ==
  ASSUME NEW q, NEW i, NEW c, NEW X, NEW mine, NEW mine2, Keeps(q, i, c, X, mine), X \cap mine \subseteq mine2
  PROVE  Keeps(q, i, c, X, mine2)
  BY DEF Keeps

\* Nobody keeps nothing.
LEMMA KeepsNothing ==
  ASSUME NEW q, NEW i, NEW c, NEW mine
  PROVE  Keeps(q, i, c, {}, mine)
  BY DEF Keeps

\* Behind the last work there is only what the client holds.
LEMMA KeepsLast ==
  ASSUME NEW q, NEW i \in Nat, Len(q) = i, NEW c, NEW mine
  PROVE  Keeps(q, i, c, mine, mine)
  BY DEF Keeps

\* Client c lets button b go only by a report that says so.
Lifts(w, mine) == \A b \in mine \ w.set : w.kind = "up" /\ w.item = b

\* A report is appended.
LEMMA KeepsAppend ==
  ASSUME NEW q \in Seq(Works \cup {Cancel}), NEW w \in Works \cup {Cancel}, NEW i \in 0..Len(q), NEW c, NEW X,
         NEW mine, NEW mine2, Keeps(q, i, c, X, mine),
         w.client = c => mine2 = w.set /\ Lifts(w, mine),
         w.client # c => X \cap mine \subseteq mine2
  PROVE  Keeps(Append(q, w), i, c, X, mine2)
<1> DEFINE r == Append(q, w)  n == Len(q)
<1>1. n \in Nat /\ Len(r) = n + 1 /\ r[n + 1] = w /\ \A j \in 1..n : r[j] = q[j]
  BY AppendIs
<1> HIDE DEF r, n
<1>2. i \in 0..n /\ i \in Nat
  BY DEF n
<1> SUFFICES ASSUME NEW b \in X
             PROVE  /\ \A j \in (i + 1)..Len(r) : r[j].client = c /\ b \notin r[j].set => LetGo(r, i + 1, j, c, b)
                    /\ b \notin mine2 => LetGo(r, i + 1, Len(r), c, b)
  BY DEF Keeps, r
<1>3. ASSUME NEW j \in (i + 1)..n, LetGo(q, i + 1, j, c, b)
      PROVE  LetGo(r, i + 1, j, c, b) /\ LetGo(r, i + 1, n + 1, c, b)
  <2>1. PICK m \in (i + 1)..j : q[m].client = c /\ q[m].kind = "up" /\ q[m].item = b
    BY <1>3 DEF LetGo
  <2>2. m \in 1..n /\ m \in (i + 1)..(n + 1) /\ r[m] = q[m]
    BY <1>1, <1>2, <2>1
  <2> QED
    BY <2>1, <2>2 DEF LetGo
<1>4. ASSUME LetGo(q, i + 1, n, c, b) PROVE LetGo(r, i + 1, n + 1, c, b)
  <2>1. n \in (i + 1)..n
    BY <1>1, <1>2, <1>4 DEF LetGo
  <2> QED
    BY <1>3, <1>4, <2>1
<1>5. b \notin mine => LetGo(q, i + 1, n, c, b)
  BY DEF Keeps, n
<1>6. ASSUME w.client = c, b \notin w.set PROVE LetGo(r, i + 1, n + 1, c, b)
  <2>1. CASE b \notin mine
    BY <1>4, <1>5, <2>1
  <2>2. CASE b \in mine
    <3>1. w.kind = "up" /\ w.item = b /\ n + 1 \in (i + 1)..(n + 1)
      BY <1>1, <1>2, <1>6, <2>2 DEF Lifts
    <3> QED
      BY <1>1, <1>6, <3>1 DEF LetGo
  <2> QED
    BY <2>1, <2>2
<1>7. ASSUME NEW j \in (i + 1)..Len(r), r[j].client = c, b \notin r[j].set PROVE LetGo(r, i + 1, j, c, b)
  <2>1. CASE j = n + 1
    BY <1>1, <1>6, <1>7, <2>1
  <2>2. CASE j # n + 1
    <3>1. j \in (i + 1)..n /\ j \in 1..n
      BY <1>1, <1>2, <2>2
    <3>2. LetGo(q, i + 1, j, c, b)
      BY <1>1, <1>7, <3>1 DEF Keeps, n
    <3> QED
      BY <1>3, <3>1, <3>2
  <2> QED
    BY <2>1, <2>2
<1>8. b \notin mine2 => LetGo(r, i + 1, n + 1, c, b)
  BY <1>4, <1>5, <1>6
<1> QED
  BY <1>1, <1>7, <1>8

\* A work that does not let a button of the client go leaves the queue.
LEMMA KeepsWithout ==
  ASSUME NEW q \in Seq(Works \cup {Cancel}), NEW r \in Seq(Works \cup {Cancel}), NEW k, Without(q, r, k),
         NEW i \in 0..Len(q), NEW c, NEW X, NEW mine, Keeps(q, i, c, X, mine),
         i < k => ~(q[k].client = c /\ q[k].kind = "up")
  PROVE  Keeps(r, IF i < k THEN i ELSE i - 1, c, X, mine)
<1> DEFINE n == Len(r)  e == IF i < k THEN i ELSE i - 1
<1>1. n \in Nat /\ Len(q) = n + 1 /\ k \in 1..(n + 1) /\ i \in 0..(n + 1) /\ e \in Nat
  BY DEF Without
<1>2. \A j \in 1..n : (j < k => r[j] = q[j]) /\ (~(j < k) => r[j] = q[j + 1])
  BY DEF Without
<1> HIDE DEF n
<1>3. ASSUME NEW b, NEW j \in Nat, NEW l \in Nat, l <= n, j = IF l < k THEN l ELSE l + 1, LetGo(q, i + 1, j, c, b)
      PROVE  LetGo(r, e + 1, l, c, b)
  <2>1. PICK m \in (i + 1)..j : q[m].client = c /\ q[m].kind = "up" /\ q[m].item = b
    BY <1>3 DEF LetGo
  <2>2. m # k
    BY <1>1, <2>1
  <2>3. CASE m < k
    <3>1. m \in 1..n /\ m \in (e + 1)..l /\ r[m] = q[m]
      BY <1>1, <1>2, <1>3, <2>1, <2>3
    <3> QED
      BY <2>1, <3>1 DEF LetGo
  <2>4. CASE m > k
    <3>1. m - 1 \in 1..n /\ m - 1 \in (e + 1)..l /\ ~(m - 1 < k) /\ (m - 1) + 1 = m
      BY <1>1, <1>3, <2>1, <2>4
    <3>2. r[m - 1] = q[m]
      BY <1>2, <3>1
    <3> QED
      BY <2>1, <3>1, <3>2 DEF LetGo
  <2> QED
    BY <1>1, <2>1, <2>2, <2>3, <2>4
<1>4. ASSUME NEW b \in X, NEW l \in (e + 1)..n, r[l].client = c, b \notin r[l].set
      PROVE  LetGo(r, e + 1, l, c, b)
  <2> DEFINE j == IF l < k THEN l ELSE l + 1
  <2>1. l \in 1..n /\ j \in (i + 1)..(n + 1) /\ r[l] = q[j]
    BY <1>1, <1>2
  <2>2. LetGo(q, i + 1, j, c, b)
    BY <1>1, <1>4, <2>1 DEF Keeps
  <2>3. j \in Nat /\ l \in Nat /\ l <= n
    BY <1>1
  <2> QED
    BY <1>3, <2>2, <2>3
<1>5. ASSUME NEW b \in X, b \notin mine
      PROVE  LetGo(r, e + 1, n, c, b)
  <2>1. LetGo(q, i + 1, n + 1, c, b)
    BY <1>1, <1>5 DEF Keeps
  <2>2. CASE ~(n < k)
    BY <1>1, <1>3, <2>1, <2>2
  <2>3. CASE n < k
    <3>1. k = n + 1
      BY <1>1, <2>3
    <3>2. LetGo(q, i + 1, n, c, b)
      <4>1. PICK m \in (i + 1)..(n + 1) : q[m].client = c /\ q[m].kind = "up" /\ q[m].item = b
        BY <2>1 DEF LetGo
      <4>2. m # k
        BY <1>1, <4>1
      <4>3. m \in (i + 1)..n
        BY <1>1, <4>1, <4>2, <3>1
      <4> QED
        BY <4>1, <4>3 DEF LetGo
    <3> QED
      BY <1>1, <1>3, <2>3, <3>2
  <2> QED
    BY <2>2, <2>3
<1> QED
  BY <1>4, <1>5 DEF Keeps, n

\* Motion takes the place of motion that reports the same buttons.
LEMMA KeepsReplaced ==
  ASSUME NEW q \in Seq(Works \cup {Cancel}), NEW r \in Seq(Works \cup {Cancel}), NEW w, Replaced(q, r, w),
         NEW i \in 0..(Len(q) - 1), NEW c, NEW X, NEW mine, NEW mine2, Keeps(q, i, c, X, mine),
         w.client = q[Len(q)].client, w.set = q[Len(q)].set, q[Len(q)].kind # "up",
         X \cap mine \subseteq mine2
  PROVE  Keeps(r, i, c, X, mine2)
<1> DEFINE n == Len(q)
<1>1. n \in Nat \ {0} /\ Len(r) = n /\ i \in 0..n /\ i \in Nat
  BY DEF Replaced
<1>2. \A j \in 1..n : (j = n => r[j] = w) /\ (j # n => r[j] = q[j])
  BY DEF Replaced
<1> HIDE DEF n
<1>3. ASSUME NEW b, NEW j \in Nat, j <= n, LetGo(q, i + 1, j, c, b)
      PROVE  LetGo(r, i + 1, j, c, b)
  <2>1. PICK m \in (i + 1)..j : q[m].client = c /\ q[m].kind = "up" /\ q[m].item = b
    BY <1>3 DEF LetGo
  <2>2. m # n
    BY <2>1 DEF n
  <2>3. r[m] = q[m]
    BY <1>1, <1>2, <1>3, <2>1, <2>2
  <2> QED
    BY <2>1, <2>3 DEF LetGo
<1>4. ASSUME NEW b \in X, NEW j \in (i + 1)..n, r[j].client = c, b \notin r[j].set
      PROVE  LetGo(r, i + 1, j, c, b)
  <2>1. j \in Nat /\ j <= n /\ j \in 1..n
    BY <1>1
  <2>2. q[j].client = c /\ b \notin q[j].set
    BY <1>2, <1>4, <2>1 DEF n
  <2>3. LetGo(q, i + 1, j, c, b)
    BY <2>2 DEF Keeps, n
  <2> QED
    BY <1>3, <2>1, <2>3
<1>5. ASSUME NEW b \in X, b \notin mine2
      PROVE  LetGo(r, i + 1, n, c, b)
  <2>1. LetGo(q, i + 1, n, c, b)
    BY <1>5 DEF Keeps, n
  <2> QED
    BY <1>1, <1>3, <2>1
<1> QED
  BY <1>1, <1>4, <1>5 DEF Keeps

----------------------------------------------------------------------------
(* The workers *)

\* The part of the invariant that is about the lanes and Chromium.
Unowned(k) == k.owner = NoClient /\ k.session = NoSession /\ k.held = {}
LanesHold ==
    /\ alive \in BOOLEAN
    /\ lane \in [Lanes -> LaneStates((Items \X Nat) \cup Points \cup Buttons)]
    /\ lane["touch"].held \subseteq Items \X Nat /\ lane["pointer"].held \subseteq Points \cup Buttons
    /\ contacts \in [Sessions -> SUBSET Nat] /\ pressed \in [Sessions -> SUBSET Items]
    /\ \A l \in Lanes : lane[l].owner = NoClient => Unowned(lane[l])
    /\ HeldInputOwned

\* A lane that is free holds nothing.
LEMMA FreeIs ==
  /\ Free \in LaneStates({}) /\ Unowned(Free)
  /\ \A n \in Nat : [Free EXCEPT !.lastSeq = n] \in LaneStates({}) /\ Unowned([Free EXCEPT !.lastSeq = n])
  BY DEF Free, LaneStates, Unowned

\* A lane that a client has just taken holds nothing yet.
LEMMA OwnedIs ==
  ASSUME NEW w \in Works, NEW s \in Sessions
  PROVE  /\ Owned(w, s) \in LaneStates({})
         /\ Owned(w, s).owner = w.client /\ Owned(w, s).session = s /\ Owned(w, s).held = {}
<1>1. w.client \in Clients /\ w.surface \in Nat
  BY DEF Works
<1> QED
  BY <1>1 DEF Owned, Free, LaneStates

\* A lane that may hold more kinds of things.
LEMMA LaneStatesMore ==
  ASSUME NEW A, NEW B, A \subseteq B, NEW k \in LaneStates(A)
  PROVE  k \in LaneStates(B)
  BY DEF LaneStates

\* cancelActive: the lane and Chromium let everything go.
LEMMA LettingGo ==
  ASSUME LanesHold, NEW l \in Lanes, NEW took \in LaneStates({}), Unowned(took), CancelActive(l, took), alive' = alive
  PROVE  LanesHold' /\ lane' = [lane EXCEPT ![l] = took]
<1> DEFINE All == (Items \X Nat) \cup Points \cup Buttons
<1>1. /\ alive \in BOOLEAN /\ lane \in [Lanes -> LaneStates(All)]
      /\ contacts \in [Sessions -> SUBSET Nat] /\ pressed \in [Sessions -> SUBSET Items]
  BY DEF LanesHold
<1>2. took \in LaneStates(All)
  BY LaneStatesMore
<1>3. lane' = [lane EXCEPT ![l] = took]
  BY DEF CancelActive
<1> HIDE DEF All
<1>4. lane' \in [Lanes -> LaneStates(All)] /\ lane'[l] = took /\ \A m \in Lanes \ {l} : lane'[m] = lane[m]
  BY <1>1, <1>2, <1>3
<1>5. took.held = {} /\ took.owner = NoClient /\ took.session = NoSession
  BY DEF Unowned
<1>6. "touch" \in Lanes /\ "pointer" \in Lanes
  BY DEF Lanes
<1>7. lane["touch"].held \subseteq Items \X Nat /\ lane["pointer"].held \subseteq Points \cup Buttons
  BY DEF LanesHold
<1>8. lane'["touch"].held \subseteq Items \X Nat /\ lane'["pointer"].held \subseteq Points \cup Buttons
  BY <1>4, <1>5, <1>6, <1>7
<1>9. \A m \in Lanes : lane'[m].owner = NoClient => Unowned(lane'[m])
  BY <1>4 DEF LanesHold
<1>10. CASE l = "touch"
  <2>1. /\ contacts' = IF lane[l].held # {} THEN [contacts EXCEPT ![lane[l].session] = {}] ELSE contacts
        /\ pressed' = pressed
    BY <1>10 DEF CancelActive
  <2>2. contacts' \in [Sessions -> SUBSET Nat]
    BY <1>1, <2>1
  <2>3. lane'["pointer"] = lane["pointer"] /\ lane'["touch"] = took
    BY <1>4, <1>6, <1>10
  <2>4. PressesOwned'
    BY <2>1, <2>3 DEF PressesOwned, LanesHold, HeldInputOwned
  <2>5. ContactsOwned'
    <3>1. ASSUME alive, NEW s \in Sessions PROVE contacts'[s] = {}
      <4>1. contacts[s] = IF lane["touch"].session = s THEN Numbers(lane["touch"].held) ELSE {}
        BY <3>1 DEF LanesHold, HeldInputOwned, ContactsOwned
      <4>2. Numbers({}) = {}
        BY DEF Numbers
      <4> QED
        BY <1>1, <1>10, <2>1, <4>1, <4>2
    <3>2. Numbers(took.held) = {}
      BY <1>5 DEF Numbers
    <3> QED
      BY <2>3, <3>1, <3>2 DEF ContactsOwned
  <2> QED
    BY <1>1, <1>3, <1>4, <1>8, <1>9, <2>1, <2>2, <2>4, <2>5 DEF LanesHold, HeldInputOwned, All
<1>11. CASE l = "pointer"
  <2>1. /\ pressed' = IF lane[l].held # {} THEN [pressed EXCEPT ![lane[l].session] = @ \ lane[l].held] ELSE pressed
        /\ contacts' = contacts
    BY <1>11 DEF CancelActive
  <2>2. pressed' \in [Sessions -> SUBSET Items]
    BY <1>1, <2>1
  <2>3. lane'["touch"] = lane["touch"] /\ lane'["pointer"] = took
    BY <1>4, <1>6, <1>11
  <2>4. ContactsOwned'
    BY <2>1, <2>3 DEF ContactsOwned, LanesHold, HeldInputOwned
  <2>5. PressesOwned'
    <3>1. ASSUME alive, NEW s \in Sessions PROVE pressed'[s] = {}
      <4>1. pressed[s] \subseteq IF lane["pointer"].session = s THEN lane["pointer"].held ELSE {}
        BY <3>1 DEF LanesHold, HeldInputOwned, PressesOwned
      <4> QED
        BY <1>1, <1>11, <2>1, <4>1
    <3> QED
      BY <2>3, <3>1 DEF PressesOwned
  <2> QED
    BY <1>1, <1>3, <1>4, <1>8, <1>9, <2>1, <2>2, <2>4, <2>5 DEF LanesHold, HeldInputOwned, All
<1> QED
  BY <1>10, <1>11 DEF Lanes

\* addBrowserTouchID
LEMMA FreeIDIs ==
  ASSUME NEW fingers PROVE FreeID(fingers) \in Nat
<1> DEFINE free == (0 .. MaxContacts - 1) \ {h[2] : h \in fingers}
<1>1. MaxContacts \in Nat
  BY InputAssumption
<1>2. free \in SUBSET Nat
  BY <1>1
<1>3. FreeID(fingers) = IF free = {} THEN MaxContacts ELSE CHOOSE n \in free : \A m \in free : n <= m
  BY DEF FreeID
<1> HIDE DEF free
<1>4. free # {} => (CHOOSE n \in free : \A m \in free : n <= m) \in free
  BY <1>2, LeastNatural
<1> QED
  BY <1>1, <1>2, <1>3, <1>4

\* The end of touchInput.process.
LEMMA Touching ==
  ASSUME LanesHold, NEW w \in Works, NEW s \in Sessions, NEW k \in LaneStates(Items \X Nat),
         k.session = s, k.owner \in Clients,
         \/ k = lane["touch"]
         \/ lane["touch"].owner = NoClient /\ k.held = {},
         Touch(w, s, k), alive' = alive
  PROVE  LanesHold' /\ lane'["pointer"] = lane["pointer"]
<1> DEFINE All == (Items \X Nat) \cup Points \cup Buttons
           fits == CASE w.kind = "start" -> w.item \notin Fingers(k.held) /\ FreeID(k.held) < MaxContacts
                     [] w.kind = "end" -> w.item \in Fingers(k.held)
                     [] w.kind = "move" -> w.set = Fingers(k.held)
                     [] OTHER -> TRUE
           h2 == CASE w.kind = "start" -> k.held \cup {<<w.item, FreeID(k.held)>>}
                   [] w.kind = "end" -> {h \in k.held : h[1] # w.item}
                   [] w.kind = "move" -> k.held
                   [] OTHER -> {}
           k2 == IF h2 = {} \/ ~alive THEN Free ELSE [k EXCEPT !.held = h2, !.lastSeq = w.seq]
<1>0. "touch" \in Lanes /\ "pointer" \in Lanes
  BY DEF Lanes
<1>1. CASE w.seq <= k.lastSeq \/ ~fits
  <2>1. CancelActive("touch", Free)
    BY <1>1 DEF Touch
  <2>2. LanesHold' /\ lane' = [lane EXCEPT !["touch"] = Free]
    BY <1>0, <2>1, FreeIs, LettingGo
  <2> QED
    BY <1>0, <2>2 DEF LanesHold
<1>2. CASE ~(w.seq <= k.lastSeq \/ ~fits)
  <2>1. /\ lane' = [lane EXCEPT !["touch"] = k2]
        /\ contacts' = IF alive THEN [contacts EXCEPT ![s] = Numbers(h2)] ELSE contacts
        /\ pressed' = pressed
    BY <1>2 DEF Touch
  <2>2. w.item \in Items /\ w.seq \in Nat
    BY DEF Works
  <2>3. k.held \subseteq Items \X Nat
    BY DEF LaneStates
  <2>4. h2 \subseteq Items \X Nat
    <3>1. FreeID(k.held) \in Nat
      BY FreeIDIs
    <3> QED
      BY <2>2, <2>3, <3>1
  <2> HIDE DEF h2, fits
  <2>5. k2 \in LaneStates(Items \X Nat)
    <3>1. Free \in LaneStates(Items \X Nat)
      BY FreeIs, LaneStatesMore
    <3>2. [k EXCEPT !.held = h2, !.lastSeq = w.seq] \in LaneStates(Items \X Nat)
      BY <2>2, <2>4 DEF LaneStates
    <3> QED
      BY <3>1, <3>2
  <2>6. k2 \in LaneStates(All) /\ k2.held \subseteq Items \X Nat
    <3>1. k2 \in LaneStates(All)
      BY <2>5, LaneStatesMore
    <3> QED
      BY <2>5, <3>1 DEF LaneStates
  <2>7. k2.owner = NoClient => Unowned(k2)
    <3>1. [k EXCEPT !.held = h2, !.lastSeq = w.seq].owner # NoClient
      BY InputAssumption DEF LaneStates
    <3> QED
      BY <3>1, FreeIs
  <2>8. alive /\ h2 # {} => k2.session = s /\ k2.held = h2
    BY DEF LaneStates
  <2>9. alive /\ h2 = {} => k2.session = NoSession /\ k2.held = {}
    BY FreeIs DEF Unowned
  <2> HIDE DEF k2, All
  <2>10. lane \in [Lanes -> LaneStates(All)]
    BY DEF LanesHold, All
  <2>11. lane' \in [Lanes -> LaneStates(All)] /\ lane'["touch"] = k2 /\ lane'["pointer"] = lane["pointer"]
    BY <1>0, <2>1, <2>6, <2>10
  <2>12. \A m \in Lanes : lane'[m].owner = NoClient => Unowned(lane'[m])
    BY <2>7, <2>11 DEF LanesHold, Lanes
  <2>13. contacts \in [Sessions -> SUBSET Nat] /\ Numbers(h2) \subseteq Nat
    BY <2>4 DEF LanesHold, Numbers
  <2>14. contacts' \in [Sessions -> SUBSET Nat]
    BY <2>1, <2>13
  <2>15. PressesOwned'
    BY <2>1, <2>11 DEF PressesOwned, LanesHold, HeldInputOwned
  <2>16. ContactsOwned'
    <3> SUFFICES ASSUME alive, NEW t \in Sessions
                 PROVE  contacts'[t] = IF k2.session = t THEN Numbers(k2.held) ELSE {}
      BY <2>11 DEF ContactsOwned
    <3>1. Numbers({}) = {}
      BY DEF Numbers
    <3>2. contacts' = [contacts EXCEPT ![s] = Numbers(h2)]
      BY <2>1
    <3>3. contacts[t] = IF lane["touch"].session = t THEN Numbers(lane["touch"].held) ELSE {}
      BY DEF LanesHold, HeldInputOwned, ContactsOwned
    <3>4. lane["touch"].session \in {s, NoSession} /\ NoSession \notin Sessions
      BY <1>0, InputAssumption DEF LanesHold, Unowned
    <3>5. CASE t = s
      BY <2>8, <2>9, <2>13, <3>1, <3>2, <3>4, <3>5
    <3>6. CASE t # s
      BY <2>8, <2>9, <2>13, <3>1, <3>2, <3>3, <3>4, <3>6
    <3> QED
      BY <3>5, <3>6
  <2> QED
    BY <2>1, <2>6, <2>11, <2>12, <2>14, <2>15, <2>16 DEF LanesHold, HeldInputOwned, All
<1> QED
  BY <1>1, <1>2

\* The end of pointerInput.process.
LEMMA Pointing ==
  ASSUME LanesHold, NEW w \in Works, NEW s \in Sessions, NEW k \in LaneStates(Points \cup Buttons),
         k.session = s, k.owner = w.client,
         \/ k = lane["pointer"]
         \/ lane["pointer"].owner = NoClient /\ k.held = {},
         Lifts(w, k.held), w.kind = "down" => w.item \in w.set,
         Pointer(w, s, k), alive' = alive
  PROVE  /\ LanesHold' /\ lane'["touch"] = lane["touch"]
         /\ \/ lane'["pointer"].owner = NoClient
            \/ /\ lane'["pointer"].owner = w.client
               /\ lane'["pointer"].held = IF w.kind = "wheel" THEN k.held ELSE w.set
<1> DEFINE All == (Items \X Nat) \cup Points \cup Buttons
           h2 == IF w.kind = "wheel" THEN k.held ELSE w.set
           k2 == [k EXCEPT !.lastSeq = w.seq, !.held = h2]
<1>0. "touch" \in Lanes /\ "pointer" \in Lanes
  BY DEF Lanes
<1>a. w.item \in Items /\ w.seq \in Nat /\ w.client \in Clients /\ w.set \subseteq Points \cup Buttons
  BY DEF Works
<1>1. ASSUME NEW took \in LaneStates({}), Unowned(took), CancelActive("pointer", took)
      PROVE  /\ LanesHold' /\ lane'["touch"] = lane["touch"]
             /\ lane'["pointer"].owner = NoClient
  <2>1. LanesHold' /\ lane' = [lane EXCEPT !["pointer"] = took]
    BY <1>0, <1>1, LettingGo
  <2> QED
    BY <1>0, <1>1, <2>1 DEF LanesHold, Unowned
<1>2. CASE w.seq <= k.lastSeq
  BY <1>1, <1>2, FreeIs DEF Pointer
<1>3. CASE ~(w.seq <= k.lastSeq) /\ ~alive
  BY <1>a, <1>1, <1>3, FreeIs DEF Pointer
<1>4. CASE ~(w.seq <= k.lastSeq) /\ alive
  <2>1. /\ lane' = [lane EXCEPT !["pointer"] = [k EXCEPT !.lastSeq = w.seq,
                                                  !.held = IF w.kind = "wheel" THEN @ ELSE w.set]]
        /\ pressed' = [pressed EXCEPT ![s] = CASE w.kind = "down" -> @ \cup {w.item}
                                               [] w.kind = "up" -> @ \ {w.item}
                                               [] OTHER -> @]
        /\ contacts' = contacts
    BY <1>4 DEF Pointer
  <2>2. [k EXCEPT !.lastSeq = w.seq, !.held = IF w.kind = "wheel" THEN @ ELSE w.set] = k2
    BY DEF LaneStates
  <2>3. k.held \subseteq Points \cup Buttons
    BY DEF LaneStates
  <2>4. h2 \subseteq Points \cup Buttons
    BY <1>a, <2>3
  <2> HIDE DEF h2
  <2>5. /\ k2 \in LaneStates(Points \cup Buttons) /\ k2.held = h2
        /\ k2.owner = w.client /\ k2.session = s
    BY <1>a, <2>4 DEF LaneStates
  <2> HIDE DEF k2
  <2>6. k2 \in LaneStates(All)
    BY <2>5, LaneStatesMore
  <2> HIDE DEF All
  <2>7. lane \in [Lanes -> LaneStates(All)]
    BY DEF LanesHold, All
  <2>8. lane' \in [Lanes -> LaneStates(All)] /\ lane'["pointer"] = k2 /\ lane'["touch"] = lane["touch"]
    BY <1>0, <2>1, <2>2, <2>6, <2>7
  <2>9. \A m \in Lanes : lane'[m].owner = NoClient => Unowned(lane'[m])
    BY <1>a, <2>5, <2>8, InputAssumption DEF LanesHold, Lanes
  <2>10. pressed \in [Sessions -> SUBSET Items]
    BY DEF LanesHold
  <2>11. pressed' \in [Sessions -> SUBSET Items]
    BY <1>a, <2>1, <2>10
  <2>12. ContactsOwned'
    BY <2>1, <2>8 DEF ContactsOwned, LanesHold, HeldInputOwned
  <2>13. PressesOwned'
    <3> SUFFICES ASSUME NEW t \in Sessions
                 PROVE  pressed'[t] \subseteq IF t = s THEN h2 ELSE {}
      BY <2>5, <2>8 DEF PressesOwned
    <3>1. pressed[t] \subseteq IF lane["pointer"].session = t THEN lane["pointer"].held ELSE {}
      BY <1>4 DEF LanesHold, HeldInputOwned, PressesOwned
    <3>2. /\ NoSession \notin Sessions
          /\ lane["pointer"].owner = NoClient => lane["pointer"].session = NoSession
      BY <1>0, InputAssumption DEF LanesHold, Unowned
    <3>3. pressed[t] \subseteq IF t = s THEN k.held ELSE {}
      BY <3>1, <3>2
    <3>4. CASE t # s
      BY <2>1, <2>10, <3>3, <3>4
    <3>5. CASE t = s
      <4>1. pressed'[t] = CASE w.kind = "down" -> pressed[t] \cup {w.item}
                            [] w.kind = "up" -> pressed[t] \ {w.item}
                            [] OTHER -> pressed[t]
        BY <2>1, <2>10, <3>5
      <4>2. \A b \in k.held : b \notin w.set => w.kind = "up" /\ w.item = b
        BY DEF Lifts
      <4>3. CASE w.kind = "down"
        BY <3>3, <3>5, <4>1, <4>2, <4>3 DEF h2
      <4>4. CASE w.kind = "up"
        BY <3>3, <3>5, <4>1, <4>2, <4>4 DEF h2
      <4>5. CASE w.kind \notin {"down", "up"}
        BY <3>3, <3>5, <4>1, <4>2, <4>5 DEF h2
      <4> QED
        BY <4>3, <4>4, <4>5
    <3> QED
      BY <3>4, <3>5
  <2>14. LanesHold'
    BY <2>1, <2>4, <2>5, <2>8, <2>9, <2>11, <2>12, <2>13 DEF LanesHold, HeldInputOwned, All
  <2> QED
    BY <2>5, <2>8, <2>14 DEF h2
<1> QED
  BY <1>2, <1>3, <1>4 DEF LanesHold

----------------------------------------------------------------------------
(* The clients *)

\* A queue from which motion may have been taken to make room.
Shortened(q, r) == r = q \/ \E k \in 1..Len(q) : Without(q, r, k) /\ Replaceable(q[k])

\* The parts of a work of a client.
LEMMA WorkIs ==
  ASSUME NEW w \in Works
  PROVE  /\ w # Cancel /\ w.client \in Clients /\ w.client # NoClient /\ w.client # Cancel.client
         /\ w.seq \in Nat /\ w.surface \in Nat
         /\ w.item \in Items /\ w.set \subseteq Points \cup Buttons
<1>1. w.client \in Clients /\ w.seq \in Nat /\ w.surface \in Nat /\ w.item \in Items /\ w.set \subseteq Points \cup Buttons
  BY DEF Works
<1>2. w.client # NoClient
  BY <1>1, InputAssumption
<1>3. Cancel.client = NoClient
  BY DEF Cancel
<1> QED
  BY <1>1, <1>2, <1>3

\* enqueue
LEMMA EnqueueInputIs ==
  ASSUME InputTypeOK, NEW l \in Lanes, NEW w \in Works, EnqueueInput(l, w)
  PROVE  \/ \E r \in Seq(Works \cup {Cancel}) :
               /\ queue' = [queue EXCEPT ![l] = r]
               /\ Replaced(queue[l], r, w) /\ Replaces(l, queue[l][Len(queue[l])], w)
               /\ link' = link /\ unsent' = unsent
         \/ link' = [link EXCEPT ![w.client] = "closed"] /\ queue' = queue /\ unsent' = unsent
         \/ \E r \in Seq(Works \cup {Cancel}) :
               /\ queue' = [queue EXCEPT ![l] = Append(r, w)]
               /\ Shortened(queue[l], r)
               /\ unsent' = [unsent EXCEPT ![l][w.client] = IF Replaceable(w) THEN @ ELSE @ + 1]
               /\ link' = link
<1> DEFINE q == queue[l]
           motion == {i \in DOMAIN q : Replaceable(q[i])}
           oldest == CHOOSE i \in motion : \A j \in motion : i <= j
           full == Len(q) >= QueueLimit
<1>1. queue \in [Lanes -> Seq(Works \cup {Cancel})] /\ q \in Seq(Works \cup {Cancel})
  BY DEF InputTypeOK
<1>2. CASE q # <<>> /\ Replaces(l, Last(q), w)
  <2>1. queue' = [queue EXCEPT ![l][Len(q)] = w] /\ link' = link /\ unsent' = unsent
    BY <1>2 DEF EnqueueInput
  <2>2. Last(q) = q[Len(q)]
    BY DEF Last
  <2> DEFINE r == [q EXCEPT ![Len(q)] = w]
  <2>3. r \in Seq(Works \cup {Cancel}) /\ Replaced(q, r, w)
    BY <1>1, <1>2, ReplacedIs
  <2>4. queue' = [queue EXCEPT ![l] = r]
    BY <2>1
  <2> HIDE DEF r
  <2> QED
    BY <1>2, <2>1, <2>2, <2>3, <2>4
<1>3. CASE ~(q # <<>> /\ Replaces(l, Last(q), w)) /\ full /\ motion = {}
  BY <1>3 DEF EnqueueInput
<1>4. CASE ~(q # <<>> /\ Replaces(l, Last(q), w)) /\ ~(full /\ motion = {})
  <2> DEFINE r == IF full THEN RemoveAt(q, oldest) ELSE q
  <2>1. /\ queue' = [queue EXCEPT ![l] = Append(r, w)]
        /\ unsent' = [unsent EXCEPT ![l][w.client] = IF Replaceable(w) THEN @ ELSE @ + 1]
        /\ link' = link
    BY <1>4 DEF EnqueueInput
  <2>2. CASE ~full
    BY <1>1, <2>1, <2>2 DEF Shortened
  <2>3. CASE full
    <3>1. motion # {} /\ DOMAIN q = 1..Len(q) /\ Len(q) \in Nat
      BY <1>1, <1>4, <2>3
    <3>2. motion \in SUBSET Nat
      BY <3>1
    <3>3. \A i \in motion : i \in 1..Len(q) /\ Replaceable(q[i])
      BY <3>1
    <3> HIDE DEF motion
    <3>4. oldest \in motion
      BY <3>1, <3>2, LeastNatural
    <3>5. oldest \in 1..Len(q) /\ Replaceable(q[oldest])
      BY <3>3, <3>4
    <3> HIDE DEF oldest
    <3>6. RemoveAt(q, oldest) \in Seq(Works \cup {Cancel}) /\ Without(q, RemoveAt(q, oldest), oldest)
      BY <1>1, <3>5, RemoveAtIs
    <3> QED
      BY <2>1, <2>3, <3>5, <3>6 DEF Shortened
  <2> QED
    BY <2>2, <2>3
<1> QED
  BY <1>2, <1>3, <1>4

\* A message of a client: what it reports follows from what it has reported before.
Sends(l, c, w) ==
    /\ l \in inUse /\ link[c] = "open" /\ w.client = c /\ w.seq = sends + 1
    /\ EnqueueInput(l, w)
    /\ down' = [down EXCEPT ![l][c] = w.set] /\ sends' = sends + 1
    /\ UNCHANGED <<context, worker>>
    /\ l = "pointer" => Lifts(w, down[l][c]) /\ (w.kind = "down" => w.item \in w.set)

\* Every message that a client sends is of that form.
LEMMA SendIs ==
  ASSUME InputTypeOK, NEW c \in Clients, NEW bad \in BOOLEAN, SendTouch(c, bad) \/ SendPointer(c, bad)
  PROVE  \E l \in Lanes, w \in Works : Sends(l, c, w)
<1>0. "touch" \in Lanes /\ "pointer" \in Lanes
  BY DEF Lanes
<1>1. surface \in Nat /\ sends \in Nat
  BY DEF InputTypeOK
<1>2. ASSUME NEW l \in Lanes, NEW kind \in {"start", "end", "cancel", "down", "up", "key", "move", "wheel"}, NEW item \in Items,
             NEW holds \in SUBSET (Points \cup Buttons), NEW b \in BOOLEAN, Send(l, c, kind, item, holds, b),
             l = "pointer" => /\ \A x \in down[l][c] \ holds : kind = "up" /\ item = x
                              /\ kind = "down" => item \in holds
      PROVE  \E m \in Lanes, w \in Works : Sends(m, c, w)
  <2> DEFINE w == [kind |-> kind, client |-> c, seq |-> sends + 1, surface |-> surface, item |-> item,
                   set |-> holds, bad |-> b]
  <2>1. w \in Works
    BY <1>1, <1>2 DEF Works, Motion
  <2>2. /\ w.client = c /\ w.seq = sends + 1 /\ w.set = holds /\ w.kind = kind /\ w.item = item
    OBVIOUS
  <2>3. /\ l \in inUse /\ link[c] = "open" /\ EnqueueInput(l, w)
        /\ down' = [down EXCEPT ![l][c] = holds] /\ sends' = sends + 1
        /\ UNCHANGED <<context, worker>>
    BY <1>2 DEF Send
  <2> HIDE DEF w
  <2>4. Sends(l, c, w)
    BY <1>2, <2>2, <2>3 DEF Sends, Lifts
  <2> QED
    BY <2>1, <2>4
<1>3. CASE SendTouch(c, bad)
  <2> DEFINE mine == down["touch"][c]
  <2>1. mine \in SUBSET (Points \cup Buttons)
    BY <1>0 DEF InputTypeOK
  <2>2. 0 \in Items /\ Points \subseteq Items /\ mine \subseteq Items
    BY <2>1 DEF Items
  <2>3. \/ \E p \in Points \ mine : Send("touch", c, "start", p, mine \cup {p}, bad)
        \/ \E p \in mine : Send("touch", c, "end", p, mine \ {p}, bad)
        \/ Send("touch", c, "move", 0, mine, bad)
        \/ Send("touch", c, "cancel", 0, {}, bad)
    BY <1>3 DEF SendTouch
  <2> HIDE DEF mine
  <2>4. ASSUME NEW p \in Points, Send("touch", c, "start", p, mine \cup {p}, bad)
        PROVE  \E m \in Lanes, w \in Works : Sends(m, c, w)
    BY <1>0, <1>2, <2>1, <2>2, <2>4
  <2>5. ASSUME NEW p \in mine, Send("touch", c, "end", p, mine \ {p}, bad)
        PROVE  \E m \in Lanes, w \in Works : Sends(m, c, w)
    BY <1>0, <1>2, <2>1, <2>2, <2>5
  <2>6. CASE Send("touch", c, "move", 0, mine, bad)
    BY <1>0, <1>2, <2>1, <2>2, <2>6
  <2>7. CASE Send("touch", c, "cancel", 0, {}, bad)
    BY <1>0, <1>2, <2>1, <2>2, <2>7
  <2> QED
    BY <2>3, <2>4, <2>5, <2>6, <2>7
<1>4. CASE SendPointer(c, bad)
  <2> DEFINE mine == down["pointer"][c]
  <2>1. mine \in SUBSET (Points \cup Buttons)
    BY <1>0 DEF InputTypeOK
  <2>2. 0 \in Items /\ Buttons \subseteq Items /\ mine \subseteq Items
    BY <2>1 DEF Items
  <2>3. \/ \E b \in Buttons \ mine : Send("pointer", c, "down", b, mine \cup {b}, bad)
        \/ \E b \in mine : Send("pointer", c, "up", b, mine \ {b}, bad)
        \/ \E kind \in Motion : Send("pointer", c, kind, 0, mine, bad)
        \/ Send("pointer", c, "key", 0, mine, FALSE)
    BY <1>4 DEF SendPointer
  <2>4. ASSUME NEW b \in Buttons, Send("pointer", c, "down", b, mine \cup {b}, bad)
        PROVE  \E m \in Lanes, w \in Works : Sends(m, c, w)
    <3>1. mine \cup {b} \in SUBSET (Points \cup Buttons) /\ b \in Items /\ b \in mine \cup {b} /\ mine \ (mine \cup {b}) = {}
      BY <2>1, <2>2
    <3> QED
      BY <1>0, <1>2, <2>4, <3>1
  <2>5. ASSUME NEW b \in mine, Send("pointer", c, "up", b, mine \ {b}, bad)
        PROVE  \E m \in Lanes, w \in Works : Sends(m, c, w)
    <3>1. mine \ {b} \in SUBSET (Points \cup Buttons) /\ b \in Items /\ \A x \in mine \ (mine \ {b}) : b = x
      BY <2>1, <2>2
    <3> QED
      BY <1>0, <1>2, <2>5, <3>1
  <2>6. ASSUME NEW kind \in Motion, Send("pointer", c, kind, 0, mine, bad)
        PROVE  \E m \in Lanes, w \in Works : Sends(m, c, w)
    <3>1. kind \in {"move", "wheel"} /\ mine \ mine = {}
      BY DEF Motion
    <3> QED
      BY <1>0, <1>2, <2>1, <2>2, <2>6, <3>1
  <2>7. CASE Send("pointer", c, "key", 0, mine, FALSE)
    <3>1. mine \ mine = {}
      OBVIOUS
    <3> QED
      BY <1>0, <1>2, <2>1, <2>2, <2>7, <3>1
  <2> QED
    BY <2>3, <2>4, <2>5, <2>6, <2>7
<1> QED
  BY <1>3, <1>4

\* cancel, on each lane in use.
LEMMA CancelledIs ==
  ASSUME InputTypeOK, NEW l \in Lanes
  PROVE  /\ Cancelled(queue) \in [Lanes -> Seq(Works \cup {Cancel})]
         /\ Cancelled(queue)[l] = IF l \in inUse THEN Append(queue[l], Cancel) ELSE queue[l]
<1>1. queue \in [Lanes -> Seq(Works \cup {Cancel})]
  BY DEF InputTypeOK
<1>2. \A m \in Lanes : Append(queue[m], Cancel) \in Seq(Works \cup {Cancel}) /\ queue[m] \in Seq(Works \cup {Cancel})
  BY <1>1, AppendIs
<1> QED
  BY <1>2 DEF Cancelled

----------------------------------------------------------------------------
(* Edges are reliable *)

\* A queue q whose client's edges that were not taken are counted by u, after n messages.
Accounted(q, u, n) ==
    /\ q \in Seq(Works \cup {Cancel}) /\ u \in [Clients -> Nat]
    /\ InOrder(q) /\ Since(q, n)
    /\ \A c \in Clients : u[c] = Cardinality(EdgesOf(q, c))
QueuesAccounted ==
    /\ sends \in Nat
    /\ queue \in [Lanes -> Seq(Works \cup {Cancel})] /\ unsent \in [Lanes -> [Clients -> Nat]]
    /\ \A l \in Lanes : Accounted(queue[l], unsent[l], sends)

\* EdgesReliable and WorkIsSent, in those terms.
LEMMA AccountedIs ==
  ASSUME sends \in Nat, queue \in [Lanes -> Seq(Works \cup {Cancel})], unsent \in [Lanes -> [Clients -> Nat]]
  PROVE  QueuesAccounted <=> WorkIsSent /\ EdgesReliable
<1>1. \A l \in Lanes : queue[l] \in Seq(Works \cup {Cancel}) /\ unsent[l] \in [Clients -> Nat]
  OBVIOUS
<1>2. \A l \in Lanes : DOMAIN queue[l] = 1..Len(queue[l])
  BY <1>1
<1>3. WorkIsSent <=> \A l \in Lanes : Since(queue[l], sends)
  BY <1>2 DEF WorkIsSent, Since
<1>4. EdgesReliable <=> \A l \in Lanes : /\ InOrder(queue[l])
                                         /\ \A c \in Clients : unsent[l][c] = Cardinality(EdgesOf(queue[l], c))
  BY <1>2 DEF EdgesReliable, InOrder
<1> QED
  BY <1>1, <1>3, <1>4 DEF QueuesAccounted, Accounted

\* The same as a formula, which holds in the next state too.
LEMMA AccountedParts ==
  sends \in Nat /\ queue \in [Lanes -> Seq(Works \cup {Cancel})] /\ unsent \in [Lanes -> [Clients -> Nat]]
  => (QueuesAccounted <=> WorkIsSent /\ EdgesReliable)
  BY AccountedIs

\* Works that were sent before stay so.
LEMMA AccountedLater ==
  ASSUME NEW q, NEW u, NEW n \in Nat, NEW m \in Nat, n <= m, Accounted(q, u, n)
  PROVE  Accounted(q, u, m)
<1>1. q \in Seq(Works \cup {Cancel}) /\ Since(q, n)
  BY DEF Accounted
<1>2. \A i \in 1..Len(q) : q[i].seq \in Nat
  BY <1>1, WorkSeqs
<1>3. Since(q, m)
  BY <1>1, <1>2 DEF Since
<1> QED
  BY <1>3 DEF Accounted

\* A message of a client.
LEMMA SendAccounted ==
  ASSUME InputTypeOK, QueuesAccounted, NEW l \in Lanes, NEW c \in Clients, NEW w \in Works, Sends(l, c, w)
  PROVE  QueuesAccounted'
<1> DEFINE q0 == queue[l]  n == sends  u == unsent[l]
<1>1. /\ queue \in [Lanes -> Seq(Works \cup {Cancel})] /\ unsent \in [Lanes -> [Clients -> Nat]] /\ n \in Nat
      /\ \A m \in Lanes : Accounted(queue[m], unsent[m], n)
  BY DEF QueuesAccounted
<1>2. /\ q0 \in Seq(Works \cup {Cancel}) /\ u \in [Clients -> Nat] /\ InOrder(q0) /\ Since(q0, n)
      /\ \A d \in Clients : u[d] = Cardinality(EdgesOf(q0, d))
  BY <1>1 DEF Accounted
<1>3. w.client = c /\ w.seq = n + 1 /\ sends' = n + 1 /\ EnqueueInput(l, w) /\ n + 1 \in Nat /\ n <= n + 1
  BY <1>1 DEF Sends
<1>4. \A m \in Lanes : Accounted(queue[m], unsent[m], n + 1)
  BY <1>1, <1>3, AccountedLater
<1>5. ASSUME NEW r, NEW v, Accounted(r, v, n + 1),
             queue' = [queue EXCEPT ![l] = r], unsent' = [unsent EXCEPT ![l] = v]
      PROVE  QueuesAccounted'
  <2>1. r \in Seq(Works \cup {Cancel}) /\ v \in [Clients -> Nat]
    BY <1>5 DEF Accounted
  <2>2. queue' \in [Lanes -> Seq(Works \cup {Cancel})] /\ unsent' \in [Lanes -> [Clients -> Nat]]
    BY <1>1, <1>5, <2>1
  <2>3. \A m \in Lanes : Accounted(queue'[m], unsent'[m], n + 1)
    BY <1>1, <1>4, <1>5
  <2> QED
    BY <1>3, <2>2, <2>3 DEF QueuesAccounted
<1>6. \/ \E r \in Seq(Works \cup {Cancel}) :
            /\ queue' = [queue EXCEPT ![l] = r]
            /\ Replaced(q0, r, w) /\ Replaces(l, q0[Len(q0)], w)
            /\ link' = link /\ unsent' = unsent
      \/ link' = [link EXCEPT ![w.client] = "closed"] /\ queue' = queue /\ unsent' = unsent
      \/ \E r \in Seq(Works \cup {Cancel}) :
            /\ queue' = [queue EXCEPT ![l] = Append(r, w)]
            /\ Shortened(q0, r)
            /\ unsent' = [unsent EXCEPT ![l][w.client] = IF Replaceable(w) THEN @ ELSE @ + 1]
            /\ link' = link
  BY <1>3, EnqueueInputIs
<1> HIDE DEF q0, u, n
<1>7. ASSUME NEW r \in Seq(Works \cup {Cancel}), queue' = [queue EXCEPT ![l] = r],
             Replaced(q0, r, w), Replaces(l, q0[Len(q0)], w), unsent' = unsent
      PROVE  QueuesAccounted'
  <2>1. Replaceable(w) /\ Replaceable(q0[Len(q0)]) /\ w.client = q0[Len(q0)].client
    BY <1>7 DEF Replaces, Replaceable
  <2>2. InOrder(r) /\ Since(r, n + 1)
    BY <1>2, <1>3, <1>7, <2>1, <1>1, OrderReplaced
  <2>3. \A d \in Clients : EdgesOf(r, d) = EdgesOf(q0, d)
    BY <1>2, <1>7, <2>1, EdgesReplaced
  <2>4. Accounted(r, u, n + 1)
    BY <1>2, <2>2, <2>3 DEF Accounted
  <2>5. unsent' = [unsent EXCEPT ![l] = u]
    BY <1>1, <1>7 DEF u
  <2> QED
    BY <1>5, <1>7, <2>4, <2>5
<1>8. CASE queue' = queue /\ unsent' = unsent
  <2>1. queue' = [queue EXCEPT ![l] = q0] /\ unsent' = [unsent EXCEPT ![l] = u]
    BY <1>1, <1>8 DEF q0, u
  <2>2. Accounted(q0, u, n + 1)
    BY <1>4 DEF q0, u
  <2> QED
    BY <1>5, <2>1, <2>2
<1>9. ASSUME NEW r \in Seq(Works \cup {Cancel}), queue' = [queue EXCEPT ![l] = Append(r, w)], Shortened(q0, r),
             unsent' = [unsent EXCEPT ![l][w.client] = IF Replaceable(w) THEN @ ELSE @ + 1]
      PROVE  QueuesAccounted'
  <2>1. InOrder(r) /\ Since(r, n)
    <3>1. ASSUME NEW k \in 1..Len(q0), Without(q0, r, k) PROVE InOrder(r) /\ Since(r, n)
      BY <1>1, <1>2, <3>1, OrderWithout
    <3> QED
      BY <1>2, <1>9, <3>1 DEF Shortened
  <2>2. ASSUME NEW d \in Clients PROVE Cardinality(EdgesOf(r, d)) = u[d]
    <3>1. ASSUME NEW k \in 1..Len(q0), Without(q0, r, k), Replaceable(q0[k])
          PROVE  Cardinality(EdgesOf(r, d)) = Cardinality(EdgesOf(q0, d))
      <4>1. k \notin EdgesOf(q0, d)
        BY <3>1 DEF EdgesOf
      <4>2. q0 \in Seq(Works \cup {Cancel}) /\ Without(q0, r, k)
        BY <1>2, <3>1
      <4>3. k \notin EdgesOf(q0, d) => Cardinality(EdgesOf(r, d)) = Cardinality(EdgesOf(q0, d))
        BY <4>2, EdgesWithout, Zenon
      <4> QED
        BY <4>1, <4>3
    <3> QED
      BY <1>2, <1>9, <3>1 DEF Shortened
  <2> DEFINE v == [u EXCEPT ![w.client] = IF Replaceable(w) THEN @ ELSE @ + 1]
  <2>3. unsent' = [unsent EXCEPT ![l] = v]
    BY <1>9 DEF u
  <2>4. v \in [Clients -> Nat]
    <3>1. c \in Clients /\ w.client = c /\ u[c] \in Nat /\ u[c] + 1 \in Nat
      BY <1>2, <1>3
    <3> QED
      BY <1>2, <3>1
  <2>5. ASSUME NEW d \in Clients PROVE v[d] = Cardinality(EdgesOf(Append(r, w), d))
    <3>1. Cardinality(EdgesOf(Append(r, w), d)) = Cardinality(EdgesOf(r, d)) + IF w.client = d /\ ~Replaceable(w) THEN 1 ELSE 0
      BY EdgesAppend
    <3>2. v[d] = u[d] + IF w.client = d /\ ~Replaceable(w) THEN 1 ELSE 0
      BY <1>2
    <3> QED
      BY <2>2, <3>1, <3>2
  <2>6. InOrder(Append(r, w)) /\ Since(Append(r, w), n + 1)
    BY <1>1, <1>3, <2>1, OrderAppend
  <2>7. Append(r, w) \in Seq(Works \cup {Cancel})
    BY AppendIs
  <2> HIDE DEF v
  <2>8. Accounted(Append(r, w), v, n + 1)
    BY <2>4, <2>5, <2>6, <2>7 DEF Accounted
  <2> QED
    BY <1>5, <1>9, <2>3, <2>8
<1> QED
  BY <1>6, <1>7, <1>8, <1>9

\* A cancellation is no edge of a client.
LEMMA CancelledAccounted ==
  ASSUME InputTypeOK, QueuesAccounted, queue' = Cancelled(queue), unsent' = unsent, sends' = sends
  PROVE  QueuesAccounted'
<1>1. sends \in Nat /\ queue \in [Lanes -> Seq(Works \cup {Cancel})] /\ unsent \in [Lanes -> [Clients -> Nat]]
  BY DEF QueuesAccounted
<1>2. ASSUME NEW l \in Lanes PROVE Accounted(queue'[l], unsent[l], sends)
  <2> DEFINE q0 == queue[l]
  <2>1. Accounted(q0, unsent[l], sends)
    BY DEF QueuesAccounted
  <2>2. q0 \in Seq(Works \cup {Cancel}) /\ InOrder(q0) /\ Since(q0, sends)
        /\ \A c \in Clients : unsent[l][c] = Cardinality(EdgesOf(q0, c))
    BY <2>1 DEF Accounted
  <2> HIDE DEF q0
  <2>3. InOrder(Append(q0, Cancel)) /\ Since(Append(q0, Cancel), sends)
    <3>1. Cancel \in Works \cup {Cancel} /\ sends <= sends
      BY <1>1
    <3> QED
      BY <1>1, <2>2, <3>1, OrderAppend
  <2>4. ASSUME NEW c \in Clients PROVE Cardinality(EdgesOf(Append(q0, Cancel), c)) = unsent[l][c]
    <3>1. Cancel.client # c
      BY InputAssumption DEF Cancel
    <3>2. Cardinality(EdgesOf(Append(q0, Cancel), c)) = Cardinality(EdgesOf(q0, c)) + 0
      BY <2>2, <3>1, EdgesAppend
    <3>3. Cardinality(EdgesOf(q0, c)) \in Nat
      BY <2>2, EdgesFinite
    <3> QED
      BY <2>2, <3>2, <3>3
  <2>5. Append(q0, Cancel) \in Seq(Works \cup {Cancel})
    BY <2>2, AppendIs
  <2>6. Accounted(Append(q0, Cancel), unsent[l], sends)
    BY <1>1, <2>3, <2>4, <2>5 DEF Accounted
  <2>7. queue'[l] = IF l \in inUse THEN Append(q0, Cancel) ELSE q0
    BY CancelledIs DEF q0
  <2> QED
    BY <2>1, <2>6, <2>7
<1>3. queue' \in [Lanes -> Seq(Works \cup {Cancel})]
  BY CancelledIs DEF Lanes
<1> QED
  BY <1>1, <1>2, <1>3 DEF QueuesAccounted

\* run takes a work, and with it one edge at most.
LEMMA TakeAccounted ==
  ASSUME QueuesAccounted, NEW l \in Lanes, Take(l)
  PROVE  QueuesAccounted'
<1> DEFINE q0 == queue[l]  w == Head(q0)  u == unsent[l]
           v == IF w = Cancel \/ Replaceable(w) THEN u ELSE [u EXCEPT ![w.client] = @ - 1]
<1>1. sends \in Nat /\ queue \in [Lanes -> Seq(Works \cup {Cancel})] /\ unsent \in [Lanes -> [Clients -> Nat]]
  BY DEF QueuesAccounted
<1>2. /\ q0 \in Seq(Works \cup {Cancel}) /\ u \in [Clients -> Nat] /\ InOrder(q0) /\ Since(q0, sends)
      /\ \A c \in Clients : u[c] = Cardinality(EdgesOf(q0, c))
  BY DEF QueuesAccounted, Accounted
<1>3. /\ q0 # <<>> /\ queue' = [queue EXCEPT ![l] = Tail(@)]
      /\ unsent' = IF w = Cancel \/ Replaceable(w) THEN unsent ELSE [unsent EXCEPT ![l][w.client] = @ - 1]
      /\ sends' = sends
  BY DEF Take, clients
<1>4. queue' = [queue EXCEPT ![l] = Tail(q0)] /\ unsent' = [unsent EXCEPT ![l] = v]
  BY <1>1, <1>3
<1>5. /\ Tail(q0) \in Seq(Works \cup {Cancel}) /\ Without(q0, Tail(q0), 1)
      /\ w = q0[1] /\ w \in Works \cup {Cancel}
  BY <1>2, <1>3, TailIs
<1> HIDE DEF q0, u, w
<1>6. InOrder(Tail(q0)) /\ Since(Tail(q0), sends)
  BY <1>1, <1>2, <1>5, OrderWithout
<1>7. 1 \in DOMAIN q0
  BY <1>2, <1>5 DEF Without
<1>8. \A c \in Clients : 1 \in EdgesOf(q0, c) <=> ~(w = Cancel \/ Replaceable(w)) /\ w.client = c
  <2>1. \A c \in Clients : 1 \in EdgesOf(q0, c) <=> w.client = c /\ ~Replaceable(w)
    BY <1>5, <1>7 DEF EdgesOf
  <2>2. Cancel.client \notin Clients
    BY InputAssumption DEF Cancel
  <2> QED
    BY <2>1, <2>2
<1>9. ASSUME NEW c \in Clients
      PROVE  /\ Cardinality(EdgesOf(Tail(q0), c)) = IF 1 \in EdgesOf(q0, c) THEN u[c] - 1 ELSE u[c]
             /\ Cardinality(EdgesOf(Tail(q0), c)) \in Nat
  <2>0. q0 \in Seq(Works \cup {Cancel}) /\ Tail(q0) \in Seq(Works \cup {Cancel}) /\ Without(q0, Tail(q0), 1)
    BY <1>2, <1>5
  <2>1. /\ 1 \in EdgesOf(q0, c) => Cardinality(EdgesOf(Tail(q0), c)) = Cardinality(EdgesOf(q0, c)) - 1
        /\ 1 \notin EdgesOf(q0, c) => Cardinality(EdgesOf(Tail(q0), c)) = Cardinality(EdgesOf(q0, c))
    BY <2>0, EdgesWithout, Zenon
  <2>2. Cardinality(EdgesOf(Tail(q0), c)) \in Nat
    BY <1>5, EdgesFinite
  <2> QED
    BY <1>2, <2>1, <2>2
<1>10. ~(w = Cancel \/ Replaceable(w)) => w.client \in Clients
  BY <1>5, WorkIs
<1>11. v \in [Clients -> Nat] /\ \A c \in Clients : v[c] = Cardinality(EdgesOf(Tail(q0), c))
  <2>1. CASE w = Cancel \/ Replaceable(w)
    BY <1>2, <1>8, <1>9, <2>1
  <2>2. CASE ~(w = Cancel \/ Replaceable(w))
    <3>1. v = [u EXCEPT ![w.client] = @ - 1]
      BY <2>2
    <3>2. \A c \in Clients : v[c] = IF w.client = c THEN u[c] - 1 ELSE u[c]
      BY <1>2, <1>10, <2>2, <3>1
    <3>3. \A c \in Clients : v[c] = Cardinality(EdgesOf(Tail(q0), c)) /\ v[c] \in Nat
      BY <1>8, <1>9, <2>2, <3>2
    <3>4. v = [c \in Clients |-> v[c]]
      BY <1>2, <3>1
    <3> QED
      BY <3>3, <3>4
  <2> QED
    BY <2>1, <2>2
<1> HIDE DEF v
<1>12. Accounted(Tail(q0), v, sends)
  BY <1>5, <1>6, <1>11 DEF Accounted
<1>13. queue' \in [Lanes -> Seq(Works \cup {Cancel})] /\ unsent' \in [Lanes -> [Clients -> Nat]]
  BY <1>1, <1>4, <1>5, <1>11
<1>14. \A m \in Lanes : Accounted(queue'[m], unsent'[m], sends)
  BY <1>1, <1>4, <1>12 DEF QueuesAccounted
<1> QED
  BY <1>1, <1>3, <1>13, <1>14 DEF QueuesAccounted

\* Every step keeps the account.
LEMMA StepAccounted ==
  ASSUME InputTypeOK, QueuesAccounted, [InputNext]_inputVars
  PROVE  QueuesAccounted'
<1>1. ASSUME queue' = queue, unsent' = unsent, sends' = sends PROVE QueuesAccounted'
  BY <1>1 DEF QueuesAccounted
<1>2. CASE UNCHANGED inputVars
  BY <1>1, <1>2 DEF inputVars, work, clients
<1>3. ASSUME NEW c \in Clients, NEW bad \in BOOLEAN, SendTouch(c, bad) \/ SendPointer(c, bad) PROVE QueuesAccounted'
  BY <1>3, SendIs, SendAccounted
<1>4. ASSUME NEW s, SwitchStarts(s) PROVE QueuesAccounted'
  BY <1>4, CancelledAccounted DEF SwitchStarts, clients
<1>5. CASE CancelInput
  BY <1>5, CancelledAccounted DEF CancelInput, clients
<1>6. CASE PauseCancels
  BY <1>6, CancelledAccounted DEF PauseCancels, clients
<1>7. ASSUME NEW c, Disconnected(c) PROVE QueuesAccounted'
  BY <1>7, CancelledAccounted DEF Disconnected
<1>8. CASE SwitchEnds \/ NewSurface \/ Pause \/ Resume \/ BrowserDies
  BY <1>1, <1>8 DEF SwitchEnds, NewSurface, Pause, Resume, BrowserDies, work, clients
<1>9. ASSUME NEW c, ClientCloses(c) PROVE QueuesAccounted'
  BY <1>1, <1>9 DEF ClientCloses, work
<1>10. ASSUME NEW l \in Lanes, Take(l) PROVE QueuesAccounted'
  BY <1>10, TakeAccounted
<1>11. ASSUME NEW l, NEW ok, Answered(l, ok) PROVE QueuesAccounted'
  BY <1>1, <1>11 DEF Answered, work, clients
<1> QED
  BY <1>2, <1>3, <1>4, <1>5, <1>6, <1>7, <1>8, <1>9, <1>10, <1>11 DEF InputNext, Worker

----------------------------------------------------------------------------
(* The reports of a client follow one upon the other *)

\* The parts of ReportsFollow, for any queue, lane state, waiting work and what the clients hold.
Follows(q, u, i, H) ==
    u # Cancel => /\ Keeps(q, i, u.client, u.set, H[u.client])
                  /\ u.kind = "down" => u.item \in u.set
Reported(q, H) == \A i \in 1..Len(q) : Follows(q, q[i], i, H)
LaneKeeps(q, k, H) == k.owner # NoClient => Keeps(q, 0, k.owner, k.held, H[k.owner])
AllHold == [c \in Clients |-> Holds(c)]
Grows(H, H2) == \A c \in Clients : (Points \cup Buttons) \cap H[c] \subseteq H2[c]
States == LaneStates(Points \cup Buttons)

\* ReportsFollow, in those terms.
LEMMA ReportsAre ==
  ASSUME queue["pointer"] \in Seq(Works \cup {Cancel}), lane["pointer"] \in States, busy["pointer"].work \in Works \cup {Cancel}
  PROVE  ReportsFollow <=>
           /\ Reported(queue["pointer"], AllHold)
           /\ busy["pointer"] # NoWork => Follows(queue["pointer"], busy["pointer"].work, 0, AllHold)
           /\ paused = "no" => LaneKeeps(queue["pointer"], lane["pointer"], AllHold)
<1>1. \A c \in Clients : AllHold[c] = Holds(c)
  BY DEF AllHold
<1>2. \A u \in Works \cup {Cancel} : u # Cancel => u.client \in Clients
  BY WorkIs
<1>3. \A i \in 1..Len(queue["pointer"]) : queue["pointer"][i] \in Works \cup {Cancel}
  OBVIOUS
<1>4. lane["pointer"].owner # NoClient => lane["pointer"].owner \in Clients
  BY DEF States, LaneStates
<1> QED
  BY <1>1, <1>2, <1>3, <1>4 DEF ReportsFollow, Reported, Follows, LaneKeeps

\* The parts of a report that matter here.
LEMMA FollowsTyped ==
  ASSUME NEW u \in Works \cup {Cancel}, u # Cancel
  PROVE  u \in Works /\ u.client \in Clients /\ u.set \subseteq Points \cup Buttons
  BY WorkIs

\* The parts of an owned lane that matter here.
LEMMA StateTyped ==
  ASSUME NEW k \in States, k.owner # NoClient
  PROVE  k.owner \in Clients /\ k.held \subseteq Points \cup Buttons
  BY DEF States, LaneStates

\* Clients that hold more, or of whom it does not matter any more.
LEMMA ReportsMore ==
  ASSUME NEW q \in Seq(Works \cup {Cancel}), NEW H, NEW H2, Grows(H, H2)
  PROVE  /\ \A u \in Works \cup {Cancel} : \A i : Follows(q, u, i, H) => Follows(q, u, i, H2)
         /\ Reported(q, H) => Reported(q, H2)
         /\ \A k \in States : LaneKeeps(q, k, H) => LaneKeeps(q, k, H2)
<1>1. ASSUME NEW c \in Clients, NEW X \in SUBSET (Points \cup Buttons), NEW i, Keeps(q, i, c, X, H[c])
      PROVE  Keeps(q, i, c, X, H2[c])
  <2>1. X \cap H[c] \subseteq H2[c]
    BY DEF Grows
  <2> QED
    BY <1>1, <2>1, KeepsMore
<1>2. ASSUME NEW u \in Works \cup {Cancel}, NEW i, Follows(q, u, i, H) PROVE Follows(q, u, i, H2)
  BY <1>1, <1>2, FollowsTyped DEF Follows
<1>3. \A i \in 1..Len(q) : q[i] \in Works \cup {Cancel}
  OBVIOUS
<1>4. Reported(q, H) => Reported(q, H2)
  BY <1>2, <1>3 DEF Reported
<1>5. ASSUME NEW k \in States, LaneKeeps(q, k, H) PROVE LaneKeeps(q, k, H2)
  BY <1>1, <1>5, StateTyped DEF LaneKeeps
<1> QED
  BY <1>2, <1>4, <1>5

\* A full queue gives up motion.
LEMMA ReportsShortened ==
  ASSUME NEW q \in Seq(Works \cup {Cancel}), NEW r \in Seq(Works \cup {Cancel}), Shortened(q, r), NEW H
  PROVE  /\ Reported(q, H) => Reported(r, H)
         /\ \A u \in Works \cup {Cancel} : Follows(q, u, 0, H) => Follows(r, u, 0, H)
         /\ \A k \in States : LaneKeeps(q, k, H) => LaneKeeps(r, k, H)
<1>1. CASE r = q
  BY <1>1
<1>2. ASSUME NEW p \in 1..Len(q), Without(q, r, p), Replaceable(q[p])
      PROVE  /\ Reported(q, H) => Reported(r, H)
             /\ \A u \in Works \cup {Cancel} : Follows(q, u, 0, H) => Follows(r, u, 0, H)
             /\ \A k \in States : LaneKeeps(q, k, H) => LaneKeeps(r, k, H)
  <2>1. q[p].kind # "up"
    BY <1>2 DEF Replaceable, Motion
  <2>2. Len(q) \in Nat /\ Len(r) = Len(q) - 1 /\ p \in Nat /\ p > 0
    BY <1>2 DEF Without
  <2>3. ASSUME NEW i \in 0..Len(q), NEW e, e = IF i < p THEN i ELSE i - 1, NEW c, NEW X, NEW mine, Keeps(q, i, c, X, mine)
        PROVE  Keeps(r, e, c, X, mine)
    BY <1>2, <2>1, <2>3, KeepsWithout
  <2>4. 0 \in 0..Len(q) /\ 0 = IF 0 < p THEN 0 ELSE 0 - 1
    BY <2>2
  <2>5. ASSUME NEW u, NEW i \in 0..Len(q), NEW e, e = IF i < p THEN i ELSE i - 1, Follows(q, u, i, H)
        PROVE  Follows(r, u, e, H)
    BY <2>3, <2>5 DEF Follows
  <2>6. ASSUME Reported(q, H), NEW e \in 1..Len(r) PROVE Follows(r, r[e], e, H)
    <3> DEFINE i == IF e < p THEN e ELSE e + 1
    <3>1. i \in 1..Len(q) /\ i \in 0..Len(q) /\ r[e] = q[i] /\ e = IF i < p THEN i ELSE i - 1
      BY <1>2, <2>2 DEF Without
    <3> HIDE DEF i
    <3>2. Follows(q, q[i], i, H)
      BY <2>6, <3>1 DEF Reported
    <3> QED
      BY <2>5, <3>1, <3>2
  <2>7. \A k \in States : LaneKeeps(q, k, H) => LaneKeeps(r, k, H)
    BY <2>3, <2>4 DEF LaneKeeps
  <2>8. \A u : Follows(q, u, 0, H) => Follows(r, u, 0, H)
    BY <2>4, <2>5
  <2> QED
    BY <2>6, <2>7, <2>8 DEF Reported
<1> QED
  BY <1>1, <1>2 DEF Shortened

\* A work is appended: a cancellation, or a report that follows from what its client held.
LEMMA ReportsAppend ==
  ASSUME NEW q \in Seq(Works \cup {Cancel}), NEW w \in Works \cup {Cancel}, NEW H, NEW H2, Grows(H, H2) \/ w # Cancel,
         w # Cancel => /\ H2[w.client] = w.set /\ Lifts(w, H[w.client])
                       /\ \A d \in Clients \ {w.client} : (Points \cup Buttons) \cap H[d] \subseteq H2[d]
                       /\ w.kind = "down" => w.item \in w.set
  PROVE  /\ Reported(q, H) => Reported(Append(q, w), H2)
         /\ \A u \in Works \cup {Cancel} : Follows(q, u, 0, H) => Follows(Append(q, w), u, 0, H2)
         /\ \A k \in States : LaneKeeps(q, k, H) => LaneKeeps(Append(q, w), k, H2)
<1> DEFINE r == Append(q, w)  n == Len(q)
<1>0. n \in Nat /\ Len(r) = n + 1 /\ r[n + 1] = w /\ \A i \in 1..n : r[i] = q[i] /\ q[i] \in Works \cup {Cancel}
  BY AppendIs
<1>1. ASSUME NEW c \in Clients, NEW X \in SUBSET (Points \cup Buttons), NEW i \in 0..n, Keeps(q, i, c, X, H[c])
      PROVE  Keeps(r, i, c, X, H2[c])
  <2>1. Cancel.client \notin Clients
    BY InputAssumption DEF Cancel
  <2>2. w.client = c => H2[c] = w.set /\ Lifts(w, H[c])
    BY <2>1
  <2>3. w.client # c => X \cap H[c] \subseteq H2[c]
    BY DEF Grows
  <2> QED
    BY <1>1, <2>2, <2>3, KeepsAppend
<1> HIDE DEF r, n
<1>2. ASSUME NEW u \in Works \cup {Cancel}, NEW i \in 0..n, Follows(q, u, i, H) PROVE Follows(r, u, i, H2)
  BY <1>1, <1>2, FollowsTyped DEF Follows
<1>3. 0 \in 0..n /\ n + 1 \in Nat
  BY <1>0
<1>4. ASSUME NEW k \in States, LaneKeeps(q, k, H) PROVE LaneKeeps(r, k, H2)
  BY <1>1, <1>3, <1>4, StateTyped DEF LaneKeeps
<1>5. ASSUME Reported(q, H), NEW i \in 1..Len(r) PROVE Follows(r, r[i], i, H2)
  <2>1. CASE i = n + 1
    <3>1. CASE w = Cancel
      BY <1>0, <2>1, <3>1 DEF Follows
    <3>2. CASE w # Cancel
      <4>1. Keeps(r, n + 1, w.client, w.set, w.set)
        BY <1>0, <1>3, KeepsLast
      <4> QED
        BY <1>0, <2>1, <3>2, <4>1 DEF Follows
    <3> QED
      BY <3>1, <3>2
  <2>2. CASE i # n + 1
    <3>1. i \in 1..n /\ i \in 0..n /\ r[i] = q[i] /\ q[i] \in Works \cup {Cancel}
      BY <1>0, <2>2
    <3>2. Follows(q, q[i], i, H)
      BY <1>5, <3>1 DEF Reported, n
    <3> QED
      BY <1>2, <3>1, <3>2
  <2> QED
    BY <2>1, <2>2
<1> QED
  BY <1>2, <1>3, <1>4, <1>5 DEF Reported, r

\* Motion takes the place of motion.
LEMMA ReportsReplaced ==
  ASSUME NEW q \in Seq(Works \cup {Cancel}), NEW r \in Seq(Works \cup {Cancel}), NEW w \in Works, Replaced(q, r, w),
         Replaces("pointer", q[Len(q)], w), NEW H, NEW H2, Grows(H, H2), H2[w.client] = w.set
  PROVE  /\ Reported(q, H) => Reported(r, H2)
         /\ \A u \in Works \cup {Cancel} : Follows(q, u, 0, H) => Follows(r, u, 0, H2)
         /\ \A k \in States : LaneKeeps(q, k, H) => LaneKeeps(r, k, H2)
<1> DEFINE n == Len(q)
<1>0. n \in Nat \ {0} /\ Len(r) = n /\ r[n] = w /\ \A i \in 1..n : (i # n => r[i] = q[i]) /\ q[i] \in Works \cup {Cancel}
  BY DEF Replaced
<1>1. /\ w.client = q[n].client /\ w.set = q[n].set
      /\ q[n].kind # "up" /\ w.kind # "down"
  BY DEF Replaces, Replaceable, Motion
<1>2. ASSUME NEW c \in Clients, NEW X \in SUBSET (Points \cup Buttons), NEW i \in 0..(n - 1), Keeps(q, i, c, X, H[c])
      PROVE  Keeps(r, i, c, X, H2[c])
  <2>1. X \cap H[c] \subseteq H2[c]
    BY DEF Grows
  <2> QED
    BY <1>1, <1>2, <2>1, KeepsReplaced
<1> HIDE DEF n
<1>3. ASSUME NEW u \in Works \cup {Cancel}, NEW i \in 0..(n - 1), Follows(q, u, i, H) PROVE Follows(r, u, i, H2)
  BY <1>2, <1>3, FollowsTyped DEF Follows
<1>4. 0 \in 0..(n - 1) /\ n \in Nat
  BY <1>0
<1>5. ASSUME NEW k \in States, LaneKeeps(q, k, H) PROVE LaneKeeps(r, k, H2)
  BY <1>2, <1>4, <1>5, StateTyped DEF LaneKeeps
<1>6. ASSUME Reported(q, H), NEW i \in 1..Len(r) PROVE Follows(r, r[i], i, H2)
  <2>1. CASE i = n
    <3>1. Keeps(r, n, w.client, w.set, w.set)
      BY <1>0, <1>4, KeepsLast
    <3> QED
      BY <1>0, <1>1, <2>1, <3>1 DEF Follows
  <2>2. CASE i # n
    <3>1. i \in 1..n /\ i \in 0..(n - 1) /\ r[i] = q[i] /\ q[i] \in Works \cup {Cancel}
      BY <1>0, <2>2
    <3>2. Follows(q, q[i], i, H)
      BY <1>6, <3>1 DEF Reported, n
    <3> QED
      BY <1>3, <3>1, <3>2
  <2> QED
    BY <2>1, <2>2
<1> QED
  BY <1>3, <1>4, <1>5, <1>6 DEF Reported

\* run takes the first work.
LEMMA ReportsTail ==
  ASSUME NEW q \in Seq(Works \cup {Cancel}), q # <<>>, NEW H, Reported(q, H)
  PROVE  /\ Reported(Tail(q), H) /\ Follows(Tail(q), q[1], 0, H)
         /\ \A k \in States : q[1].kind # "up" /\ LaneKeeps(q, k, H) => LaneKeeps(Tail(q), k, H)
         /\ \A k \in States : q[1].client = k.owner /\ k.owner # NoClient /\ LaneKeeps(q, k, H) => Lifts(q[1], k.held)
<1> DEFINE r == Tail(q)
<1>1. r \in Seq(Works \cup {Cancel}) /\ Without(q, r, 1)
  BY TailIs
<1>2. Len(q) \in Nat \ {0} /\ Len(r) = Len(q) - 1 /\ \A i \in 1..Len(r) : r[i] = q[i + 1]
  BY <1>1 DEF Without
<1> HIDE DEF r
<1>3. ASSUME NEW i \in 1..Len(q), NEW c, NEW X, NEW mine, Keeps(q, i, c, X, mine) PROVE Keeps(r, i - 1, c, X, mine)
  <2>1. i \in 0..Len(q) /\ ~(i < 1)
    BY <1>2
  <2>2. Keeps(r, IF i < 1 THEN i ELSE i - 1, c, X, mine)
    BY <1>1, <1>3, <2>1, KeepsWithout
  <2> QED
    BY <2>1, <2>2
<1>4. ASSUME NEW i \in 1..Len(q) PROVE Follows(r, q[i], i - 1, H)
  <2>1. Follows(q, q[i], i, H)
    BY DEF Reported
  <2> QED
    BY <1>3, <2>1 DEF Follows
<1>5. Follows(r, q[1], 0, H)
  <2>1. 1 \in 1..Len(q) /\ 1 - 1 = 0
    BY <1>2
  <2> QED
    BY <1>4, <2>1
<1>6. Reported(r, H)
  <2> SUFFICES ASSUME NEW i \in 1..Len(r) PROVE Follows(r, r[i], i, H)
    BY DEF Reported
  <2>1. i + 1 \in 1..Len(q) /\ (i + 1) - 1 = i /\ r[i] = q[i + 1]
    BY <1>2
  <2> QED
    BY <1>4, <2>1
<1>7. ASSUME NEW k \in States, q[1].kind # "up", LaneKeeps(q, k, H) PROVE LaneKeeps(r, k, H)
  <2>1. 0 \in 0..Len(q) /\ 0 < 1
    BY <1>2
  <2>2. ASSUME k.owner # NoClient PROVE Keeps(r, 0, k.owner, k.held, H[k.owner])
    <3>1. Keeps(q, 0, k.owner, k.held, H[k.owner])
      BY <1>7, <2>2 DEF LaneKeeps
    <3>2. Keeps(r, IF 0 < 1 THEN 0 ELSE 0 - 1, k.owner, k.held, H[k.owner])
      BY <1>1, <1>7, <2>1, <3>1, KeepsWithout
    <3> QED
      BY <3>2
  <2> QED
    BY <2>2 DEF LaneKeeps
<1>8. ASSUME NEW k \in States, q[1].client = k.owner, k.owner # NoClient, LaneKeeps(q, k, H) PROVE Lifts(q[1], k.held)
  <2> SUFFICES ASSUME NEW b \in k.held, b \notin q[1].set PROVE q[1].kind = "up" /\ q[1].item = b
    BY DEF Lifts
  <2>1. Keeps(q, 0, k.owner, k.held, H[k.owner]) /\ 1 \in (0 + 1)..Len(q)
    BY <1>2, <1>8 DEF LaneKeeps
  <2>2. LetGo(q, 0 + 1, 1, k.owner, b)
    BY <1>8, <2>1 DEF Keeps
  <2> QED
    BY <2>2 DEF LetGo
<1> QED
  BY <1>5, <1>6, <1>7, <1>8 DEF r

----------------------------------------------------------------------------
(* What the workers do *)

\* There are two lanes.
LEMMA LaneNames == "touch" \in Lanes /\ "pointer" \in Lanes /\ \A l \in Lanes : l = "touch" \/ l = "pointer"
  BY DEF Lanes

\* The parts of the invariant in the form in which the steps use them.
LEMMA InputParts ==
  ASSUME InputInv
  PROVE  /\ InputTypeOK /\ LaneOwned /\ PausedLetGo /\ LanesHold /\ QueuesAccounted
         /\ \A l \in Lanes : queue[l] \in Seq(Works \cup {Cancel}) /\ busy[l] \in Busies
                             /\ busy[l].work \in Works \cup {Cancel}
         /\ lane["touch"] \in LaneStates(Items \X Nat) /\ lane["pointer"] \in States
         /\ Reported(queue["pointer"], AllHold)
         /\ busy["pointer"] # NoWork => Follows(queue["pointer"], busy["pointer"].work, 0, AllHold)
         /\ paused = "no" => LaneKeeps(queue["pointer"], lane["pointer"], AllHold)
<1>1. InputTypeOK /\ LaneOwned /\ PausedLetGo /\ WorkIsSent /\ ReportsFollow /\ HeldInputOwned /\ EdgesReliable
  BY DEF InputInv
<1>2. QueuesAccounted
  <2>1. sends \in Nat /\ queue \in [Lanes -> Seq(Works \cup {Cancel})] /\ unsent \in [Lanes -> [Clients -> Nat]]
    BY <1>1 DEF InputTypeOK
  <2> QED
    BY <1>1, <2>1, AccountedIs
<1>3. LanesHold
  <2>1. \A l \in Lanes : lane[l].owner = NoClient => Unowned(lane[l])
    BY <1>1 DEF LaneOwned, Unowned
  <2> QED
    BY <1>1, <2>1 DEF LanesHold, InputTypeOK
<1>4. \A l \in Lanes : queue[l] \in Seq(Works \cup {Cancel}) /\ busy[l] \in Busies /\ busy[l].work \in Works \cup {Cancel}
  <2>1. \A b \in Busies : b.work \in Works \cup {Cancel}
    BY DEF Busies
  <2> QED
    BY <1>1, <2>1 DEF InputTypeOK
<1>5. lane["touch"] \in LaneStates(Items \X Nat) /\ lane["pointer"] \in States
  <2>1. /\ lane["touch"] \in LaneStates((Items \X Nat) \cup Points \cup Buttons)
        /\ lane["pointer"] \in LaneStates((Items \X Nat) \cup Points \cup Buttons)
        /\ lane["touch"].held \subseteq Items \X Nat /\ lane["pointer"].held \subseteq Points \cup Buttons
    BY <1>3, LaneNames DEF LanesHold
  <2>2. ASSUME NEW A, NEW B, NEW k \in LaneStates(A), k.held \subseteq B PROVE k \in LaneStates(B)
    BY <2>2 DEF LaneStates
  <2> QED
    BY <2>1, <2>2 DEF States
<1> QED
  BY <1>1, <1>2, <1>3, <1>4, <1>5, LaneNames, ReportsAre

\* What process and processCommand decide.
LEMMA VerdictIs ==
  ASSUME NEW l \in Lanes, NEW w \in Works \cup {Cancel}, active \in Sessions \cup {NoSession}
  PROVE  /\ w = Cancel => Verdict(l, w) = "cancel"
         /\ w # Cancel /\ paused # "no" => Verdict(l, w) = "discard"
         /\ Verdict(l, w) \in {"go", "viewport"} => w \in Works /\ paused = "no" /\ active \in Sessions
         /\ Verdict(l, w) = "go" => Mine(l, w, active)
         /\ Verdict(l, w) = "viewport" /\ l = "touch" => lane[l].owner = NoClient \/ Mine(l, w, active)
         /\ Verdict(l, w) = "discard" /\ l = "pointer" /\ paused = "no" => w.kind = "key"
<1>1. w # Cancel => w \in Works
  OBVIOUS
<1>2. w = Cancel => Verdict(l, w) = "cancel"
  BY DEF Verdict
<1>3. w # Cancel /\ paused # "no" => Verdict(l, w) = "discard"
  BY DEF Verdict
<1>4. Verdict(l, w) \in {"go", "viewport"} => w \in Works /\ paused = "no" /\ active \in Sessions
  BY <1>1 DEF Verdict
<1>5. Verdict(l, w) = "go" => Mine(l, w, active)
  BY DEF Verdict
<1>6. Verdict(l, w) = "viewport" /\ l = "touch" => lane[l].owner = NoClient \/ Mine(l, w, active)
  <2>1. Verdict(l, w) = "viewport" => NeedsViewport(l, w)
    BY DEF Verdict
  <2>2. NeedsViewport(l, w) /\ l = "touch" => lane[l].owner = NoClient \/ Mine(l, w, active)
    BY DEF NeedsViewport
  <2> QED
    BY <2>1, <2>2
<1>7. Verdict(l, w) = "discard" /\ l = "pointer" /\ paused = "no" => w.kind = "key"
  BY DEF Verdict
<1> QED
  BY <1>2, <1>3, <1>4, <1>5, <1>6, <1>7

\* A worker that takes a work: what its lane holds afterwards.
LEMMA TakeIs ==
  ASSUME InputInv, NEW l \in Lanes, Take(l)
  PROVE  LET w == queue[l][1] IN
         /\ queue[l] # <<>> /\ busy[l] = NoWork /\ w \in Works \cup {Cancel}
         /\ queue' = [queue EXCEPT ![l] = Tail(queue[l])]
         /\ LanesHold' /\ \A m \in Lanes \ {l} : lane'[m] = lane[m]
         /\ UNCHANGED <<context, clients>>
         /\ \/ /\ Verdict(l, w) = "discard" /\ w # Cancel
               /\ lane'[l] = lane[l] /\ busy' = busy
            \/ /\ Verdict(l, w) = "cancel"
               /\ lane'[l].owner = NoClient /\ busy' = busy
            \/ /\ Verdict(l, w) = "viewport" /\ w \in Works /\ active \in Sessions /\ paused = "no"
               /\ busy' = [busy EXCEPT ![l] = [work |-> w, session |-> active, surface |-> surface]]
               /\ \/ lane'[l].owner = NoClient
                  \/ l = "touch" /\ lane'[l] = lane[l] /\ lane[l].session = active
            \/ /\ Verdict(l, w) = "go" /\ w \in Works /\ paused = "no" /\ busy' = busy
               /\ l = "pointer" => \/ lane'[l].owner = NoClient
                                   \/ /\ lane'[l].owner = w.client /\ lane[l].owner = w.client
                                      /\ lane'[l].held = IF w.kind = "wheel" THEN lane[l].held ELSE w.set
<1> DEFINE w == queue[l][1]
<1>1. /\ InputTypeOK /\ LaneOwned /\ LanesHold /\ queue[l] \in Seq(Works \cup {Cancel})
      /\ lane["touch"] \in LaneStates(Items \X Nat) /\ lane["pointer"] \in States
      /\ Reported(queue["pointer"], AllHold)
      /\ paused = "no" => LaneKeeps(queue["pointer"], lane["pointer"], AllHold)
  BY InputParts
<1>2. /\ queue[l] # <<>> /\ busy[l] = NoWork
      /\ queue' = [queue EXCEPT ![l] = Tail(@)]
      /\ UNCHANGED <<context, clients>>
      /\ \/ Verdict(l, Head(queue[l])) = "discard" /\ Discard /\ UNCHANGED busy
         \/ Verdict(l, Head(queue[l])) = "cancel" /\ CancelActive(l, Free) /\ UNCHANGED busy
         \/ Verdict(l, Head(queue[l])) = "viewport" /\ Ask(l, Head(queue[l]))
         \/ Verdict(l, Head(queue[l])) = "go" /\ l = "touch" /\ Touch(Head(queue[l]), active, lane[l]) /\ UNCHANGED busy
         \/ Verdict(l, Head(queue[l])) = "go" /\ l = "pointer" /\ Pointer(Head(queue[l]), active, lane[l]) /\ UNCHANGED busy
  BY DEF Take
<1>3. Head(queue[l]) = w /\ w \in Works \cup {Cancel}
  BY <1>1, <1>2, TailIs
<1> HIDE DEF w
<1>4. alive' = alive /\ active \in Sessions \cup {NoSession}
  BY <1>1, <1>2 DEF context, InputTypeOK
<1>5. lane \in [Lanes -> LaneStates((Items \X Nat) \cup Points \cup Buttons)]
  BY <1>1 DEF LanesHold
<1>6. ASSUME CancelActive(l, Free)
      PROVE  LanesHold' /\ lane'[l].owner = NoClient /\ \A m \in Lanes \ {l} : lane'[m] = lane[m]
  <2>1. LanesHold' /\ lane' = [lane EXCEPT ![l] = Free] /\ Free.owner = NoClient
    BY <1>1, <1>4, <1>6, FreeIs, LettingGo DEF Unowned
  <2> QED
    BY <1>5, <2>1
<1>7. ASSUME Discard
      PROVE  LanesHold' /\ lane' = lane
  BY <1>1, <1>4, <1>7 DEF Discard, LanesHold, HeldInputOwned, ContactsOwned, PressesOwned
<1>8. CASE Verdict(l, w) = "discard" /\ Discard /\ UNCHANGED busy
  <2>1. w # Cancel
    BY <1>3, <1>4, <1>8, VerdictIs
  <2> QED
    BY <1>2, <1>3, <1>7, <1>8, <2>1 DEF w
<1>9. CASE Verdict(l, w) = "cancel" /\ CancelActive(l, Free) /\ UNCHANGED busy
  BY <1>2, <1>3, <1>6, <1>9 DEF w
<1>10. CASE Verdict(l, w) = "viewport" /\ Ask(l, w)
  <2>1. w \in Works /\ active \in Sessions /\ paused = "no"
    BY <1>3, <1>4, <1>10, VerdictIs
  <2>2. busy' = [busy EXCEPT ![l] = [work |-> w, session |-> active, surface |-> surface]]
    BY <1>10 DEF Ask
  <2>3. CASE l = "pointer"
    <3>1. CancelActive(l, Free)
      BY <1>10, <2>3 DEF Ask
    <3> QED
      BY <1>2, <1>3, <1>6, <1>10, <2>1, <2>2, <3>1 DEF w
  <2>4. CASE l = "touch"
    <3>1. LanesHold' /\ lane' = lane
      BY <1>7, <1>10, <2>4 DEF Ask
    <3>2. lane[l].owner = NoClient \/ lane[l].session = active
      BY <1>3, <1>4, <1>10, <2>4, VerdictIs DEF Mine
    <3> QED
      BY <1>2, <1>3, <1>10, <2>1, <2>2, <2>4, <3>1, <3>2 DEF w
  <2> QED
    BY <2>3, <2>4, LaneNames
<1>11. CASE Verdict(l, w) = "go" /\ l = "touch" /\ Touch(w, active, lane[l]) /\ UNCHANGED busy
  <2>1. w \in Works /\ active \in Sessions /\ paused = "no" /\ lane[l].owner = w.client /\ lane[l].session = active
    BY <1>3, <1>4, <1>11, VerdictIs DEF Mine
  <2>2. w.client \in Clients
    BY <2>1, WorkIs
  <2>3. LanesHold' /\ lane'["pointer"] = lane["pointer"]
    BY <1>1, <1>4, <1>11, <2>1, <2>2, Touching
  <2>4. \A m \in Lanes \ {l} : lane'[m] = lane[m]
    BY <1>11, <2>3, LaneNames
  <2> QED
    BY <1>2, <1>3, <1>11, <2>1, <2>3, <2>4 DEF w
<1>12. CASE Verdict(l, w) = "go" /\ l = "pointer" /\ Pointer(w, active, lane[l]) /\ UNCHANGED busy
  <2>1. w \in Works /\ active \in Sessions /\ paused = "no" /\ lane[l].owner = w.client /\ lane[l].session = active
    BY <1>3, <1>4, <1>12, VerdictIs DEF Mine
  <2>2. w.client \in Clients /\ w.client # NoClient /\ w # Cancel
    BY <2>1, WorkIs
  <2>3. LaneKeeps(queue["pointer"], lane["pointer"], AllHold)
    BY <1>1, <2>1
  <2>4. Lifts(w, lane["pointer"].held) /\ Follows(Tail(queue["pointer"]), w, 0, AllHold)
    BY <1>1, <1>2, <1>12, <2>1, <2>2, <2>3, ReportsTail DEF w
  <2>5. w.kind = "down" => w.item \in w.set
    BY <2>2, <2>4 DEF Follows
  <2>6. /\ LanesHold' /\ lane'["touch"] = lane["touch"]
        /\ \/ lane'["pointer"].owner = NoClient
           \/ /\ lane'["pointer"].owner = w.client
              /\ lane'["pointer"].held = IF w.kind = "wheel" THEN lane["pointer"].held ELSE w.set
    BY <1>1, <1>4, <1>12, <2>1, <2>4, <2>5, Pointing DEF States
  <2>7. \A m \in Lanes \ {l} : lane'[m] = lane[m]
    BY <1>12, <2>6, LaneNames
  <2> QED
    BY <1>2, <1>3, <1>12, <2>1, <2>6, <2>7 DEF w
<1> QED
  BY <1>2, <1>3, <1>8, <1>9, <1>10, <1>11, <1>12

\* The viewport has come.
LEMMA AnsweredIs ==
  ASSUME InputInv, NEW l \in Lanes, NEW ok \in BOOLEAN, Answered(l, ok)
  PROVE  LET w == busy[l].work IN
         /\ busy[l] # NoWork /\ w \in Works
         /\ busy' = [busy EXCEPT ![l] = NoWork]
         /\ UNCHANGED <<context, clients, work>>
         /\ LanesHold' /\ \A m \in Lanes \ {l} : lane'[m] = lane[m]
         /\ l = "pointer" => \/ lane'[l].owner = NoClient
                             \/ /\ lane'[l].owner = w.client
                                /\ lane'[l].held = IF w.kind = "wheel" THEN {} ELSE w.set
<1> DEFINE w == busy[l].work  s == busy[l].session
           k == IF lane[l].owner = NoClient THEN Owned(w, s) ELSE lane[l]
<1>1. /\ InputTypeOK /\ LaneOwned /\ LanesHold
      /\ lane["touch"] \in LaneStates(Items \X Nat) /\ lane["pointer"] \in States
      /\ busy["pointer"] # NoWork => Follows(queue["pointer"], busy["pointer"].work, 0, AllHold)
  BY InputParts
<1>2. /\ busy[l] # NoWork /\ busy' = [busy EXCEPT ![l] = NoWork]
      /\ UNCHANGED <<context, clients, work>>
      /\ \/ lane[l].owner = NoClient /\ Discard
         \/ CancelActive(l, Free)
         \/ l = "touch" /\ Touch(w, s, k)
         \/ l = "pointer" /\ Pointer(w, s, k)
  BY DEF Answered
<1>3. /\ w \in Works /\ s \in Sessions
      /\ lane[l].owner = NoClient \/ (l = "touch" /\ lane[l].session = s)
  BY <1>1, <1>2 DEF LaneOwned
<1>4. alive' = alive
  BY <1>2 DEF context
<1>5. lane \in [Lanes -> LaneStates((Items \X Nat) \cup Points \cup Buttons)]
  BY <1>1 DEF LanesHold
<1> HIDE DEF w, s
<1>o. Owned(w, s) \in LaneStates({}) /\ Owned(w, s).owner = w.client /\ Owned(w, s).session = s /\ Owned(w, s).held = {}
  BY <1>3, OwnedIs
<1>c. w.client \in Clients /\ w # Cancel /\ w.client # NoClient
  BY <1>3, WorkIs
<1>6. CASE lane[l].owner = NoClient /\ Discard
  <2>1. LanesHold' /\ lane' = lane
    BY <1>1, <1>4, <1>6 DEF Discard, LanesHold, HeldInputOwned, ContactsOwned, PressesOwned
  <2> QED
    BY <1>2, <1>3, <1>6, <2>1 DEF w
<1>7. CASE CancelActive(l, Free)
  <2>1. LanesHold' /\ lane' = [lane EXCEPT ![l] = Free] /\ Free.owner = NoClient
    BY <1>1, <1>4, <1>7, FreeIs, LettingGo DEF Unowned
  <2>2. lane'[l].owner = NoClient /\ \A m \in Lanes \ {l} : lane'[m] = lane[m]
    BY <1>5, <2>1
  <2> QED
    BY <1>2, <1>3, <2>1, <2>2 DEF w
<1>8. CASE l = "touch" /\ Touch(w, s, k)
  <2>1. k \in LaneStates(Items \X Nat) /\ k.session = s /\ k.owner \in Clients
    <3>1. Owned(w, s) \in LaneStates(Items \X Nat)
      BY <1>o, LaneStatesMore
    <3>2. lane["touch"].owner # NoClient => lane["touch"].owner \in Clients
      BY <1>1 DEF LaneStates
    <3> QED
      BY <1>1, <1>3, <1>8, <1>o, <1>c, <3>1, <3>2
  <2>2. k = lane["touch"] \/ (lane["touch"].owner = NoClient /\ k.held = {})
    BY <1>8, <1>o
  <2> HIDE DEF k
  <2>3. LanesHold' /\ lane'["pointer"] = lane["pointer"]
    BY <1>1, <1>3, <1>4, <1>8, <2>1, <2>2, Touching
  <2>4. \A m \in Lanes \ {l} : lane'[m] = lane[m]
    BY <1>8, <2>3, LaneNames
  <2> QED
    BY <1>2, <1>3, <1>8, <2>3, <2>4 DEF w
<1>9. CASE l = "pointer" /\ Pointer(w, s, k)
  <2>1. lane["pointer"].owner = NoClient /\ k = Owned(w, s)
    BY <1>3, <1>9
  <2>2. k \in LaneStates(Points \cup Buttons) /\ k.session = s /\ k.owner = w.client /\ k.held = {}
    <3>1. Owned(w, s) \in LaneStates(Points \cup Buttons)
      BY <1>o, LaneStatesMore
    <3> QED
      BY <1>o, <2>1, <3>1
  <2> HIDE DEF k
  <2>3. Lifts(w, k.held)
    BY <2>2 DEF Lifts
  <2>4. w.kind = "down" => w.item \in w.set
    BY <1>1, <1>2, <1>9, <1>c DEF Follows, w
  <2>5. /\ LanesHold' /\ lane'["touch"] = lane["touch"]
        /\ \/ lane'["pointer"].owner = NoClient
           \/ /\ lane'["pointer"].owner = w.client
              /\ lane'["pointer"].held = IF w.kind = "wheel" THEN k.held ELSE w.set
    BY <1>1, <1>3, <1>4, <1>9, <2>1, <2>2, <2>3, <2>4, Pointing
  <2>6. \A m \in Lanes \ {l} : lane'[m] = lane[m]
    BY <1>9, <2>5, LaneNames
  <2> QED
    BY <1>2, <1>3, <1>9, <2>2, <2>5, <2>6 DEF w
<1> QED
  BY <1>2, <1>6, <1>7, <1>8, <1>9

----------------------------------------------------------------------------
(* Every step keeps the invariant of the input lanes *)

\* What is held in Chromium is held by a lane.
LEMMA StepHolds ==
  ASSUME InputInv, [InputNext]_inputVars
  PROVE  LanesHold'
<1>0. InputTypeOK /\ LanesHold
  BY InputParts
<1>1. ASSUME alive' = alive, UNCHANGED worker PROVE LanesHold'
  BY <1>0, <1>1 DEF worker, LanesHold, HeldInputOwned, ContactsOwned, PressesOwned
<1>2. CASE UNCHANGED inputVars
  BY <1>1, <1>2 DEF inputVars, context
<1>3. ASSUME NEW c \in Clients, NEW bad \in BOOLEAN, SendTouch(c, bad) \/ SendPointer(c, bad) PROVE LanesHold'
  BY <1>0, <1>1, <1>3, SendIs DEF Sends, context
<1>4. ASSUME NEW s, SwitchStarts(s) PROVE LanesHold'
  BY <1>1, <1>4 DEF SwitchStarts
<1>5. CASE SwitchEnds \/ CancelInput \/ NewSurface \/ Pause \/ PauseCancels \/ Resume
  BY <1>1, <1>5 DEF SwitchEnds, CancelInput, NewSurface, Pause, PauseCancels, Resume, context
<1>6. CASE BrowserDies
  <2>1. /\ alive' = FALSE /\ lane' = lane
        /\ contacts' = [s \in Sessions |-> {}] /\ pressed' = [s \in Sessions |-> {}]
    BY <1>6 DEF BrowserDies
  <2>2. HeldInputOwned'
    BY <2>1 DEF HeldInputOwned, ContactsOwned, PressesOwned
  <2> QED
    BY <1>0, <2>1, <2>2 DEF LanesHold
<1>7. ASSUME NEW c, ClientCloses(c) \/ Disconnected(c) PROVE LanesHold'
  BY <1>1, <1>7 DEF ClientCloses, Disconnected, context
<1>8. ASSUME NEW l \in Lanes, Take(l) PROVE LanesHold'
  BY <1>8, TakeIs
<1>9. ASSUME NEW l \in Lanes, NEW ok \in BOOLEAN, Answered(l, ok) PROVE LanesHold'
  BY <1>9, AnsweredIs
<1> QED
  BY <1>2, <1>3, <1>4, <1>5, <1>6, <1>7, <1>8, <1>9 DEF InputNext, Worker

\* Types of what is around the lanes.
LEMMA StepTyped ==
  ASSUME InputInv, [InputNext]_inputVars
  PROVE  InputTypeOK'
<1> DEFINE Around == /\ inUse \in SUBSET Lanes /\ alive \in BOOLEAN
                     /\ {active, target} \subseteq Sessions \cup {NoSession}
                     /\ surface \in Nat
                     /\ paused \in {"no", "flag", "cancelled"}
           Linked == link \in [Clients -> {"open", "closed", "gone"}]
           Down == down \in [Lanes -> [Clients -> SUBSET (Points \cup Buttons)]]
           Busy == busy \in [Lanes -> Busies]
<1>0. InputTypeOK /\ Around /\ Linked /\ Down /\ Busy /\ QueuesAccounted
  <2>1. InputTypeOK /\ QueuesAccounted
    BY InputParts
  <2> QED
    BY <2>1 DEF InputTypeOK
<1>1. LanesHold' /\ QueuesAccounted'
  BY <1>0, StepHolds, StepAccounted
<1>2. Around' /\ Linked' /\ Down' /\ Busy' => InputTypeOK'
  BY <1>1 DEF InputTypeOK, LanesHold, QueuesAccounted
<1> HIDE DEF Linked, Down, Busy
<1>a. UNCHANGED context => Around'
  BY <1>0 DEF context
<1>b. link' = link => Linked'
  BY <1>0 DEF Linked
<1>c. down' = down => Down'
  BY <1>0 DEF Down
<1>d. busy' = busy => Busy'
  BY <1>0 DEF Busy
<1>e. ASSUME NEW c, NEW state \in {"open", "closed", "gone"}, link' = [link EXCEPT ![c] = state] PROVE Linked'
  BY <1>0, <1>e DEF Linked
<1>3. CASE UNCHANGED inputVars
  BY <1>2, <1>3, <1>a, <1>b, <1>c, <1>d DEF inputVars, clients, worker
<1>4. ASSUME NEW c \in Clients, NEW bad \in BOOLEAN, SendTouch(c, bad) \/ SendPointer(c, bad) PROVE InputTypeOK'
  <2>1. PICK l \in Lanes, w \in Works : Sends(l, c, w)
    BY <1>0, <1>4, SendIs
  <2>2. Around' /\ Busy'
    BY <2>1, <1>a, <1>d DEF Sends, worker
  <2>3. w.set \subseteq Points \cup Buttons
    BY WorkIs
  <2>4. Down'
    BY <1>0, <2>1, <2>3 DEF Sends, Down
  <2>5. link' = link \/ link' = [link EXCEPT ![w.client] = "closed"]
    <3>1. EnqueueInput(l, w)
      BY <2>1 DEF Sends
    <3> QED
      BY <1>0, <3>1, EnqueueInputIs
  <2>6. Linked'
    BY <2>5, <1>b, <1>e
  <2> QED
    BY <1>2, <2>2, <2>4, <2>6
<1>5. ASSUME NEW s \in Sessions \cup {NoSession}, SwitchStarts(s) PROVE InputTypeOK'
  <2>1. Around'
    BY <1>0, <1>5 DEF SwitchStarts
  <2> QED
    BY <1>2, <1>5, <2>1, <1>b, <1>c, <1>d DEF SwitchStarts, clients, worker
<1>6. CASE SwitchEnds
  <2>1. Around'
    BY <1>0, <1>6 DEF SwitchEnds
  <2> QED
    BY <1>2, <1>6, <2>1, <1>b, <1>c, <1>d DEF SwitchEnds, clients, worker
<1>7. CASE CancelInput
  BY <1>2, <1>7, <1>a, <1>b, <1>c, <1>d DEF CancelInput, clients, worker
<1>8. CASE NewSurface \/ Pause \/ PauseCancels \/ Resume
  <2>1. Around'
    BY <1>0, <1>8 DEF NewSurface, Pause, PauseCancels, Resume
  <2>2. UNCHANGED <<clients, worker>>
    BY <1>8 DEF NewSurface, Pause, PauseCancels, Resume
  <2> QED
    BY <1>2, <2>1, <2>2, <1>b, <1>c, <1>d DEF clients, worker
<1>9. CASE BrowserDies
  <2>1. Around'
    BY <1>0, <1>9 DEF BrowserDies
  <2> QED
    BY <1>2, <1>9, <2>1, <1>b, <1>c, <1>d DEF BrowserDies, clients
<1>10. ASSUME NEW c \in Clients, ClientCloses(c) \/ Disconnected(c) PROVE InputTypeOK'
  <2>1. Linked'
    BY <1>10, <1>e DEF ClientCloses, Disconnected
  <2> QED
    BY <1>2, <1>10, <2>1, <1>a, <1>c, <1>d DEF ClientCloses, Disconnected, worker
<1>11. ASSUME NEW l \in Lanes, Take(l) PROVE InputTypeOK'
  <2>1. /\ UNCHANGED <<context, clients>>
        /\ \/ busy' = busy
           \/ /\ queue[l][1] \in Works /\ active \in Sessions
              /\ busy' = [busy EXCEPT ![l] = [work |-> queue[l][1], session |-> active, surface |-> surface]]
    BY <1>11, TakeIs
  <2>2. ASSUME NEW w \in Works, active \in Sessions,
               busy' = [busy EXCEPT ![l] = [work |-> w, session |-> active, surface |-> surface]]
        PROVE  Busy'
    <3>1. [work |-> w, session |-> active, surface |-> surface] \in Busies
      BY <1>0, <2>2 DEF Busies
    <3> QED
      BY <1>0, <2>2, <3>1 DEF Busy
  <2>3. Busy'
    BY <2>1, <2>2, <1>d
  <2> QED
    BY <1>2, <2>1, <2>3, <1>a, <1>b, <1>c DEF clients
<1>12. ASSUME NEW l \in Lanes, NEW ok \in BOOLEAN, Answered(l, ok) PROVE InputTypeOK'
  <2>1. UNCHANGED <<context, clients>> /\ busy' = [busy EXCEPT ![l] = NoWork]
    BY <1>12, AnsweredIs
  <2>2. NoWork \in Busies
    BY DEF NoWork, Busies
  <2>3. Busy'
    BY <1>0, <2>1, <2>2 DEF Busy
  <2> QED
    BY <1>2, <2>1, <2>3, <1>a, <1>b, <1>c DEF clients
<1> QED
  BY <1>3, <1>4, <1>5, <1>6, <1>7, <1>8, <1>9, <1>10, <1>11, <1>12 DEF InputNext, Worker

----------------------------------------------------------------------------
(* Who owns a lane *)

\* LaneOwned and PausedLetGo, for one lane.
OwnedLane(l) ==
    /\ busy[l] # NoWork =>
           /\ busy[l].work \in Works /\ busy[l].session \in Sessions
           /\ lane[l].owner = NoClient \/ (l = "touch" /\ lane[l].session = busy[l].session)
    /\ l \notin inUse => queue[l] = <<>> /\ busy[l] = NoWork /\ lane[l].owner = NoClient
PausedLane(l) ==
    paused = "cancelled" => (Cancel \notin Range(queue[l]) => busy[l] = NoWork /\ lane[l].owner = NoClient)

\* Both invariants are about one lane at a time.
LEMMA OwnedLanes ==
  /\ LaneOwned => \A l \in Lanes : OwnedLane(l)
  /\ LanesHold /\ (\A l \in Lanes : OwnedLane(l)) => LaneOwned
  /\ PausedLetGo <=> \A l \in Lanes : PausedLane(l)
<1>1. LaneOwned => \A l \in Lanes : OwnedLane(l)
  BY DEF LaneOwned, OwnedLane
<1>2. LanesHold /\ (\A l \in Lanes : OwnedLane(l)) => LaneOwned
  BY DEF LaneOwned, OwnedLane, LanesHold, Unowned
<1>3. PausedLetGo <=> \A l \in Lanes : PausedLane(l)
  BY DEF PausedLetGo, PausedLane
<1> QED
  BY <1>1, <1>2, <1>3

\* A cancellation stays in its queue until it is taken.
LEMMA CancelStays ==
  ASSUME NEW q \in Seq(Works \cup {Cancel}), NEW r \in Seq(Works \cup {Cancel}), Cancel \in Range(q)
  PROVE  /\ Shortened(q, r) => Cancel \in Range(r)
         /\ \A w \in Works \cup {Cancel} : Cancel \in Range(Append(q, w))
         /\ \A w \in Works : Replaced(q, r, w) /\ Replaceable(q[Len(q)]) => Cancel \in Range(r)
         /\ Without(q, r, 1) /\ q[1] # Cancel => Cancel \in Range(r)
<1>1. /\ Len(q) \in Nat /\ Len(r) \in Nat /\ \A i : i \in DOMAIN r <=> i \in 1..Len(r)
  OBVIOUS
<1>2. PICK p \in 1..Len(q) : q[p] = Cancel
  BY DEF Range
<1>3. ~Replaceable(Cancel)
  BY DEF Replaceable, Cancel, Motion
<1>4. ASSUME NEW i \in 1..Len(r), r[i] = Cancel PROVE Cancel \in Range(r)
  BY <1>1, <1>4 DEF Range
<1>5. ASSUME NEW k \in 1..Len(q), Without(q, r, k), q[k] # Cancel PROVE Cancel \in Range(r)
  <2> DEFINE i == IF p < k THEN p ELSE p - 1
  <2>0. Len(r) = Len(q) - 1 /\ \A j \in 1..Len(r) : r[j] = IF j < k THEN q[j] ELSE q[j + 1]
    BY <1>5 DEF Without
  <2>1. p # k
    BY <1>2, <1>5
  <2>2. i \in 1..Len(r) /\ (i < k => i = p) /\ (~(i < k) => i + 1 = p)
    BY <1>1, <1>2, <1>5, <2>0, <2>1
  <2> HIDE DEF i
  <2>3. r[i] = Cancel
    BY <1>2, <2>0, <2>2
  <2> QED
    BY <1>4, <2>2, <2>3
<1>6. Shortened(q, r) => Cancel \in Range(r)
  BY <1>3, <1>5 DEF Shortened
<1>7. Without(q, r, 1) /\ q[1] # Cancel => Cancel \in Range(r)
  BY <1>5 DEF Without
<1>8. ASSUME NEW w \in Works, Replaced(q, r, w), Replaceable(q[Len(q)]) PROVE Cancel \in Range(r)
  <2>1. p # Len(q)
    BY <1>2, <1>3, <1>8
  <2>2. p \in 1..Len(r) /\ r[p] = Cancel
    BY <1>2, <1>8, <2>1 DEF Replaced
  <2> QED
    BY <1>4, <2>2
<1>9. ASSUME NEW w \in Works \cup {Cancel} PROVE Cancel \in Range(Append(q, w))
  <2>1. DOMAIN Append(q, w) = 1..(Len(q) + 1) /\ \A i \in 1..Len(q) : Append(q, w)[i] = q[i]
    BY AppendIs
  <2>2. p \in 1..(Len(q) + 1) /\ Append(q, w)[p] = Cancel
    BY <1>1, <1>2, <2>1
  <2> QED
    BY <2>1, <2>2 DEF Range
<1> QED
  BY <1>6, <1>7, <1>8, <1>9

\* Only a worker changes who owns its lane; a cancellation leaves a queue only when it is taken.
LEMMA OwnedStands ==
  ASSUME NEW l \in Lanes, OwnedLane(l), busy'[l] = busy[l], lane'[l] = lane[l], inUse' = inUse,
         l \notin inUse => queue'[l] = queue[l]
  PROVE  OwnedLane(l)'
  BY DEF OwnedLane

\* The same for a handoff.
LEMMA PausedStands ==
  ASSUME NEW l \in Lanes, PausedLane(l), busy'[l] = busy[l], lane'[l] = lane[l],
         paused' = "cancelled" => paused = "cancelled",
         Cancel \in Range(queue[l]) => Cancel \in Range(queue'[l])
  PROVE  PausedLane(l)'
  BY DEF PausedLane

\* Every step keeps who owns the lanes.
LEMMA StepOwned ==
  ASSUME InputInv, [InputNext]_inputVars
  PROVE  LaneOwned' /\ PausedLetGo'
<1>0. InputTypeOK /\ LaneOwned /\ PausedLetGo /\ \A l \in Lanes : queue[l] \in Seq(Works \cup {Cancel})
  BY InputParts
<1>1. ASSUME NEW l \in Lanes PROVE OwnedLane(l) /\ PausedLane(l)
  BY <1>0, OwnedLanes
<1>2. (\A l \in Lanes : OwnedLane(l)' /\ PausedLane(l)') => LaneOwned' /\ PausedLetGo'
  <2>1. LanesHold'
    BY StepHolds
  <2>2. /\ (LanesHold /\ (\A l \in Lanes : OwnedLane(l)) => LaneOwned)'
        /\ (PausedLetGo <=> \A l \in Lanes : PausedLane(l))'
    BY OwnedLanes, PTL
  <2> QED
    BY <2>1, <2>2
<1> SUFFICES ASSUME NEW l \in Lanes PROVE OwnedLane(l)' /\ PausedLane(l)'
  BY <1>2
<1>3. ASSUME UNCHANGED worker, queue'[l] = queue[l], inUse' = inUse, paused' = "cancelled" => paused = "cancelled"
      PROVE  OwnedLane(l)' /\ PausedLane(l)'
  BY <1>1, <1>3, OwnedStands, PausedStands DEF worker
<1>4. ASSUME UNCHANGED worker, queue' = Cancelled(queue), inUse' = inUse
      PROVE  OwnedLane(l)' /\ PausedLane(l)'
  <2>1. queue'[l] = IF l \in inUse THEN Append(queue[l], Cancel) ELSE queue[l]
    BY <1>0, <1>4, CancelledIs
  <2>2. OwnedLane(l)'
    BY <1>1, <1>4, <2>1, OwnedStands DEF worker
  <2>3. CASE l \notin inUse
    BY <1>4, <2>2, <2>3 DEF OwnedLane, PausedLane
  <2>4. CASE l \in inUse
    <3>1. queue'[l] = Append(queue[l], Cancel) /\ queue[l] \in Seq(Works \cup {Cancel})
      BY <1>0, <2>1, <2>4
    <3>2. Len(queue[l]) \in Nat /\ DOMAIN queue'[l] = 1..(Len(queue[l]) + 1) /\ queue'[l][Len(queue[l]) + 1] = Cancel
      BY <3>1, AppendIs
    <3>3. Cancel \in Range(queue'[l])
      BY <3>2 DEF Range
    <3> QED
      BY <2>2, <3>3 DEF PausedLane
  <2> QED
    BY <2>3, <2>4
<1>5. CASE UNCHANGED inputVars
  BY <1>3, <1>5 DEF inputVars, context, work
<1>6. ASSUME NEW c \in Clients, NEW bad \in BOOLEAN, SendTouch(c, bad) \/ SendPointer(c, bad)
      PROVE  OwnedLane(l)' /\ PausedLane(l)'
  <2>1. PICK m \in Lanes, w \in Works : Sends(m, c, w)
    BY <1>0, <1>6, SendIs
  <2>2. m \in inUse /\ EnqueueInput(m, w) /\ UNCHANGED worker /\ inUse' = inUse /\ paused' = paused
    BY <2>1 DEF Sends, context
  <2>3. \/ \E r \in Seq(Works \cup {Cancel}) :
              /\ queue' = [queue EXCEPT ![m] = r]
              /\ Replaced(queue[m], r, w) /\ Replaces(m, queue[m][Len(queue[m])], w)
        \/ queue' = queue
        \/ \E r \in Seq(Works \cup {Cancel}) : queue' = [queue EXCEPT ![m] = Append(r, w)] /\ Shortened(queue[m], r)
    BY <1>0, <2>2, EnqueueInputIs
  <2>4. queue \in [Lanes -> Seq(Works \cup {Cancel})]
    BY <1>0 DEF InputTypeOK
  <2>5. l # m => queue'[l] = queue[l]
    BY <2>3, <2>4
  <2>6. Cancel \in Range(queue[m]) => Cancel \in Range(queue'[m])
    <3> SUFFICES ASSUME Cancel \in Range(queue[m]) PROVE Cancel \in Range(queue'[m])
      OBVIOUS
    <3>1. ASSUME NEW r \in Seq(Works \cup {Cancel}), queue' = [queue EXCEPT ![m] = r],
                 Replaced(queue[m], r, w), Replaces(m, queue[m][Len(queue[m])], w)
          PROVE  Cancel \in Range(queue'[m])
      <4>1. Replaceable(queue[m][Len(queue[m])])
        BY <3>1 DEF Replaces, Replaceable
      <4>2. Cancel \in Range(r)
        BY <1>0, <3>1, <4>1, CancelStays
      <4> QED
        BY <2>4, <3>1, <4>2
    <3>2. ASSUME NEW r \in Seq(Works \cup {Cancel}), queue' = [queue EXCEPT ![m] = Append(r, w)], Shortened(queue[m], r)
          PROVE  Cancel \in Range(queue'[m])
      <4>1. Cancel \in Range(r)
        BY <1>0, <3>2, CancelStays
      <4>2. Cancel \in Range(Append(r, w))
        BY <4>1, CancelStays
      <4> QED
        BY <2>4, <3>2, <4>2
    <3> QED
      BY <2>3, <3>1, <3>2
  <2> QED
    BY <1>1, <2>2, <2>5, <2>6, OwnedStands, PausedStands DEF worker
<1>7. ASSUME NEW s, SwitchStarts(s) PROVE OwnedLane(l)' /\ PausedLane(l)'
  BY <1>4, <1>7 DEF SwitchStarts
<1>8. CASE CancelInput \/ PauseCancels
  BY <1>4, <1>8 DEF CancelInput, PauseCancels, context
<1>9. CASE SwitchEnds \/ NewSurface \/ Pause \/ Resume
  BY <1>3, <1>9 DEF SwitchEnds, NewSurface, Pause, Resume, work
<1>10. CASE BrowserDies
  <2>1. queue' = queue /\ busy' = busy /\ lane' = lane /\ inUse' = inUse /\ paused' = paused
    BY <1>10 DEF BrowserDies, work
  <2> QED
    BY <1>1, <2>1, OwnedStands, PausedStands
<1>11. ASSUME NEW c, ClientCloses(c) PROVE OwnedLane(l)' /\ PausedLane(l)'
  BY <1>3, <1>11 DEF ClientCloses, context, work
<1>12. ASSUME NEW c, Disconnected(c) PROVE OwnedLane(l)' /\ PausedLane(l)'
  BY <1>4, <1>12 DEF Disconnected, context
<1>13. ASSUME NEW m \in Lanes, Take(m) PROVE OwnedLane(l)' /\ PausedLane(l)'
  <2>q. queue \in [Lanes -> Seq(Works \cup {Cancel})] /\ busy \in [Lanes -> Busies] /\ active \in Sessions \cup {NoSession}
    BY <1>0 DEF InputTypeOK
  <2>1. /\ queue[m] # <<>> /\ busy[m] = NoWork /\ queue[m][1] \in Works \cup {Cancel}
        /\ queue' = [queue EXCEPT ![m] = Tail(queue[m])] /\ \A n \in Lanes \ {m} : lane'[n] = lane[n]
        /\ inUse' = inUse /\ paused' = paused
    BY <1>13, TakeIs DEF context
  <2>2. CASE l # m
    <3>1. busy' = busy \/ \E b : busy' = [busy EXCEPT ![m] = b]
      BY <1>13, TakeIs
    <3>2. busy'[l] = busy[l] /\ lane'[l] = lane[l] /\ queue'[l] = queue[l]
      BY <2>1, <2>2, <2>q, <3>1
    <3> QED
      BY <1>1, <2>1, <3>2, OwnedStands, PausedStands
  <2>3. CASE l = m
    <3>0. l \in inUse /\ queue'[l] = Tail(queue[l]) /\ Without(queue[l], Tail(queue[l]), 1) /\ Tail(queue[l]) \in Seq(Works \cup {Cancel})
      BY <1>0, <1>1, <2>1, <2>3, <2>q, TailIs DEF OwnedLane
    <3>1. CASE Verdict(l, queue[l][1]) = "discard" /\ queue[l][1] # Cancel /\ lane'[l] = lane[l] /\ busy' = busy
      <4>1. Cancel \in Range(queue[l]) => Cancel \in Range(queue'[l])
        BY <1>0, <3>0, <3>1, CancelStays
      <4> QED
        BY <1>1, <2>1, <3>0, <3>1, <4>1, OwnedStands, PausedStands
    <3>2. CASE lane'[l].owner = NoClient /\ busy' = busy
      BY <2>1, <2>3, <3>0, <3>2 DEF OwnedLane, PausedLane
    <3>3. ASSUME NEW w \in Works, active \in Sessions, paused = "no",
                 busy' = [busy EXCEPT ![l] = [work |-> w, session |-> active, surface |-> surface]],
                 lane'[l].owner = NoClient \/ (l = "touch" /\ lane'[l] = lane[l] /\ lane[l].session = active)
          PROVE  OwnedLane(l)' /\ PausedLane(l)'
      <4>1. busy'[l].work = w /\ busy'[l].session = active
        BY <2>q, <3>3
      <4> QED
        BY <2>1, <3>0, <3>3, <4>1 DEF OwnedLane, PausedLane
    <3>4. CASE paused = "no" /\ busy' = busy
      BY <2>1, <2>3, <3>0, <3>4 DEF OwnedLane, PausedLane
    <3>5. \/ Verdict(l, queue[l][1]) = "discard" /\ queue[l][1] # Cancel /\ lane'[l] = lane[l] /\ busy' = busy
          \/ lane'[l].owner = NoClient /\ busy' = busy
          \/ /\ queue[l][1] \in Works /\ active \in Sessions /\ paused = "no"
             /\ busy' = [busy EXCEPT ![l] = [work |-> queue[l][1], session |-> active, surface |-> surface]]
             /\ lane'[l].owner = NoClient \/ (l = "touch" /\ lane'[l] = lane[l] /\ lane[l].session = active)
          \/ paused = "no" /\ busy' = busy
      BY <1>13, <2>3, TakeIs
    <3> QED
      BY <3>1, <3>2, <3>3, <3>4, <3>5
  <2> QED
    BY <2>2, <2>3
<1>14. ASSUME NEW m \in Lanes, NEW ok \in BOOLEAN, Answered(m, ok) PROVE OwnedLane(l)' /\ PausedLane(l)'
  <2>q. busy \in [Lanes -> Busies]
    BY <1>0 DEF InputTypeOK
  <2>1. /\ busy[m] # NoWork /\ busy' = [busy EXCEPT ![m] = NoWork] /\ queue' = queue
        /\ \A n \in Lanes \ {m} : lane'[n] = lane[n]
        /\ inUse' = inUse /\ paused' = paused
    BY <1>14, AnsweredIs DEF context, work
  <2>2. CASE l # m
    <3>1. busy'[l] = busy[l] /\ lane'[l] = lane[l]
      BY <2>1, <2>2, <2>q
    <3> QED
      BY <1>1, <2>1, <3>1, OwnedStands, PausedStands
  <2>3. CASE l = m
    <3>1. busy'[l] = NoWork
      BY <2>1, <2>3, <2>q
    <3> QED
      BY <1>1, <2>1, <2>3, <3>1 DEF OwnedLane, PausedLane
  <2> QED
    BY <2>2, <2>3
<1> QED
  BY <1>5, <1>6, <1>7, <1>8, <1>9, <1>10, <1>11, <1>12, <1>13, <1>14 DEF InputNext, Worker

----------------------------------------------------------------------------
(* Reports, step by step *)

\* ReportsAre as a formula, which holds in the next state too.
LEMMA ReportsParts ==
  /\ queue["pointer"] \in Seq(Works \cup {Cancel}) /\ lane["pointer"] \in States
  /\ busy["pointer"].work \in Works \cup {Cancel}
  => (ReportsFollow <=>
      /\ Reported(queue["pointer"], AllHold)
      /\ busy["pointer"] # NoWork => Follows(queue["pointer"], busy["pointer"].work, 0, AllHold)
      /\ paused = "no" => LaneKeeps(queue["pointer"], lane["pointer"], AllHold))
  BY ReportsAre

\* ReportsFollow in the next state, from its parts.
LEMMA ReportsNext ==
  ASSUME InputTypeOK', LanesHold', NEW q, NEW H, queue'["pointer"] = q, AllHold' = H,
         Reported(q, H),
         busy'["pointer"] # NoWork => Follows(q, busy'["pointer"].work, 0, H),
         paused' = "no" => LaneKeeps(q, lane'["pointer"], H)
  PROVE  ReportsFollow'
<1>1. (queue["pointer"] \in Seq(Works \cup {Cancel}))'
  BY LaneNames DEF InputTypeOK
<1>2. (busy["pointer"].work \in Works \cup {Cancel})'
  <2>1. \A b \in Busies : b.work \in Works \cup {Cancel}
    BY DEF Busies
  <2>2. busy'["pointer"] \in Busies
    BY LaneNames DEF InputTypeOK
  <2> QED
    BY <2>1, <2>2
<1>3. (lane["pointer"] \in States)'
  <2>1. /\ lane'["pointer"] \in LaneStates((Items \X Nat) \cup Points \cup Buttons)
        /\ lane'["pointer"].held \subseteq Points \cup Buttons
    BY LaneNames DEF LanesHold
  <2> QED
    BY <2>1 DEF States, LaneStates
<1>4. (/\ queue["pointer"] \in Seq(Works \cup {Cancel}) /\ lane["pointer"] \in States
       /\ busy["pointer"].work \in Works \cup {Cancel}
       => (ReportsFollow <=>
           /\ Reported(queue["pointer"], AllHold)
           /\ busy["pointer"] # NoWork => Follows(queue["pointer"], busy["pointer"].work, 0, AllHold)
           /\ paused = "no" => LaneKeeps(queue["pointer"], lane["pointer"], AllHold)))'
  BY ReportsParts, PTL
<1> QED
  BY <1>1, <1>2, <1>3, <1>4

\* Every step keeps ReportsFollow.
LEMMA StepReports ==
  ASSUME InputInv, [InputNext]_inputVars
  PROVE  ReportsFollow'
<1> DEFINE q == queue["pointer"]  b == busy["pointer"]  k == lane["pointer"]  H == AllHold
<1>0. /\ InputTypeOK /\ LaneOwned /\ PausedLetGo
      /\ q \in Seq(Works \cup {Cancel}) /\ b.work \in Works \cup {Cancel} /\ k \in States
      /\ Reported(q, H) /\ (b # NoWork => Follows(q, b.work, 0, H)) /\ (paused = "no" => LaneKeeps(q, k, H))
  BY InputParts, LaneNames
<1>1. InputTypeOK' /\ LanesHold'
  BY StepTyped, StepHolds
<1>t. /\ queue \in [Lanes -> Seq(Works \cup {Cancel})] /\ link \in [Clients -> {"open", "closed", "gone"}]
      /\ down \in [Lanes -> [Clients -> SUBSET (Points \cup Buttons)]]
      /\ busy \in [Lanes -> Busies] /\ active \in Sessions \cup {NoSession}
  BY <1>0 DEF InputTypeOK
<1>h. \A c \in Clients : H[c] = IF link[c] = "open" THEN down["pointer"][c] ELSE Points \cup Buttons
  BY DEF AllHold, Holds
<1>i. \A c \in Clients : AllHold'[c] = IF link'[c] = "open" THEN down'["pointer"][c] ELSE Points \cup Buttons
  BY DEF AllHold, Holds
<1>g. ASSUME \A c \in Clients : link'[c] = "open" => link[c] = "open" /\ down'["pointer"][c] = down["pointer"][c]
      PROVE  Grows(H, AllHold')
  BY <1>g, <1>h, <1>i DEF Grows
<1>2. ASSUME Grows(H, AllHold'), queue'["pointer"] = q, busy'["pointer"] = b, lane'["pointer"] = k,
             paused' = "no" => paused = "no" \/ k.owner = NoClient
      PROVE  ReportsFollow'
  <2>1. Reported(q, AllHold')
    BY <1>0, <1>2, ReportsMore
  <2>2. b # NoWork => Follows(q, b.work, 0, AllHold')
    BY <1>0, <1>2, ReportsMore
  <2>3. paused' = "no" => LaneKeeps(q, k, AllHold')
    <3>1. CASE k.owner = NoClient
      BY <3>1 DEF LaneKeeps
    <3>2. CASE paused = "no"
      BY <1>0, <1>2, <3>2, ReportsMore
    <3> QED
      BY <1>2, <3>1, <3>2
  <2> QED
    BY <1>1, <1>2, <2>1, <2>2, <2>3, ReportsNext
<1>3. ASSUME \A c \in Clients : link'[c] = "open" => link[c] = "open", UNCHANGED <<down, worker>>,
             queue' = Cancelled(queue), paused' = "no" => paused = "no"
      PROVE  ReportsFollow'
  <2>1. Grows(H, AllHold')
    BY <1>3, <1>g
  <2>2. busy'["pointer"] = b /\ lane'["pointer"] = k
    BY <1>3 DEF worker
  <2>3. queue'["pointer"] = IF "pointer" \in inUse THEN Append(q, Cancel) ELSE q
    BY <1>0, <1>3, LaneNames, CancelledIs
  <2>4. CASE "pointer" \notin inUse
    BY <1>2, <1>3, <2>1, <2>2, <2>3, <2>4
  <2>5. CASE "pointer" \in inUse
    <3>1. /\ Reported(Append(q, Cancel), AllHold')
          /\ b # NoWork => Follows(Append(q, Cancel), b.work, 0, AllHold')
          /\ paused' = "no" => LaneKeeps(Append(q, Cancel), k, AllHold')
      BY <1>0, <1>3, <2>1, ReportsAppend
    <3> QED
      BY <1>1, <2>2, <2>3, <2>5, <3>1, ReportsNext
  <2> QED
    BY <2>4, <2>5
<1>4. CASE UNCHANGED inputVars
  <2>1. /\ \A c \in Clients : link'[c] = "open" => link[c] = "open" /\ down'["pointer"][c] = down["pointer"][c]
        /\ queue'["pointer"] = q /\ busy'["pointer"] = b /\ lane'["pointer"] = k /\ paused' = paused
    BY <1>4 DEF inputVars, context, clients, work, worker
  <2> QED
    BY <1>2, <1>g, <2>1
<1>5. ASSUME NEW c \in Clients, NEW bad \in BOOLEAN, SendTouch(c, bad) \/ SendPointer(c, bad) PROVE ReportsFollow'
  <2>1. PICK l \in Lanes, w \in Works : Sends(l, c, w)
    BY <1>0, <1>5, SendIs
  <2>2. /\ link[c] = "open" /\ w.client = c /\ EnqueueInput(l, w) /\ down' = [down EXCEPT ![l][c] = w.set]
        /\ busy'["pointer"] = b /\ lane'["pointer"] = k /\ paused' = paused
        /\ l = "pointer" => Lifts(w, down[l][c]) /\ (w.kind = "down" => w.item \in w.set)
    BY <2>1 DEF Sends, context, worker
  <2>3. \/ \E r \in Seq(Works \cup {Cancel}) :
              /\ queue' = [queue EXCEPT ![l] = r]
              /\ Replaced(queue[l], r, w) /\ Replaces(l, queue[l][Len(queue[l])], w) /\ link' = link
        \/ link' = [link EXCEPT ![c] = "closed"] /\ queue' = queue
        \/ \E r \in Seq(Works \cup {Cancel}) :
              queue' = [queue EXCEPT ![l] = Append(r, w)] /\ Shortened(queue[l], r) /\ link' = link
    BY <1>0, <2>2, EnqueueInputIs
  <2>4. CASE l = "touch"
    <3>1. down'["pointer"] = down["pointer"] /\ queue'["pointer"] = q
      BY <1>t, <2>2, <2>3, <2>4, LaneNames
    <3>2. \A d \in Clients : link'[d] = "open" => link[d] = "open"
      BY <1>t, <2>3
    <3> QED
      BY <1>2, <1>g, <2>2, <3>1, <3>2
  <2>5. CASE l = "pointer"
    <3>1. down'["pointer"][c] = w.set /\ \A d \in Clients \ {c} : down'["pointer"][d] = down["pointer"][d]
      BY <1>t, <2>2, <2>5, LaneNames
    <3>2. H[c] = down["pointer"][c] /\ Lifts(w, H[c])
      BY <1>h, <2>2, <2>5
    <3>3. CASE link' = [link EXCEPT ![c] = "closed"] /\ queue' = queue
      <4>1. \A d \in Clients : link'[d] = "open" => link[d] = "open" /\ d # c
        BY <1>t, <3>3
      <4> QED
        BY <1>2, <1>g, <2>2, <3>1, <3>3, <4>1
    <3>4. ASSUME link' = link
          PROVE  AllHold'[c] = w.set /\ \A d \in Clients \ {c} : (Points \cup Buttons) \cap H[d] \subseteq AllHold'[d]
      BY <1>h, <1>i, <2>2, <3>1, <3>4
    <3>5. ASSUME NEW r \in Seq(Works \cup {Cancel}), queue' = [queue EXCEPT ![l] = r],
                 Replaced(q, r, w), Replaces("pointer", q[Len(q)], w), link' = link
          PROVE  ReportsFollow'
      <4>1. w.kind # "up"
        BY <3>5 DEF Replaces, Replaceable, Motion
      <4>2. H[c] \subseteq w.set
        BY <3>2, <4>1 DEF Lifts
      <4>3. Grows(H, AllHold') /\ AllHold'[w.client] = w.set
        BY <2>2, <3>4, <3>5, <4>2 DEF Grows
      <4>4. queue'["pointer"] = r
        BY <1>t, <2>5, <3>5, LaneNames
      <4>5. /\ Reported(r, AllHold')
            /\ b # NoWork => Follows(r, b.work, 0, AllHold')
            /\ paused = "no" => LaneKeeps(r, k, AllHold')
        <5>1. /\ Reported(q, H) => Reported(r, AllHold')
              /\ \A u \in Works \cup {Cancel} : Follows(q, u, 0, H) => Follows(r, u, 0, AllHold')
              /\ \A x \in States : LaneKeeps(q, x, H) => LaneKeeps(r, x, AllHold')
          <6>1. q \in Seq(Works \cup {Cancel})
            BY <1>0
          <6> HIDE DEF q, H
          <6> QED
            BY <3>5, <4>3, <6>1, ReportsReplaced
        <5> QED
          BY <1>0, <5>1
      <4> QED
        BY <1>1, <2>2, <4>4, <4>5, ReportsNext
    <3>6. ASSUME NEW r \in Seq(Works \cup {Cancel}), queue' = [queue EXCEPT ![l] = Append(r, w)], Shortened(q, r), link' = link
          PROVE  ReportsFollow'
      <4>1. /\ Reported(r, H)
            /\ b # NoWork => Follows(r, b.work, 0, H)
            /\ paused = "no" => LaneKeeps(r, k, H)
        <5>1. /\ Reported(q, H) => Reported(r, H)
              /\ \A u \in Works \cup {Cancel} : Follows(q, u, 0, H) => Follows(r, u, 0, H)
              /\ \A x \in States : LaneKeeps(q, x, H) => LaneKeeps(r, x, H)
          <6>1. q \in Seq(Works \cup {Cancel})
            BY <1>0
          <6> HIDE DEF q, H
          <6> QED
            BY <3>6, <6>1, ReportsShortened
        <5> QED
          BY <1>0, <5>1
      <4>2. /\ AllHold'[w.client] = w.set /\ Lifts(w, H[w.client]) /\ w # Cancel
            /\ \A d \in Clients \ {w.client} : (Points \cup Buttons) \cap H[d] \subseteq AllHold'[d]
            /\ w.kind = "down" => w.item \in w.set
        BY <2>2, <2>5, <3>2, <3>4, <3>6, WorkIs
      <4>3. queue'["pointer"] = Append(r, w)
        BY <1>t, <2>5, <3>6, LaneNames
      <4>4. /\ Reported(Append(r, w), AllHold')
            /\ b # NoWork => Follows(Append(r, w), b.work, 0, AllHold')
            /\ paused = "no" => LaneKeeps(Append(r, w), k, AllHold')
        BY <1>0, <4>1, <4>2, ReportsAppend
      <4> QED
        BY <1>1, <2>2, <4>3, <4>4, ReportsNext
    <3> QED
      BY <2>3, <2>5, <3>3, <3>5, <3>6
  <2> QED
    BY <2>4, <2>5, LaneNames
<1>6. ASSUME NEW s, SwitchStarts(s) PROVE ReportsFollow'
  BY <1>3, <1>6 DEF SwitchStarts, clients
<1>7. CASE CancelInput
  BY <1>3, <1>7 DEF CancelInput, clients, context
<1>8. CASE PauseCancels
  BY <1>3, <1>8 DEF PauseCancels, clients
<1>9. ASSUME NEW c \in Clients, Disconnected(c) PROVE ReportsFollow'
  <2>1. \A d \in Clients : link'[d] = "open" => link[d] = "open"
    BY <1>t, <1>9 DEF Disconnected
  <2> QED
    BY <1>3, <1>9, <2>1 DEF Disconnected, context
<1>10. CASE SwitchEnds \/ NewSurface \/ Pause \/ BrowserDies
  <2>1. /\ \A c \in Clients : link'[c] = "open" => link[c] = "open" /\ down'["pointer"][c] = down["pointer"][c]
        /\ queue'["pointer"] = q /\ busy'["pointer"] = b /\ lane'["pointer"] = k /\ (paused' = "no" => paused = "no")
    BY <1>10 DEF SwitchEnds, NewSurface, Pause, BrowserDies, clients, work, worker
  <2> QED
    BY <1>2, <1>g, <2>1
<1>11. CASE Resume
  <2>1. /\ \A c \in Clients : link'[c] = "open" => link[c] = "open" /\ down'["pointer"][c] = down["pointer"][c]
        /\ queue'["pointer"] = q /\ busy'["pointer"] = b /\ lane'["pointer"] = k
    BY <1>11 DEF Resume, clients, work, worker
  <2>2. paused = "cancelled" /\ (b # NoWork \/ Cancel \notin Range(q))
    BY <1>11, LaneNames DEF Resume, Waited
  <2>3. k.owner = NoClient
    BY <1>0, <2>2, LaneNames DEF LaneOwned, PausedLetGo
  <2> QED
    BY <1>2, <1>g, <2>1, <2>3
<1>12. ASSUME NEW c \in Clients, ClientCloses(c) PROVE ReportsFollow'
  <2>1. /\ link' = [link EXCEPT ![c] = "closed"] /\ down' = down
        /\ queue'["pointer"] = q /\ busy'["pointer"] = b /\ lane'["pointer"] = k /\ paused' = paused
    BY <1>12 DEF ClientCloses, context, work, worker
  <2>2. \A d \in Clients : link'[d] = "open" => link[d] = "open" /\ down'["pointer"][d] = down["pointer"][d]
    BY <1>t, <2>1
  <2> QED
    BY <1>2, <1>g, <2>1, <2>2
<1>13. ASSUME NEW l \in Lanes, Take(l) PROVE ReportsFollow'
  <2> DEFINE w == queue[l][1]
  <2>1. /\ queue[l] # <<>> /\ busy[l] = NoWork /\ w \in Works \cup {Cancel}
        /\ queue' = [queue EXCEPT ![l] = Tail(queue[l])]
        /\ \A m \in Lanes \ {l} : lane'[m] = lane[m]
        /\ UNCHANGED <<context, clients>>
    BY <1>13, TakeIs
  <2>2. \/ Verdict(l, w) = "discard" /\ w # Cancel /\ lane'[l] = lane[l] /\ busy' = busy
        \/ Verdict(l, w) = "cancel" /\ lane'[l].owner = NoClient /\ busy' = busy
        \/ /\ Verdict(l, w) = "viewport" /\ w \in Works /\ active \in Sessions /\ paused = "no"
           /\ busy' = [busy EXCEPT ![l] = [work |-> w, session |-> active, surface |-> surface]]
           /\ lane'[l].owner = NoClient \/ (l = "touch" /\ lane'[l] = lane[l] /\ lane[l].session = active)
        \/ /\ Verdict(l, w) = "go" /\ w \in Works /\ paused = "no" /\ busy' = busy
           /\ l = "pointer" => \/ lane'[l].owner = NoClient
                               \/ /\ lane'[l].owner = w.client /\ lane[l].owner = w.client
                                  /\ lane'[l].held = IF w.kind = "wheel" THEN lane[l].held ELSE w.set
    BY <1>13, TakeIs
  <2>3. link' = link /\ down' = down /\ paused' = paused /\ AllHold' = H
    BY <2>1 DEF context, clients, AllHold, Holds
  <2> HIDE DEF w
  <2>4. CASE l = "touch"
    <3>1. queue'["pointer"] = q /\ lane'["pointer"] = k
      BY <1>t, <2>1, <2>4, LaneNames
    <3>2. busy'["pointer"] = b
      BY <1>t, <2>2, <2>4, LaneNames
    <3> QED
      BY <1>2, <1>g, <2>3, <3>1, <3>2
  <2>5. CASE l = "pointer"
    <3>1. /\ queue'["pointer"] = Tail(q) /\ q # <<>> /\ w = q[1] /\ b = NoWork
      BY <1>t, <2>1, <2>5, LaneNames DEF w
    <3>2. /\ Reported(Tail(q), H) /\ Follows(Tail(q), w, 0, H)
          /\ w.kind # "up" /\ LaneKeeps(q, k, H) => LaneKeeps(Tail(q), k, H)
      BY <1>0, <3>1, ReportsTail
    <3>3. busy'["pointer"] # NoWork => Follows(Tail(q), busy'["pointer"].work, 0, H)
      <4>1. CASE busy' = busy
        BY <3>1, <4>1
      <4>2. CASE busy' = [busy EXCEPT ![l] = [work |-> w, session |-> active, surface |-> surface]]
        <5>1. busy'["pointer"].work = w
          BY <1>t, <2>5, <4>2, LaneNames
        <5> QED
          BY <3>2, <5>1
      <4> QED
        BY <2>2, <4>1, <4>2
    <3>4. paused' = "no" => LaneKeeps(Tail(q), lane'["pointer"], H)
      <4> SUFFICES ASSUME paused = "no" PROVE LaneKeeps(Tail(q), lane'["pointer"], H)
        BY <2>3
      <4>1. CASE lane'[l].owner = NoClient
        BY <2>5, <4>1 DEF LaneKeeps
      <4>2. CASE Verdict(l, w) = "discard" /\ lane'[l] = lane[l]
        <5>1. w.kind = "key"
          BY <1>t, <2>1, <2>5, <4>2, VerdictIs
        <5> QED
          BY <1>0, <2>5, <3>2, <4>2, <5>1
      <4>3. CASE /\ w \in Works /\ lane'[l].owner = w.client /\ lane[l].owner = w.client
                 /\ lane'[l].held = IF w.kind = "wheel" THEN lane[l].held ELSE w.set
        <5>1. w # Cancel
          BY <4>3, WorkIs
        <5>2. CASE w.kind = "wheel"
          BY <1>0, <2>5, <3>2, <4>3, <5>2 DEF LaneKeeps
        <5>3. CASE w.kind # "wheel"
          BY <2>5, <3>2, <4>3, <5>1, <5>3 DEF LaneKeeps, Follows
        <5> QED
          BY <5>2, <5>3
      <4> QED
        BY <2>2, <2>5, <4>1, <4>2, <4>3
    <3> QED
      BY <1>1, <2>3, <3>1, <3>2, <3>3, <3>4, ReportsNext
  <2> QED
    BY <2>4, <2>5, LaneNames
<1>14. ASSUME NEW l \in Lanes, NEW ok \in BOOLEAN, Answered(l, ok) PROVE ReportsFollow'
  <2> DEFINE w == busy[l].work
  <2>1. /\ busy[l] # NoWork /\ w \in Works
        /\ busy' = [busy EXCEPT ![l] = NoWork]
        /\ UNCHANGED <<context, clients, work>>
        /\ \A m \in Lanes \ {l} : lane'[m] = lane[m]
        /\ l = "pointer" => \/ lane'[l].owner = NoClient
                            \/ /\ lane'[l].owner = w.client
                               /\ lane'[l].held = IF w.kind = "wheel" THEN {} ELSE w.set
    BY <1>14, AnsweredIs
  <2>2. link' = link /\ down' = down /\ paused' = paused /\ queue' = queue /\ AllHold' = H
    BY <2>1 DEF context, clients, work, AllHold, Holds
  <2>3. CASE l = "touch"
    <3>1. lane'["pointer"] = k /\ busy'["pointer"] = b
      BY <1>t, <2>1, <2>3, LaneNames
    <3> QED
      BY <1>2, <1>g, <2>2, <3>1
  <2>4. CASE l = "pointer"
    <3>1. busy'["pointer"] = NoWork
      BY <1>t, <2>1, <2>4, LaneNames
    <3>2. w # Cancel /\ Follows(q, w, 0, H)
      BY <1>0, <2>1, <2>4, WorkIs
    <3>3. LaneKeeps(q, lane'["pointer"], H)
      <4>1. CASE lane'[l].owner = NoClient
        BY <2>4, <4>1 DEF LaneKeeps
      <4>2. CASE lane'[l].owner = w.client /\ lane'[l].held = {}
        BY <2>4, <4>2, KeepsNothing DEF LaneKeeps
      <4>3. CASE lane'[l].owner = w.client /\ lane'[l].held = w.set
        BY <2>4, <3>2, <4>3 DEF LaneKeeps, Follows
      <4> QED
        BY <2>1, <2>4, <4>1, <4>2, <4>3
    <3> QED
      BY <1>0, <1>1, <2>2, <3>1, <3>3, ReportsNext
  <2> QED
    BY <2>3, <2>4, LaneNames
<1> QED
  BY <1>4, <1>5, <1>6, <1>7, <1>8, <1>9, <1>10, <1>11, <1>12, <1>13, <1>14 DEF InputNext, Worker

----------------------------------------------------------------------------
(* The theorems about input *)

\* The inductive invariant: types, the order of the works, who owns a lane, what a handoff
\* has cancelled, and that the reports of a client follow one upon the other.
THEOREM InputInvariant == InputSpec => []InputInv
<1>1. InputInit => InputInv
  <2> SUFFICES ASSUME InputInit PROVE InputInv
    OBVIOUS
  <2>1. InputTypeOK
    <3>1. inUse \in SUBSET Lanes
      BY InputAssumption DEF InputInit, Lanes
    <3>2. active \in Sessions /\ target = active
      BY InputAssumption DEF InputInit
    <3>3. NoWork \in Busies
      BY DEF NoWork, Busies
    <3>4. Free \in LaneStates((Items \X Nat) \cup Points \cup Buttons) /\ Free.held = {}
      BY FreeIs, LaneStatesMore DEF Unowned
    <3>5. <<>> \in Seq(Works \cup {Cancel})
      OBVIOUS
    <3>6. lane \in [Lanes -> LaneStates((Items \X Nat) \cup Points \cup Buttons)] /\ \A l \in Lanes : lane[l].held = {}
      BY <3>4 DEF InputInit
    <3>7. queue \in [Lanes -> Seq(Works \cup {Cancel})] /\ busy \in [Lanes -> Busies]
      BY <3>3, <3>5 DEF InputInit
    <3>8. /\ alive \in BOOLEAN /\ surface \in Nat /\ sends \in Nat /\ paused \in {"no", "flag", "cancelled"}
          /\ link \in [Clients -> {"open", "closed", "gone"}]
          /\ down \in [Lanes -> [Clients -> SUBSET (Points \cup Buttons)]]
          /\ contacts \in [Sessions -> SUBSET Nat] /\ pressed \in [Sessions -> SUBSET Items]
          /\ unsent \in [Lanes -> [Clients -> Nat]]
      BY DEF InputInit
    <3> QED
      BY <3>1, <3>2, <3>6, <3>7, <3>8, LaneNames DEF InputTypeOK
  <2>2. \A l \in Lanes : queue[l] = <<>> /\ busy[l] = NoWork /\ Unowned(lane[l])
    BY FreeIs DEF InputInit
  <2>3. WorkIsSent /\ EdgesReliable
    <3>1. \A c : EdgesOf(<<>>, c) = {}
      BY DEF EdgesOf
    <3>2. \A l \in Lanes, c \in Clients : unsent[l][c] = 0
      BY DEF InputInit
    <3>3. Cardinality({}) = 0
      BY FS_EmptySet
    <3>4. DOMAIN <<>> = {}
      OBVIOUS
    <3>5. \A l \in Lanes : DOMAIN queue[l] = {}
      BY <2>2, <3>4
    <3>6. \A l \in Lanes, c \in Clients : unsent[l][c] = Cardinality(EdgesOf(queue[l], c))
      BY <2>2, <3>1, <3>2, <3>3
    <3> QED
      BY <3>5, <3>6 DEF WorkIsSent, EdgesReliable
  <2>4. LaneOwned /\ PausedLetGo
    BY <2>2 DEF LaneOwned, PausedLetGo, Unowned
  <2>5. HeldInputOwned
    <3>1. \A s \in Sessions : contacts[s] = {} /\ pressed[s] = {}
      BY DEF InputInit
    <3>2. lane["touch"].session = NoSession /\ lane["pointer"].session = NoSession /\ NoSession \notin Sessions
      BY <2>2, LaneNames, InputAssumption DEF Unowned
    <3> QED
      BY <3>1, <3>2 DEF HeldInputOwned, ContactsOwned, PressesOwned
  <2>6. ReportsFollow
    BY <2>2, LaneNames DEF ReportsFollow, Unowned
  <2> QED
    BY <2>1, <2>3, <2>4, <2>5, <2>6 DEF InputInv
<1>2. InputInv /\ [InputNext]_inputVars => InputInv'
  <2> SUFFICES ASSUME InputInv, [InputNext]_inputVars PROVE InputInv'
    OBVIOUS
  <2>1. InputTypeOK' /\ LanesHold' /\ LaneOwned' /\ PausedLetGo' /\ ReportsFollow'
    BY StepTyped, StepHolds, StepOwned, StepReports
  <2>2. QueuesAccounted'
    BY InputParts, StepAccounted
  <2>3. WorkIsSent' /\ EdgesReliable'
    <3>1. (sends \in Nat /\ queue \in [Lanes -> Seq(Works \cup {Cancel})] /\ unsent \in [Lanes -> [Clients -> Nat]])'
      BY <2>1 DEF InputTypeOK
    <3>2. (sends \in Nat /\ queue \in [Lanes -> Seq(Works \cup {Cancel})] /\ unsent \in [Lanes -> [Clients -> Nat]]
           => (QueuesAccounted <=> WorkIsSent /\ EdgesReliable))'
      BY AccountedParts, PTL
    <3> QED
      BY <2>2, <3>1, <3>2
  <2> QED
    BY <2>1, <2>3 DEF InputInv, LanesHold
<1> QED
  BY <1>1, <1>2, PTL DEF InputSpec

\* Nothing stays pressed in Chromium that no lane holds and will let go, for any number of
\* clients, tabs, fingers and buttons and queues of any length (touchInput.process,
\* pointerInput.process, cancelActive).
THEOREM HeldInputIsOwned == InputSpec => []HeldInputOwned
<1>1. InputInv => HeldInputOwned
  BY DEF InputInv
<1> QED
  BY <1>1, InputInvariant, PTL

\* A queue at its limit loses motion and never an edge, and keeps the order of the edges of
\* a client (enqueue, run).
THEOREM EdgesAreReliable == InputSpec => []EdgesReliable
<1>1. InputInv => EdgesReliable
  BY DEF InputInv
<1> QED
  BY <1>1, InputInvariant, PTL
=============================================================================
