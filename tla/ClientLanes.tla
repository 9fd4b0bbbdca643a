---------------------------- MODULE ClientLanes ----------------------------
(***************************************************************************)
(* One client socket of backend/internal/transport/hub.go: its three       *)
(* bounded lanes (control, video, audio), the drop policy of each, the     *)
(* single writer goroutine that drains them, the media pause of a browser  *)
(* handoff, and the ways the connection ends.                              *)
(*                                                                         *)
(* The lanes are Go channels: the writer receives from them without        *)
(* Client.mu, so a producer that empties a lane one receive at a time      *)
(* (under Client.mu) competes with it.  Those loops are therefore one      *)
(* step per receive.                                                       *)
(*                                                                         *)
(* The producers are environment.  A video pump (browser/client_video.go,  *)
(* deliverAU) may hand any frame to write at any time: what an ended       *)
(* subscription had buffered may still come after a handoff.  Frames are   *)
(* numbered as they are handed over: frame n is an IDR or depends on       *)
(* frame n - 1.                                                            *)
(***************************************************************************)
EXTENDS Naturals, Sequences

CONSTANTS
  ControlCap, VideoCap, AudioCap,        \* lane capacities (64, 4, 3)
  MaxText, MaxFrame, MaxAudio, MaxEpoch  \* bounds: messages and mode changes

ASSUME LanesAssumption ==
  /\ ControlCap \in Nat \ {0} /\ VideoCap \in Nat \ {0} /\ AudioCap \in Nat \ {0}
  /\ MaxText \in Nat /\ MaxFrame \in Nat /\ MaxAudio \in Nat /\ MaxEpoch \in Nat

VARIABLES
  control, video, audio,  \* the lanes
  videoDropping,          \* Client.videoDropping
  mediaPaused,            \* Client.mediaPaused
  mediaEpoch,             \* Client.mediaEpoch: odd while paused
  drain,                  \* the loop that holds Client.mu to empty a lane
  pc,                     \* where writeLoop is
  held,                   \* the message writeLoop has selected (at most one)
  conn,                   \* the connection: "open" or "closed"
  done,                   \* Client.done is closed: the read loop has ended
  sent,                   \* messages handed to each lane so far
  since,                  \* history: the frames sent when the mode last changed
  taken,                  \* history: the frame the writer received last
  announce,               \* a mode change whose event is not sent yet
  wire                    \* the last message of each kind on the wire

lanes == <<control, video, audio>>
vars == <<control, video, audio, videoDropping, mediaPaused, mediaEpoch, drain,
          pc, held, conn, done, sent, since, taken, announce, wire>>

Text(n, e) == [kind |-> "text", n |-> n, idr |-> FALSE, epoch |-> e]
Frame(n, idr) == [kind |-> "video", n |-> n, idr |-> idr, epoch |-> mediaEpoch]
Chunk(n) == [kind |-> "audio", n |-> n, idr |-> FALSE, epoch |-> mediaEpoch]

\* A frame is torn when it, or a frame it depends on, is received out of turn in this epoch.
Torn(m) ==
  /\ ~m.idr /\ m.epoch = mediaEpoch
  /\ taken.torn \/ m.n \notin {taken.n + 1, since + 1}

NoDrain == [by |-> "none", frame |-> <<>>]

Init ==
  /\ control = <<>> /\ video = <<>> /\ audio = <<>>
  /\ videoDropping = FALSE
  /\ mediaPaused = FALSE
  /\ mediaEpoch = 0
  /\ drain = NoDrain
  /\ pc = "first"
  /\ held = <<>>
  /\ conn = "open"
  /\ done = FALSE
  /\ sent = [text |-> 0, video |-> 0, audio |-> 0]
  /\ since = 0
  /\ taken = [n |-> 0, torn |-> FALSE]
  /\ announce = <<>>
  /\ wire = [text |-> 0, video |-> 0, audio |-> 0, epoch |-> 0, mode |-> 0]

Unlocked == drain = NoDrain

----------------------------------------------------------------------------
(* Producers: write *)

\* write of a text message (SendJSON, BroadcastJSON, sendClock): a full lane
\* loses the message and closes the connection.  A closed done may be selected
\* instead of a lane with room.
Enqueue(m) ==
  \/ /\ Len(control) < ControlCap
     /\ control' = Append(control, m)
     /\ UNCHANGED conn
  \/ /\ Len(control) = ControlCap /\ ~done
     /\ conn' = "closed"
     /\ UNCHANGED control
  \/ /\ done
     /\ UNCHANGED <<control, conn>>

SendText ==
  /\ sent.text < MaxText
  /\ sent' = [sent EXCEPT !.text = @ + 1]
  /\ Enqueue(Text(sent.text + 1, 0))
  /\ UNCHANGED <<video, audio, videoDropping, mediaPaused, mediaEpoch, drain, pc,
                 held, done, since, taken, announce, wire>>

\* write's video branch: a frame is refused while media is paused or the lane is
\* dropping; a full lane is handed to the loop that empties it.
Refused(m) == mediaPaused \/ (videoDropping /\ ~m.idr)

Accept(m) ==
  /\ video' = Append(video, m)
  /\ videoDropping' = (videoDropping /\ ~m.idr)
  /\ UNCHANGED drain

\* Bug: a full video lane drops its oldest frame, as the audio lane does.
WriteVideoDropsOldest(m) ==
  \/ Refused(m) /\ UNCHANGED <<video, videoDropping, drain>>
  \/ ~Refused(m) /\ Len(video) < VideoCap /\ Accept(m)
  \/ /\ ~Refused(m) /\ Len(video) = VideoCap
     /\ video' = Append(Tail(video), m)
     /\ UNCHANGED <<videoDropping, drain>>

WriteVideo(m) ==
  \/ Refused(m) /\ UNCHANGED <<video, videoDropping, drain>>
  \/ ~Refused(m) /\ Len(video) < VideoCap /\ Accept(m)
  \/ /\ ~Refused(m) /\ Len(video) = VideoCap
     /\ drain' = [by |-> "overflow", frame |-> <<m>>]
     /\ videoDropping' = (videoDropping /\ ~m.idr)
     /\ UNCHANGED video

\* deliverAU: a pump hands a frame to write.
SendVideo(idr) ==
  /\ Unlocked
  /\ sent.video < MaxFrame
  /\ sent' = [sent EXCEPT !.video = @ + 1]
  /\ WriteVideo(Frame(sent.video + 1, idr))
  /\ UNCHANGED <<control, audio, mediaPaused, mediaEpoch, pc, held, conn, done,
                 since, taken, announce, wire>>

\* One receive of the overflow loop, and its end: the lane is empty, a frame
\* that is no IDR is refused and so are its successors.
DrainOverflow ==
  /\ drain.by = "overflow"
  /\ IF video # <<>>
       THEN /\ video' = Tail(video)
            /\ UNCHANGED <<videoDropping, drain>>
       ELSE LET m == drain.frame[1] IN
            /\ videoDropping' = ~m.idr
            /\ video' = IF m.idr THEN <<m>> ELSE <<>>
            /\ drain' = NoDrain
  /\ UNCHANGED <<control, audio, mediaPaused, mediaEpoch, pc, held, conn, done,
                 sent, since, taken, announce, wire>>

\* write's audio branch: a full lane loses its oldest chunk.
SendAudio ==
  /\ Unlocked
  /\ sent.audio < MaxAudio
  /\ sent' = [sent EXCEPT !.audio = @ + 1]
  /\ audio' = IF mediaPaused THEN audio
              ELSE Append(IF Len(audio) < AudioCap THEN audio ELSE Tail(audio),
                          Chunk(sent.audio + 1))
  /\ UNCHANGED <<control, video, videoDropping, mediaPaused, mediaEpoch, drain, pc,
                 held, conn, done, since, taken, announce, wire>>

----------------------------------------------------------------------------
(* Handoff: Manager.setState calls SetMediaPaused and then sends the event *)

\* Bug: the client is told of the change and its media is not paused.
SetMediaPausedNotCalled(paused) ==
  /\ Unlocked
  /\ announce = <<>>
  /\ mediaPaused # paused
  /\ sent.text < MaxText + MaxEpoch
  /\ announce' = <<mediaEpoch + 1>>
  /\ UNCHANGED <<lanes, videoDropping, mediaPaused, mediaEpoch, drain, pc, held, conn,
                 done, sent, since, taken, wire>>

SetMediaPaused(paused) ==
  /\ Unlocked
  /\ announce = <<>>
  /\ mediaEpoch < MaxEpoch
  /\ mediaPaused # paused
  /\ mediaPaused' = paused
  /\ mediaEpoch' = mediaEpoch + 1
  /\ videoDropping' = FALSE
  /\ drain' = [by |-> "pause", frame |-> <<>>]
  /\ since' = sent.video
  /\ taken' = [taken EXCEPT !.torn = FALSE]
  /\ announce' = <<mediaEpoch + 1>>
  /\ UNCHANGED <<control, video, audio, pc, held, conn, done, sent, wire>>

DrainPaused ==
  /\ drain.by = "pause"
  /\ \/ /\ video # <<>>
        /\ video' = Tail(video)
        /\ UNCHANGED <<audio, drain>>
     \/ /\ video = <<>> /\ audio # <<>>
        /\ audio' = Tail(audio)
        /\ UNCHANGED <<video, drain>>
     \/ /\ video = <<>> /\ audio = <<>>
        /\ drain' = NoDrain
        /\ UNCHANGED <<video, audio>>
  /\ UNCHANGED <<control, videoDropping, mediaPaused, mediaEpoch, pc, held, conn,
                 done, sent, since, taken, announce, wire>>

\* The browser-mode event (or toast) of the change, once SetMediaPaused returned.
AnnounceMode ==
  /\ announce # <<>>
  /\ drain.by # "pause"
  /\ sent' = [sent EXCEPT !.text = @ + 1]
  /\ Enqueue(Text(sent.text + 1, announce[1]))
  /\ announce' = <<>>
  /\ UNCHANGED <<video, audio, videoDropping, mediaPaused, mediaEpoch, drain, pc,
                 held, done, since, taken, wire>>

----------------------------------------------------------------------------
(* writeLoop *)

Select(m) == held' = <<m>> /\ pc' = "write"

FromControl ==
  /\ control # <<>> /\ Select(Head(control))
  /\ control' = Tail(control) /\ UNCHANGED <<video, audio, taken>>
FromVideo ==
  /\ video # <<>> /\ Select(Head(video))
  /\ video' = Tail(video) /\ taken' = [n |-> Head(video).n, torn |-> Torn(Head(video))]
  /\ UNCHANGED <<control, audio>>
FromAudio ==
  /\ audio # <<>> /\ Select(Head(audio))
  /\ audio' = Tail(audio) /\ UNCHANGED <<control, video, taken>>
Goto(place) == pc' = place /\ UNCHANGED <<held, lanes, taken>>

\* First select: only control, and a default.
SelectControl ==
  /\ pc = "first"
  /\ \/ FromControl
     \/ control = <<>> /\ ~done /\ Goto("second")
     \/ done /\ Goto("stopped")
  /\ UNCHANGED <<videoDropping, mediaPaused, mediaEpoch, drain, conn, done, sent,
                 since, announce, wire>>

\* Second select: control and video, and a default.
SelectVideo ==
  /\ pc = "second"
  /\ \/ FromControl
     \/ FromVideo
     \/ control = <<>> /\ video = <<>> /\ ~done /\ Goto("third")
     \/ done /\ Goto("stopped")
  /\ UNCHANGED <<videoDropping, mediaPaused, mediaEpoch, drain, conn, done, sent,
                 since, announce, wire>>

\* Bugs: the blocking select leaves out the control lane, or done.
SelectAnyWithoutControl ==
  /\ pc = "third"
  /\ \/ FromVideo
     \/ FromAudio
     \/ done /\ Goto("stopped")
  /\ UNCHANGED <<videoDropping, mediaPaused, mediaEpoch, drain, conn, done, sent,
                 since, announce, wire>>

\* Third select: blocks on all lanes.
SelectAny ==
  /\ pc = "third"
  /\ \/ FromControl
     \/ FromVideo
     \/ FromAudio
     \/ done /\ Goto("stopped")
  /\ UNCHANGED <<videoDropping, mediaPaused, mediaEpoch, drain, conn, done, sent,
                 since, announce, wire>>

\* writeOne's test: media of another epoch, or while paused, is not written.
Stale(m) == m.kind # "text" /\ (mediaPaused \/ m.epoch # mediaEpoch)

OnWire(m) ==
  CASE m.kind = "text" ->
         [wire EXCEPT !.text = m.n, !.mode = IF m.epoch > @ THEN m.epoch ELSE @]
    [] m.kind = "video" ->
         [wire EXCEPT !.video = m.n, !.epoch = m.epoch]
    [] m.kind = "audio" ->
         [wire EXCEPT !.audio = m.n, !.epoch = m.epoch]

WriteOne ==
  /\ pc = "write"
  /\ IF Stale(held[1])
       THEN pc' = "first" /\ held' = <<>>
       ELSE pc' = "flush" /\ UNCHANGED held
  /\ UNCHANGED <<lanes, videoDropping, mediaPaused, mediaEpoch, drain, conn, done,
                 sent, since, taken, announce, wire>>

\* conn.WriteMessage succeeds, or fails: closed by somebody or past writeWait.
Flush ==
  /\ pc = "flush"
  /\ held' = <<>>
  /\ \/ /\ conn = "open"
        /\ wire' = OnWire(held[1])
        /\ pc' = "first"
        /\ UNCHANGED conn
     \/ /\ conn' = "closed"
        /\ pc' = "stopped"
        /\ UNCHANGED wire
  /\ UNCHANGED <<lanes, videoDropping, mediaPaused, mediaEpoch, drain, done, sent,
                 since, taken, announce>>

----------------------------------------------------------------------------
(* The connection *)

\* CloseDevice, a lost peer or the pong deadline.
CloseConn ==
  /\ conn = "open"
  /\ conn' = "closed"
  /\ UNCHANGED <<lanes, videoDropping, mediaPaused, mediaEpoch, drain, pc, held, done,
                 sent, since, taken, announce, wire>>

\* The read loop gets an error and closes done.
ReadLoopEnds ==
  /\ conn = "closed"
  /\ ~done
  /\ done' = TRUE
  /\ UNCHANGED <<lanes, videoDropping, mediaPaused, mediaEpoch, drain, pc, held, conn,
                 sent, since, taken, announce, wire>>

Writer == SelectControl \/ SelectVideo \/ SelectAny \/ WriteOne \/ Flush

Next ==
  \/ SendText
  \/ \E idr \in BOOLEAN : SendVideo(idr)
  \/ DrainOverflow
  \/ SendAudio
  \/ \E paused \in BOOLEAN : SetMediaPaused(paused)
  \/ DrainPaused
  \/ AnnounceMode
  \/ SelectControl
  \/ SelectVideo
  \/ SelectAny
  \/ WriteOne
  \/ Flush
  \/ CloseConn
  \/ ReadLoopEnds

\* The writer goroutine is scheduled and WriteMessage returns (writeWait bounds
\* it); the read loop notices a closed connection; a loop that holds Client.mu
\* goes on.
Fairness ==
  /\ WF_vars(Writer)
  /\ WF_vars(ReadLoopEnds)
  /\ WF_vars(DrainOverflow)
  /\ WF_vars(DrainPaused)

Spec == Init /\ [][Next]_vars /\ Fairness

----------------------------------------------------------------------------
(* Properties *)

\* Whatever overflows, handoffs and receives interleave, the writer gets the frames of
\* an epoch in the order in which each depends on the one before it, and continues with
\* an IDR where frames were lost: the lane follows what was taken from it, or starts
\* with an IDR or with the first frame after a mode change; and a frame that the writer
\* received out of turn, while write emptied the lane, is followed by no frame but an
\* IDR, which write makes sure of by dropping the others.
LaneContinuous ==
  Unlocked =>
    /\ \A i \in 2..Len(video) : video[i].idr \/ video[i].n = video[i - 1].n + 1
    /\ video # <<>> =>
         \/ video[1].idr
         \/ ~taken.torn /\ video[1].n \in {taken.n + 1, since + 1}
    /\ video = <<>> /\ taken.torn => videoDropping

\* "a write in flight precedes the ordered browser-mode event on that socket":
\* once the client has read the event of a mode change, it reads no media of an
\* earlier epoch.
PauseBoundary ==
  [][wire'.video # wire.video \/ wire'.audio # wire.audio
       => wire'.epoch >= wire.mode]_vars

\* A control message is written, or the connection ends: media traffic and
\* handoffs cannot starve it.
ControlDelivered ==
  \A k \in 1..(MaxText + MaxEpoch) :
    sent.text >= k ~> (wire.text >= k \/ conn = "closed")

----------------------------------------------------------------------------
(* The inductive invariant *)

MessagesOf(kinds) == [kind : kinds, n : Nat, idr : BOOLEAN, epoch : Nat]
Messages == MessagesOf({"text", "video", "audio"})
TextMessages == MessagesOf({"text"})
VideoMessages == MessagesOf({"video"})
AudioMessages == MessagesOf({"audio"})
TakenFrames == [n : Nat, torn : BOOLEAN]
SentCounts == [text : Nat, video : Nat, audio : Nat]
WireStates == [text : Nat, video : Nat, audio : Nat, epoch : Nat, mode : Nat]
Drains == {NoDrain, [by |-> "pause", frame |-> <<>>]}
            \cup {[by |-> "overflow", frame |-> <<m>>] : m \in VideoMessages}

LanesTypeOK ==
  /\ control \in Seq(TextMessages) /\ video \in Seq(VideoMessages) /\ audio \in Seq(AudioMessages)
  /\ mediaPaused \in BOOLEAN /\ videoDropping \in BOOLEAN
  /\ mediaEpoch \in Nat
  /\ drain \in Drains
  /\ sent \in SentCounts /\ since \in Nat /\ taken \in TakenFrames
  /\ wire \in WireStates

\* The writer holds one message, from its selection until it is written or discarded.
WriterHolds ==
  \/ pc \in {"write", "flush"} /\ \E m \in Messages : held = <<m>>
  \/ pc \in {"first", "second", "third", "stopped"} /\ held = <<>>

\* Once the lanes are empty after a change of mode, they hold media of that mode only;
\* the frame that overflowed the lane is of that mode, and the last one sent.
LaneOfEpoch ==
  /\ drain.by # "pause" =>
       /\ \A i \in DOMAIN video : video[i].epoch = mediaEpoch
       /\ mediaPaused => video = <<>>
  /\ drain.by = "overflow" =>
       /\ ~mediaPaused /\ drain.frame[1].epoch = mediaEpoch /\ drain.frame[1].n = sent.video
  /\ drain.by = "pause" => \A i \in DOMAIN video : video[i].epoch # mediaEpoch

\* A change of mode makes a fresh start, which lasts while no frame is accepted.
FreshStart ==
  /\ drain.by = "pause" => since = sent.video /\ ~videoDropping
  /\ mediaPaused \/ drain.by = "pause" => ~taken.torn

\* A lane that is not dropping ends with the frame that was sent last; when it is empty,
\* the writer has that frame, or none was sent since the mode changed.
LaneFollows ==
  Unlocked /\ ~videoDropping /\ ~mediaPaused =>
    IF video # <<>> THEN video[Len(video)].n = sent.video
                    ELSE ~taken.torn /\ sent.video \in {taken.n, since}

\* The events on their way tell of changes that have been made, so that what the
\* writer found current when it checked is not older than an event it wrote before.
EventsFollow ==
  /\ \A i \in DOMAIN control : control[i].epoch <= mediaEpoch
  /\ announce = <<>> \/ \E e \in Nat : announce = <<e>> /\ e <= mediaEpoch
  /\ held # <<>> => held[1].epoch <= mediaEpoch
  /\ wire.mode <= mediaEpoch
  /\ pc = "flush" /\ held[1].kind # "text" => held[1].epoch >= wire.mode

\* Audio chunks carry an epoch no later than the present one.
AudioOfEpoch == \A i \in DOMAIN audio : audio[i].epoch <= mediaEpoch

\* Nor do frames that wait to be discarded.
VideoOfEpoch == \A i \in DOMAIN video : video[i].epoch <= mediaEpoch

LanesInv == /\ LanesTypeOK /\ WriterHolds /\ LaneOfEpoch /\ FreshStart /\ LaneContinuous /\ LaneFollows
            /\ EventsFollow /\ AudioOfEpoch /\ VideoOfEpoch
=============================================================================
