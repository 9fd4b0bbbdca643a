----------------------------- MODULE TabCapture -----------------------------
(***************************************************************************)
(* Starting and stopping the tab encoder: Capture (backend/internal/media/ *)
(* capture.go and capture_video.go), the bridge sockets to the capture     *)
(* extension (media/extension/*.js), and the video pipeline that calls     *)
(* StartVideo and StopVideo with its mutex held (media/video.go).          *)
(*                                                                         *)
(* StartVideo is one action per critical section of Capture.mu and per     *)
(* wait.  The extension is single-threaded: one action per message it      *)
(* handles and per continuation of an await.  Two sockets carry its        *)
(* answers, each in order, with no order between them: acquisition (the    *)
(* audio bridge) and encoder (the video bridge).  What Chromium does, take *)
(* a tab, start an encoder or fail to, is nondeterministic.                *)
(***************************************************************************)
EXTENDS Naturals, Sequences

CONSTANTS
  MaxStarts,   \* bound: calls of StartVideo
  MaxActions,  \* bound: extension actions triggered
  MaxFrames    \* bound: frames encoded

ASSUME CaptureAssumption == MaxStarts \in Nat /\ MaxActions \in Nat /\ MaxFrames \in Nat

VARIABLES
  pc,         \* where StartVideo is; VideoPipeline.mu is held unless "idle"
  running,    \* VideoPipeline.running
  wanted,     \* VideoPipeline.subs is not empty
  cap,        \* Capture: videoActive, videoRunning, mediaActive, reacquire
  ready,      \* Capture.videoReady: "none" or what the channel holds
  captured,   \* Capture.videoCaptureReady, likewise
  reader,     \* the video bridge's read loop: "read", or "push" (wants the mutex)
  toExt,      \* video bridge, to the extension
  toSrv,      \* video bridge, to the backend
  audioSrv,   \* audio bridge, to the backend
  restart,    \* a "restart" on the audio bridge, to the extension
  clicks,     \* extension actions triggered and not yet handled
  ext,        \* the extension: stream, videoConfig seen, encoder, acquisition
  report,     \* the last acquisition report that the backend has read
  used        \* what the bounds count

captureVars == <<pc, running, wanted, cap, ready, captured, reader, toExt, toSrv, audioSrv,
          restart, clicks, ext, report, used>>

\* Capture.Start has parked an audio-only capture of the tab.
CaptureInit ==
  /\ pc = "idle"
  /\ running = FALSE
  /\ wanted = FALSE
  /\ cap = [active |-> FALSE, running |-> FALSE, media |-> TRUE, trigger |-> FALSE]
  /\ ready = "none"
  /\ captured = "none"
  /\ reader = "read"
  /\ toExt = <<>> /\ toSrv = <<>> /\ audioSrv = <<>>
  /\ restart = FALSE
  /\ clicks = 0
  /\ ext = [stream |-> "audio", config |-> FALSE, encoder |-> "off", superseded |-> 0,
            acquire |-> "idle"]
  /\ report = "active"
  /\ used = [starts |-> 0, actions |-> 0, frames |-> 0]

extVars == <<toSrv, audioSrv, restart, clicks, ext>>
\* A channel of capacity one, written without blocking.
OfferReady(c, v) == IF c = "empty" THEN v ELSE c

----------------------------------------------------------------------------
(* The pipeline takes its mutex *)

\* StopVideo: nothing if the encoder is not active.
StopVideo ==
  /\ cap' = [cap EXCEPT !.active = FALSE, !.running = IF cap.active THEN FALSE ELSE @]
  /\ ready' = IF cap.active THEN "none" ELSE ready
  /\ toExt' = IF cap.active THEN Append(toExt, "stop-video") ELSE toExt

\* Subscribe and the start retry find the encoder stopped.
Begin ==
  /\ pc = "idle" /\ ~running
  /\ used.starts < MaxStarts
  /\ pc' = "start"
  /\ wanted' = TRUE
  /\ UNCHANGED <<running, cap, ready, captured, reader, toExt, extVars, report, used>>

\* SetSize, SetViewport, SetProfile, Restart: stop, then start.
BeginCycle ==
  /\ pc = "idle" /\ running
  /\ used.starts < MaxStarts
  /\ StopVideo
  /\ running' = FALSE
  /\ pc' = "start"
  /\ UNCHANGED <<wanted, captured, reader, extVars, report, used>>

\* The last subscription leaves; a pending start retry is cancelled.
Leave ==
  /\ pc = "idle" /\ wanted
  /\ wanted' = FALSE
  /\ UNCHANGED <<pc, running, cap, ready, captured, reader, toExt, extVars, report, used>>

\* A subscription that finds the encoder running.
Join ==
  /\ pc = "idle" /\ running
  /\ wanted' = TRUE
  /\ UNCHANGED <<pc, running, cap, ready, captured, reader, toExt, extVars, report, used>>

\* The idle timer stops the encoder.
Park ==
  /\ pc = "idle" /\ running /\ ~wanted
  /\ StopVideo
  /\ running' = FALSE
  /\ UNCHANGED <<wanted, pc, captured, reader, extVars, report, used>>

----------------------------------------------------------------------------
(* StartVideo, with the pipeline's mutex held *)

\* StartVideo returns: err stops the encoder and frees the pipeline, which
\* schedules a retry.
Return(ok) ==
  /\ pc' = "idle"
  /\ running' = ok
  /\ captured' = "none"
  /\ IF ok THEN UNCHANGED <<cap, ready, toExt>> ELSE StopVideo

\* The first critical section.  An encoder that reported itself as running is
\* only sent the configuration.
StartVideo(changed) ==
  /\ pc = "start"
  /\ used.starts = 0 => changed
  /\ used' = [used EXCEPT !.starts = @ + 1]
  /\ IF cap.running
       THEN /\ cap' = [cap EXCEPT !.active = TRUE]
            /\ toExt' = Append(toExt, "configure")
            /\ pc' = "idle"
            /\ running' = TRUE
            /\ UNCHANGED <<ready, captured>>
       ELSE /\ cap' = [cap EXCEPT !.active = TRUE, !.trigger = ~cap.media \/ changed]
            /\ ready' = "empty"
            /\ captured' = "empty"
            /\ pc' = IF cap.media /\ changed THEN "restart" ELSE "configure"
            /\ UNCHANGED <<toExt, running>>
  /\ UNCHANGED <<wanted, reader, extVars, report>>

\* stopCaptureForReconfigure asks for the release of the parked tab ...
StopCapture ==
  /\ pc = "restart"
  /\ IF cap.media
       THEN pc' = "releasing" /\ restart' = TRUE
       ELSE pc' = "configure" /\ UNCHANGED restart
  /\ UNCHANGED <<wanted, running, cap, ready, captured, reader, toExt, toSrv, audioSrv,
                 clicks, ext, report, used>>

\* ... and waits for "inactive" (ReadAudio moves on) or two seconds.
ReleaseTimeout ==
  /\ pc = "releasing"
  /\ Return(FALSE)
  /\ UNCHANGED <<wanted, reader, extVars, report, used>>

SendVideoConfig ==
  /\ pc = "configure"
  /\ toExt' = Append(toExt, "configure")
  /\ pc' = IF cap.trigger THEN "trigger" ELSE "wait"
  /\ UNCHANGED <<wanted, running, cap, ready, captured, reader, extVars, report, used>>

Click ==
  /\ used.actions < MaxActions
  /\ used' = [used EXCEPT !.actions = @ + 1]
  /\ clicks' = clicks + 1

\* triggerActive: the first action, half a second for its outcome, and a second
\* action unless that was good.
Trigger ==
  /\ pc = "trigger"
  /\ Click
  /\ pc' = "triggered"
  /\ UNCHANGED <<wanted, running, cap, ready, captured, reader, toExt, toSrv, audioSrv,
                 restart, ext, report>>

Triggered ==
  /\ pc = "triggered"
  /\ captured = "ok"
  /\ captured' = "empty"
  /\ pc' = "wait"
  /\ UNCHANGED <<wanted, running, cap, ready, reader, toExt, extVars, report, used>>

TriggerAgain ==
  /\ pc = "triggered"
  /\ captured # "ok"
  /\ captured' = "empty"
  /\ Click
  /\ pc' = "wait"
  /\ UNCHANGED <<wanted, running, cap, ready, reader, toExt, toSrv, audioSrv, restart,
                 ext, report>>

\* A CDP call fails, or the service worker does not come up.
TriggerFails ==
  /\ pc \in {"trigger", "triggered"}
  /\ Return(FALSE)
  /\ UNCHANGED <<wanted, reader, extVars, report, used>>

\* The select loop at the end of StartVideo.
WaitCapture ==
  /\ pc = "wait"
  /\ captured \in {"ok", "err"}
  /\ IF captured = "err"
       THEN Return(FALSE)
       ELSE captured' = "empty" /\ UNCHANGED <<pc, running, cap, ready, toExt>>
  /\ UNCHANGED <<wanted, reader, extVars, report, used>>

WaitReady ==
  /\ pc = "wait"
  /\ ready \in {"ok", "err"}
  /\ Return(ready = "ok")
  /\ UNCHANGED <<wanted, reader, extVars, report, used>>

WaitRetry ==
  /\ pc = "wait"
  /\ Click
  /\ UNCHANGED <<wanted, pc, running, cap, ready, captured, reader, toExt, toSrv,
                 audioSrv, restart, ext, report>>

\* Bug: frames that arrive renew the deadline.
WaitTimeoutRenewed ==
  /\ pc = "wait"
  /\ captured = "empty" /\ ready = "empty"
  /\ audioSrv = <<>>
  /\ toSrv = <<>> /\ reader = "read"
  /\ clicks = 0 \/ ext.acquire # "idle"
  /\ Return(FALSE)
  /\ UNCHANGED <<wanted, reader, extVars, report, used>>

\* Twelve seconds pass with nothing to select: long enough for the backend to
\* read everything the extension has sent, unless a reader is stuck, and for the
\* extension to handle an action, unless Chromium keeps an earlier one waiting.
WaitTimeout ==
  /\ pc = "wait"
  /\ captured = "empty" /\ ready = "empty"
  /\ audioSrv = <<>>
  /\ toSrv = <<>> \/ reader = "push"
  /\ clicks = 0 \/ ext.acquire # "idle"
  /\ Return(FALSE)
  /\ UNCHANGED <<wanted, reader, extVars, report, used>>

----------------------------------------------------------------------------
(* The bridges' read loops *)

\* handleVideoFrame calls the handler of an active encoder, which discards the
\* frame (onVideoFrame: no tab, no client, no subscription) or pushes it.
ReadFrame ==
  /\ reader = "read"
  /\ toSrv # <<>> /\ Head(toSrv) = "frame"
  /\ toSrv' = Tail(toSrv)
  /\ reader' \in IF cap.active THEN {"push", "read"} ELSE {"read"}
  /\ UNCHANGED <<wanted, pc, running, cap, ready, captured, toExt, audioSrv, restart, clicks,
                 ext, report, used>>

\* The handler ends in VideoPipeline.Push, which takes the pipeline's mutex.
Push ==
  /\ reader = "push"
  /\ pc = "idle"
  /\ reader' = "read"
  /\ UNCHANGED <<wanted, pc, running, cap, ready, captured, toExt, extVars, report, used>>

\* handleVideoMessage.
ReadVideo ==
  /\ reader = "read"
  /\ toSrv # <<>> /\ Head(toSrv) # "frame"
  /\ toSrv' = Tail(toSrv)
  /\ cap' = [cap EXCEPT !.running = @ \/ Head(toSrv) = "video-active"]
  /\ ready' = OfferReady(ready, IF Head(toSrv) = "video-active" THEN "ok" ELSE "err")
  /\ UNCHANGED <<wanted, pc, running, captured, reader, toExt, audioSrv, restart, clicks,
                 ext, report, used>>

\* Bug: an unread "active" hides the error that follows it.
SignalKeepsUnread(ok) == captured' = OfferReady(captured, IF ok THEN "ok" ELSE "err")

\* signalReady: an error replaces an unread "active".
Signal(ok) ==
  captured' = IF ok THEN OfferReady(captured, "ok")
              ELSE IF captured = "none" THEN "none" ELSE "err"

\* handleBridgeMessage.
ReadAudio ==
  /\ audioSrv # <<>>
  /\ audioSrv' = Tail(audioSrv)
  /\ report' = Head(audioSrv)
  /\ \/ /\ report' = "active"
        /\ cap' = [cap EXCEPT !.media = TRUE]
        /\ Signal(TRUE)
        /\ UNCHANGED pc
     \/ /\ report' = "inactive"
        /\ cap' = [cap EXCEPT !.media = FALSE]
        /\ pc' = IF pc = "releasing" THEN "configure" ELSE pc
        /\ UNCHANGED captured
     \/ /\ report' = "error"
        /\ cap' = [cap EXCEPT !.media = FALSE, !.running = FALSE]
        /\ Signal(FALSE)
        /\ UNCHANGED pc
  /\ UNCHANGED <<wanted, running, ready, reader, toExt, toSrv, restart, clicks, ext,
                 used>>

\* SwitchActive, after a tab became active, does something only for a capture in
\* use; OpenAudio triggers one that is not.
SwitchActive ==
  /\ Click
  /\ UNCHANGED <<wanted, pc, running, cap, ready, captured, reader, toExt, toSrv,
                 audioSrv, restart, ext, report>>

----------------------------------------------------------------------------
(* The extension *)

backend == <<pc, running, wanted, cap, ready, captured, reader, report>>

\* stopVideoEncoder: a start in progress is superseded.
Stopped(x) ==
  [x EXCEPT !.encoder = "off",
            !.superseded = IF x.encoder = "starting" THEN @ + 1 ELSE @]
\* startVideoEncoder, up to its first await.
Starting(x) == [Stopped(x) EXCEPT !.encoder = "starting"]
\* stopCapture; an acquisition in progress will find another captureGeneration.
Released(x) ==
  [Stopped(x) EXCEPT !.stream = "none",
                     !.acquire = IF @ \in {"video", "audio"} THEN "stale" ELSE @]

\* The video bridge's onmessage.
ExtReceive ==
  /\ toExt # <<>>
  /\ toExt' = Tail(toExt)
  /\ ext' = IF Head(toExt) = "stop-video" THEN Stopped(ext)
            ELSE IF ext.stream = "video" THEN [Starting(ext) EXCEPT !.config = TRUE]
            ELSE [ext EXCEPT !.config = TRUE]
  /\ UNCHANGED <<backend, toSrv, audioSrv, restart, clicks, used>>

ExtRestart ==
  /\ restart
  /\ restart' = FALSE
  /\ ext' = Released(ext)
  /\ audioSrv' = Append(audioSrv, "inactive")
  /\ UNCHANGED <<backend, toExt, toSrv, clicks, used>>

\* captureTab, one action at a time: "prepare-capture" releases the tab, then
\* getMediaStreamId and "capture" start the acquisition with the configuration
\* known by then.
PrepareCapture ==
  /\ clicks > 0
  /\ ext.acquire = "idle"
  /\ clicks' = clicks - 1
  /\ ext' = [Released(ext) EXCEPT !.acquire = "prepared"]
  /\ audioSrv' = Append(audioSrv, "inactive")
  /\ UNCHANGED <<backend, toExt, toSrv, restart, used>>

CaptureTab ==
  /\ ext.acquire = "prepared"
  /\ ext' = [Released(ext) EXCEPT !.acquire = IF ext.config THEN "video" ELSE "audio"]
  /\ UNCHANGED <<backend, toExt, toSrv, audioSrv, restart, clicks, used>>

\* The stream is there: it is announced, and its video track encoded.
Acquired ==
  /\ ext.acquire \in {"video", "audio"}
  /\ audioSrv' = Append(audioSrv, "active")
  /\ LET x == [ext EXCEPT !.stream = ext.acquire, !.acquire = "idle"] IN
       ext' = IF x.stream = "video" THEN Starting(x) ELSE x
  /\ UNCHANGED <<backend, toExt, toSrv, restart, clicks, used>>

\* Chromium refuses the tab, or "restart" came in between.
AcquireFails ==
  /\ ext.acquire # "idle"
  /\ audioSrv' = IF ext.acquire = "stale" THEN audioSrv ELSE Append(audioSrv, "error")
  /\ ext' = [ext EXCEPT !.acquire = "idle"]
  /\ UNCHANGED <<backend, toExt, toSrv, restart, clicks, used>>

\* startVideoEncoder goes on: the encoder is configured or not.
EncoderStarts(ok) ==
  /\ ext.encoder = "starting"
  /\ ext' = [ext EXCEPT !.encoder = IF ok THEN "on" ELSE "off"]
  /\ toSrv' = Append(toSrv, IF ok THEN "video-active" ELSE "video-error")
  /\ UNCHANGED <<backend, toExt, audioSrv, restart, clicks, used>>

\* A superseded start returns, or throws and reports an error.
SupersededEnds(silent) ==
  /\ ext.superseded > 0
  /\ ext' = [ext EXCEPT !.superseded = @ - 1]
  /\ toSrv' = IF silent THEN toSrv ELSE Append(toSrv, "video-error")
  /\ UNCHANGED <<backend, toExt, audioSrv, restart, clicks, used>>

\* The encoder's error callback.
EncoderBreaks ==
  /\ ext.encoder = "on"
  /\ ext' = [ext EXCEPT !.encoder = "off"]
  /\ toSrv' = Append(toSrv, "video-error")
  /\ UNCHANGED <<backend, toExt, audioSrv, restart, clicks, used>>

EncodeFrame ==
  /\ ext.encoder = "on"
  /\ used.frames < MaxFrames
  /\ used' = [used EXCEPT !.frames = @ + 1]
  /\ toSrv' = Append(toSrv, "frame")
  /\ UNCHANGED <<backend, toExt, audioSrv, restart, clicks, ext>>

CaptureNext ==
  \/ Begin
  \/ BeginCycle
  \/ Leave
  \/ Join
  \/ Park
  \/ \E changed \in BOOLEAN : StartVideo(changed)
  \/ StopCapture
  \/ ReleaseTimeout
  \/ SendVideoConfig
  \/ Trigger
  \/ Triggered
  \/ TriggerAgain
  \/ TriggerFails
  \/ WaitCapture
  \/ WaitReady
  \/ WaitRetry
  \/ WaitTimeout
  \/ ReadFrame
  \/ Push
  \/ ReadVideo
  \/ ReadAudio
  \/ SwitchActive
  \/ ExtReceive
  \/ ExtRestart
  \/ PrepareCapture
  \/ CaptureTab
  \/ Acquired
  \/ AcquireFails
  \/ \E ok \in BOOLEAN : EncoderStarts(ok)
  \/ \E silent \in BOOLEAN : SupersededEnds(silent)
  \/ EncoderBreaks
  \/ EncodeFrame

\* The goroutine in StartVideo runs, its timers expire and its CDP calls return;
\* the bridges' readers run, and one that waits for the mutex gets it in turn;
\* the extension handles its messages.  Chromium may take for ever.
CaptureFairness ==
  /\ \A changed \in BOOLEAN : WF_captureVars(StartVideo(changed))
  /\ WF_captureVars(StopCapture) /\ WF_captureVars(ReleaseTimeout) /\ WF_captureVars(SendVideoConfig)
  /\ WF_captureVars(TriggerFails) /\ WF_captureVars(Triggered) /\ WF_captureVars(TriggerAgain)
  /\ WF_captureVars(WaitCapture) /\ WF_captureVars(WaitReady) /\ WF_captureVars(WaitTimeout)
  /\ WF_captureVars(ReadFrame) /\ WF_captureVars(ReadVideo) /\ WF_captureVars(ReadAudio) /\ SF_captureVars(Push)
  /\ WF_captureVars(ExtReceive) /\ WF_captureVars(ExtRestart) /\ WF_captureVars(PrepareCapture)

CaptureSpec == CaptureInit /\ [][CaptureNext]_captureVars /\ CaptureFairness

----------------------------------------------------------------------------
(* Properties *)

TimesOut == pc = "wait" /\ pc' = "idle" /\ captured = "empty" /\ ready = "empty"

\* "capture failure was hidden until the encoder startup timeout" is what the
\* test of a failing start rules out: a start never runs into its timeout after
\* the extension reported that the tab could not be acquired, whatever "active"
\* reports, retries and tab switches came before (signalReady).
CaptureFailureReported == [][TimesOut => report # "error"]_captureVars

\* Every start ends: StartVideo may wait for a message behind a reader that waits
\* for the mutex StartVideo holds, but no longer than its timeout.
StartEnds == pc # "idle" ~> pc = "idle"

----------------------------------------------------------------------------
(* Why CaptureFailureReported holds: its inductive invariant *)

Extensions == [stream : {"none", "audio", "video"}, config : BOOLEAN, encoder : {"off", "starting", "on"},
               superseded : Nat, acquire : {"idle", "prepared", "video", "audio", "stale"}]

CaptureTypeOK ==
  /\ pc \in {"idle", "start", "restart", "releasing", "configure", "trigger", "triggered", "wait"}
  /\ cap \in [active : BOOLEAN, running : BOOLEAN, media : BOOLEAN, trigger : BOOLEAN]
  /\ captured \in {"none", "empty", "ok", "err"}
  /\ audioSrv \in Seq({"active", "inactive", "error"})
  /\ clicks \in Nat
  /\ ext \in Extensions

\* What the extension said last, read or not: that it released the tab, while it is
\* busy with an action.
LastReport == IF audioSrv = <<>> THEN report ELSE audioSrv[Len(audioSrv)]
AcquiringAnnounced == ext.acquire # "idle" => LastReport = "inactive"

MediaAsReported == cap.media <=> report = "active"

\* From StartVideo's first critical section to its return the channel is there, and
\* a start that released the tab triggers its capture again.
ChannelOpen ==
  /\ pc \notin {"idle", "start"} => captured # "none"
  /\ pc \in {"restart", "releasing"} => cap.trigger

\* A failure that was read is in the channel, or from before an action that this start
\* has triggered and the extension not yet begun, or whose first report is on its way.
FailureSeen ==
  /\ captured = "ok" => report # "error"
  /\ pc = "configure" /\ ~cap.trigger /\ report = "error" => captured = "err"
  /\ pc = "wait" /\ report = "error" =>
       \/ captured = "err"
       \/ audioSrv # <<>>
       \/ clicks > 0 /\ ext.acquire = "idle"

CaptureInv ==
  CaptureTypeOK /\ AcquiringAnnounced /\ MediaAsReported /\ ChannelOpen /\ FailureSeen
=============================================================================
