---------------------------- MODULE ChromiumProofs ----------------------------
(***************************************************************************)
(* Theorems about the streaming browser: its connection                    *)
(* (BrowserConnection) and its tabs with their session file (TabSession).  *)
(***************************************************************************)
EXTENDS BrowserConnection, TabSession, SequenceTheorems, TLAPS

----------------------------------------------------------------------------
\* Sequences

\* What Chromium still has to say before the first message is read does not change it.
LEMMA FirstStays ==
    ASSUME NEW S, NEW q \in Seq(S), NEW x \in S
    PROVE  /\ Append(q, x) \in Seq(S) /\ Append(q, x) # <<>>
           /\ q # <<>> => Head(Append(q, x)) = Head(q)
<1>1. Append(q, x) \in Seq(S) /\ Append(q, x) # <<>>  BY AppendProperties
<1>2. ASSUME q # <<>> PROVE Head(Append(q, x)) = Head(q)
  <2>1. Len(q) \in Nat /\ Len(q) >= 1  BY <1>2
  <2>2. Append(q, x)[1] = q[1]  BY <2>1
  <2> QED  BY <1>1, <1>2, <2>2
<1> QED  BY <1>1, <1>2

LEMMA RestOf ==
    ASSUME NEW S, NEW q \in Seq(S), q # <<>>
    PROVE  Head(q) \in S /\ Tail(q) \in Seq(S) /\ Len(q) \in Nat \ {0} /\ Len(Tail(q)) = Len(q) - 1
           /\ q[1] = Head(q) /\ \A i \in 1 .. Len(q) - 1 : Tail(q)[i] = q[i + 1]
OBVIOUS

----------------------------------------------------------------------------
\* The connection

LEMMA ConnStarts == ConnInit => ConnInv
BY DEF ConnInit, ConnInv, ConnTypeOK, Answerable, CallPlaces, FromChromium

\* What the client's own steps leave alone.
LEMMA LaunchStays ==
    ASSUME UNCHANGED launchVars
    PROVE  UNCHANGED <<step, launcher, browser>>
BY DEF launchVars

LEMMA ClientStays ==
    ASSUME ConnInv, ClientIdle
    PROVE  Answerable' /\ UNCHANGED <<call, pending, chan, requests, down, emitted, reader>>
BY DEF ConnInv, Answerable, ClientIdle, callVars, eventVars

\* The processes, Launch and CloseBrowser.
LEMMA ProcessesInv ==
    ASSUME ConnInv, LauncherExits \/ BrowserListens \/ ForeignTakes \/ BrowserLeaves
    PROVE  ConnInv'
<1>1. ClientIdle  BY DEF LauncherExits, BrowserListens, ForeignTakes, BrowserLeaves, ClientIdle
<1>2. Answerable' /\ UNCHANGED <<call, pending, chan, requests, down, emitted, reader>>  BY <1>1, ClientStays
<1>3. ConnTypeOK'
  BY <1>2 DEF ConnInv, ConnTypeOK, LauncherExits, BrowserListens, ForeignTakes, BrowserLeaves
<1> QED  BY <1>2, <1>3 DEF ConnInv

LEMMA LaunchInv ==
    ASSUME ConnInv, Launch \/ (\E force \in BOOLEAN : CloseBrowser(force)) \/ CloseWaits \/ CloseTimesOut
    PROVE  ConnInv'
<1>1. ClientIdle
  BY DEF Launch, WaitForURL, NoticeLauncher, Dial, TrackBrowserOwner, EnsureUnpackedExtensions, CloseBrowser, CloseWaits, CloseTimesOut
<1>2. Answerable' /\ UNCHANGED <<call, pending, chan, requests, down, emitted, reader>>  BY <1>1, ClientStays
<1>3. browser' \in {browser, "gone"} /\ launcher' \in {launcher, "exited", "reaped"}
  BY DEF Launch, WaitForURL, NoticeLauncher, Dial, TrackBrowserOwner, EnsureUnpackedExtensions, CloseBrowser, CloseWaits, CloseTimesOut, Kill
<1>4. ConnTypeOK'
  <2>1. step' \in {"url", "dial", "track", "extensions", "ready", "socket", "process", "owned", "over", "failed"}
    BY DEF ConnInv, ConnTypeOK, Launch, WaitForURL, NoticeLauncher, Dial, TrackBrowserOwner, EnsureUnpackedExtensions,
           CloseBrowser, CloseWaits, CloseTimesOut
  <2> QED  BY <1>2, <1>3, <2>1 DEF ConnInv, ConnTypeOK
<1> QED  BY <1>2, <1>4 DEF ConnInv

\* CallTimeout
LEMMA CallsInv ==
    ASSUME ConnInv, NEW c \in Callers,
           CallStarts(c) \/ CallWrites(c) \/ CallReturns(c) \/ CallTimesOut(c)
    PROVE  ConnInv'
<1>1. UNCHANGED <<step, launcher, browser>>
  <2>1. UNCHANGED launchVars  BY DEF CallStarts, CallWrites, CallReturns, CallTimesOut, CallsOnly
  <2> QED  BY <2>1, LaunchStays
<1>2. UNCHANGED <<down, emitted, reader>>  BY DEF CallStarts, CallWrites, CallReturns, CallTimesOut, CallsOnly
<1>3. requests' \subseteq Callers /\ pending' \subseteq Callers
  BY DEF ConnInv, ConnTypeOK, CallStarts, CallWrites, CallReturns, CallTimesOut
<1>4. /\ call' \in [Callers -> CallPlaces] /\ chan' \in [Callers -> Seq({"answered", "failed"})]
      /\ \A d \in Callers \ {c} : call'[d] = call[d] /\ chan'[d] = chan[d] /\ (d \in pending' <=> d \in pending)
      /\ call'[c] # "idle"
      /\ chan'[c] = chan[c] \/ chan[c] # <<>>
  <2>1. call \in [Callers -> CallPlaces] /\ chan \in [Callers -> Seq({"answered", "failed"})]
    BY DEF ConnInv, ConnTypeOK
  <2>2. CASE CallReturns(c) /\ chan[c] # <<>> /\ Becomes(c, Head(chan[c])) /\ chan' = [chan EXCEPT ![c] = Tail(@)]
    <3>1. Head(chan[c]) \in {"answered", "failed"} /\ Tail(chan[c]) \in Seq({"answered", "failed"})
      BY <2>1, <2>2, RestOf
    <3> QED  BY <2>1, <2>2, <3>1 DEF CallReturns, Becomes, CallPlaces
  <2>3. CASE CallReturns(c) /\ Becomes(c, "closed") /\ UNCHANGED chan
    BY <2>1, <2>3 DEF CallReturns, Becomes, CallPlaces
  <2>4. CASE CallStarts(c) \/ CallWrites(c) \/ CallTimesOut(c)
    BY <2>1, <2>4 DEF CallStarts, CallWrites, CallTimesOut, Becomes, CallPlaces
  <2> QED  BY <2>2, <2>3, <2>4 DEF CallReturns
<1>5. ConnTypeOK'  BY <1>1, <1>2, <1>3, <1>4 DEF ConnInv, ConnTypeOK
<1>6. c \in pending' => chan'[c] = <<>>
  <2>1. chan[c] # <<>> => call[c] # "idle" /\ c \notin pending  BY DEF ConnInv, Answerable, ConnTypeOK
  <2> QED
    BY <1>4, <2>1 DEF ConnInv, Answerable, ConnTypeOK, CallStarts, CallWrites, CallReturns, CallTimesOut
<1>7. ASSUME reader = "deliver", Head(down).of = c PROVE c \notin pending' /\ chan'[c] = <<>>
  BY <1>4, <1>7 DEF ConnInv, Answerable, ConnTypeOK, CallStarts, CallWrites, CallReturns, CallTimesOut
<1>8. reader = "deliver" => Head(down).of \in Callers
  BY DEF ConnInv, ConnTypeOK, Answerable, FromChromium
<1>9. Answerable'
  <2>1. \A d \in Callers : call'[d] = "idle" => chan'[d] = <<>> /\ d \notin pending'
    BY <1>4 DEF ConnInv, Answerable
  <2>2. \A d \in pending' : chan'[d] = <<>>  BY <1>3, <1>4, <1>6 DEF ConnInv, Answerable
  <2>3. reader' = "deliver" => /\ down' # <<>> /\ Head(down').kind = "reply"
                               /\ call'[Head(down').of] # "idle" /\ Head(down').of \notin pending'
                               /\ chan'[Head(down').of] = <<>>
    <3> SUFFICES ASSUME reader = "deliver"
                 PROVE  /\ down # <<>> /\ Head(down).kind = "reply"
                        /\ call'[Head(down).of] # "idle" /\ Head(down).of \notin pending'
                        /\ chan'[Head(down).of] = <<>>
      BY <1>2
    <3>1. CASE Head(down).of = c  BY <1>4, <1>7, <3>1 DEF ConnInv, Answerable
    <3>2. CASE Head(down).of # c  BY <1>4, <1>8, <3>2 DEF ConnInv, Answerable
    <3> QED  BY <3>1, <3>2
  <2> QED  BY <2>1, <2>2, <2>3 DEF Answerable
<1> QED  BY <1>5, <1>9 DEF ConnInv

\* Chromium says something more.
LEMMA SaysInv ==
    ASSUME ConnInv, Emits \/ \E c \in Callers : Answers(c)
    PROVE  ConnInv'
<1>1. UNCHANGED <<step, launcher, browser>>
  BY LaunchStays DEF Emits, Answers
<1>2. PICK m \in FromChromium : down' = Append(down, m)
  <2>1. CASE Emits  BY <2>1 DEF Emits, FromChromium, ConnInv, ConnTypeOK
  <2>2. CASE \E c \in Callers : Answers(c)  BY <2>2 DEF Answers, FromChromium
  <2> QED  BY <2>1, <2>2
<1>3. UNCHANGED <<call, pending, chan, reader>> /\ requests' \subseteq Callers /\ emitted' \in Nat
  <2>1. requests \subseteq Callers /\ emitted \in Nat  BY DEF ConnInv, ConnTypeOK
  <2>2. CASE Emits  BY <2>1, <2>2 DEF Emits, callVars
  <2>3. CASE \E c \in Callers : Answers(c)  BY <2>1, <2>3 DEF Answers
  <2> QED  BY <2>2, <2>3
<1>4. down' \in Seq(FromChromium) /\ down' # <<>> /\ (down # <<>> => Head(down') = Head(down))
  BY <1>2, FirstStays DEF ConnInv, ConnTypeOK
<1>5. ConnTypeOK'  BY <1>1, <1>3, <1>4 DEF ConnInv, ConnTypeOK
<1>6. Answerable'  BY <1>3, <1>4 DEF ConnInv, Answerable
<1> QED  BY <1>5, <1>6 DEF ConnInv

LEMMA ReaderInv ==
    ASSUME ConnInv, Reader
    PROVE  ConnInv'
<1>1. UNCHANGED <<step, launcher, browser>>
  BY LaunchStays DEF Reader, ReadReply, Deliver, ReadEvent, SignalEvent, FailAll
<1>2. down # <<>> => Head(down) \in FromChromium /\ Tail(down) \in Seq(FromChromium)
  BY RestOf DEF ConnInv, ConnTypeOK
<1>3. CASE ReadReply
  <2>1. Head(down).of \in Callers  BY <1>2, <1>3 DEF ReadReply, FromChromium
  <2>2. ConnTypeOK'  BY <1>1, <1>2, <1>3 DEF ReadReply, callVars, ConnInv, ConnTypeOK
  <2>3. Answerable'  BY <1>3, <2>1 DEF ReadReply, ConnInv, Answerable
  <2> QED  BY <2>2, <2>3 DEF ConnInv
<1>4. CASE Deliver
  <2>1. Head(down).of \in Callers  BY <1>2, <1>4 DEF Deliver, FromChromium, ConnInv, Answerable
  <2>2. /\ \A d \in Callers \ {Head(down).of} : chan'[d] = chan[d]
        /\ chan' \in [Callers -> Seq({"answered", "failed"})]
    BY <1>4, <2>1 DEF Deliver, ConnInv, ConnTypeOK
  <2>3. ConnTypeOK'  BY <1>1, <1>2, <1>4, <2>2 DEF Deliver, ConnInv, ConnTypeOK, Answerable
  <2>4. Answerable'  BY <1>4, <2>1, <2>2 DEF Deliver, ConnInv, ConnTypeOK, Answerable
  <2> QED  BY <2>3, <2>4 DEF ConnInv
<1>5. CASE ReadEvent \/ SignalEvent
  <2>1. UNCHANGED <<call, pending, chan, requests, emitted>> /\ down' \in {down, Tail(down)}
        /\ reader' \in {"read", "signal"} /\ (down' # down => down # <<>>)
    BY <1>5 DEF ReadEvent, SignalEvent, callVars
  <2>2. ConnTypeOK'  BY <1>1, <1>2, <2>1 DEF ConnInv, ConnTypeOK
  <2>3. Answerable'  BY <2>1 DEF ConnInv, Answerable
  <2> QED  BY <2>2, <2>3 DEF ConnInv
<1>6. CASE FailAll
  <2>1. chan' \in [Callers -> Seq({"answered", "failed"})]
    <3>1. <<"failed">> \in Seq({"answered", "failed"})  OBVIOUS
    <3>2. chan \in [Callers -> Seq({"answered", "failed"})]  BY DEF ConnInv, ConnTypeOK
    <3>3. chan' = [c \in Callers |-> IF c \in pending THEN <<"failed">> ELSE chan[c]]  BY <1>6 DEF FailAll
    <3> QED  BY <3>1, <3>2, <3>3
  <2>2. ConnTypeOK'  BY <1>1, <1>6, <2>1 DEF FailAll, ConnInv, ConnTypeOK
  <2>3. Answerable'  BY <1>6 DEF FailAll, ConnInv, ConnTypeOK, Answerable
  <2> QED  BY <2>2, <2>3 DEF ConnInv
<1> QED  BY <1>3, <1>4, <1>5, <1>6 DEF Reader

LEMMA DispatcherInv ==
    ASSUME ConnInv, Dispatcher
    PROVE  ConnInv'
<1>1. UNCHANGED <<step, launcher, browser>>
  BY LaunchStays DEF Dispatcher, DispatchWakes, DispatchTakes, DispatchRests, DispatchRuns, DispatchReturns
<1>2. UNCHANGED <<chan, requests, down, emitted, reader>>
  BY DEF Dispatcher, DispatchWakes, DispatchTakes, DispatchRests, DispatchRuns, DispatchReturns, callVars
<1>3. \/ UNCHANGED <<call, pending>>
      \/ call[Handler] = "idle" /\ Becomes(Handler, "write") /\ pending' = pending \cup {Handler}
  BY DEF Dispatcher, DispatchWakes, DispatchTakes, DispatchRests, DispatchRuns, DispatchReturns, callVars
<1>4. ConnTypeOK'
  BY <1>1, <1>2, <1>3, ConnectionAssumption DEF ConnInv, ConnTypeOK, Becomes, CallPlaces
<1>5. Answerable'
  BY <1>2, <1>3, ConnectionAssumption DEF ConnInv, ConnTypeOK, Answerable, Becomes, FromChromium
<1> QED  BY <1>4, <1>5 DEF ConnInv

\* ConnInv is an inductive invariant of the connection.
THEOREM ConnInvariant == ConnSpec => []ConnInv
<1>1. ConnInit => ConnInv  BY ConnStarts
<1>2. ConnInv /\ [ConnNext]_connVars => ConnInv'
  <2> SUFFICES ASSUME ConnInv, [ConnNext]_connVars PROVE ConnInv'  OBVIOUS
  <2>1. CASE UNCHANGED connVars
    BY <2>1 DEF ConnInv, ConnTypeOK, Answerable, connVars, launchVars, callVars
  <2> QED
    BY <2>1, ProcessesInv, LaunchInv, CallsInv, SaysInv, ReaderInv, DispatcherInv DEF ConnNext
<1> QED  BY <1>1, <1>2, PTL DEF ConnSpec

\* Neither readLoop nor failAll ever finds a reply channel full, for any number of
\* calls, timeouts and failed writes: the reader cannot stop with the lock held.
THEOREM RepliesAlwaysFit == ConnSpec => []RepliesFit
<1>1. ConnInv => RepliesFit  BY DEF ConnInv, Answerable, RepliesFit
<1> QED  BY <1>1, ConnInvariant, PTL

----------------------------------------------------------------------------
\* The session file

\* What a page, its events and a command do.
PageStep(t) ==
    \/ \E u \in Urls \ {"blank"} : Navigate(t, u)
    \/ Popup(t) \/ PageCloses(t)
    \/ TargetInfoChanged(t) \/ TabNavigated(t)
    \/ Select(t) \/ CloseTab(t) \/ NewTab(t)

SetupStep == (\E session \in SetupSessions : SetupChanges(session)) \/ Poll \/ PollWrites \/ PollFails \/ CloseSetup

SavesInv == FlushIsLast /\ FlushedStands /\ SetupSaved

\* Flows, pages and commands may schedule a save, and do nothing else to the file.
LEMMA FlowsOnlySchedule ==
    ASSUME FlowStep \/ \E t \in Targets : PageStep(t)
    PROVE  UNCHANGED <<mode, closed, save, file, setup, found>> /\ (armed' = armed \/ armed' = ~closed)
<1>1. ASSUME NEW t \in Targets, Reserve(t) \/ Attached(t) \/ FinishAttach(t) \/ DropTab(t) \/ FinishDrop(t)
      PROVE  UNCHANGED <<mode, closed, save, file, setup, found, armed>>
  BY <1>1 DEF Reserve, Attached, FinishAttach, DropTab, FinishDrop, saveVars
<1>2. ASSUME NEW t \in Targets, SetUp(t)
      PROVE  UNCHANGED <<mode, closed, save, file, setup, found>> /\ armed' = ~closed
  BY <1>2 DEF SetUp, ScheduleSave
<1>3. ASSUME NEW f \in Flows, SwitchActive(f) \/ CreateOrClose(f)
      PROVE  UNCHANGED <<mode, closed, save, file, setup, found, armed>>
  BY <1>3 DEF SwitchActive, CreateOrClose, saveVars
<1>4. ASSUME NEW f \in Flows, Activated(f) \/ SaveLater(f)
      PROVE  UNCHANGED <<mode, closed, save, file, setup, found>> /\ (armed' = armed \/ armed' = ~closed)
  BY <1>4 DEF Activated, SaveLater, ScheduleSave
<1>5. ASSUME NEW t \in Targets,
             (\E u \in Urls \ {"blank"} : Navigate(t, u)) \/ Popup(t) \/ PageCloses(t) \/ TabNavigated(t)
      PROVE  UNCHANGED <<mode, closed, save, file, setup, found, armed>>
  BY <1>5 DEF Navigate, Popup, PageCloses, TabNavigated, saveVars
<1>6. ASSUME NEW t \in Targets, TargetInfoChanged(t)
      PROVE  UNCHANGED <<mode, closed, save, file, setup, found>> /\ (armed' = armed \/ armed' = ~closed)
  BY <1>6 DEF TargetInfoChanged, ScheduleSave
<1>7. ASSUME NEW t \in Targets, Select(t) \/ CloseTab(t) \/ NewTab(t)
      PROVE  UNCHANGED <<mode, closed, save, file, setup, found, armed>>
  BY <1>7 DEF Select, CloseTab, NewTab, Commanded, saveVars
<1>8. CASE FlowStep
  <2>1. \/ \E t \in Targets : Reserve(t) \/ Attached(t) \/ FinishAttach(t) \/ DropTab(t) \/ FinishDrop(t)
        \/ \E t \in Targets : SetUp(t)
        \/ \E f \in Flows : SwitchActive(f) \/ CreateOrClose(f)
        \/ \E f \in Flows : Activated(f) \/ SaveLater(f)
    BY <1>8 DEF FlowStep
  <2> QED  BY <2>1, <1>1, <1>2, <1>3, <1>4
<1>9. CASE \E t \in Targets : PageStep(t)
  <2>1. \/ \E t \in Targets : (\E u \in Urls \ {"blank"} : Navigate(t, u)) \/ Popup(t) \/ PageCloses(t) \/ TabNavigated(t)
        \/ \E t \in Targets : TargetInfoChanged(t)
        \/ \E t \in Targets : Select(t) \/ CloseTab(t) \/ NewTab(t)
    BY <1>9 DEF PageStep
  <2> QED  BY <2>1, <1>5, <1>6, <1>7
<1> QED  BY <1>8, <1>9

\* Once the flush has closed the session nothing is scheduled any more.
LEMMA ScheduleKeepsSaves ==
    ASSUME TabTypeOK, SavesInv, UNCHANGED <<closed, save, file, setup>>, armed' = armed \/ armed' = ~closed,
           mode' = mode \/ (mode = "start" /\ mode' = "run")
    PROVE  SavesInv' /\ armed' \in BOOLEAN /\ closed' \in BOOLEAN
<1>1. armed \in BOOLEAN /\ closed \in BOOLEAN  BY DEF TabTypeOK
<1>2. armed' \in BOOLEAN /\ closed' \in BOOLEAN  BY <1>1, Zenon
<1>3. closed => ~armed  BY DEF SavesInv, FlushIsLast
<1>4. closed' => ~armed'  BY <1>1, <1>3, Zenon
<1>5. save'["flush"] # "idle" => mode' = "closing" /\ closed' /\ save'["timer"] = "idle"
  <2>1. save["flush"] # "idle" => mode = "closing" /\ closed /\ save["timer"] = "idle"  BY DEF SavesInv, FlushIsLast
  <2>2. mode = "closing" => mode' = "closing"  OBVIOUS
  <2> QED  BY <2>1, <2>2, Zenon
<1>6. FlushedStands' /\ SetupSaved'  BY DEF SavesInv, FlushedStands, SetupSaved
<1> QED  BY <1>2, <1>4, <1>5, <1>6 DEF SavesInv, FlushIsLast

\* The saves themselves.
LEMMA RunScheduledInv ==
    ASSUME TabTypeOK, SavesInv, RunScheduled
    PROVE  SavesInv' /\ armed' \in BOOLEAN /\ closed' \in BOOLEAN
           /\ save' \in [{"timer", "flush"} -> {"idle", "write", "done", "empty"}]
<1>1. closed \in BOOLEAN /\ UNCHANGED <<mode, closed, file, setup>> /\ ~armed' /\ armed' \in BOOLEAN
  BY DEF TabTypeOK, RunScheduled
<1>2. ~closed  BY DEF RunScheduled, SavesInv, FlushIsLast
<1>3. /\ save' \in [{"timer", "flush"} -> {"idle", "write", "done", "empty"}]
      /\ save'["flush"] = save["flush"] /\ save["flush"] = "idle"
  BY <1>2 DEF TabTypeOK, RunScheduled, SavesInv, FlushIsLast
<1>4. FlushIsLast' /\ FlushedStands' /\ SetupSaved'
  BY <1>1, <1>3 DEF SavesInv, FlushIsLast, FlushedStands, SetupSaved
<1> QED  BY <1>1, <1>3, <1>4 DEF SavesInv

LEMMA FlushInv ==
    ASSUME TabTypeOK, SavesInv, Flush
    PROVE  SavesInv' /\ mode' = "closing" /\ armed' \in BOOLEAN /\ closed' \in BOOLEAN
           /\ save' \in [{"timer", "flush"} -> {"idle", "write", "done", "empty"}]
<1>1. mode' = "closing" /\ closed' /\ ~armed' /\ armed' \in BOOLEAN /\ closed' \in BOOLEAN /\ UNCHANGED <<file, setup>>
  BY DEF Flush
<1>2. /\ save' \in [{"timer", "flush"} -> {"idle", "write", "done", "empty"}]
      /\ save'["timer"] = "idle" /\ save'["flush"] \in {"empty", "write"}
  BY DEF TabTypeOK, Flush
<1>3. FlushIsLast' /\ FlushedStands' /\ SetupSaved'
  BY <1>1, <1>2 DEF FlushIsLast, FlushedStands, SetupSaved
<1> QED  BY <1>1, <1>2, <1>3 DEF SavesInv

LEMMA WriteInv ==
    ASSUME TabTypeOK, SavesInv, Live, NEW w \in DOMAIN save, WriteSession(w)
    PROVE  SavesInv' /\ mode' \in {"run", "closing", "down"} /\ armed' \in BOOLEAN /\ closed' \in BOOLEAN
           /\ save' \in [{"timer", "flush"} -> {"idle", "write", "done", "empty"}]
<1>1. w \in {"timer", "flush"} /\ save \in [{"timer", "flush"} -> {"idle", "write", "done", "empty"}]
  BY DEF TabTypeOK
<1>2. UNCHANGED <<armed, setup>> /\ armed \in BOOLEAN /\ closed \in BOOLEAN /\ mode \in {"run", "closing"}
  BY DEF TabTypeOK, WriteSession, Live
<1>3. closed => ~armed  BY DEF SavesInv, FlushIsLast
<1>4. CASE file' = w /\ save' = [save EXCEPT ![w] = IF w = "flush" THEN "done" ELSE "idle"] /\ UNCHANGED <<mode, closed>>
  <2>1. save'["flush"] # "idle" => mode' = "closing" /\ closed' /\ save'["timer"] = "idle"
    BY <1>1, <1>4 DEF SavesInv, FlushIsLast, WriteSession
  <2>2. FlushedStands' /\ SetupSaved'
    BY <1>1, <1>2, <1>4 DEF SavesInv, FlushIsLast, FlushedStands, SetupSaved, WriteSession
  <2>3. closed' => ~armed'  BY <1>2, <1>3, <1>4, Zenon
  <2>4. armed' \in BOOLEAN /\ closed' \in BOOLEAN  BY <1>2, <1>4, Zenon
  <2> QED  BY <1>1, <1>2, <1>4, <2>1, <2>2, <2>3, <2>4 DEF SavesInv, FlushIsLast
<1>5. CASE /\ save' = [save EXCEPT ![w] = "idle"] /\ UNCHANGED file
           /\ w = "flush" /\ mode' \in {"run", "down"} /\ closed' = FALSE
  <2>1. save'["flush"] = "idle" /\ save' \in [{"timer", "flush"} -> {"idle", "write", "done", "empty"}]
    BY <1>1, <1>5
  <2>2. ~closed' /\ closed' \in BOOLEAN /\ armed' \in BOOLEAN  BY <1>2, <1>5, Zenon
  <2>3. FlushIsLast' /\ FlushedStands' /\ SetupSaved'
    BY <1>5, <2>1, <2>2 DEF FlushIsLast, FlushedStands, SetupSaved
  <2> QED  BY <1>5, <2>1, <2>2, <2>3 DEF SavesInv
<1>6. CASE /\ save' = [save EXCEPT ![w] = "idle"] /\ UNCHANGED file
           /\ w # "flush" /\ UNCHANGED <<mode, closed>>
  <2>1. save'["flush"] = save["flush"] /\ save'["timer"] = "idle"
        /\ save' \in [{"timer", "flush"} -> {"idle", "write", "done", "empty"}]
    BY <1>1, <1>6
  <2>2. closed' => ~armed'  BY <1>2, <1>3, <1>6, Zenon
  <2>3. armed' \in BOOLEAN /\ closed' \in BOOLEAN  BY <1>2, <1>6, Zenon
  <2>4. FlushIsLast'
    <3>1. save["flush"] # "idle" => mode = "closing" /\ closed  BY DEF SavesInv, FlushIsLast
    <3>2. save'["flush"] # "idle" => mode' = "closing" /\ closed'  BY <1>6, <2>1, <3>1, Zenon
    <3> QED  BY <2>1, <2>2, <3>2 DEF FlushIsLast
  <2>5. FlushedStands' /\ SetupSaved'
    BY <1>2, <1>6, <2>1 DEF SavesInv, FlushedStands, SetupSaved
  <2> QED  BY <1>2, <1>6, <2>1, <2>3, <2>4, <2>5 DEF SavesInv
<1> QED  BY <1>4, <1>5, <1>6 DEF WriteSession

\* The setup browser.
LEMMA SetupInv ==
    ASSUME TabTypeOK, SavesInv, StartSetup \/ SetupStep
    PROVE  /\ SavesInv' /\ mode' \in {"setup", "down"} /\ UNCHANGED <<armed, closed>>
           /\ save' \in [{"timer", "flush"} -> {"idle", "write", "done", "empty"}]
           /\ setup' \in [shows : SetupStates, polled : SetupStates, snapshot : SetupStates]
<1>1. /\ save \in [{"timer", "flush"} -> {"idle", "write", "done", "empty"}]
      /\ setup \in [shows : SetupStates, polled : SetupStates, snapshot : SetupStates]
  BY DEF TabTypeOK
<1>2. UNCHANGED <<armed, closed>> /\ mode' \in {"setup", "down"}
  BY DEF StartSetup, SetupStep, SetupChanges, Poll, PollWrites, PollFails, CloseSetup, SetupOnly
<1>3. save'["flush"] = "idle" /\ save' \in [{"timer", "flush"} -> {"idle", "write", "done", "empty"}]
  <2>1. CASE StartSetup  BY <1>1, <2>1 DEF StartSetup
  <2>2. CASE SetupStep
    <3>1. mode = "setup" /\ UNCHANGED save
      BY <2>2 DEF SetupStep, SetupChanges, Poll, PollWrites, PollFails, CloseSetup, SetupOnly
    <3>2. save["flush"] = "idle"  BY <3>1 DEF SavesInv, FlushIsLast
    <3> QED  BY <1>1, <3>1, <3>2
  <2> QED  BY <2>1, <2>2
<1>4. FlushIsLast' /\ FlushedStands'
  <2>1. closed => ~armed  BY DEF SavesInv, FlushIsLast
  <2>2. closed' => ~armed'  BY <1>2, <2>1, Zenon
  <2> QED  BY <1>3, <2>2 DEF FlushIsLast, FlushedStands
<1>5. setup' \in [shows : SetupStates, polled : SetupStates, snapshot : SetupStates]
  <2>1. {"none", "restored", "found"} \subseteq SetupStates /\ SetupSessions \subseteq SetupStates
    BY DEF SetupStates
  <2>2. CASE StartSetup  BY <2>1, <2>2 DEF StartSetup
  <2>3. ASSUME NEW session \in SetupSessions, SetupChanges(session)
        PROVE  setup' \in [shows : SetupStates, polled : SetupStates, snapshot : SetupStates]
    BY <1>1, <2>1, <2>3 DEF SetupChanges
  <2>4. CASE Poll \/ PollWrites \/ PollFails \/ CloseSetup
    BY <1>1, <2>1, <2>4 DEF Poll, PollWrites, PollFails, CloseSetup
  <2> QED  BY <2>2, <2>3, <2>4 DEF SetupStep
<1>6. SetupSaved'
  <2>1. CASE StartSetup  BY <2>1 DEF StartSetup, SetupSaved
  <2>2. CASE SetupStep
    BY <1>1, <2>2 DEF SetupStep, SetupChanges, Poll, PollWrites, PollFails, CloseSetup, SavesInv, SetupSaved
  <2> QED  BY <2>1, <2>2
<1> QED  BY <1>2, <1>3, <1>4, <1>5, <1>6 DEF SavesInv

----------------------------------------------------------------------------
\* The life of targets and tabs

LEMMA FlowNames ==
    /\ \A t \in Targets : Attach(t) \in Flows /\ Drop(t) \in Flows
    /\ \A s, t \in Targets : /\ Attach(s) # Drop(t)
                             /\ Attach(s) = Attach(t) => s = t
                             /\ Drop(s) = Drop(t) => s = t
    /\ Command \in Flows /\ \A t \in Targets : Attach(t) # Command /\ Drop(t) # Command
    /\ Drop(NoTarget) \notin Flows
    /\ \A f \in Flows : f = Command \/ \E t \in Targets : f \in {Attach(t), Drop(t)}
    /\ \A t : Attach(t)[1] = t /\ Attach(t)[2] = "attach" /\ Drop(t)[1] = t /\ Drop(t)[2] = "drop"
    /\ Command[1] = NoTarget /\ Command[2] = "command"
BY TabsAssumption DEF Attach, Drop, Flows, Command

\* LivesOnce and AboutToGo of any flows, tabs and pages.
Life(m, a, tb, att, op, fr) ==
    /\ fr \subseteq Targets /\ tb \subseteq Targets /\ a \in [Flows -> FlowPlaces]
    /\ m = "start" => tb = {} /\ att = {}
    /\ fr \cap op = {} /\ fr \cap tb = {}
    /\ \A t \in fr : a[Attach(t)] = "idle"
    /\ \A t \in Targets : a[Drop(t)] # "idle" => t \notin op /\ t \notin fr
    /\ att \subseteq tb
    /\ \A t \in att : a[Attach(t)] \notin {"reserve", "attaching", "lost"}
    /\ \A t \in tb \ op : a[Drop(t)] = "drop" \/ a[Attach(t)] = "lost"
    /\ \A t \in Targets : a[Attach(t)] = "fail" => t \notin tb
    /\ \A t \in Targets : a[Drop(t)] = "restore" /\ t \in tb => a[Attach(t)] = "lost"

LifeInv == Life(mode, at, tabs, attached, open, fresh)

LEMMA MovesOne ==
    ASSUME NEW a \in [Flows -> FlowPlaces], NEW f \in Flows, NEW p \in FlowPlaces
    PROVE  /\ [a EXCEPT ![f] = p] \in [Flows -> FlowPlaces]
           /\ [a EXCEPT ![f] = p][f] = p
           /\ \A g \in Flows : g # f => [a EXCEPT ![f] = p][g] = a[g]
OBVIOUS

\* A flow goes on that neither starts nor ends a tab.
LEMMA LifeMoves ==
    ASSUME NEW m, NEW a, NEW tb, NEW att, NEW op, NEW fr, NEW f \in Flows, NEW p \in FlowPlaces,
           Life(m, a, tb, att, op, fr),
           f = Command \/ (a[f] \notin {"idle", "lost", "drop"} /\ p \notin {"reserve", "attaching", "lost", "fail", "restore"})
    PROVE  Life(m, [a EXCEPT ![f] = p], tb, att, op, fr)
<1> DEFINE b == [a EXCEPT ![f] = p]
<1>1. b \in [Flows -> FlowPlaces] /\ b[f] = p /\ \A g \in Flows : g # f => b[g] = a[g]
  BY MovesOne DEF Life
<1> HIDE DEF b
<1>2. ASSUME f = Command PROVE Life(m, b, tb, att, op, fr)
  <2>1. \A t \in Targets : b[Attach(t)] = a[Attach(t)] /\ b[Drop(t)] = a[Drop(t)]  BY <1>1, <1>2, FlowNames
  <2>2. fr \subseteq Targets /\ tb \subseteq Targets /\ att \subseteq Targets  BY DEF Life
  <2> QED  BY <1>1, <2>1, <2>2 DEF Life
<1>3. ASSUME NEW s \in Targets, f = Attach(s), f # Command PROVE Life(m, b, tb, att, op, fr)
  <2>1. /\ \A t \in Targets : b[Drop(t)] = a[Drop(t)] /\ (t # s => b[Attach(t)] = a[Attach(t)])
        /\ b[Attach(s)] = p
    BY <1>1, <1>3, FlowNames
  <2>2. fr \subseteq Targets /\ tb \subseteq Targets /\ att \subseteq Targets /\ s \notin fr  BY <1>3 DEF Life
  <2> QED  BY <1>1, <1>3, <2>1, <2>2 DEF Life
<1>4. ASSUME NEW s \in Targets, f = Drop(s), f # Command PROVE Life(m, b, tb, att, op, fr)
  <2>1. /\ \A t \in Targets : b[Attach(t)] = a[Attach(t)] /\ (t # s => b[Drop(t)] = a[Drop(t)])
        /\ b[Drop(s)] = p
    BY <1>1, <1>4, FlowNames
  <2>2. fr \subseteq Targets /\ tb \subseteq Targets /\ att \subseteq Targets /\ s \notin fr /\ s \notin op
    BY <1>4 DEF Life
  <2> QED  BY <1>1, <1>4, <2>1, <2>2 DEF Life
<1>5. Life(m, b, tb, att, op, fr)  BY <1>2, <1>3, <1>4, FlowNames
<1> QED  BY <1>5 DEF b

\* A page is created, and its goroutine starts.
LEMMA LifeCreates ==
    ASSUME NEW m, NEW a, NEW tb, NEW att, NEW op, NEW fr, NEW t \in fr, Life(m, a, tb, att, op, fr)
    PROVE  Life(m, [a EXCEPT ![Attach(t)] = "reserve"], tb, att, op \cup {t}, fr \ {t})
<1> DEFINE b == [a EXCEPT ![Attach(t)] = "reserve"]
<1>1. t \in Targets /\ tb \subseteq Targets /\ att \subseteq tb /\ t \notin tb /\ t \notin op /\ fr \subseteq Targets
  BY DEF Life
<1>2. /\ b \in [Flows -> FlowPlaces] /\ b[Attach(t)] = "reserve"
      /\ \A s \in Targets : b[Drop(s)] = a[Drop(s)] /\ (s # t => b[Attach(s)] = a[Attach(s)])
  <2>1. Attach(t) \in Flows /\ a \in [Flows -> FlowPlaces] /\ "reserve" \in FlowPlaces
    BY <1>1, FlowNames DEF Life, FlowPlaces
  <2>2. b \in [Flows -> FlowPlaces] /\ b[Attach(t)] = "reserve" /\ \A g \in Flows : g # Attach(t) => b[g] = a[g]
    BY <2>1, MovesOne
  <2> QED  BY <1>1, <2>2, FlowNames
<1> HIDE DEF b
<1>3. Life(m, b, tb, att, op \cup {t}, fr \ {t})  BY <1>1, <1>2 DEF Life
<1> QED  BY <1>3 DEF b

\* A page is closed, and the goroutine of its end starts.
LEMMA LifeCloses ==
    ASSUME NEW m, NEW a, NEW tb, NEW att, NEW op, NEW fr, NEW t \in Targets \cup {NoTarget},
           Life(m, a, tb, att, op, fr)
    PROVE  Life(m, IF t \in op THEN [a EXCEPT ![Drop(t)] = "drop"] ELSE a, tb, att, op \ {t}, fr)
<1> DEFINE b == [a EXCEPT ![Drop(t)] = "drop"]
<1>1. tb \subseteq Targets /\ att \subseteq tb /\ fr \subseteq Targets /\ a \in [Flows -> FlowPlaces]  BY DEF Life
<1>2. CASE t \notin op  BY <1>2 DEF Life
<1>3. CASE t \in op /\ t \in Targets
  <2>1. /\ b \in [Flows -> FlowPlaces] /\ b[Drop(t)] = "drop"
        /\ \A s \in Targets : b[Attach(s)] = a[Attach(s)] /\ (s # t => b[Drop(s)] = a[Drop(s)])
    <3>1. Drop(t) \in Flows /\ "drop" \in FlowPlaces  BY <1>3, FlowNames DEF FlowPlaces
    <3>2. b \in [Flows -> FlowPlaces] /\ b[Drop(t)] = "drop" /\ \A g \in Flows : g # Drop(t) => b[g] = a[g]
      BY <1>1, <3>1, MovesOne
    <3> QED  BY <1>3, <3>2, FlowNames
  <2> HIDE DEF b
  <2>2. t \notin fr /\ a[Drop(t)] = "idle"  BY <1>3 DEF Life
  <2>3. Life(m, b, tb, att, op \ {t}, fr)  BY <1>1, <1>3, <2>1, <2>2 DEF Life
  <2> QED  BY <1>3, <2>3 DEF b
<1>4. CASE t \in op /\ t = NoTarget
  <2>1. b = a  BY <1>1, <1>4, FlowNames
  <2>2. \A s \in tb : s # NoTarget  BY <1>1, TabsAssumption
  <2>3. Life(m, a, tb, att, op \ {NoTarget}, fr)  BY <1>1, <2>2 DEF Life
  <2> QED  BY <1>4, <2>1, <2>3
<1> QED  BY <1>2, <1>3, <1>4

\* Nothing of it changes.
LEMMA LifeStays ==
    ASSUME LifeInv, UNCHANGED <<at, tabs, attached, open, fresh>>,
           mode' = mode \/ mode' # "start"
    PROVE  LifeInv'
BY DEF LifeInv, Life

\* attachTarget, one step after the other.
LEMMA LifeReserve ==
    ASSUME LifeInv, Live, NEW t \in Targets, Reserve(t)
    PROVE  LifeInv'
<1>1. UNCHANGED <<mode, attached, open, fresh>>  BY DEF Reserve, chromeVars
<1>2. at[Attach(t)] = "reserve" /\ Attach(t) \in Flows  BY FlowNames DEF Reserve
<1>3. CASE /\ Proceed(Attach(t), "todo", <<[do |-> "close", id |-> 0]>>) /\ UNCHANGED tabs
  <2>1. at' = [at EXCEPT ![Attach(t)] = "todo"]  BY <1>3 DEF Proceed
  <2>2. Life(mode, [at EXCEPT ![Attach(t)] = "todo"], tabs, attached, open, fresh)
    BY <1>2, LifeMoves DEF LifeInv, FlowPlaces
  <2> QED  BY <1>1, <1>3, <2>1, <2>2 DEF LifeInv
<1>4. CASE /\ Proceed(Attach(t), IF t \in open THEN "attaching" ELSE "lost", <<>>) /\ tabs' = tabs \cup {t}
  <2>1. PICK p \in {"attaching", "lost"} : at' = [at EXCEPT ![Attach(t)] = p] /\ (p = "attaching" => t \in open)
    BY <1>4 DEF Proceed
  <2>2. /\ at' \in [Flows -> FlowPlaces] /\ at'[Attach(t)] = p
        /\ \A g \in Flows : g # Attach(t) => at'[g] = at[g]
    BY <1>2, <2>1, MovesOne DEF LifeInv, Life, FlowPlaces
  <2>3. \A s \in Targets : at'[Drop(s)] = at[Drop(s)] /\ (s # t => at'[Attach(s)] = at[Attach(s)])
    BY <2>2, FlowNames
  <2>4. t \notin fresh /\ t \notin attached /\ attached \subseteq Targets /\ mode # "start"
    BY <1>2 DEF LifeInv, Life, Live
  <2> QED  BY <1>1, <1>4, <2>1, <2>2, <2>3, <2>4 DEF LifeInv, Life
<1> QED  BY <1>3, <1>4 DEF Reserve

LEMMA LifeAttached ==
    ASSUME LifeInv, Live, NEW t \in Targets, Attached(t)
    PROVE  LifeInv'
<1>1. UNCHANGED <<mode, open, fresh>>  BY DEF Attached, chromeVars
<1>2. at[Attach(t)] \in {"attaching", "lost"} /\ Attach(t) \in Flows  BY FlowNames DEF Attached
<1>3. PICK p \in {"fail", "setup", "idle"} :
         /\ at' = [at EXCEPT ![Attach(t)] = p]
         /\ p = "fail" => tabs' = tabs \ {t} /\ UNCHANGED attached
         /\ p = "setup" => t \in tabs /\ attached' = attached \cup {t} /\ UNCHANGED tabs
         /\ p = "idle" => t \notin tabs /\ UNCHANGED <<tabs, attached>>
  BY DEF Attached, Proceed
<1>4. /\ at' \in [Flows -> FlowPlaces] /\ at'[Attach(t)] = p
      /\ \A g \in Flows : g # Attach(t) => at'[g] = at[g]
  BY <1>2, <1>3, MovesOne DEF LifeInv, Life, FlowPlaces
<1>5. \A s \in Targets : at'[Drop(s)] = at[Drop(s)] /\ (s # t => at'[Attach(s)] = at[Attach(s)])
  BY <1>4, FlowNames
<1>6. /\ t \notin fresh /\ t \notin attached /\ attached \subseteq tabs /\ tabs \subseteq Targets /\ mode # "start"
      /\ at[Attach(t)] = "attaching" /\ t \in tabs => at[Drop(t)] # "restore" /\ (t \notin open => at[Drop(t)] = "drop")
  BY <1>2 DEF LifeInv, Life, Live
<1>7. p = "setup" => at[Attach(t)] = "attaching"
  <2>1. CASE p = "setup"
    <3>1. at'[Attach(t)] = "setup"  BY <1>4, <2>1
    <3> QED  BY <1>2, <1>4, <3>1 DEF Attached, Proceed, LifeInv, Life
  <2> QED  BY <2>1
<1>8. CASE p = "fail"
  <2>1. tabs' = tabs \ {t} /\ attached' = attached  BY <1>3, <1>8
  <2> QED  BY <1>1, <1>4, <1>5, <1>6, <1>8, <2>1 DEF LifeInv, Life
<1>9. CASE p = "setup"
  <2>1. t \in tabs /\ attached' = attached \cup {t} /\ tabs' = tabs  BY <1>3, <1>9
  <2> QED  BY <1>1, <1>4, <1>5, <1>6, <1>7, <1>9, <2>1 DEF LifeInv, Life
<1>10. CASE p = "idle"
  <2>1. t \notin tabs /\ attached' = attached /\ tabs' = tabs  BY <1>3, <1>10
  <2> QED  BY <1>1, <1>4, <1>5, <1>6, <1>10, <2>1 DEF LifeInv, Life
<1> QED  BY <1>8, <1>9, <1>10

LEMMA LifeDrop ==
    ASSUME LifeInv, Live, NEW t \in Targets, DropTab(t)
    PROVE  LifeInv'
<1>1. UNCHANGED <<mode, open, fresh>>  BY DEF DropTab, chromeVars
<1>2. at[Drop(t)] = "drop" /\ Drop(t) \in Flows /\ at' = [at EXCEPT ![Drop(t)] = "restore"]
  BY FlowNames DEF DropTab, Proceed
<1>3. tabs' = tabs \ {t} /\ attached' = attached \ {t}
  BY DEF DropTab, LifeInv, Life
<1>4. /\ at' \in [Flows -> FlowPlaces] /\ at'[Drop(t)] = "restore"
      /\ \A g \in Flows : g # Drop(t) => at'[g] = at[g]
  BY <1>2, MovesOne DEF LifeInv, Life, FlowPlaces
<1>5. \A s \in Targets : at'[Attach(s)] = at[Attach(s)] /\ (s # t => at'[Drop(s)] = at[Drop(s)])
  BY <1>4, FlowNames
<1>6. t \notin fresh /\ t \notin open /\ attached \subseteq tabs /\ tabs \subseteq Targets /\ mode # "start"
  BY <1>2 DEF LifeInv, Life, Live
<1> QED  BY <1>1, <1>3, <1>4, <1>5, <1>6 DEF LifeInv, Life

\* Flows that end or go on.
LEMMA LifeFlows ==
    ASSUME LifeInv, Live,
           \/ \E t \in Targets : SetUp(t) \/ FinishAttach(t) \/ FinishDrop(t)
           \/ \E f \in Flows : SwitchActive(f) \/ Activated(f) \/ SaveLater(f)
    PROVE  LifeInv'
<1>1. UNCHANGED <<mode, tabs, attached, open, fresh>>
  BY DEF SetUp, FinishAttach, FinishDrop, SwitchActive, Activated, SaveLater, chromeVars, tabVars
<1> DEFINE MovesOn == \E f \in Flows, p \in FlowPlaces :
         /\ at' = [at EXCEPT ![f] = p]
         /\ at[f] \notin {"idle", "lost", "drop"} /\ p \notin {"reserve", "attaching", "lost", "fail", "restore"}
<1>2. MovesOn
  <2>1. ASSUME NEW t \in Targets, SetUp(t) \/ FinishAttach(t) PROVE MovesOn
    <3>1. /\ at[Attach(t)] \in {"setup", "fail", "finish"} /\ Attach(t) \in Flows
          /\ \E p \in {"finish", "idle", "todo"} : at' = [at EXCEPT ![Attach(t)] = p]
      BY <2>1, FlowNames DEF SetUp, FinishAttach, Proceed
    <3> QED  BY <3>1 DEF FlowPlaces
  <2>2. ASSUME NEW t \in Targets, FinishDrop(t) PROVE MovesOn
    <3>1. /\ at[Drop(t)] = "restore" /\ Drop(t) \in Flows
          /\ \E p \in {"idle", "todo"} : at' = [at EXCEPT ![Drop(t)] = p]
      BY <2>2, FlowNames DEF FinishDrop, Proceed
    <3> QED  BY <3>1 DEF FlowPlaces
  <2>3. ASSUME NEW f \in Flows, SwitchActive(f) \/ Activated(f) \/ SaveLater(f) PROVE MovesOn
    <3>1. /\ at[f] \in {"todo", "activating"}
          /\ \E p \in {"idle", "todo", "activating"} : at' = [at EXCEPT ![f] = p]
      BY <2>3 DEF SwitchActive, Activated, SaveLater, Next1, Proceed
    <3> QED  BY <3>1 DEF FlowPlaces
  <2> QED  BY <2>1, <2>2, <2>3
<1>3. PICK f \in Flows, p \in FlowPlaces :
         /\ at' = [at EXCEPT ![f] = p]
         /\ at[f] \notin {"idle", "lost", "drop"} /\ p \notin {"reserve", "attaching", "lost", "fail", "restore"}
  BY <1>2
<1>4. Life(mode, [at EXCEPT ![f] = p], tabs, attached, open, fresh)  BY <1>3, LifeMoves DEF LifeInv
<1> QED  BY <1>1, <1>3, <1>4 DEF LifeInv

LEMMA LifeCreateOrClose ==
    ASSUME LifeInv, Live, NEW f \in Flows, CreateOrClose(f)
    PROVE  LifeInv'
<1>1. UNCHANGED <<mode, tabs, attached>> /\ at[f] = "todo"  BY DEF CreateOrClose, tabVars
<1>2. ASSUME NEW p \in {"idle", "todo"} PROVE Life(mode, [at EXCEPT ![f] = p], tabs, attached, open, fresh)
  BY <1>1, <1>2, LifeMoves DEF LifeInv, FlowPlaces
<1>3. ASSUME fresh # {}, NEW p \in {"idle", "todo"}, Creates(CHOOSE t \in fresh : TRUE, "blank", [at EXCEPT ![f] = p])
      PROVE  LifeInv'
  <2>1. PICK t \in fresh : t = CHOOSE u \in fresh : TRUE  BY <1>3
  <2>2. open' = open \cup {t} /\ fresh' = fresh \ {t} /\ at' = [[at EXCEPT ![f] = p] EXCEPT ![Attach(t)] = "reserve"]
    BY <1>3, <2>1 DEF Creates
  <2>3. Life(mode, [[at EXCEPT ![f] = p] EXCEPT ![Attach(t)] = "reserve"], tabs, attached, open \cup {t}, fresh \ {t})
    BY <1>2, LifeCreates
  <2> QED  BY <1>1, <2>2, <2>3 DEF LifeInv
<1>4. ASSUME Closes(f[1], [at EXCEPT ![f] = "idle"]), UNCHANGED fresh
      PROVE  LifeInv'
  <2>1. f[1] \in Targets \cup {NoTarget}  BY FlowNames
  <2>2. Life(mode, at', tabs, attached, open \ {f[1]}, fresh)
    BY <1>2, <1>4, <2>1, LifeCloses DEF Closes
  <2> QED  BY <1>1, <1>4, <2>2 DEF LifeInv, Closes
<1> QED  BY <1>3, <1>4 DEF CreateOrClose

\* Pages and commands.
LEMMA LifePages ==
    ASSUME LifeInv, NEW t \in Targets, PageStep(t)
    PROVE  LifeInv'
<1>1. UNCHANGED <<mode, tabs, attached>>
  BY DEF PageStep, Navigate, Popup, PageCloses, TargetInfoChanged, TabNavigated, Select, CloseTab, NewTab,
         Commanded, tabVars
<1>2. CASE (\E u \in Urls \ {"blank"} : Navigate(t, u)) \/ TargetInfoChanged(t) \/ TabNavigated(t)
  BY <1>2, LifeStays DEF Navigate, TargetInfoChanged, TabNavigated, tabVars
<1>3. CASE Select(t)
  <2>1. PICK p \in {"idle", "todo"} : at' = [at EXCEPT ![Command] = p]  BY <1>3 DEF Select, Proceed
  <2>2. Life(mode, [at EXCEPT ![Command] = p], tabs, attached, open, fresh)
    BY FlowNames, LifeMoves DEF LifeInv, FlowPlaces
  <2>3. UNCHANGED <<open, fresh>>  BY <1>3 DEF Select, chromeVars
  <2> QED  BY <1>1, <2>1, <2>2, <2>3 DEF LifeInv
<1>4. CASE Creates(t, "blank", at)
  <2>1. Life(mode, [at EXCEPT ![Attach(t)] = "reserve"], tabs, attached, open \cup {t}, fresh \ {t})
    BY <1>4, LifeCreates DEF LifeInv, Creates
  <2> QED  BY <1>1, <1>4, <2>1 DEF LifeInv, Creates
<1>5. CASE Closes(t, at) /\ UNCHANGED fresh
  <2>1. Life(mode, IF t \in open THEN [at EXCEPT ![Drop(t)] = "drop"] ELSE at, tabs, attached, open \ {t}, fresh)
    BY LifeCloses DEF LifeInv
  <2> QED  BY <1>1, <1>5, <2>1 DEF LifeInv, Closes
<1>6. CASE CloseTab(t)
  <2>1. (UNCHANGED <<open, fresh, at>>) \/ (Closes(t, at) /\ UNCHANGED fresh)  BY <1>6 DEF CloseTab
  <2> QED  BY <1>1, <1>5, <2>1, LifeStays
<1>7. CASE Popup(t) \/ NewTab(t)  BY <1>4, <1>7 DEF Popup, NewTab
<1>8. CASE PageCloses(t)  BY <1>5, <1>8 DEF PageCloses
<1> QED  BY <1>2, <1>3, <1>6, <1>7, <1>8 DEF PageStep

LEMMA LifeStart ==
    ASSUME LifeInv, Start
    PROVE  LifeInv'
<1>1. /\ mode = "start" /\ mode' = "run" /\ tabs' = tabs /\ attached' = attached /\ Discover
  BY DEF Start, StartNative, StartCreated, StartExact
<1>2. tabs = {} /\ attached = {} /\ fresh \subseteq Targets /\ fresh \cap open = {}  BY <1>1 DEF LifeInv, Life
<1>3. fresh' \subseteq fresh /\ fresh' \cap open' = {}
  <2>1. Normal(open) \subseteq open  BY DEF Normal
  <2>2. CASE StartNative  BY <1>2, <2>1, <2>2 DEF StartNative
  <2>3. ASSUME NEW made, Recreate(made) PROVE fresh' \subseteq fresh /\ fresh' \cap open' = {}
    BY <2>3 DEF Recreate
  <2>4. CASE StartCreated  BY <1>2, <2>1, <2>3, <2>4 DEF StartCreated
  <2>5. CASE StartExact  BY <2>3, <2>5 DEF StartExact
  <2> QED  BY <2>2, <2>4, <2>5 DEF Start
<1>4. /\ at' \in [Flows -> FlowPlaces]
      /\ \A t \in Targets : at'[Drop(t)] = "idle" /\ at'[Attach(t)] \in {"reserve", "idle"}
      /\ \A t \in Targets : t \notin open' => at'[Attach(t)] = "idle"
  BY <1>1, FlowNames DEF Discover, FlowPlaces
<1> QED  BY <1>1, <1>2, <1>3, <1>4 DEF LifeInv, Life

LEMMA LifeStartSetup ==
    ASSUME StartSetup
    PROVE  LifeInv'
<1>1. at' \in [Flows -> FlowPlaces] /\ \A t \in Targets : at'[Attach(t)] = "idle" /\ at'[Drop(t)] = "idle"
  BY FlowNames DEF StartSetup, FlowPlaces
<1>2. tabs' = {} /\ attached' = {} /\ open' = {} /\ fresh' = {} /\ mode' = "setup"  BY DEF StartSetup
<1> QED  BY <1>1, <1>2 DEF LifeInv, Life

----------------------------------------------------------------------------
\* What a flow has to do

LEMMA NoItems == SwitchIds(<<>>) = {} /\ ~HasClose(<<>>) /\ <<>> \in Seq(Todos)
BY DEF SwitchIds, HasClose

LEMMA OneItem ==
    ASSUME NEW x \in Todos
    PROVE  /\ <<x>> \in Seq(Todos) /\ <<x>> # <<>> /\ Len(<<x>>) = 1
           /\ SwitchIds(<<x>>) = IF x.do = "switch" THEN {x.id} ELSE {}
           /\ HasClose(<<x>>) <=> x.do = "close"
<1>1. <<x>> \in Seq(Todos) /\ <<x>> # <<>> /\ Len(<<x>>) = 1 /\ <<x>>[1] = x /\ 1 .. 1 = {1}  OBVIOUS
<1>2. SwitchIds(<<x>>) = IF x.do = "switch" THEN {x.id} ELSE {}  BY <1>1 DEF SwitchIds
<1>3. HasClose(<<x>>) <=> x.do = "close"  BY <1>1 DEF HasClose
<1> QED  BY <1>1, <1>2, <1>3

LEMMA Popped ==
    ASSUME NEW q \in Seq(Todos), q # <<>>
    PROVE  /\ Tail(q) \in Seq(Todos) /\ Head(q) \in Todos
           /\ SwitchIds(q) = (IF Head(q).do = "switch" THEN {Head(q).id} ELSE {}) \cup SwitchIds(Tail(q))
           /\ HasClose(Tail(q)) => HasClose(q) /\ Len(q) # 1
           /\ Head(q).do = "close" => HasClose(q)
           /\ Tail(q) = <<>> <=> Len(q) = 1
<1>1. /\ Head(q) \in Todos /\ Tail(q) \in Seq(Todos) /\ Len(q) \in Nat \ {0} /\ Len(Tail(q)) = Len(q) - 1
      /\ q[1] = Head(q) /\ \A i \in 1 .. Len(q) - 1 : Tail(q)[i] = q[i + 1]
  BY RestOf
<1> DEFINE tl == Tail(q) n == Len(q)
<1>2. ASSUME NEW i \in 1 .. n, i # 1 PROVE i - 1 \in 1 .. n - 1 /\ q[i] = tl[i - 1]  BY <1>1, <1>2
<1>3. ASSUME NEW i \in 1 .. n - 1 PROVE i + 1 \in 1 .. n /\ tl[i] = q[i + 1]  BY <1>1, <1>3
<1>4. 1 \in 1 .. n  BY <1>1
<1>5. tl = <<>> <=> n = 1
  <2>1. \A s \in Seq(Todos) : s = <<>> <=> Len(s) = 0  BY EmptySeq
  <2>2. tl \in Seq(Todos) /\ Len(tl) = n - 1 /\ n \in Nat  BY <1>1
  <2> HIDE DEF tl, n
  <2>3. tl = <<>> <=> Len(tl) = 0  BY <2>1, <2>2
  <2> QED  BY <2>2, <2>3
<1> HIDE DEF tl, n
<1>6. SwitchIds(q) = {q[i].id : i \in {j \in 1 .. n : q[j].do = "switch"}}  BY DEF SwitchIds, n
<1>7. SwitchIds(tl) = {tl[i].id : i \in {j \in 1 .. n - 1 : tl[j].do = "switch"}}  BY <1>1 DEF SwitchIds, n, tl
<1>8. SwitchIds(q) = (IF Head(q).do = "switch" THEN {Head(q).id} ELSE {}) \cup SwitchIds(tl)
  <2>1. ASSUME NEW x \in SwitchIds(q)
        PROVE  x \in (IF Head(q).do = "switch" THEN {Head(q).id} ELSE {}) \cup SwitchIds(tl)
    <3>1. PICK i \in 1 .. n : q[i].do = "switch" /\ q[i].id = x  BY <1>6, <2>1
    <3>2. CASE i = 1  BY <1>1, <3>1, <3>2
    <3>3. CASE i # 1  BY <1>2, <1>7, <3>1, <3>3
    <3> QED  BY <3>2, <3>3
  <2>2. SwitchIds(tl) \subseteq SwitchIds(q)  BY <1>3, <1>6, <1>7
  <2>3. Head(q).do = "switch" => Head(q).id \in SwitchIds(q)  BY <1>1, <1>4, <1>6
  <2> QED  BY <2>1, <2>2, <2>3
<1>9. HasClose(tl) => HasClose(q) /\ n # 1
  <2>1. ASSUME NEW i \in 1 .. n - 1, tl[i].do = "close" PROVE HasClose(q) /\ n # 1
    BY <1>1, <1>3, <2>1 DEF HasClose, n
  <2> QED  BY <1>1, <2>1 DEF HasClose, n, tl
<1>10. Head(q).do = "close" => HasClose(q)  BY <1>1, <1>4 DEF HasClose, n
<1> QED  BY <1>1, <1>5, <1>8, <1>9, <1>10 DEF tl, n

LEMMA Joined ==
    ASSUME NEW p \in Seq(Todos), NEW q \in Seq(Todos)
    PROVE  /\ p \o q \in Seq(Todos) /\ SwitchIds(p \o q) = SwitchIds(p) \cup SwitchIds(q)
           /\ HasClose(p \o q) <=> HasClose(p) \/ HasClose(q)
           /\ p \o q = <<>> <=> p = <<>> /\ q = <<>>
<1> DEFINE r == p \o q
<1>1. /\ r \in Seq(Todos) /\ Len(p) \in Nat /\ Len(q) \in Nat /\ Len(r) = Len(p) + Len(q)
      /\ \A i \in 1 .. Len(r) : r[i] = IF i <= Len(p) THEN p[i] ELSE q[i - Len(p)]
  BY ConcatProperties
<1> HIDE DEF r
<1>2. ASSUME NEW i \in 1 .. Len(p) PROVE i \in 1 .. Len(r) /\ r[i] = p[i]  BY <1>1, <1>2
<1>3. ASSUME NEW i \in 1 .. Len(q) PROVE i + Len(p) \in 1 .. Len(r) /\ r[i + Len(p)] = q[i]
  <2>1. i + Len(p) \in 1 .. Len(r) /\ ~(i + Len(p) <= Len(p)) /\ (i + Len(p)) - Len(p) = i  BY <1>1, <1>3
  <2> QED  BY <1>1, <2>1
<1>4. ASSUME NEW i \in 1 .. Len(r)
      PROVE  (i \in 1 .. Len(p) /\ r[i] = p[i]) \/ (i - Len(p) \in 1 .. Len(q) /\ r[i] = q[i - Len(p)])
  BY <1>1, <1>4
<1>5. SwitchIds(p) \subseteq SwitchIds(r)  BY <1>2 DEF SwitchIds
<1>6. SwitchIds(q) \subseteq SwitchIds(r)  BY <1>3 DEF SwitchIds
<1>7. SwitchIds(r) \subseteq SwitchIds(p) \cup SwitchIds(q)  BY <1>4 DEF SwitchIds
<1>8. HasClose(r) <=> HasClose(p) \/ HasClose(q)  BY <1>2, <1>3, <1>4, ZenonT(60) DEF HasClose
<1>9. r = <<>> <=> p = <<>> /\ q = <<>>
  <2>1. \A s \in Seq(Todos) : s = <<>> <=> Len(s) = 0  BY EmptySeq
  <2> QED  BY <1>1, <2>1
<1> QED  BY <1>1, <1>5, <1>6, <1>7, <1>8, <1>9 DEF r

LEMMA SwitchTo ==
    ASSUME NEW i \in Nat
    PROVE  /\ Switch(i) \in Seq(Todos) /\ SwitchIds(Switch(i)) = {i} \ {0} /\ ~HasClose(Switch(i))
           /\ Switch(i) = <<>> <=> i = 0
<1>1. CASE i = 0  BY <1>1, NoItems DEF Switch
<1>2. CASE i # 0
  <2> DEFINE x == [do |-> "switch", id |-> i]
  <2>1. x \in Todos /\ x.do = "switch" /\ x.id = i  BY DEF Todos
  <2>2. Switch(i) = <<x>>  BY <1>2 DEF Switch
  <2> HIDE DEF x
  <2> QED  BY <1>2, <2>1, <2>2, OneItem
<1> QED  BY <1>1, <1>2

LEMMA MaxIdIsId == ASSUME NEW ids \in SUBSET Nat PROVE MaxId(ids) \in ids \cup {0} /\ MaxId(ids) \in Nat
BY DEF MaxId

----------------------------------------------------------------------------
\* The focus of a restored batch

FocusInv == BatchTypeOK /\ IdsApart /\ BatchWaits /\ BatchIsStill /\ BatchIsFocused

\* An ID of the batch is the ID of a tab only if that tab is at its place.
LEMMA PlaceIsOne ==
    ASSUME LifeInv, FocusInv, InBatch, NEW t, t \notin tabs, NEW i \in PlacesOf(t)
    PROVE  i \notin Ids
<1>1. SUFFICES ASSUME NEW s \in tabs, id[s] = i PROVE FALSE  BY DEF Ids
<1>2. i \in PlacesOf(s)  BY <1>1 DEF FocusInv, IdsApart
<1>3. s = t  BY <1>2 DEF PlacesOf
<1> QED  BY <1>1, <1>3

\* A step of a flow that adds no switch but to tabs that are gone, and loses none.
LEMMA FocusKept ==
    ASSUME LifeInv, LifeInv', FocusInv, BatchTypeOK',
           UNCHANGED <<restore, wanted, id, active>>, tabs' \subseteq tabs, fresh' \subseteq fresh,
           \A t \in Targets : t \in open' => t \in open \/ t \in fresh,
           \A f \in Flows : at'[f] = "activating" => at[f] = "activating" \/ ~InBatch,
           \A f \in Flows : \A i \in Switches(f)' :
               i \in Switches(f) \/ (i \notin Ids /\ (InBatch => f[2] = "attach" /\ f[1] \notin tabs /\ i \in PlacesOf(f[1]))),
           \A f \in Flows : \A i \in Switches(f) :
               at[f] = "todo" /\ i \in Ids => at'[f] = "todo" /\ i \in Switches(f)',
           \A t \in Targets :
               /\ at[Attach(t)] = "lost" /\ t \in tabs' => at'[Attach(t)] = "lost"
               /\ at'[Attach(t)] \in {"attaching", "setup", "finish"} => at[Attach(t)] \in {"attaching", "setup", "finish"}
               /\ at'[Attach(t)] = "lost" => at[Attach(t)] = "lost"
               /\ at'[Attach(t)] = "reserve" => at[Attach(t)] = "reserve" \/ t \in fresh
    PROVE  FocusInv'
<1>1. \A t : PlacesOf(t)' = PlacesOf(t)  BY DEF PlacesOf
<1>2. (InBatch' <=> InBatch) /\ Ids' \subseteq Ids  BY DEF InBatch, Ids
<1>3. tabs \subseteq Targets  BY DEF LifeInv, Life
<1>4. IdsApart'
  <2>1. \A t \in tabs' : id'[t] > 0 /\ \A s \in tabs' : id'[s] = id'[t] => s = t  BY DEF FocusInv, IdsApart
  <2>2. InBatch => \A t \in tabs' : id'[t] \in PlacesOf(t)  BY DEF FocusInv, IdsApart
  <2> QED  BY <1>1, <1>2, <2>1, <2>2 DEF IdsApart
<1>5. BatchWaits'
  <2> SUFFICES ASSUME NEW t \in Targets
               PROVE  /\ at'[Attach(t)] \in {"attaching", "lost", "setup", "finish"} /\ InBatch' => id'[t] \in PlacesOf(t)'
                      /\ t \notin restore'.pending =>
                            /\ at'[Attach(t)] \in {"attaching", "setup", "finish"} => id'[t] \notin Ids'
                            /\ at'[Attach(t)] = "reserve" /\ PlacesOf(t)' # {} => t \notin open'
                            /\ t \in fresh' => PlacesOf(t)' = {}
    BY DEF BatchWaits
  <2> QED  BY <1>1, <1>2 DEF FocusInv, BatchWaits
<1>6. BatchIsStill'
  <2> SUFFICES ASSUME InBatch
               PROVE  /\ active' = 0
                      /\ \A f \in Flows :
                           /\ at'[f] # "activating"
                           /\ \A i \in Switches(f)' : f[2] = "attach" /\ f[1] \notin tabs' /\ i \in PlacesOf(f[1])
                      /\ wanted' \in tabs' /\ wanted' \notin restore'.pending =>
                           restore'.id = id'[wanted'] \/ at'[Attach(wanted')] = "lost"
    BY <1>1, <1>2 DEF BatchIsStill
  <2> QED  BY <1>3 DEF FocusInv, BatchIsStill
<1>7. BatchIsFocused'
  <2> SUFFICES ASSUME ~InBatch, wanted \in tabs', at'[Attach(wanted)] # "lost"
               PROVE  /\ active \in {0, id[wanted]}
                      /\ \A f \in Flows : Switches(f)' \cap Ids' \subseteq {id[wanted]}
                      /\ active = id[wanted] \/ \E f \in Flows : at'[f] = "todo" /\ id[wanted] \in Switches(f)'
    BY <1>2 DEF BatchIsFocused
  <2>1. wanted \in tabs /\ wanted \in Targets /\ at[Attach(wanted)] # "lost" /\ id[wanted] \in Ids
    BY <1>3 DEF Ids
  <2>2. /\ active \in {0, id[wanted]}
        /\ \A f \in Flows : Switches(f) \cap Ids \subseteq {id[wanted]}
        /\ active = id[wanted] \/ \E f \in Flows : at[f] = "todo" /\ id[wanted] \in Switches(f)
    BY <2>1 DEF FocusInv, BatchIsFocused
  <2>3. \A f \in Flows : Switches(f)' \cap Ids' \subseteq {id[wanted]}  BY <1>2, <2>2
  <2> QED  BY <2>1, <2>2, <2>3
<1> QED  BY <1>4, <1>5, <1>6, <1>7 DEF FocusInv

\* One flow goes to another place, with another list.
LEMMA TodoOne ==
    ASSUME at \in [Flows -> FlowPlaces], todo \in [Flows -> Seq(Todos)],
           NEW f \in Flows, NEW p \in FlowPlaces, NEW q \in Seq(Todos),
           at' = [at EXCEPT ![f] = p], todo' = [todo EXCEPT ![f] = q]
    PROVE  /\ todo' \in [Flows -> Seq(Todos)]
           /\ at'[f] = p /\ todo'[f] = q /\ Switches(f)' = SwitchIds(q)
           /\ \A g \in Flows : g # f => at'[g] = at[g] /\ todo'[g] = todo[g] /\ Switches(g)' = Switches(g)
<1>1. /\ todo' \in [Flows -> Seq(Todos)] /\ at'[f] = p /\ todo'[f] = q
      /\ \A g \in Flows : g # f => at'[g] = at[g] /\ todo'[g] = todo[g]
  OBVIOUS
<1>2. \A g : Switches(g) = SwitchIds(todo[g]) /\ Switches(g)' = SwitchIds(todo'[g])  BY DEF Switches, SwitchIds
<1> QED  BY <1>1, <1>2

\* The same for a flow f that goes to p with the list q and keeps to what FocusKept
\* asks of it.
KeepsFocus(f, p, q) ==
    /\ at' = [at EXCEPT ![f] = p] /\ todo' = [todo EXCEPT ![f] = q]
    /\ UNCHANGED <<restore, wanted, id, active, open, fresh>> /\ tabs' \subseteq tabs
    /\ p \in {"todo", "activating"} => q # <<>>
    /\ p = "activating" => Head(q).do = "switch" /\ ~InBatch
    /\ HasClose(q) => f[2] = "attach" /\ Len(q) = 1
    /\ \A i \in SwitchIds(q) :
          i \in Switches(f) \/ (i \notin Ids /\ (InBatch => f[2] = "attach" /\ f[1] \notin tabs /\ i \in PlacesOf(f[1])))
    /\ \A i \in Switches(f) : at[f] = "todo" /\ i \in Ids => p = "todo" /\ i \in SwitchIds(q)
    /\ \A t \in Targets : f = Attach(t) =>
          /\ at[f] = "lost" /\ t \in tabs' => p = "lost"
          /\ p \in {"attaching", "setup", "finish"} => at[f] \in {"attaching", "setup", "finish"}
          /\ p \notin {"lost", "reserve"}

LEMMA FocusFlow ==
    ASSUME LifeInv, LifeInv', FocusInv, NEW f \in Flows, NEW p \in FlowPlaces, NEW q \in Seq(Todos),
           KeepsFocus(f, p, q)
    PROVE  FocusInv'
<1> USE DEF KeepsFocus
<1>1. at \in [Flows -> FlowPlaces] /\ BatchTypeOK  BY DEF LifeInv, Life, FocusInv
<1>2. /\ todo' \in [Flows -> Seq(Todos)]
      /\ at'[f] = p /\ todo'[f] = q /\ Switches(f)' = SwitchIds(q)
      /\ \A g \in Flows : g # f => at'[g] = at[g] /\ todo'[g] = todo[g] /\ Switches(g)' = Switches(g)
  BY <1>1, TodoOne DEF BatchTypeOK
<1>3. BatchTypeOK'
  <2>1. id' \in [Targets -> Nat] /\ restore'.id \in Nat  BY <1>1 DEF BatchTypeOK
  <2>2. ASSUME NEW g \in Flows
        PROVE  /\ at'[g] \in {"todo", "activating"} => todo'[g] # <<>>
               /\ at'[g] = "activating" => Head(todo'[g]).do = "switch"
               /\ HasClose(todo'[g]) => g[2] = "attach" /\ Len(todo'[g]) = 1
    <3>1. CASE g = f  BY <1>2, <3>1
    <3>2. CASE g # f  BY <1>1, <1>2, <3>2 DEF BatchTypeOK
    <3> QED  BY <3>1, <3>2
  <2>3. \A g \in Flows : HasClose(todo[g])' <=> HasClose(todo'[g])  BY DEF HasClose
  <2> QED  BY <1>2, <2>1, <2>2, <2>3 DEF BatchTypeOK
<1>4. \A g \in Flows : at'[g] = "activating" => at[g] = "activating" \/ ~InBatch  BY <1>2
<1>5. \A g \in Flows : \A i \in Switches(g)' :
         i \in Switches(g) \/ (i \notin Ids /\ (InBatch => g[2] = "attach" /\ g[1] \notin tabs /\ i \in PlacesOf(g[1])))
  BY <1>2
<1>6. \A g \in Flows : \A i \in Switches(g) :
         at[g] = "todo" /\ i \in Ids => at'[g] = "todo" /\ i \in Switches(g)'
  BY <1>2
<1>7. \A t \in Targets :
         /\ at[Attach(t)] = "lost" /\ t \in tabs' => at'[Attach(t)] = "lost"
         /\ at'[Attach(t)] \in {"attaching", "setup", "finish"} => at[Attach(t)] \in {"attaching", "setup", "finish"}
         /\ at'[Attach(t)] = "lost" => at[Attach(t)] = "lost"
         /\ at'[Attach(t)] = "reserve" => at[Attach(t)] = "reserve" \/ t \in fresh
  BY <1>2, FlowNames
<1> QED  BY <1>3, <1>4, <1>5, <1>6, <1>7, FocusKept

\* attachTarget
LEMMA FocusReserve ==
    ASSUME LifeInv, LifeInv', FocusInv, NEW t \in Targets, Reserve(t), PlacesOf(t) # {}
    PROVE  FocusInv'
<1>1. UNCHANGED <<restore, wanted, active, open, fresh>>  BY DEF Reserve, chromeVars
<1>2. at \in [Flows -> FlowPlaces] /\ Attach(t) \in Flows /\ at[Attach(t)] = "reserve" /\ tabs \subseteq Targets
  BY FlowNames DEF LifeInv, Life, Reserve
<1>3. InBatch /\ PlacesOf(t) \subseteq Nat \ {0}  BY DEF InBatch, PlacesOf, NoRestore
<1>4. CASE /\ Proceed(Attach(t), "todo", <<[do |-> "close", id |-> 0]>>) /\ UNCHANGED <<tabs, id>>
  <2> DEFINE x == [do |-> "close", id |-> 0]
  <2>1. x \in Todos /\ x.do = "close"  BY DEF Todos
  <2>2. at' = [at EXCEPT ![Attach(t)] = "todo"] /\ todo' = [todo EXCEPT ![Attach(t)] = <<x>>]  BY <1>4 DEF Proceed
  <2> HIDE DEF x
  <2>3. <<x>> \in Seq(Todos) /\ <<x>> # <<>> /\ Len(<<x>>) = 1 /\ SwitchIds(<<x>>) = {}  BY <2>1, OneItem
  <2>4. "todo" \in FlowPlaces  BY DEF FlowPlaces
  <2>5. tabs' \subseteq tabs /\ UNCHANGED <<restore, wanted, id, active, open, fresh>>  BY <1>1, <1>4
  <2>6. PICK q \in Seq(Todos) : q = <<x>>  BY <2>3
  <2>7. q # <<>> /\ Len(q) = 1 /\ SwitchIds(q) = {} /\ todo' = [todo EXCEPT ![Attach(t)] = q]  BY <2>2, <2>3, <2>6
  <2>8. Attach(t)[2] = "attach"  BY FlowNames
  <2>9. KeepsFocus(Attach(t), "todo", q)  BY <1>2, <2>2, <2>4, <2>5, <2>7, <2>8 DEF KeepsFocus
  <2> QED  BY <1>2, <2>4, <2>9, FocusFlow
<1>5. CASE /\ id' = [id EXCEPT ![t] = CHOOSE i \in PlacesOf(t) : TRUE] /\ tabs' = tabs \cup {t}
           /\ Proceed(Attach(t), IF t \in open THEN "attaching" ELSE "lost", <<>>)
  <2>1. PICK n \in PlacesOf(t) : id' = [id EXCEPT ![t] = n]  BY <1>5
  <2>2. PICK p \in {"attaching", "lost"} : at' = [at EXCEPT ![Attach(t)] = p] /\ (p = "attaching" <=> t \in open)
    BY <1>5 DEF Proceed
  <2>3. /\ todo \in [Flows -> Seq(Todos)] /\ id \in [Targets -> Nat] /\ restore.id \in Nat
        /\ \A f \in Flows : /\ at[f] \in {"todo", "activating"} => todo[f] # <<>>
                            /\ at[f] = "activating" => Head(todo[f]).do = "switch"
                            /\ HasClose(todo[f]) => f[2] = "attach" /\ Len(todo[f]) = 1
    BY DEF FocusInv, BatchTypeOK
  <2>4. todo' = [todo EXCEPT ![Attach(t)] = <<>>] /\ p \in FlowPlaces  BY <1>5 DEF Proceed, FlowPlaces
  <2>5. /\ todo' \in [Flows -> Seq(Todos)]
        /\ at'[Attach(t)] = p /\ todo'[Attach(t)] = <<>> /\ Switches(Attach(t))' = {}
        /\ \A g \in Flows : g # Attach(t) => at'[g] = at[g] /\ todo'[g] = todo[g] /\ Switches(g)' = Switches(g)
    BY <1>2, <2>2, <2>3, <2>4, TodoOne, NoItems
  <2>6. /\ id' \in [Targets -> Nat] /\ id'[t] = n /\ n \in Nat \ {0}
        /\ \A s \in Targets : s # t => id'[s] = id[s] /\ at'[Attach(s)] = at[Attach(s)]
    BY <1>2, <1>3, <2>1, <2>3, <2>5, FlowNames
  <2>7. (\A s : PlacesOf(s)' = PlacesOf(s)) /\ InBatch'  BY <1>1, <1>3 DEF PlacesOf, InBatch
  <2>8. \A s, r : \A i \in PlacesOf(s) : i \in PlacesOf(r) => r = s  BY DEF PlacesOf
  <2>9. BatchTypeOK'
    <3>1. \A f \in Flows : /\ at'[f] \in {"todo", "activating"} => todo'[f] # <<>>
                           /\ at'[f] = "activating" => Head(todo'[f]).do = "switch"
                           /\ HasClose(todo'[f]) => f[2] = "attach" /\ Len(todo'[f]) = 1
      BY <2>3, <2>5, NoItems
    <3>2. \A f \in Flows : HasClose(todo[f])' <=> HasClose(todo'[f])  BY DEF HasClose
    <3> QED  BY <1>1, <2>3, <2>5, <2>6, <3>1, <3>2 DEF BatchTypeOK
  <2>10. \A s \in tabs' : s \in Targets /\ id'[s] \in PlacesOf(s) /\ id'[s] > 0
    BY <1>2, <1>3, <1>5, <2>1, <2>6 DEF FocusInv, IdsApart
  <2>11. IdsApart'  BY <2>7, <2>8, <2>10 DEF IdsApart
  <2>12. \A s \in Targets : s \notin tabs' => \A i \in PlacesOf(s) : i \notin Ids'
    BY <2>8, <2>10 DEF Ids
  <2>13. BatchWaits'
    <3> SUFFICES ASSUME NEW s \in Targets
                 PROVE  /\ at'[Attach(s)] \in {"attaching", "lost", "setup", "finish"} => id'[s] \in PlacesOf(s)
                        /\ s \notin restore.pending =>
                              /\ at'[Attach(s)] \in {"attaching", "setup", "finish"} => id'[s] \notin Ids'
                              /\ at'[Attach(s)] = "reserve" /\ PlacesOf(s) # {} => s \notin open
                              /\ s \in fresh => PlacesOf(s) = {}
      BY <1>1, <2>7 DEF BatchWaits
    <3>1. CASE s = t  BY <1>2, <2>1, <2>2, <2>5, <2>6, <3>1 DEF FocusInv, BatchWaits
    <3>2. CASE s # t
      <4>1. /\ at[Attach(s)] \in {"attaching", "lost", "setup", "finish"} => id[s] \in PlacesOf(s)
            /\ s \notin restore.pending =>
                  /\ at[Attach(s)] \in {"attaching", "setup", "finish"} => id[s] \notin Ids
                  /\ at[Attach(s)] = "reserve" /\ PlacesOf(s) # {} => s \notin open
                  /\ s \in fresh => PlacesOf(s) = {}
        BY <1>3 DEF FocusInv, BatchWaits
      <4>2. s \in tabs' => id[s] \in Ids  BY <1>5, <3>2 DEF Ids
      <4>3. at'[Attach(s)] = at[Attach(s)] /\ id'[s] = id[s]  BY <2>6, <3>2
      <4> QED  BY <2>12, <4>1, <4>2, <4>3
    <3> QED  BY <3>1, <3>2
  <2>14. BatchIsStill'
    <3>1. active' = 0 /\ \A f \in Flows : at'[f] # "activating"
      BY <1>1, <1>3, <2>5 DEF FocusInv, BatchIsStill
    <3>2. ASSUME NEW f \in Flows, NEW i \in Switches(f)'
          PROVE  f[2] = "attach" /\ f[1] \notin tabs' /\ i \in PlacesOf(f[1])
      <4>1. f # Attach(t) /\ i \in Switches(f)  BY <2>5, <3>2
      <4>2. f[2] = "attach" /\ f[1] \notin tabs /\ i \in PlacesOf(f[1])  BY <1>3, <4>1 DEF FocusInv, BatchIsStill
      <4>3. f[1] # t  BY <4>1, <4>2, FlowNames
      <4> QED  BY <1>5, <4>2, <4>3
    <3>3. ASSUME wanted \in tabs', wanted \notin restore.pending
          PROVE  restore.id = id'[wanted] \/ at'[Attach(wanted)] = "lost"
      <4>1. CASE wanted = t
        <5>1. t \notin open  BY <1>2, <3>3, <4>1 DEF FocusInv, BatchWaits
        <5> QED  BY <2>2, <2>5, <4>1, <5>1
      <4>2. CASE wanted # t
        <5>1. wanted \in tabs /\ wanted \in Targets  BY <1>2, <1>5, <3>3, <4>2
        <5>2. restore.id = id[wanted] \/ at[Attach(wanted)] = "lost"
          BY <1>3, <3>3, <5>1 DEF FocusInv, BatchIsStill
        <5> QED  BY <2>6, <4>2, <5>1, <5>2
      <4> QED  BY <4>1, <4>2
    <3> QED  BY <1>1, <2>7, <3>1, <3>2, <3>3 DEF BatchIsStill
  <2>15. BatchIsFocused'  BY <2>7 DEF BatchIsFocused
  <2> QED  BY <2>9, <2>11, <2>13, <2>14, <2>15 DEF FocusInv
<1> QED  BY <1>4, <1>5 DEF Reserve

LEMMA FocusAttached ==
    ASSUME LifeInv, LifeInv', FocusInv, NEW t \in Targets, Attached(t) \/ SetUp(t)
    PROVE  FocusInv'
<1>1. UNCHANGED <<restore, wanted, id, active, open, fresh>>  BY DEF Attached, SetUp, chromeVars, tabVars
<1>2. Attach(t) \in Flows /\ at[Attach(t)] \in {"attaching", "lost", "setup"}
  BY FlowNames DEF Attached, SetUp
<1>3. PICK p \in {"fail", "setup", "idle", "finish"} :
         /\ at' = [at EXCEPT ![Attach(t)] = p] /\ todo' = [todo EXCEPT ![Attach(t)] = <<>>]
         /\ tabs' \subseteq tabs /\ (p = "fail" => t \notin tabs')
         /\ p = "setup" => at[Attach(t)] = "attaching"
         /\ p = "finish" => at[Attach(t)] = "setup"
         /\ p = "idle" => t \notin tabs
  <2>1. CASE SetUp(t)  BY <2>1 DEF SetUp, Proceed, tabVars
  <2>2. CASE Attached(t)
    <3>1. CASE tabs' = tabs \ {t} /\ Proceed(Attach(t), "fail", <<>>)  BY <3>1 DEF Proceed
    <3>2. CASE at[Attach(t)] = "attaching" /\ Proceed(Attach(t), "setup", <<>>) /\ UNCHANGED tabs  BY <3>2 DEF Proceed
    <3>3. CASE t \notin tabs /\ Proceed(Attach(t), "todo", <<>>) /\ UNCHANGED <<tabs, attached>>  BY <3>3 DEF Proceed
    <3> QED  BY <2>2, <3>1, <3>2, <3>3 DEF Attached
  <2> QED  BY <2>1, <2>2
<1>4. p \in FlowPlaces /\ <<>> \in Seq(Todos) /\ SwitchIds(<<>>) = {} /\ ~HasClose(<<>>)
  BY NoItems DEF FlowPlaces
<1>5. \A s \in Targets : Attach(t) = Attach(s) => s = t  BY FlowNames
<1>6. KeepsFocus(Attach(t), p, <<>>)  BY <1>1, <1>2, <1>3, <1>4, <1>5 DEF KeepsFocus
<1> QED  BY <1>2, <1>4, <1>6, FocusFlow

\* dropTarget, the switch of the active tab and the saves.  A switch that finds its
\* tab gone is over; one that finds it is after the batch.
LEMMA FocusSwitch ==
    ASSUME LifeInv, LifeInv', FocusInv, NEW f \in Flows, SwitchActive(f)
    PROVE  FocusInv'
<1>1. UNCHANGED <<restore, wanted, id, tabs, open, fresh>> /\ at[f] = "todo"  BY DEF SwitchActive, chromeVars
<1>2. /\ at \in [Flows -> FlowPlaces] /\ todo \in [Flows -> Seq(Todos)] /\ todo[f] # <<>>
      /\ tabs \subseteq Targets /\ id \in [Targets -> Nat] /\ restore.id \in Nat
  BY <1>1 DEF LifeInv, Life, FocusInv, BatchTypeOK
<1>3. PICK q \in Seq(Todos) : q = todo[f]  BY <1>2
<1>4. q # <<>> /\ Head(q).do = "switch" /\ (HasClose(q) => f[2] = "attach" /\ Len(q) = 1) /\ SwitchIds(q) = Switches(f)
  BY <1>2, <1>3 DEF SwitchActive, FocusInv, BatchTypeOK, Switches
<1>5. /\ Tail(q) \in Seq(Todos) /\ SwitchIds(q) = {Head(q).id} \cup SwitchIds(Tail(q))
      /\ HasClose(Tail(q)) => HasClose(q) /\ Len(q) # 1
      /\ Tail(q) = <<>> => Len(q) = 1
  BY <1>4, Popped
<1>6. CASE Head(q).id \notin Ids
  <2>1. active' = active /\ Next1(f)  BY <1>3, <1>6 DEF SwitchActive
  <2>2. PICK r \in Seq(Todos) : r = Tail(q)  BY <1>5
  <2>3. PICK p \in {"todo", "idle"} : /\ at' = [at EXCEPT ![f] = p] /\ todo' = [todo EXCEPT ![f] = r]
                                      /\ (p = "idle" <=> r = <<>>)
    BY <1>3, <2>1, <2>2 DEF Next1, Proceed
  <2>4. /\ SwitchIds(r) \subseteq Switches(f) /\ ~HasClose(r)
        /\ \A i \in Switches(f) : i \in Ids => i \in SwitchIds(r)
    BY <1>4, <1>5, <1>6, <2>2
  <2>5. r = <<>> => SwitchIds(r) = {}  BY NoItems
  <2>6. p \in FlowPlaces  BY <2>3 DEF FlowPlaces
  <2>7. tabs' \subseteq tabs /\ UNCHANGED <<restore, wanted, id, active, open, fresh>>  BY <1>1, <2>1
  <2>8. at[f] = "todo" /\ p \notin {"lost", "reserve", "attaching", "setup", "finish", "activating"}
    BY <1>1, <2>3
  <2>9. \A i \in Switches(f) : at[f] = "todo" /\ i \in Ids => p = "todo" /\ i \in SwitchIds(r)
    BY <2>3, <2>4, <2>5
  <2>10. KeepsFocus(f, p, r)  BY <2>3, <2>4, <2>7, <2>8, <2>9 DEF KeepsFocus
  <2> QED  BY <2>6, <2>10, FocusFlow
<1>7. CASE Head(q).id \in Ids
  <2>1. active' = Head(q).id /\ at' = [at EXCEPT ![f] = "activating"] /\ todo' = [todo EXCEPT ![f] = q]
    BY <1>3, <1>7 DEF SwitchActive, Proceed
  <2>2. /\ todo' \in [Flows -> Seq(Todos)]
        /\ at'[f] = "activating" /\ todo'[f] = q /\ Switches(f)' = SwitchIds(q)
        /\ \A g \in Flows : g # f => at'[g] = at[g] /\ todo'[g] = todo[g] /\ Switches(g)' = Switches(g)
    BY <1>2, <2>1, TodoOne DEF FlowPlaces
  <2>3. ~InBatch
    <3>1. SUFFICES ASSUME InBatch PROVE FALSE  OBVIOUS
    <3>2. Head(q).id \in Switches(f)  BY <1>4, <1>5
    <3>3. f[1] \notin tabs /\ Head(q).id \in PlacesOf(f[1])  BY <3>1, <3>2 DEF FocusInv, BatchIsStill
    <3> QED  BY <1>7, <3>1, <3>3, PlaceIsOne
  <2>4. (\A s : PlacesOf(s)' = PlacesOf(s)) /\ ~InBatch' /\ Ids' = Ids  BY <1>1, <2>3 DEF PlacesOf, InBatch, Ids
  <2>5. BatchTypeOK'
    <3>1. \A g \in Flows : /\ at'[g] \in {"todo", "activating"} => todo'[g] # <<>>
                           /\ at'[g] = "activating" => Head(todo'[g]).do = "switch"
                           /\ HasClose(todo'[g]) => g[2] = "attach" /\ Len(todo'[g]) = 1
      BY <1>4, <2>2 DEF FocusInv, BatchTypeOK
    <3>2. \A g \in Flows : HasClose(todo[g])' <=> HasClose(todo'[g])  BY DEF HasClose
    <3> QED  BY <1>1, <1>2, <2>2, <3>1, <3>2 DEF BatchTypeOK
  <2>6. IdsApart' /\ BatchIsStill'  BY <1>1, <2>4 DEF FocusInv, IdsApart, BatchIsStill
  <2>7. \A s \in Targets : at'[Attach(s)] = at[Attach(s)] \/ at'[Attach(s)] = "activating"  BY <2>2, FlowNames
  <2>8. BatchWaits'
    <3> SUFFICES ASSUME NEW s \in Targets
                 PROVE  s \notin restore.pending =>
                              /\ at'[Attach(s)] \in {"attaching", "setup", "finish"} => id[s] \notin Ids
                              /\ at'[Attach(s)] = "reserve" /\ PlacesOf(s) # {} => s \notin open
                              /\ s \in fresh => PlacesOf(s) = {}
      BY <1>1, <2>4 DEF BatchWaits
    <3> QED  BY <2>7 DEF FocusInv, BatchWaits
  <2>9. BatchIsFocused'
    <3> SUFFICES ASSUME wanted \in tabs, at'[Attach(wanted)] # "lost"
                 PROVE  /\ active' \in {0, id[wanted]} /\ active' = id[wanted]
                        /\ \A g \in Flows : Switches(g)' \cap Ids \subseteq {id[wanted]}
      BY <1>1, <2>4 DEF BatchIsFocused
    <3>1. at[Attach(wanted)] # "lost"
      <4>1. Attach(wanted) \in Flows  BY <1>2, FlowNames
      <4> QED  BY <1>1, <2>2, <4>1
    <3>2. \A g \in Flows : Switches(g) \cap Ids \subseteq {id[wanted]}
      BY <2>3, <3>1 DEF FocusInv, BatchIsFocused
    <3>3. Head(q).id = id[wanted]  BY <1>4, <1>5, <1>7, <3>2
    <3> QED  BY <1>4, <2>1, <2>2, <3>2, <3>3
  <2> QED  BY <2>5, <2>6, <2>8, <2>9 DEF FocusInv
<1> QED  BY <1>6, <1>7

\* The head of the list is done, and it was no switch or its switch was made.
LEMMA FocusPop ==
    ASSUME LifeInv, LifeInv', FocusInv, NEW f \in Flows, Activated(f) \/ SaveLater(f)
    PROVE  FocusInv'
<1>1. UNCHANGED <<restore, wanted, id, active, tabs, open, fresh>> /\ at[f] \in {"todo", "activating"} /\ Next1(f)
  BY DEF Activated, SaveLater, chromeVars, tabVars
<1>2. todo \in [Flows -> Seq(Todos)] /\ todo[f] # <<>>
  BY <1>1 DEF FocusInv, BatchTypeOK
<1>3. PICK q \in Seq(Todos) : q = todo[f]  BY <1>2
<1>4. /\ q # <<>> /\ (HasClose(q) => f[2] = "attach" /\ Len(q) = 1) /\ SwitchIds(q) = Switches(f)
      /\ at[f] = "todo" => Head(q).do # "switch"
  BY <1>2, <1>3 DEF Activated, SaveLater, FocusInv, BatchTypeOK, Switches
<1>5. /\ Tail(q) \in Seq(Todos) /\ SwitchIds(Tail(q)) \subseteq SwitchIds(q)
      /\ Head(q).do # "switch" => SwitchIds(Tail(q)) = SwitchIds(q)
      /\ HasClose(Tail(q)) => HasClose(q) /\ Len(q) # 1
  BY <1>4, Popped
<1>6. PICK r \in Seq(Todos) : r = Tail(q)  BY <1>5
<1>7. PICK p \in {"todo", "idle"} : /\ at' = [at EXCEPT ![f] = p] /\ todo' = [todo EXCEPT ![f] = r]
                                    /\ (p = "idle" <=> r = <<>>)
  BY <1>1, <1>3, <1>6 DEF Next1, Proceed
<1>8. SwitchIds(r) \subseteq Switches(f) /\ ~HasClose(r) /\ (r = <<>> => SwitchIds(r) = {}) /\ p \in FlowPlaces
  BY <1>4, <1>5, <1>6, <1>7, NoItems DEF FlowPlaces
<1>9. \A i \in Switches(f) : at[f] = "todo" /\ i \in Ids => p = "todo" /\ i \in SwitchIds(r)
  BY <1>4, <1>5, <1>6, <1>7, <1>8
<1>10. tabs' \subseteq tabs /\ UNCHANGED <<restore, wanted, id, active, open, fresh>> /\ at[f] # "lost"
       /\ p \notin {"lost", "reserve", "attaching", "setup", "finish", "activating"}
  BY <1>1, <1>7
<1>11. KeepsFocus(f, p, r)  BY <1>7, <1>8, <1>9, <1>10 DEF KeepsFocus
<1> QED  BY <1>8, <1>11, FocusFlow

LEMMA FocusDrop ==
    ASSUME LifeInv, LifeInv', FocusInv, NEW t \in Targets, DropTab(t)
    PROVE  FocusInv'
<1>1. UNCHANGED <<restore, wanted, id, open, fresh>> /\ at[Drop(t)] = "drop" /\ Drop(t) \in Flows
  BY FlowNames DEF DropTab, chromeVars
<1>2. /\ at \in [Flows -> FlowPlaces] /\ todo \in [Flows -> Seq(Todos)] /\ tabs \subseteq Targets
      /\ id \in [Targets -> Nat] /\ restore.id \in Nat /\ "restore" \in FlowPlaces
  BY <1>1 DEF LifeInv, Life, FocusInv, BatchTypeOK, FlowPlaces
<1> DEFINE sv == [do |-> "save", id |-> 0] cr == [do |-> "create", id |-> 0]
<1>3. sv \in Todos /\ sv.do = "save" /\ cr \in Todos /\ cr.do = "create"  BY DEF Todos
<1>4. ASSUME UNCHANGED active, tabs' \subseteq tabs, NEW q \in Seq(Todos), SwitchIds(q) = {}, ~HasClose(q),
             at' = [at EXCEPT ![Drop(t)] = "restore"], todo' = [todo EXCEPT ![Drop(t)] = q]
      PROVE  FocusInv'
  <2>1. \A s \in Targets : Drop(t) # Attach(s)  BY FlowNames
  <2>2. at[Drop(t)] # "todo"  BY <1>1
  <2>3. KeepsFocus(Drop(t), "restore", q)  BY <1>1, <1>2, <1>4, <2>1, <2>2 DEF KeepsFocus
  <2> QED  BY <1>1, <1>2, <2>3, FocusFlow
<1>5. CASE t \notin tabs
  <2>1. /\ UNCHANGED <<tabs, active>>
        /\ at' = [at EXCEPT ![Drop(t)] = "restore"] /\ todo' = [todo EXCEPT ![Drop(t)] = <<>>]
    BY <1>5 DEF DropTab, Proceed
  <2> QED  BY <1>4, <2>1, NoItems
<1>6. CASE t \in tabs /\ active # id[t]
  <2>1. /\ tabs' = tabs \ {t} /\ active' = active /\ at' = [at EXCEPT ![Drop(t)] = "restore"]
        /\ todo' = [todo EXCEPT ![Drop(t)] = <<>> \o <<sv>>]
    BY <1>6 DEF DropTab, Proceed
  <2> HIDE DEF sv
  <2>2. <<sv>> \in Seq(Todos) /\ SwitchIds(<<sv>>) = {} /\ ~HasClose(<<sv>>)  BY <1>3, OneItem
  <2>3. PICK q \in Seq(Todos) : q = <<>> \o <<sv>>  BY <2>2, NoItems, Joined
  <2>4. SwitchIds(q) = {} /\ ~HasClose(q)  BY <2>2, <2>3, NoItems, Joined
  <2>5. todo' = [todo EXCEPT ![Drop(t)] = q] /\ tabs' \subseteq tabs  BY <2>1, <2>3
  <2> QED  BY <1>4, <2>1, <2>4, <2>5
<1>7. CASE t \in tabs /\ active = id[t]
  <2> DEFINE next == MaxId({id[s] : s \in tabs \ {t}})
             head == IF next # 0 THEN Switch(next) ELSE <<cr>>
  <2>1. /\ tabs' = tabs \ {t} /\ at' = [at EXCEPT ![Drop(t)] = "restore"]
        /\ todo' = [todo EXCEPT ![Drop(t)] = head \o <<sv>>]
    BY <1>7 DEF DropTab, Proceed
  <2>2. next \in Nat  BY <1>2, MaxIdIsId
  <2> HIDE DEF next, sv, cr
  <2>3. head \in Seq(Todos) /\ ~HasClose(head)  BY <1>3, <2>2, SwitchTo, OneItem
  <2> HIDE DEF head
  <2>4. <<sv>> \in Seq(Todos) /\ ~HasClose(<<sv>>)  BY <1>3, OneItem
  <2>5. PICK q \in Seq(Todos) : q = head \o <<sv>>  BY <2>3, <2>4, Joined
  <2>6. ~HasClose(q) /\ todo' = [todo EXCEPT ![Drop(t)] = q]  BY <2>1, <2>3, <2>4, <2>5, Joined
  <2>7. /\ todo' \in [Flows -> Seq(Todos)]
        /\ at'[Drop(t)] = "restore" /\ todo'[Drop(t)] = q
        /\ \A g \in Flows : g # Drop(t) => at'[g] = at[g] /\ todo'[g] = todo[g] /\ Switches(g)' = Switches(g)
    BY <1>1, <1>2, <2>1, <2>6, TodoOne
  <2>8. id[t] > 0 /\ ~InBatch  BY <1>2, <1>7 DEF FocusInv, IdsApart, BatchIsStill
  <2>9. (\A s : PlacesOf(s)' = PlacesOf(s)) /\ ~InBatch' /\ Ids' \subseteq Ids
    BY <1>1, <2>1, <2>8 DEF PlacesOf, InBatch, Ids
  <2>10. BatchTypeOK'
    <3>1. \A g \in Flows : /\ at'[g] \in {"todo", "activating"} => todo'[g] # <<>>
                           /\ at'[g] = "activating" => Head(todo'[g]).do = "switch"
                           /\ HasClose(todo'[g]) => g[2] = "attach" /\ Len(todo'[g]) = 1
      BY <2>6, <2>7 DEF FocusInv, BatchTypeOK
    <3>2. \A g \in Flows : HasClose(todo[g])' <=> HasClose(todo'[g])  BY DEF HasClose
    <3> QED  BY <1>1, <1>2, <2>7, <3>1, <3>2 DEF BatchTypeOK
  <2>11. IdsApart' /\ BatchIsStill'  BY <1>1, <2>1, <2>9 DEF FocusInv, IdsApart, BatchIsStill
  <2>12. \A s \in Targets : at'[Attach(s)] = at[Attach(s)]  BY <2>7, FlowNames
  <2>13. BatchWaits'
    <3> SUFFICES ASSUME NEW s \in Targets
                 PROVE  s \notin restore.pending =>
                              /\ at'[Attach(s)] \in {"attaching", "setup", "finish"} => id[s] \notin Ids'
                              /\ at'[Attach(s)] = "reserve" /\ PlacesOf(s) # {} => s \notin open
                              /\ s \in fresh => PlacesOf(s) = {}
      BY <1>1, <2>9 DEF BatchWaits
    <3> QED  BY <2>9, <2>12 DEF FocusInv, BatchWaits
  <2>14. BatchIsFocused'
    <3> SUFFICES ASSUME wanted \in tabs, wanted # t, at'[Attach(wanted)] # "lost" PROVE FALSE
      BY <1>1, <2>1 DEF BatchIsFocused
    <3>1. at[Attach(wanted)] # "lost"  BY <1>2, <2>12
    <3>2. active \in {0, id[wanted]}  BY <2>8, <3>1 DEF FocusInv, BatchIsFocused
    <3>3. id[t] = id[wanted]  BY <1>7, <2>8, <3>2
    <3> QED  BY <1>7, <3>3 DEF FocusInv, IdsApart
  <2> QED  BY <2>10, <2>11, <2>13, <2>14 DEF FocusInv
<1> QED  BY <1>5, <1>6, <1>7

\* finishRestoreTarget
LEMMA FinishOther ==
    ASSUME NEW t, NEW i, t \notin restore.pending
    PROVE  Finish(t, i).activate = 0 /\ Finish(t, i).restore = restore
BY DEF Finish

LEMMA FinishActivates ==
    ASSUME LifeInv, FocusInv, NEW t, NEW i \in Nat
    PROVE  Finish(t, i).activate \in Nat
<1>1. Ids \subseteq Nat /\ restore.id \in Nat  BY DEF LifeInv, Life, FocusInv, BatchTypeOK, Ids
<1>2. MaxId(Ids) \in Nat  BY <1>1, MaxIdIsId
<1> QED  BY <1>1, <1>2 DEF Finish

LEMMA FinishHandles == \A t, i : Finish(t, i).handled <=> t \in restore.pending
BY DEF Finish

\* finishRestoreTarget for a target of the batch, at the end of its attachment or in
\* its drop: f goes on to p, with the list q, which has the switch if there is one.
FinishesBatch(t, f, i, p, q) ==
    /\ t \in restore.pending
    /\ f = Attach(t) => at[f] \in {"fail", "finish"} /\ i = (IF at[f] = "finish" THEN id[t] ELSE 0)
    /\ f = Drop(t) => at[f] = "restore" /\ i = 0
    /\ restore' = Finish(t, i).restore /\ UNCHANGED <<wanted, id, active, tabs, open, fresh>>
    /\ at' = [at EXCEPT ![f] = p] /\ todo' = [todo EXCEPT ![f] = q]
    /\ p = "idle" <=> q = <<>>
    /\ ~HasClose(q)
    /\ \/ SwitchIds(q) = SwitchIds(todo[f]) \cup ({Finish(t, i).activate} \ {0})
       \/ SwitchIds(q) = {Finish(t, i).activate} \ {0}

\* A target of the batch is done: another one is waited for, or the batch is over and
\* its focus is chosen.
LEMMA FocusFinish ==
    ASSUME LifeInv, LifeInv', BatchShape, FocusInv, NEW t \in Targets,
           NEW f \in {Attach(t), Drop(t)}, NEW p \in {"todo", "idle"}, NEW q \in Seq(Todos), NEW i \in Nat,
           FinishesBatch(t, f, i, p, q)
    PROVE  FocusInv'
<1> USE DEF FinishesBatch
<1>1. /\ at \in [Flows -> FlowPlaces] /\ todo \in [Flows -> Seq(Todos)] /\ tabs \subseteq Targets
      /\ id \in [Targets -> Nat] /\ restore.id \in Nat /\ p \in FlowPlaces /\ f \in Flows
  BY FlowNames DEF LifeInv, Life, FocusInv, BatchTypeOK, FlowPlaces
<1>2. /\ todo' \in [Flows -> Seq(Todos)] /\ at'[f] = p /\ todo'[f] = q /\ Switches(f)' = SwitchIds(q)
      /\ \A g \in Flows : g # f => at'[g] = at[g] /\ todo'[g] = todo[g] /\ Switches(g)' = Switches(g)
  BY <1>1, TodoOne
<1>3. InBatch /\ restore.active = wanted  BY DEF InBatch, NoRestore, BatchShape
<1>4. \A s \in Targets : s # t => at'[Attach(s)] = at[Attach(s)]  BY <1>2, FlowNames
<1>5. /\ at'[Attach(t)] \in {"attaching", "setup", "finish"} => t \notin tabs
      /\ at'[Attach(t)] = "reserve" => t \notin open
      /\ t \notin fresh
      /\ t \in tabs => i = id[t] \/ at'[Attach(t)] = "lost"
  <2>1. CASE f = Attach(t)
    <3>1. at'[Attach(t)] = p /\ at[Attach(t)] \in {"fail", "finish"} /\ i = (IF at[f] = "finish" THEN id[t] ELSE 0)
      BY <1>2, <2>1
    <3>2. t \notin fresh /\ (at[Attach(t)] = "fail" => t \notin tabs)  BY <3>1 DEF LifeInv, Life
    <3> QED  BY <2>1, <3>1, <3>2
  <2>2. CASE f = Drop(t)
    <3>1. at'[Attach(t)] = at[Attach(t)] /\ at[Drop(t)] = "restore"  BY <1>2, <2>2, FlowNames
    <3>2. t \notin fresh /\ t \notin open /\ (t \in tabs => at[Attach(t)] = "lost")  BY <3>1 DEF LifeInv, Life
    <3> QED  BY <3>1, <3>2
  <2> QED  BY <2>1, <2>2
<1>6. at'[Attach(t)] \in {"attaching", "setup", "finish"} => id[t] \notin Ids
  <2>1. at'[Attach(t)] \in {"attaching", "setup", "finish"} => at'[Attach(t)] = at[Attach(t)]
    BY <1>2, FlowNames
  <2>2. at'[Attach(t)] \in {"attaching", "setup", "finish"} => id[t] \in PlacesOf(t)
    BY <1>3, <2>1 DEF FocusInv, BatchWaits
  <2> QED  BY <1>3, <1>5, <2>2, PlaceIsOne
<1>7. \A g \in Flows : at'[g] # "activating" /\ \A n \in Switches(g) : n \notin Ids /\ g[2] = "attach" /\ g[1] \notin tabs /\ n \in PlacesOf(g[1])
  BY <1>2, <1>3, PlaceIsOne DEF FocusInv, BatchIsStill
<1>8. \A g \in Flows : /\ at'[g] \in {"todo", "activating"} => todo'[g] # <<>>
                       /\ at'[g] = "activating" => Head(todo'[g]).do = "switch"
                       /\ HasClose(todo'[g]) => g[2] = "attach" /\ Len(todo'[g]) = 1
  BY <1>2, <1>7 DEF FocusInv, BatchTypeOK
<1>9. \A g \in Flows : HasClose(todo[g])' <=> HasClose(todo'[g])  BY DEF HasClose
<1>10. Ids' = Ids /\ Switches(f) = SwitchIds(todo[f])  BY DEF Ids, Switches
<1>11. PICK left, chosen : /\ left = restore.pending \ {t}
                           /\ chosen = IF t = restore.active THEN i ELSE restore.id
  OBVIOUS
<1>12. CASE left # {}
  <2>1. Finish(t, i).activate = 0 /\ restore' = [restore EXCEPT !.pending = left, !.id = chosen]
    BY <1>11, <1>12 DEF Finish
  <2>2. restore'.pending = left /\ restore'.id = chosen /\ restore'.order = restore.order /\ restore'.active = restore.active
    BY <2>1 DEF BatchShape
  <2>3. InBatch' /\ \A s : PlacesOf(s)' = PlacesOf(s)  BY <1>12, <2>2 DEF InBatch, NoRestore, PlacesOf
  <2>4. BatchTypeOK'  BY <1>1, <1>2, <1>8, <1>9, <1>11, <2>2 DEF BatchTypeOK
  <2>5. IdsApart'  BY <1>3, <2>3 DEF FocusInv, IdsApart
  <2>6. BatchWaits'
    <3> SUFFICES ASSUME NEW s \in Targets
                 PROVE  /\ at'[Attach(s)] \in {"attaching", "lost", "setup", "finish"} => id[s] \in PlacesOf(s)
                        /\ s \notin left =>
                              /\ at'[Attach(s)] \in {"attaching", "setup", "finish"} => id[s] \notin Ids
                              /\ at'[Attach(s)] = "reserve" /\ PlacesOf(s) # {} => s \notin open
                              /\ s \in fresh => PlacesOf(s) = {}
      BY <1>10, <2>2, <2>3 DEF BatchWaits
    <3>1. CASE s = t
      <4>1. at'[Attach(t)] \in {"attaching", "lost", "setup", "finish"} => at'[Attach(t)] = at[Attach(t)]
        BY <1>2, FlowNames
      <4>2. at[Attach(t)] \in {"attaching", "lost", "setup", "finish"} => id[t] \in PlacesOf(t)
        BY <1>3 DEF FocusInv, BatchWaits
      <4> QED  BY <1>5, <1>6, <3>1, <4>1, <4>2
    <3>2. CASE s # t
      <4>1. s \notin left => s \notin restore.pending  BY <1>11, <3>2
      <4> QED  BY <1>3, <1>4, <3>2, <4>1 DEF FocusInv, BatchWaits
    <3> QED  BY <3>1, <3>2
  <2>7. BatchIsStill'
    <3>1. active' = 0  BY <1>3 DEF FocusInv, BatchIsStill
    <3>2. \A g \in Flows : Switches(g)' \subseteq Switches(g)  BY <1>2, <1>10, <2>1
    <3>3. ASSUME wanted \in tabs, wanted \notin left
          PROVE  chosen = id[wanted] \/ at'[Attach(wanted)] = "lost"
      <4>1. CASE wanted = t  BY <1>3, <1>5, <1>11, <3>3, <4>1
      <4>2. CASE wanted # t
        <5>1. wanted \notin restore.pending /\ wanted \in Targets  BY <1>1, <1>11, <3>3, <4>2
        <5>2. restore.id = id[wanted] \/ at[Attach(wanted)] = "lost"  BY <1>3, <3>3, <5>1 DEF FocusInv, BatchIsStill
        <5> QED  BY <1>3, <1>4, <1>11, <4>2, <5>1, <5>2
      <4> QED  BY <4>1, <4>2
    <3> QED  BY <1>7, <2>2, <2>3, <3>1, <3>2, <3>3 DEF BatchIsStill
  <2>8. BatchIsFocused'  BY <2>3 DEF BatchIsFocused
  <2> QED  BY <2>4, <2>5, <2>6, <2>7, <2>8 DEF FocusInv
<1>13. CASE left = {}
  <2>1. restore' = NoRestore /\ Finish(t, i).activate = (IF chosen # 0 THEN chosen ELSE MaxId(Ids))
    BY <1>11, <1>13 DEF Finish
  <2>2. ~InBatch' /\ restore'.pending = {} /\ restore'.id = 0 /\ \A s : PlacesOf(s)' = {}
    <3>1. restore'.order = <<>> /\ Len(<<>>) = 0 /\ 1 .. 0 = {}  BY <2>1 DEF NoRestore
    <3> QED  BY <2>1, <3>1 DEF InBatch, NoRestore, PlacesOf
  <2>3. BatchTypeOK'  BY <1>1, <1>2, <1>8, <1>9, <2>2 DEF BatchTypeOK
  <2>4. IdsApart' /\ BatchIsStill'  BY <2>2 DEF FocusInv, IdsApart, BatchIsStill
  <2>5. BatchWaits'
    <3> SUFFICES ASSUME NEW s \in Targets
                 PROVE  at'[Attach(s)] \in {"attaching", "setup", "finish"} => id[s] \notin Ids
      BY <1>10, <2>2 DEF BatchWaits
    <3>1. CASE s = t  BY <1>6, <3>1
    <3>2. CASE s # t
      <4>1. s \notin restore.pending  BY <1>11, <1>13, <3>2
      <4> QED  BY <1>4, <3>2, <4>1 DEF FocusInv, BatchWaits
    <3> QED  BY <3>1, <3>2
  <2>6. BatchIsFocused'
    <3> SUFFICES ASSUME wanted \in tabs, at'[Attach(wanted)] # "lost"
                 PROVE  /\ active \in {0, id[wanted]}
                        /\ \A g \in Flows : Switches(g)' \cap Ids \subseteq {id[wanted]}
                        /\ \E g \in Flows : at'[g] = "todo" /\ id[wanted] \in Switches(g)'
      BY <1>10 DEF BatchIsFocused
    <3>1. active = 0 /\ id[wanted] > 0 /\ id[wanted] \in Nat
      BY <1>1, <1>3 DEF FocusInv, BatchIsStill, IdsApart
    <3>2. chosen = id[wanted]
      <4>1. CASE wanted = t  BY <1>3, <1>5, <1>11, <4>1
      <4>2. CASE wanted # t
        <5>1. wanted \notin restore.pending /\ wanted \in Targets  BY <1>1, <1>11, <1>13, <4>2
        <5>2. restore.id = id[wanted] \/ at[Attach(wanted)] = "lost"  BY <1>3, <5>1 DEF FocusInv, BatchIsStill
        <5> QED  BY <1>3, <1>4, <1>11, <4>2, <5>1, <5>2
      <4> QED  BY <4>1, <4>2
    <3>3. Finish(t, i).activate = id[wanted] /\ id[wanted] \in SwitchIds(q)  BY <2>1, <3>1, <3>2
    <3>4. SwitchIds(q) \subseteq Switches(f) \cup {id[wanted]}  BY <1>10, <3>3
    <3>5. p = "todo"
      <4>1. q # <<>>  BY <3>3, NoItems
      <4> QED  BY <4>1
    <3>6. ASSUME NEW g \in Flows, NEW n \in Switches(g)', n \in Ids PROVE n = id[wanted]
      <4>1. n \notin Switches(g)  BY <1>7, <3>6
      <4>2. CASE g = f  BY <1>2, <3>4, <3>6, <4>1, <4>2
      <4>3. CASE g # f  BY <1>2, <3>6, <4>1, <4>3
      <4> QED  BY <4>2, <4>3
    <3> QED  BY <1>1, <1>2, <3>1, <3>3, <3>5, <3>6
  <2> QED  BY <2>3, <2>4, <2>5, <2>6 DEF FocusInv
<1> QED  BY <1>12, <1>13

LEMMA FocusFinishAttach ==
    ASSUME LifeInv, LifeInv', BatchShape, FocusInv, NEW t \in Targets, FinishAttach(t)
    PROVE  FocusInv'
<1>1. UNCHANGED <<wanted, id, active, tabs, open, fresh>>  BY DEF FinishAttach, chromeVars
<1>2. /\ at[Attach(t)] \in {"fail", "finish"} /\ id[t] \in Nat /\ tabs \subseteq Targets
      /\ Attach(t) \in Flows /\ Attach(t)[1] = t /\ Attach(t)[2] = "attach"
  BY FlowNames DEF FinishAttach, FocusInv, BatchTypeOK, LifeInv, Life
<1>3. PICK i \in Nat : i = IF at[Attach(t)] = "finish" THEN id[t] ELSE 0  BY <1>2
<1>4. PICK act \in Nat : act = Finish(t, i).activate  BY FinishActivates
<1>5. PICK to \in Nat : to = IF at[Attach(t)] = "finish" /\ t \notin restore.pending THEN id[t] ELSE act
  BY <1>2
<1>6. restore' = Finish(t, i).restore /\ Proceed(Attach(t), "todo", Switch(to))
  BY <1>3, <1>4, <1>5, FinishHandles DEF FinishAttach
<1>7. Switch(to) \in Seq(Todos) /\ SwitchIds(Switch(to)) = {to} \ {0} /\ ~HasClose(Switch(to))
  BY SwitchTo
<1>8. PICK q \in Seq(Todos) : q = Switch(to)  BY <1>7
<1>9. PICK p \in {"todo", "idle"} : /\ at' = [at EXCEPT ![Attach(t)] = p] /\ todo' = [todo EXCEPT ![Attach(t)] = q]
                                    /\ (p = "idle" <=> q = <<>>)
  BY <1>6, <1>8 DEF Proceed
<1>10. SwitchIds(q) = {to} \ {0} /\ ~HasClose(q) /\ p \in FlowPlaces  BY <1>7, <1>8 DEF FlowPlaces
<1>11. CASE t \in restore.pending
  <2>1. to = act  BY <1>5, <1>11
  <2>2. SwitchIds(q) = {Finish(t, i).activate} \ {0}  BY <1>4, <1>10, <2>1
  <2>3. Attach(t) \in {Attach(t), Drop(t)} /\ Attach(t) # Drop(t)  BY FlowNames
  <2>4. PICK f \in {Attach(t), Drop(t)} : f = Attach(t)  OBVIOUS
  <2>5. /\ f = Attach(t) => at[f] \in {"fail", "finish"} /\ i = (IF at[f] = "finish" THEN id[t] ELSE 0)
        /\ f = Drop(t) => at[f] = "restore" /\ i = 0
        /\ at' = [at EXCEPT ![f] = p] /\ todo' = [todo EXCEPT ![f] = q]
    BY <1>2, <1>3, <1>9, <2>3, <2>4
  <2>6. restore' = Finish(t, i).restore /\ (p = "idle" <=> q = <<>>) /\ ~HasClose(q)  BY <1>6, <1>9, <1>10
  <2>7. FinishesBatch(t, f, i, p, q)  BY <1>1, <1>11, <2>2, <2>5, <2>6 DEF FinishesBatch
  <2> QED  BY <2>7, FocusFinish
<1>12. CASE t \notin restore.pending
  <2>1. restore' = restore /\ act = 0  BY <1>4, <1>6, <1>12, FinishOther
  <2>2. ASSUME NEW n \in SwitchIds(q)
        PROVE  n \notin Ids /\ (InBatch => t \notin tabs /\ n \in PlacesOf(t))
    <3>1. at[Attach(t)] = "finish" /\ n = id[t]  BY <1>2, <1>5, <1>10, <2>1, <2>2
    <3>2. id[t] \notin Ids  BY <1>12, <3>1 DEF FocusInv, BatchWaits
    <3>3. t \notin tabs  BY <3>2 DEF Ids
    <3>4. InBatch => id[t] \in PlacesOf(t)  BY <3>1 DEF FocusInv, BatchWaits
    <3> QED  BY <3>1, <3>2, <3>3, <3>4
  <2>3. tabs' \subseteq tabs /\ UNCHANGED <<restore, wanted, id, active, open, fresh>>  BY <1>1, <2>1
  <2>4. at[Attach(t)] \notin {"lost", "todo"} /\ p \notin {"lost", "reserve", "attaching", "setup", "finish", "activating"}
    BY <1>2, <1>9
  <2>5. KeepsFocus(Attach(t), p, q)
    <3>1. \A n \in SwitchIds(q) : n \notin Ids /\ (InBatch => t \notin tabs /\ n \in PlacesOf(t))  BY <2>2
    <3> QED  BY <1>2, <1>9, <1>10, <2>3, <2>4, <3>1 DEF KeepsFocus
  <2> QED  BY <1>2, <1>10, <2>5, FocusFlow
<1> QED  BY <1>11, <1>12

LEMMA FocusFinishDrop ==
    ASSUME LifeInv, LifeInv', BatchShape, FocusInv, NEW t \in Targets, FinishDrop(t)
    PROVE  FocusInv'
<1>1. UNCHANGED <<wanted, id, active, tabs, open, fresh>>  BY DEF FinishDrop, chromeVars
<1>2. /\ at[Drop(t)] = "restore" /\ Drop(t) \in Flows /\ Drop(t)[2] = "drop" /\ todo \in [Flows -> Seq(Todos)]
      /\ Drop(t) # Attach(t) /\ \A s \in Targets : Drop(t) # Attach(s)
  BY FlowNames DEF FinishDrop, FocusInv, BatchTypeOK
<1>3. PICK old \in Seq(Todos) : old = todo[Drop(t)]  BY <1>2
<1>4. ~HasClose(old)  BY <1>2, <1>3 DEF FocusInv, BatchTypeOK
<1>5. PICK act \in Nat : act = Finish(t, 0).activate  BY FinishActivates
<1>6. restore' = Finish(t, 0).restore /\ Proceed(Drop(t), "todo", Switch(act) \o old)
  BY <1>3, <1>5 DEF FinishDrop
<1>7. Switch(act) \in Seq(Todos) /\ SwitchIds(Switch(act)) = {act} \ {0} /\ ~HasClose(Switch(act))
  BY SwitchTo
<1>8. PICK q \in Seq(Todos) : q = Switch(act) \o old  BY <1>7, Joined
<1>9. SwitchIds(q) = SwitchIds(old) \cup ({act} \ {0}) /\ ~HasClose(q)  BY <1>4, <1>7, <1>8, Joined
<1>10. PICK p \in {"todo", "idle"} : /\ at' = [at EXCEPT ![Drop(t)] = p] /\ todo' = [todo EXCEPT ![Drop(t)] = q]
                                     /\ (p = "idle" <=> q = <<>>)
  BY <1>6, <1>8 DEF Proceed
<1>11. CASE t \in restore.pending
  <2>1. SwitchIds(q) = SwitchIds(todo[Drop(t)]) \cup ({Finish(t, 0).activate} \ {0})  BY <1>3, <1>5, <1>9
  <2>2. PICK f \in {Attach(t), Drop(t)} : f = Drop(t)  OBVIOUS
  <2>3. PICK i \in Nat : i = 0  OBVIOUS
  <2>4. /\ f = Attach(t) => at[f] \in {"fail", "finish"} /\ i = (IF at[f] = "finish" THEN id[t] ELSE 0)
        /\ f = Drop(t) => at[f] = "restore" /\ i = 0
        /\ at' = [at EXCEPT ![f] = p] /\ todo' = [todo EXCEPT ![f] = q]
    BY <1>2, <1>10, <2>2, <2>3
  <2>5. /\ restore' = Finish(t, i).restore /\ (p = "idle" <=> q = <<>>) /\ ~HasClose(q)
        /\ SwitchIds(q) = SwitchIds(todo[f]) \cup ({Finish(t, i).activate} \ {0})
    BY <1>6, <1>9, <1>10, <2>1, <2>2, <2>3
  <2>6. FinishesBatch(t, f, i, p, q)  BY <1>1, <1>11, <2>4, <2>5 DEF FinishesBatch
  <2> QED  BY <2>6, FocusFinish
<1>12. CASE t \notin restore.pending
  <2>1. restore' = restore /\ act = 0  BY <1>5, <1>6, <1>12, FinishOther
  <2>2. SwitchIds(q) = Switches(Drop(t))  BY <1>3, <1>9, <2>1 DEF Switches
  <2>3. tabs' \subseteq tabs /\ UNCHANGED <<restore, wanted, id, active, open, fresh>>  BY <1>1, <2>1
  <2>4. at[Drop(t)] # "todo" /\ p \in FlowPlaces /\ p # "activating"  BY <1>2, <1>10 DEF FlowPlaces
  <2>5. KeepsFocus(Drop(t), p, q)  BY <1>2, <1>9, <1>10, <2>2, <2>3, <2>4 DEF KeepsFocus
  <2> QED  BY <1>2, <2>4, <2>5, FocusFlow
<1> QED  BY <1>11, <1>12

\* Pages come and go: the flow f, if any, has done with the head of its list.
LEMMA FocusPages ==
    ASSUME LifeInv, LifeInv', FocusInv, UNCHANGED <<restore, wanted, id, active, tabs>>, fresh' \subseteq fresh,
           \A t \in Targets : t \in open' => t \in open \/ t \in fresh,
           todo' \in [Flows -> Seq(Todos)],
           \A f \in Flows :
               /\ Switches(f)' = Switches(f) /\ (HasClose(todo'[f]) => HasClose(todo[f]) /\ Len(todo'[f]) = 1)
               /\ \/ at'[f] = at[f] /\ todo'[f] = todo[f]
                  \/ at[f] = "idle" /\ at'[f] = "drop"
                  \/ at[f] = "idle" /\ at'[f] = "reserve" /\ \E t \in fresh : f = Attach(t)
                  \/ at[f] = "todo" /\ at'[f] = "todo" /\ todo'[f] # <<>>
                  \/ at[f] = "todo" /\ at'[f] = "idle" /\ Switches(f) = {}
    PROVE  FocusInv'
<1>1. BatchTypeOK'
  <2>1. \A f \in Flows : /\ at'[f] \in {"todo", "activating"} => todo'[f] # <<>>
                         /\ at'[f] = "activating" => Head(todo'[f]).do = "switch"
                         /\ HasClose(todo'[f]) => f[2] = "attach" /\ Len(todo'[f]) = 1
    BY ZenonT(60) DEF FocusInv, BatchTypeOK
  <2>2. \A f \in Flows : HasClose(todo[f])' <=> HasClose(todo'[f])  BY DEF HasClose
  <2> QED  BY <2>1, <2>2 DEF FocusInv, BatchTypeOK
<1>2. \A t \in Targets :
         /\ at[Attach(t)] = "lost" => at'[Attach(t)] = "lost"
         /\ at'[Attach(t)] \in {"attaching", "setup", "finish"} => at[Attach(t)] \in {"attaching", "setup", "finish"}
         /\ at'[Attach(t)] = "lost" => at[Attach(t)] = "lost"
         /\ at'[Attach(t)] = "reserve" => at[Attach(t)] = "reserve" \/ t \in fresh
  <2>1. fresh \subseteq Targets  BY DEF LifeInv, Life
  <2> QED  BY <2>1, FlowNames
<1>3. \A f \in Flows : at'[f] = "activating" => at[f] = "activating"  OBVIOUS
<1>4. \A f \in Flows : \A i \in Switches(f) : at[f] = "todo" => at'[f] = "todo" /\ i \in Switches(f)'  OBVIOUS
<1>5. \A f \in Flows : \A i \in Switches(f)' : i \in Switches(f)  OBVIOUS
<1> QED  BY <1>1, <1>2, <1>3, <1>4, <1>5, FocusKept

\* The page that the head of f's list creates or closes, and the flow that this starts.
LEMMA FocusCreateOrClose ==
    ASSUME LifeInv, LifeInv', FocusInv, NEW f \in Flows, CreateOrClose(f)
    PROVE  FocusInv'
<1>1. /\ UNCHANGED <<restore, wanted, id, active, tabs>> /\ at[f] = "todo" /\ todo' = [todo EXCEPT ![f] = Tail(todo[f])]
      /\ Head(todo[f]).do \in {"create", "close"}
  BY DEF CreateOrClose, tabVars
<1>2. /\ at \in [Flows -> FlowPlaces] /\ todo \in [Flows -> Seq(Todos)] /\ todo[f] # <<>> /\ fresh \subseteq Targets
      /\ HasClose(todo[f]) => Len(todo[f]) = 1
  BY <1>1 DEF LifeInv, Life, FocusInv, BatchTypeOK
<1>3. PICK q \in Seq(Todos) : q = todo[f]  BY <1>2
<1>4. /\ q # <<>> /\ Head(q).do # "switch" /\ SwitchIds(q) = Switches(f) /\ (HasClose(q) => Len(q) = 1)
      /\ todo' = [todo EXCEPT ![f] = Tail(q)]
  BY <1>1, <1>2, <1>3 DEF Switches
<1>5. /\ Tail(q) \in Seq(Todos) /\ SwitchIds(Tail(q)) = SwitchIds(q) /\ ~HasClose(Tail(q))
      /\ Tail(q) = <<>> <=> Len(q) = 1
      /\ Head(q).do = "close" => Len(q) = 1
  BY <1>4, Popped
<1>6. PICK r \in Seq(Todos) : r = Tail(q)  BY <1>5
<1>7. /\ todo' \in [Flows -> Seq(Todos)] /\ todo'[f] = r /\ Switches(f)' = SwitchIds(r)
      /\ \A g \in Flows : g # f => todo'[g] = todo[g] /\ Switches(g)' = Switches(g)
  BY <1>2, <1>4, <1>6 DEF Switches
<1>8. /\ SwitchIds(r) = Switches(f) /\ ~HasClose(r) /\ (r = <<>> <=> Len(q) = 1) /\ (r = <<>> => SwitchIds(r) = {})
  BY <1>4, <1>5, <1>6, NoItems
<1>9. PICK p \in {"idle", "todo"} :
         /\ p = "idle" <=> r = <<>>
         /\ \/ \E t \in fresh : /\ at' = [[at EXCEPT ![f] = p] EXCEPT ![Attach(t)] = "reserve"]
                                /\ open' = open \cup {t} /\ fresh' = fresh \ {t}
            \/ /\ at' = IF f[1] \in open THEN [[at EXCEPT ![f] = p] EXCEPT ![Drop(f[1])] = "drop"] ELSE [at EXCEPT ![f] = p]
               /\ open' = open \ {f[1]} /\ fresh' = fresh
  <2>1. CASE Head(todo[f]).do = "create"
    <3>1. PICK t \in fresh : t = CHOOSE s \in fresh : TRUE  BY <2>1 DEF CreateOrClose
    <3>2. Creates(t, "blank", [at EXCEPT ![f] = IF Len(q) = 1 THEN "idle" ELSE "todo"])
      BY <1>3, <2>1, <3>1 DEF CreateOrClose
    <3> QED  BY <1>8, <3>2 DEF Creates
  <2>2. CASE Head(todo[f]).do = "close"
    <3>1. Closes(f[1], [at EXCEPT ![f] = "idle"]) /\ UNCHANGED fresh  BY <2>2 DEF CreateOrClose
    <3>2. r = <<>>  BY <1>3, <1>5, <1>8, <2>2
    <3> QED  BY <3>1, <3>2 DEF Closes
  <2> QED  BY <1>1, <2>1, <2>2
<1>10. fresh' \subseteq fresh /\ \A t \in Targets : t \in open' => t \in open \/ t \in fresh  BY <1>9
<1> DEFINE GoesOn(g) == \/ at'[g] = at[g] /\ todo'[g] = todo[g]
                        \/ at[g] = "idle" /\ at'[g] = "drop"
                        \/ at[g] = "idle" /\ at'[g] = "reserve" /\ \E t \in fresh : g = Attach(t)
                        \/ at[g] = "todo" /\ at'[g] = "todo" /\ todo'[g] # <<>>
                        \/ at[g] = "todo" /\ at'[g] = "idle" /\ Switches(g) = {}
<1>11. ASSUME NEW g \in Flows PROVE  GoesOn(g)
  <2>1. \A t \in fresh : at[Attach(t)] = "idle" /\ Attach(t) \in Flows  BY <1>2, FlowNames DEF LifeInv, Life
  <2>2. ASSUME f[1] \in open PROVE Drop(f[1]) \notin Flows \/ at[Drop(f[1])] = "idle"
    <3>1. CASE f = Command  BY <3>1, FlowNames
    <3>2. CASE f # Command
      <4>1. f[1] \in Targets  BY <3>2, FlowNames
      <4> QED  BY <2>2, <4>1 DEF LifeInv, Life
    <3> QED  BY <3>1, <3>2
  <2>3. PICK a \in [Flows -> FlowPlaces] : a = [at EXCEPT ![f] = p]  BY <1>2 DEF FlowPlaces
  <2>4. a[f] = p /\ \A h \in Flows : h # f => a[h] = at[h]  BY <1>2, <2>3
  <2>5. CASE at' = a
    <3>1. CASE g = f  BY <1>1, <1>7, <1>8, <1>9, <2>4, <2>5, <3>1
    <3>2. CASE g # f  BY <1>7, <2>4, <2>5, <3>2
    <3> QED  BY <3>1, <3>2
  <2>6. ASSUME NEW h, NEW v, at' = [a EXCEPT ![h] = v], h \in Flows => at[h] = "idle",
               v = "drop" \/ (v = "reserve" /\ \E t \in fresh : h = Attach(t))
        PROVE  GoesOn(g)
    <3>1. at'[g] = IF g = h THEN v ELSE a[g]  BY <2>6
    <3>2. CASE g = h  BY <1>1, <2>6, <3>1, <3>2
    <3>3. CASE g # h /\ g = f  BY <1>1, <1>7, <1>8, <1>9, <2>4, <3>1, <3>3
    <3>4. CASE g # h /\ g # f  BY <1>7, <2>4, <3>1, <3>4
    <3> QED  BY <3>2, <3>3, <3>4
  <2>7. \/ \E t \in fresh : at' = [a EXCEPT ![Attach(t)] = "reserve"]
        \/ f[1] \in open /\ at' = [a EXCEPT ![Drop(f[1])] = "drop"]
        \/ at' = a
    BY <1>9, <2>3
  <2>8. ASSUME NEW t \in fresh, at' = [a EXCEPT ![Attach(t)] = "reserve"]
        PROVE  GoesOn(g)
    BY <2>1, <2>6, <2>8
  <2> QED  BY <2>2, <2>5, <2>6, <2>7, <2>8
<1>12. \A g \in Flows : Switches(g)' = Switches(g) /\ (HasClose(todo'[g]) => HasClose(todo[g]) /\ Len(todo'[g]) = 1)
  BY <1>7, <1>8 DEF FocusInv, BatchTypeOK
<1> QED  BY <1>1, <1>7, <1>10, <1>11, <1>12, FocusPages

\* What pages do by themselves.  A command ends the claim.
LEMMA FocusPageStep ==
    ASSUME LifeInv, LifeInv', FocusInv, NEW t \in Targets, PageStep(t), ~meddled'
    PROVE  FocusInv'
<1>1. UNCHANGED <<restore, wanted, id, active, tabs>>
  BY DEF PageStep, Navigate, Popup, PageCloses, TargetInfoChanged, TabNavigated, Select, CloseTab, NewTab,
         Commanded, tabVars
<1>2. ~(Select(t) \/ CloseTab(t) \/ NewTab(t))  BY DEF Select, CloseTab, NewTab, Commanded
<1>3. todo' = todo /\ \/ UNCHANGED <<at, open, fresh>>
                      \/ t \in fresh /\ at' = [at EXCEPT ![Attach(t)] = "reserve"] /\ open' = open \cup {t} /\ fresh' = fresh \ {t}
                      \/ t \in open /\ at' = [at EXCEPT ![Drop(t)] = "drop"] /\ open' = open \ {t} /\ UNCHANGED fresh
  BY <1>2 DEF PageStep, Navigate, Popup, PageCloses, TargetInfoChanged, TabNavigated, Creates, Closes
<1>4. /\ todo \in [Flows -> Seq(Todos)] /\ at \in [Flows -> FlowPlaces] /\ Attach(t) \in Flows /\ Drop(t) \in Flows
      /\ t \in fresh => at[Attach(t)] = "idle"
      /\ t \in open => at[Drop(t)] = "idle"
  BY FlowNames DEF LifeInv, Life, FocusInv, BatchTypeOK
<1>5. fresh' \subseteq fresh /\ (\A s \in Targets : s \in open' => s \in open \/ s \in fresh)  BY <1>3
<1>6. \A f \in Flows : Switches(f)' = Switches(f) /\ (HasClose(todo'[f]) => HasClose(todo[f]) /\ Len(todo'[f]) = 1)
  BY <1>3 DEF Switches, FocusInv, BatchTypeOK
<1>7. \A f \in Flows : \/ at'[f] = at[f] /\ todo'[f] = todo[f]
                       \/ at[f] = "idle" /\ at'[f] = "drop"
                       \/ at[f] = "idle" /\ at'[f] = "reserve" /\ \E s \in fresh : f = Attach(s)
  BY <1>3, <1>4
<1> QED  BY <1>1, <1>3, <1>4, <1>5, <1>6, <1>7, FocusPages

\* The batch begins, or there is none.
LEMMA FocusStart ==
    ASSUME LifeInv, LifeInv', StartsEmpty, BatchShape, Start
    PROVE  BatchShape' /\ (FocusInv => FocusInv')
<1>1. mode = "start" /\ Discover /\ UNCHANGED <<tabs, id, active, todo>>
  BY DEF Start, StartNative, StartCreated, StartExact
<1>2. tabs = {} /\ active = 0 /\ restore = NoRestore /\ \A f \in Flows : todo[f] = <<>>
  BY <1>1 DEF StartsEmpty, LifeInv, Life
<1>3. /\ \A t \in Targets : at'[Attach(t)] \in {"reserve", "idle"}
      /\ \A f \in Flows : at'[f] \in {"reserve", "idle"}
  BY <1>1, FlowNames DEF Discover
<1>4. BatchShape' /\ restore'.id = 0 /\ \A t : PlacesOf(t)' # {} => t \in restore'.pending
  <2>1. CASE UNCHANGED <<restore, wanted>>
    <3>1. restore'.order = <<>> /\ restore'.id = 0 /\ Len(<<>>) = 0 /\ 1 .. 0 = {}  BY <1>2, <2>1 DEF NoRestore
    <3>2. \A t : PlacesOf(t)' = {}  BY <3>1 DEF PlacesOf
    <3> QED  BY <2>1, <3>1, <3>2 DEF BatchShape, InBatch
  <2>2. ASSUME NEW order, NEW target, Begin(order, target)
        PROVE  BatchShape' /\ restore'.id = 0 /\ \A t : PlacesOf(t)' # {} => t \in restore'.pending
    <3>1. /\ restore' = [pending |-> Listed(order), order |-> order, active |-> target, id |-> 0] /\ wanted' = target
      BY <2>2 DEF Begin
    <3>2. \A t : PlacesOf(t)' = {i \in 1 .. Len(order) : order[i] = t}  BY <3>1 DEF PlacesOf
    <3>3. \A t : PlacesOf(t)' # {} => t \in Listed(order)  BY <3>2 DEF Listed
    <3> QED  BY <3>1, <3>3 DEF BatchShape
  <2>3. \/ UNCHANGED <<restore, wanted>>
        \/ \E order, target : Begin(order, target)
    <3>1. CASE StartNative  BY <3>1 DEF StartNative
    <3>2. ASSUME NEW made, Recreate(made) PROVE \E order, target : Begin(order, target)  BY <3>2 DEF Recreate
    <3>3. CASE StartCreated  BY <3>2, <3>3 DEF StartCreated
    <3>4. CASE StartExact  BY <3>2, <3>4 DEF StartExact
    <3> QED  BY <3>1, <3>3, <3>4 DEF Start
  <2> QED  BY <2>1, <2>2, <2>3
<1>5. ASSUME FocusInv PROVE FocusInv'
  <2>1. id \in [Targets -> Nat] /\ todo \in [Flows -> Seq(Todos)]  BY <1>5 DEF FocusInv, BatchTypeOK
  <2>2. restore'.id \in Nat  BY <1>4
  <2>3. \A f \in Flows : Switches(f)' = {} /\ ~HasClose(todo'[f])  BY <1>1, <1>2, NoItems DEF Switches
  <2>4. \A f \in Flows : HasClose(todo[f])' <=> HasClose(todo'[f])  BY DEF HasClose
  <2>5. BatchTypeOK'  BY <1>1, <1>3, <2>1, <2>2, <2>3, <2>4 DEF BatchTypeOK
  <2>6. tabs' = {} /\ Ids' = {} /\ active' = 0  BY <1>1, <1>2 DEF Ids
  <2>7. IdsApart' /\ BatchIsFocused'  BY <2>6 DEF IdsApart, BatchIsFocused
  <2>8. BatchIsStill'  BY <1>3, <2>3, <2>6 DEF BatchIsStill
  <2>9. BatchWaits'
    <3>1. \A t \in Targets : t \in open' => t \notin fresh'  BY DEF LifeInv, Life
    <3>2. ASSUME NEW t \in Targets, t \notin restore'.pending PROVE PlacesOf(t)' = {}  BY <1>4, <3>2
    <3> QED  BY <1>3, <2>6, <3>2 DEF BatchWaits
  <2> QED  BY <2>5, <2>7, <2>8, <2>9 DEF FocusInv
<1> QED  BY <1>4, <1>5

\* The batch as a whole: what is true of it always, and FocusInv until something else
\* comes for the focus.
LEMMA BatchStays ==
    ASSUME BatchInv, UNCHANGED <<tabs, id, active, restore, at, todo, open, fresh, wanted, meddled>>
    PROVE  BatchInv'
<1>1. BatchShape'  BY DEF BatchInv, BatchShape, InBatch, PlacesOf
<1>2. ASSUME BatchTypeOK PROVE BatchTypeOK'  BY <1>2 DEF BatchTypeOK, HasClose
<1>3. ASSUME IdsApart PROVE IdsApart'  BY <1>3 DEF IdsApart, InBatch, PlacesOf
<1>4. ASSUME BatchWaits PROVE BatchWaits'  BY <1>4 DEF BatchWaits, InBatch, PlacesOf, Ids
<1>5. ASSUME BatchIsStill PROVE BatchIsStill'  BY <1>5 DEF BatchIsStill, InBatch, PlacesOf, Switches, SwitchIds
<1>6. ASSUME BatchIsFocused PROVE BatchIsFocused'
  <2>1. (InBatch' <=> InBatch) /\ Ids' = Ids /\ \A f \in Flows : Switches(f)' = Switches(f)
    BY DEF InBatch, Ids, Switches, SwitchIds
  <2> QED  BY <1>6, <2>1 DEF BatchIsFocused
<1>7. ~meddled' => ~meddled  BY Zenon
<1> QED  BY <1>1, <1>2, <1>3, <1>4, <1>5, <1>6, <1>7 DEF BatchInv

LEMMA ShapeFlows ==
    ASSUME BatchShape, FlowStep
    PROVE  BatchShape'
<1>1. ASSUME UNCHANGED <<restore, wanted>> PROVE BatchShape'  BY <1>1 DEF BatchShape, InBatch, PlacesOf
<1>2. ASSUME NEW t, NEW i, restore' = Finish(t, i).restore, UNCHANGED wanted PROVE BatchShape'
  <2>1. CASE restore' = restore  BY <1>1, <1>2, <2>1
  <2>2. CASE restore' = NoRestore
    <3>1. restore'.order = <<>> /\ Len(<<>>) = 0 /\ 1 .. 0 = {}  BY <2>2 DEF NoRestore
    <3>2. \A s : PlacesOf(s)' = {}  BY <3>1 DEF PlacesOf
    <3> QED  BY <2>2, <3>2 DEF BatchShape, InBatch, NoRestore
  <2>3. CASE restore.pending \ {t} # {} /\ t \in restore.pending
    <3>1. PICK left, chosen : left # {} /\ restore' = [restore EXCEPT !.pending = left, !.id = chosen]
      BY <1>2, <2>3 DEF Finish
    <3>2. restore' = [pending |-> left, order |-> restore.order, active |-> restore.active, id |-> chosen]
      BY <3>1 DEF BatchShape
    <3>3. restore # NoRestore  BY <2>3 DEF NoRestore
    <3> QED  BY <1>2, <3>1, <3>2, <3>3 DEF BatchShape, InBatch
  <2> QED  BY <1>2, <2>1, <2>2, <2>3 DEF Finish
<1>3. ASSUME NEW t \in Targets, FinishAttach(t) \/ FinishDrop(t) PROVE BatchShape'
  <2>1. UNCHANGED wanted /\ \E i : restore' = Finish(t, i).restore  BY <1>3 DEF FinishAttach, FinishDrop
  <2> QED  BY <1>2, <2>1
<1>4. ASSUME NEW t \in Targets, Reserve(t) \/ Attached(t) \/ SetUp(t) \/ DropTab(t) PROVE BatchShape'
  BY <1>1, <1>4 DEF Reserve, Attached, SetUp, DropTab, tabVars
<1>5. ASSUME NEW f \in Flows, SwitchActive(f) \/ Activated(f) \/ SaveLater(f) \/ CreateOrClose(f) PROVE BatchShape'
  BY <1>1, <1>5 DEF SwitchActive, Activated, SaveLater, CreateOrClose, tabVars
<1> QED  BY <1>3, <1>4, <1>5 DEF FlowStep

LEMMA FocusFlows ==
    ASSUME LifeInv, LifeInv', BatchShape, ~meddled => FocusInv, FlowStep, ~meddled'
    PROVE  FocusInv'
<1>1. ASSUME NEW t \in Targets, Reserve(t) PROVE FocusInv'
  <2>1. ~meddled /\ PlacesOf(t) # {}  BY <1>1, Zenon DEF Reserve
  <2> QED  BY <1>1, <2>1, FocusReserve
<1>2. ASSUME NEW t \in Targets, Attached(t) \/ SetUp(t) \/ FinishAttach(t) \/ DropTab(t) \/ FinishDrop(t)
      PROVE  FocusInv'
  <2>1. FocusInv  BY <1>2 DEF Attached, SetUp, FinishAttach, DropTab, FinishDrop
  <2> QED  BY <1>2, <2>1, FocusAttached, FocusFinishAttach, FocusDrop, FocusFinishDrop
<1>3. ASSUME NEW f \in Flows, SwitchActive(f) \/ Activated(f) \/ SaveLater(f) \/ CreateOrClose(f)
      PROVE  FocusInv'
  <2>1. FocusInv  BY <1>3 DEF SwitchActive, Activated, SaveLater, CreateOrClose
  <2> QED  BY <1>3, <2>1, FocusSwitch, FocusPop, FocusCreateOrClose
<1> QED  BY <1>1, <1>2, <1>3 DEF FlowStep

LEMMA BatchReset ==
    ASSUME tabs' = {}, id' = [t \in Targets |-> 0], active' = 0, restore' = NoRestore,
           at' = [f \in Flows |-> "idle"], todo' = [f \in Flows |-> <<>>]
    PROVE  BatchShape' /\ FocusInv'
<1>1. ~InBatch' /\ restore'.pending = {} /\ restore'.id = 0 /\ \A t : PlacesOf(t)' = {}
  <2>1. restore'.order = <<>> /\ Len(<<>>) = 0 /\ 1 .. 0 = {}  BY DEF NoRestore
  <2> QED  BY <2>1 DEF InBatch, NoRestore, PlacesOf
<1>2. BatchShape'  BY <1>1 DEF BatchShape, NoRestore
<1>3. todo' \in [Flows -> Seq(Todos)] /\ \A f \in Flows : at'[f] = "idle" /\ ~HasClose(todo'[f])  BY NoItems
<1>4. \A f \in Flows : HasClose(todo[f])' <=> HasClose(todo'[f])  BY DEF HasClose
<1>5. BatchTypeOK'  BY <1>1, <1>3, <1>4 DEF BatchTypeOK
<1>6. IdsApart' /\ BatchIsStill' /\ BatchIsFocused'  BY <1>1 DEF IdsApart, BatchIsStill, BatchIsFocused
<1>7. BatchWaits'  BY <1>1, <1>3, FlowNames DEF BatchWaits
<1> QED  BY <1>2, <1>5, <1>6, <1>7 DEF FocusInv

----------------------------------------------------------------------------
\* The tabs and their session

LEMMA LifeIsParts ==
    /\ TabInv => LifeInv
    /\ LifeInv => LivesOnce /\ AboutToGo /\ fresh \subseteq Targets /\ tabs \subseteq Targets
                    /\ at \in [Flows -> FlowPlaces]
BY DEF TabInv, TabTypeOK, LifeInv, Life, LivesOnce, AboutToGo

LEMMA LifeIsPartsNext ==
    LifeInv' => /\ LivesOnce' /\ AboutToGo' /\ fresh' \subseteq Targets /\ tabs' \subseteq Targets
                /\ at' \in [Flows -> FlowPlaces]
BY DEF LifeInv, Life, LivesOnce, AboutToGo

LEMMA TabStarts == Init => TabInv
<1> SUFFICES ASSUME Init PROVE TabInv  OBVIOUS
<1>1. /\ mode = "start" /\ tabs = {} /\ attached = {} /\ active = 0 /\ restore = NoRestore
      /\ fresh \cap open = {} /\ fresh \subseteq Targets
      /\ id = [t \in Targets |-> 0] /\ at = [f \in Flows |-> "idle"] /\ todo = [f \in Flows |-> <<>>]
      /\ save = [w \in {"timer", "flush"} |-> "idle"]
      /\ setup = [shows |-> "none", polled |-> "none", snapshot |-> "none"]
  BY DEF Init
<1>2. armed = FALSE /\ closed = FALSE /\ meddled = FALSE  BY Zenon DEF Init
<1>3. TabTypeOK
  <2>1. armed \in BOOLEAN /\ closed \in BOOLEAN /\ meddled \in BOOLEAN  BY <1>2, Zenon
  <2>2. at \in [Flows -> FlowPlaces]  BY <1>1 DEF FlowPlaces
  <2>3. setup \in [shows : SetupStates, polled : SetupStates, snapshot : SetupStates]  BY <1>1 DEF SetupStates
  <2> QED  BY <1>1, <2>1, <2>2, <2>3 DEF TabTypeOK
<1>4. FlushIsLast /\ FlushedStands /\ SetupSaved  BY <1>1, <1>2 DEF FlushIsLast, FlushedStands, SetupSaved
<1>5. LivesOnce /\ AboutToGo /\ StartsEmpty  BY <1>1, FlowNames DEF LivesOnce, AboutToGo, StartsEmpty
<1>6. ~InBatch /\ restore.pending = {} /\ restore.id = 0 /\ \A t : PlacesOf(t) = {}
  <2>1. restore.order = <<>> /\ Len(<<>>) = 0 /\ 1 .. 0 = {}  BY <1>1 DEF NoRestore
  <2> QED  BY <1>1, <2>1 DEF InBatch, NoRestore, PlacesOf
<1>7. BatchShape  BY <1>1, <1>6 DEF BatchShape, NoRestore
<1>8. BatchTypeOK
  <2>1. todo \in [Flows -> Seq(Todos)] /\ \A f \in Flows : at[f] = "idle" /\ ~HasClose(todo[f])  BY <1>1, NoItems
  <2> QED  BY <1>1, <1>6, <2>1 DEF BatchTypeOK
<1>9. IdsApart /\ BatchIsStill /\ BatchIsFocused  BY <1>1, <1>6 DEF IdsApart, BatchIsStill, BatchIsFocused
<1>10. BatchWaits  BY <1>1, <1>6, FlowNames DEF BatchWaits
<1> QED  BY <1>3, <1>4, <1>5, <1>7, <1>8, <1>9, <1>10 DEF TabInv, BatchInv

\* What a step must keep, taken apart.
LEMMA TabNext ==
    ASSUME mode' \in {"start", "run", "closing", "setup", "down"}, SavesInv', LifeInv', BatchInv', StartsEmpty',
           armed' \in BOOLEAN, closed' \in BOOLEAN, meddled' \in BOOLEAN,
           save' \in [{"timer", "flush"} -> {"idle", "write", "done", "empty"}],
           setup' \in [shows : SetupStates, polled : SetupStates, snapshot : SetupStates]
    PROVE  TabInv'
<1>1. TabTypeOK'  BY LifeIsPartsNext DEF TabTypeOK
<1> QED  BY <1>1, LifeIsPartsNext DEF TabInv, SavesInv

\* One step per kind of action: what flows do, what pages and users do, the start, the
\* saves and the setup browser.
LEMMA TabStep == TabInv /\ [Next]_vars => TabInv'
<1> SUFFICES ASSUME TabInv, [Next]_vars PROVE TabInv'  OBVIOUS
<1>1. /\ LifeInv /\ TabTypeOK /\ SavesInv /\ BatchShape /\ StartsEmpty /\ BatchInv
      /\ save \in [{"timer", "flush"} -> {"idle", "write", "done", "empty"}]
      /\ setup \in [shows : SetupStates, polled : SetupStates, snapshot : SetupStates]
      /\ mode \in {"start", "run", "closing", "setup", "down"}
  BY LifeIsParts DEF TabInv, SavesInv, BatchInv, TabTypeOK
<1>2. armed \in BOOLEAN /\ closed \in BOOLEAN /\ meddled \in BOOLEAN  BY DEF TabInv, TabTypeOK
<1>3. ~meddled => FocusInv  BY DEF TabInv, BatchInv, FocusInv
<1>4. ASSUME BatchShape', ~meddled' => FocusInv' PROVE BatchInv'  BY <1>4 DEF BatchInv, FocusInv
<1>5. CASE FlowStep
  <2>1. UNCHANGED <<mode, closed, save, file, setup>> /\ (armed' = armed \/ armed' = ~closed)
    BY <1>5, FlowsOnlySchedule
  <2>2. SavesInv' /\ armed' \in BOOLEAN /\ closed' \in BOOLEAN  BY <1>1, <2>1, ScheduleKeepsSaves
  <2>3. LifeInv'
    BY <1>1, <1>5, LifeReserve, LifeAttached, LifeDrop, LifeFlows, LifeCreateOrClose DEF FlowStep
  <2>4. BatchInv'  BY <1>1, <1>3, <1>4, <1>5, <2>3, ShapeFlows, FocusFlows
  <2>5. meddled' \in BOOLEAN
    <3>1. meddled' = meddled \/ \E t \in Targets : Reserve(t)
      BY <1>5 DEF FlowStep, Attached, SetUp, FinishAttach, DropTab, FinishDrop, SwitchActive, Activated, SaveLater,
                  CreateOrClose
    <3>2. ASSUME NEW t \in Targets, Reserve(t) PROVE meddled' \in BOOLEAN  BY <1>2, <3>2, Zenon DEF Reserve
    <3> QED  BY <1>2, <3>1, <3>2
  <2>6. StartsEmpty'  BY <1>5, <2>1 DEF FlowStep, Live, StartsEmpty
  <2> QED  BY <1>1, <2>1, <2>2, <2>3, <2>4, <2>5, <2>6, TabNext
<1>6. ASSUME NEW t \in Targets, PageStep(t) PROVE TabInv'
  <2>1. UNCHANGED <<mode, closed, save, file, setup>> /\ (armed' = armed \/ armed' = ~closed)
    BY <1>6, FlowsOnlySchedule
  <2>2. SavesInv' /\ armed' \in BOOLEAN /\ closed' \in BOOLEAN  BY <1>1, <2>1, ScheduleKeepsSaves
  <2>3. LifeInv'  BY <1>1, <1>6, LifePages
  <2>4. /\ UNCHANGED <<restore, wanted>> /\ Live /\ meddled' \in BOOLEAN
        /\ ~meddled' => ~meddled
    <3>1. CASE (\E u \in Urls \ {"blank"} : Navigate(t, u)) \/ Popup(t) \/ PageCloses(t) \/ TargetInfoChanged(t) \/ TabNavigated(t)
      BY <1>2, <3>1 DEF Navigate, Popup, PageCloses, TargetInfoChanged, TabNavigated, Live, tabVars
    <3>2. CASE Select(t) \/ CloseTab(t) \/ NewTab(t)
      <4>1. meddled' = TRUE  BY <3>2, Zenon DEF Select, CloseTab, NewTab, Commanded
      <4>2. UNCHANGED <<restore, wanted>> /\ Live  BY <3>2 DEF Select, CloseTab, NewTab, Commanded, Live, tabVars
      <4> QED  BY <4>1, <4>2, Zenon
    <3> QED  BY <1>6, <3>1, <3>2 DEF PageStep
  <2>5. BatchShape'  BY <1>1, <2>4 DEF BatchShape, InBatch, PlacesOf
  <2>6. BatchInv'  BY <1>1, <1>3, <1>4, <1>6, <2>3, <2>4, <2>5, FocusPageStep
  <2>7. StartsEmpty'  BY <2>1, <2>4 DEF Live, StartsEmpty
  <2> QED  BY <1>1, <2>1, <2>2, <2>3, <2>4, <2>6, <2>7, TabNext
<1>7. CASE Start
  <2>1. UNCHANGED <<closed, save, file, setup, armed, meddled>> /\ mode = "start" /\ mode' = "run"
    BY <1>7 DEF Start, StartNative, StartCreated, StartExact
  <2>2. SavesInv' /\ armed' \in BOOLEAN /\ closed' \in BOOLEAN  BY <1>1, <2>1, ScheduleKeepsSaves
  <2>3. LifeInv'  BY <1>1, <1>7, LifeStart
  <2>4. meddled' = meddled /\ BatchShape' /\ (FocusInv => FocusInv')  BY <1>1, <1>7, <2>1, <2>3, FocusStart
  <2>5. BatchInv'  BY <1>3, <1>4, <2>4
  <2>6. StartsEmpty'  BY <2>1 DEF StartsEmpty
  <2>7. meddled' \in BOOLEAN  BY <1>2, <2>4
  <2> QED  BY <1>1, <2>1, <2>2, <2>3, <2>5, <2>6, <2>7, TabNext
<1>8. ASSUME Live, RunScheduled \/ Flush \/ \E w \in DOMAIN save : WriteSession(w) PROVE TabInv'
  <2>1. /\ UNCHANGED <<open, fresh, tabs, id, attached, active, restore, at, todo, setup, wanted, meddled>>
    BY <1>8 DEF RunScheduled, Flush, WriteSession, chromeVars, tabVars
  <2>2. /\ SavesInv' /\ mode' \in {"run", "closing", "down"} /\ armed' \in BOOLEAN /\ closed' \in BOOLEAN
        /\ save' \in [{"timer", "flush"} -> {"idle", "write", "done", "empty"}]
    <3>1. CASE RunScheduled
      <4>1. mode' \in {"run", "closing", "down"}  BY <1>8, <3>1 DEF RunScheduled, Live
      <4> QED  BY <1>1, <3>1, <4>1, RunScheduledInv
    <3>2. CASE Flush  BY <1>1, <3>2, FlushInv
    <3>3. ASSUME NEW w \in DOMAIN save, WriteSession(w)
          PROVE  /\ SavesInv' /\ mode' \in {"run", "closing", "down"} /\ armed' \in BOOLEAN /\ closed' \in BOOLEAN
                 /\ save' \in [{"timer", "flush"} -> {"idle", "write", "done", "empty"}]
      BY <1>1, <1>8, <3>3, WriteInv
    <3> QED  BY <1>8, <3>1, <3>2, <3>3
  <2>3. LifeInv'  BY <1>1, <2>1, <2>2, LifeStays
  <2>4. BatchInv'  BY <1>1, <2>1, BatchStays
  <2>5. StartsEmpty' /\ mode' \in {"start", "run", "closing", "setup", "down"}  BY <2>2 DEF StartsEmpty
  <2>6. meddled' \in BOOLEAN  BY <1>2, <2>1
  <2> QED  BY <1>1, <2>1, <2>2, <2>3, <2>4, <2>5, <2>6, TabNext
<1>9. CASE StartSetup
  <2>1. LifeInv'  BY <1>9, LifeStartSetup
  <2>2. BatchShape' /\ FocusInv'  BY <1>9, BatchReset DEF StartSetup
  <2>3. meddled' \in BOOLEAN  BY <1>9, Zenon DEF StartSetup
  <2>4. mode' = "setup" /\ StartsEmpty'  BY <1>9 DEF StartSetup, StartsEmpty
  <2>5. BatchInv'  BY <1>4, <2>2
  <2>6. /\ SavesInv' /\ UNCHANGED <<armed, closed>>
        /\ save' \in [{"timer", "flush"} -> {"idle", "write", "done", "empty"}]
        /\ setup' \in [shows : SetupStates, polled : SetupStates, snapshot : SetupStates]
    BY <1>1, <1>9, SetupInv
  <2>7. armed' \in BOOLEAN /\ closed' \in BOOLEAN /\ mode' \in {"start", "run", "closing", "setup", "down"}
    BY <1>2, <2>4, <2>6
  <2> QED  BY <2>1, <2>3, <2>4, <2>5, <2>6, <2>7, TabNext
<1>10. CASE SetupStep
  <2>1. /\ UNCHANGED <<open, fresh, tabs, id, attached, active, restore, at, todo, wanted, meddled>>
        /\ mode = "setup" /\ mode' \in {"setup", "down"}
    BY <1>10 DEF SetupStep, SetupChanges, Poll, PollWrites, PollFails, CloseSetup, SetupOnly, chromeVars, tabVars
  <2>2. LifeInv'  BY <1>1, <2>1, LifeStays
  <2>3. BatchInv'  BY <1>1, <2>1, BatchStays
  <2>4. StartsEmpty'  BY <2>1 DEF StartsEmpty
  <2>5. meddled' \in BOOLEAN  BY <1>2, <2>1
  <2>6. /\ SavesInv' /\ UNCHANGED <<armed, closed>>
        /\ save' \in [{"timer", "flush"} -> {"idle", "write", "done", "empty"}]
        /\ setup' \in [shows : SetupStates, polled : SetupStates, snapshot : SetupStates]
    BY <1>1, <1>10, SetupInv
  <2>7. armed' \in BOOLEAN /\ closed' \in BOOLEAN /\ mode' \in {"start", "run", "closing", "setup", "down"}
    BY <1>2, <2>1, <2>6
  <2> QED  BY <2>2, <2>3, <2>4, <2>5, <2>6, <2>7, TabNext
<1>11. CASE UNCHANGED vars
  <2>1. UNCHANGED <<mode, open, fresh, tabs, id, attached, active, restore, at, todo, armed, closed, save, file, setup, wanted, meddled>>
    BY <1>11 DEF vars, chromeVars, tabVars, saveVars
  <2>2. LifeInv'  BY <1>1, <2>1, LifeStays
  <2>3. BatchInv'  BY <1>1, <2>1, BatchStays
  <2>4. StartsEmpty'  BY <1>1, <2>1 DEF StartsEmpty
  <2>5. SavesInv' /\ armed' \in BOOLEAN /\ closed' \in BOOLEAN  BY <1>1, <2>1, ScheduleKeepsSaves
  <2>6. meddled' \in BOOLEAN  BY <1>2, <2>1
  <2> QED  BY <1>1, <2>1, <2>2, <2>3, <2>4, <2>5, <2>6, TabNext
<1>12. \/ Start \/ FlowStep \/ StartSetup \/ SetupStep \/ UNCHANGED vars \/ \E t \in Targets : PageStep(t)
       \/ Live /\ (RunScheduled \/ Flush \/ \E w \in DOMAIN save : WriteSession(w))
  BY DEF Next, PageStep, SetupStep
<1> QED  BY <1>5, <1>6, <1>7, <1>8, <1>9, <1>10, <1>11, <1>12

\* The invariant that the theorems below rest on.
THEOREM TabInvariant == Spec => []TabInv
<1>1. Init => TabInv  BY TabStarts
<1>2. TabInv /\ [Next]_vars => TabInv'  BY TabStep
<1> QED  BY <1>1, <1>2, PTL DEF Spec

\* A session belongs to a tab, and once the goroutines of attachTarget and dropTarget
\* are done every tab belongs to a page that Chromium has (tabs.go).
THEOREM TabsHavePages == Spec => []NoGhostTabs
<1>1. TabInv => NoGhostTabs
  <2> SUFFICES ASSUME TabInv, Quiet PROVE tabs \subseteq open  BY DEF TabInv, AboutToGo, NoGhostTabs
  <2>1. ASSUME NEW t \in tabs, t \notin open PROVE FALSE
    <3>1. t \in Targets /\ (at[Drop(t)] = "drop" \/ at[Attach(t)] = "lost")
      BY <2>1 DEF TabInv, TabTypeOK, AboutToGo
    <3>2. at[Drop(t)] = "idle" /\ at[Attach(t)] = "idle"  BY <3>1, FlowNames DEF Quiet
    <3> QED  BY <3>1, <3>2
  <2> QED  BY <2>1
<1> QED  BY <1>1, TabInvariant, PTL

\* When a restored batch has been attached, failed or lost in any order, the tab that
\* the session file had as active is the active one (finishRestoreTarget, switchActive).
THEOREM RestoreFindsFocus == Spec => []RestoreFocuses
<1>1. TabInv => RestoreFocuses
  <2> SUFFICES ASSUME TabInv, Quiet, ~meddled, restore.pending = {}, wanted \in tabs PROVE active = id[wanted]
    BY DEF RestoreFocuses
  <2>1. /\ IdsApart /\ BatchIsFocused /\ BatchShape /\ tabs \subseteq Targets  BY DEF TabInv, BatchInv, TabTypeOK
  <2>2. ~InBatch
    <3>1. PlacesOf(wanted) = {}  BY <2>1 DEF BatchShape
    <3> QED  BY <2>1, <3>1 DEF IdsApart
  <2>3. at[Attach(wanted)] = "idle"  BY <2>1, FlowNames DEF Quiet
  <2> QED  BY <2>1, <2>2, <2>3 DEF BatchIsFocused, Quiet
<1> QED  BY <1>1, TabInvariant, PTL

\* After a flush for a handoff or a shutdown the file is the flush's: neither a save
\* under way nor one scheduled for tabs that go replaces it (flushSession).
THEOREM FlushIsFinal == Spec => []FlushedStands
<1>1. TabInv => FlushedStands  BY DEF TabInv
<1> QED  BY <1>1, TabInvariant, PTL

\* What the setup browser takes for saved is in the file (setup.go, the polls).
THEOREM SetupIsSaved == Spec => []SetupSaved
<1>1. TabInv => SetupSaved  BY DEF TabInv
<1> QED  BY <1>1, TabInvariant, PTL
=============================================================================
