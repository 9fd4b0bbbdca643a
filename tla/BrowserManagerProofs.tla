------------------------ MODULE BrowserManagerProofs ------------------------
(***************************************************************************)
(* Proofs about BrowserManager for every set of clients and every value of *)
(* the bounds.                                                             *)
(***************************************************************************)
EXTENDS BrowserManager, TLAPS

----------------------------------------------------------------------------
(* setState *)

\* The event of a setState is for every client that watches.
LEMMA SetStateEffect ==
  ASSUME ManagerTypeOK, NEW mode \in Modes,
         NEW can \in BOOLEAN, NEW cur \in BOOLEAN, SetState(mode, can, cur)
  PROVE  /\ state' \in States
         /\ state'.mode = mode /\ state'.revision = state.revision + 1
         /\ suspended' \in BOOLEAN
         /\ suspended' = IF cur THEN mode # "streaming" ELSE suspended
         /\ sends' \subseteq [client : Clients, aware : BOOLEAN]
         /\ \A c \in Clients : clients[c] = "aware" => [client |-> c, aware |-> TRUE] \in sends'
<1>1. /\ state' = [mode |-> mode, revision |-> state.revision + 1, canForce |-> can]
      /\ suspended' = IF cur THEN mode # "streaming" ELSE suspended
      /\ sends' = {[client |-> c, aware |-> clients[c] = "aware"] : c \in Present}
  BY DEF SetState
<1>2. /\ state' \in States
      /\ state'.mode = mode /\ state'.revision = state.revision + 1
  <2>1. state.revision + 1 \in Nat
    BY DEF ManagerTypeOK, States
  <2> QED
    BY <1>1, <2>1 DEF States
<1>3. suspended' \in BOOLEAN
  BY <1>1 DEF ManagerTypeOK
<1>4. sends' \subseteq [client : Clients, aware : BOOLEAN]
  <2>1. ASSUME NEW c \in Present
        PROVE  [client |-> c, aware |-> clients[c] = "aware"] \in [client : Clients, aware : BOOLEAN]
    <3>1. c \in Clients /\ (clients[c] = "aware") \in BOOLEAN
      BY DEF Present
    <3> QED
      BY <3>1
  <2> QED
    BY <1>1, <2>1
<1>5. ASSUME NEW c \in Clients, clients[c] = "aware"
      PROVE  [client |-> c, aware |-> TRUE] \in sends'
  <2>1. c \in Present /\ (clients[c] = "aware") = TRUE
    BY <1>5 DEF Present
  <2> QED
    BY <1>1, <2>1
<1> QED
  BY <1>1, <1>2, <1>3, <1>4, <1>5

----------------------------------------------------------------------------
(* Clients and revisions *)

\* A step that touches none of the four.
LEMMA DueStands ==
  ASSUME ManagerTypeOK, ShownOrComing, UNCHANGED <<state, sends, clients, watch, core>>
  PROVE  ShownOrComing'
BY DEF ShownOrComing, Due

\* A new revision: its event is on its way to every client that watches.
LEMMA DueAnnounced ==
  ASSUME ManagerTypeOK, ShownOrComing, UNCHANGED <<clients, watch, core>>,
         NEW mode \in Modes,
         NEW can \in BOOLEAN, NEW cur \in BOOLEAN, SetState(mode, can, cur)
  PROVE  ShownOrComing'
<1>1. state'.revision = state.revision + 1 /\ state.revision \in Nat
      /\ \A c \in Clients : clients[c] = "aware" => [client |-> c, aware |-> TRUE] \in sends'
  BY SetStateEffect DEF ManagerTypeOK, States
<1>2. \A c \in Clients : core[c] \in Nat /\ core[c] <= state.revision
  BY DEF ManagerTypeOK, ShownOrComing, Due
<1>3. ASSUME NEW c \in Clients, watch[c].at = "send"
      PROVE  watch[c].revision \in Nat /\ watch[c].revision <= state.revision
  <2>1. watch[c] \in Statuses
    BY DEF ManagerTypeOK
  <2>2. watch[c].revision \in Nat
    BY <1>3, <2>1 DEF Statuses, Idle
  <2> QED
    BY <1>3, <2>2 DEF ShownOrComing, Due
<1>4. \A c \in Clients : /\ core[c] <= state'.revision
                         /\ watch[c].at = "send" => watch[c].revision <= state'.revision
  BY <1>1, <1>2, <1>3
<1> QED
  BY <1>1, <1>4 DEF ShownOrComing, Due

\* The core's rule keeps the newest revision.
LEMMA ShowEffect ==
  ASSUME ManagerTypeOK, NEW c \in Clients, NEW r \in Nat, Show(c, r)
  PROVE  /\ core' \in [Clients -> Nat]
         /\ \A d \in Clients : d # c => core'[d] = core[d]
         /\ core'[c] = IF r < core[c] THEN core[c] ELSE r
BY DEF Show, ManagerTypeOK

\* An event reaches its client.
LEMMA DueSent ==
  ASSUME ManagerTypeOK, ShownOrComing, Send PROVE ShownOrComing' /\ core' \in [Clients -> Nat]
<1>1. PICK m \in sends :
        /\ sends' = sends \ {m}
        /\ IF m.aware THEN Show(m.client, state.revision) ELSE UNCHANGED core
        /\ UNCHANGED <<state, clients, watch>>
  BY DEF Send
<1>2. m.client \in Clients /\ m.aware \in BOOLEAN /\ m = [client |-> m.client, aware |-> m.aware]
      /\ state.revision \in Nat
  BY DEF ManagerTypeOK, States
<1>3. PICK c \in Clients : c = m.client
  BY <1>2
<1>4. CASE m.aware
  <2>1. /\ core' \in [Clients -> Nat]
        /\ \A d \in Clients : d # c => core'[d] = core[d]
        /\ core'[c] = IF state.revision < core[c] THEN core[c] ELSE state.revision
    BY <1>1, <1>2, <1>3, <1>4, ShowEffect
  <2>2. core[c] \in Nat /\ core[c] <= state.revision
    BY DEF ManagerTypeOK, ShownOrComing, Due
  <2>3. core'[c] = state.revision
    BY <1>2, <2>1, <2>2
  <2>4. \A d \in Clients : d # c => [client |-> d, aware |-> TRUE] # m
    BY <1>3
  <2>5. \A d \in Clients : d # c /\ [client |-> d, aware |-> TRUE] \in sends
                             => [client |-> d, aware |-> TRUE] \in sends'
    BY <1>1, <2>4
  <2>6. ASSUME NEW d \in Clients, d = c PROVE Due(d)'
    BY <1>1, <1>2, <2>3, <2>6 DEF ShownOrComing, Due
  <2>7. ASSUME NEW d \in Clients, d # c PROVE Due(d)'
    BY <1>1, <2>1, <2>5, <2>7 DEF ShownOrComing, Due
  <2> QED
    BY <2>1, <2>6, <2>7 DEF ShownOrComing, Due
<1>5. CASE ~m.aware
  <2>1. \A d \in Clients : [client |-> d, aware |-> TRUE] \in sends
                             => [client |-> d, aware |-> TRUE] \in sends'
    BY <1>1, <1>5
  <2> QED
    BY <1>1, <1>5, <2>1 DEF ShownOrComing, Due, ManagerTypeOK
<1> QED
  BY <1>4, <1>5

\* What a client's own goroutines do.
LEMMA DueClient ==
  ASSUME ManagerTypeOK, ShownOrComing, NEW c \in Clients, Client(c)
  PROVE  /\ ShownOrComing' /\ core' \in [Clients -> Nat] /\ watch' \in [Clients -> Statuses]
         /\ clients' \in [Clients -> {"absent", "plain", "aware", "gone"}]
<1>1. UNCHANGED <<state, sends>> /\ state.revision \in Nat
  BY DEF Client, ClientConnected, ClientDisconnected, Watch, ReadStatus, SendStatus, managerVars,
     ManagerTypeOK, States
<1>2. \A d \in Clients : watch[d] \in Statuses /\ core[d] \in Nat
  BY DEF ManagerTypeOK
<1>3. CASE ClientConnected(c) \/ ClientDisconnected(c)
  <2>1. /\ clients' \in [Clients -> {"absent", "plain", "aware", "gone"}]
        /\ clients'[c] # "aware" /\ \A d \in Clients : d # c => clients'[d] = clients[d]
        /\ UNCHANGED <<watch, core>>
    BY <1>3 DEF ClientConnected, ClientDisconnected, ManagerTypeOK
  <2> QED
    BY <1>1, <2>1 DEF ShownOrComing, Due, ManagerTypeOK
<1>4. CASE Watch(c)
  <2> DEFINE k == [at |-> "status"]
  <2>1. k \in Statuses /\ k.at = "status"
    BY DEF Statuses
  <2>2. /\ clients' \in [Clients -> {"absent", "plain", "aware", "gone"}]
        /\ \A d \in Clients : d # c => clients'[d] = clients[d]
        /\ watch' = [watch EXCEPT ![c] = k] /\ core' = core
    BY <1>4 DEF Watch, ManagerTypeOK
  <2> HIDE DEF k
  <2>3. watch' \in [Clients -> Statuses] /\ watch'[c] = k
        /\ \A d \in Clients : d # c => watch'[d] = watch[d]
    BY <2>1, <2>2 DEF ManagerTypeOK
  <2>4. ASSUME NEW d \in Clients, d = c PROVE Due(d)'
    BY <1>1, <2>1, <2>2, <2>3, <2>4 DEF ShownOrComing, Due
  <2>5. ASSUME NEW d \in Clients, d # c PROVE Due(d)'
    BY <1>1, <2>2, <2>3, <2>5 DEF ShownOrComing, Due
  <2> QED
    BY <2>2, <2>3, <2>4, <2>5 DEF ShownOrComing, Due, ManagerTypeOK
<1>5. CASE ReadStatus(c)
  <2> DEFINE k == [at |-> "send", revision |-> state.revision]
  <2>1. k \in Statuses /\ k.at = "send" /\ k.revision = state.revision
    BY <1>1 DEF Statuses
  <2>2. UNCHANGED <<clients, core>> /\ watch' = [watch EXCEPT ![c] = k]
    BY <1>5 DEF ReadStatus
  <2> HIDE DEF k
  <2>3. watch' \in [Clients -> Statuses] /\ watch'[c] = k
        /\ \A d \in Clients : d # c => watch'[d] = watch[d]
    BY <2>1, <2>2 DEF ManagerTypeOK
  <2>4. ASSUME NEW d \in Clients, d = c PROVE Due(d)'
    BY <1>1, <2>1, <2>2, <2>3, <2>4 DEF ShownOrComing, Due
  <2>5. ASSUME NEW d \in Clients, d # c PROVE Due(d)'
    BY <1>1, <2>2, <2>3, <2>5 DEF ShownOrComing, Due
  <2> QED
    BY <2>2, <2>3, <2>4, <2>5 DEF ShownOrComing, Due, ManagerTypeOK
<1>6. CASE SendStatus(c)
  <2> DEFINE r == watch[c].revision
  <2>1. watch[c].at = "send" /\ UNCHANGED clients /\ watch' = [watch EXCEPT ![c] = Idle]
        /\ Show(c, r)
    BY <1>6 DEF SendStatus
  <2>2. r \in Nat
    BY <1>2, <2>1 DEF Statuses, Idle
  <2>3. r <= state.revision /\ core[c] <= state.revision
    BY <2>1 DEF ShownOrComing, Due
  <2>4. /\ core' \in [Clients -> Nat]
        /\ \A d \in Clients : d # c => core'[d] = core[d]
        /\ core'[c] = IF r < core[c] THEN core[c] ELSE r
    BY <2>1, <2>2, ShowEffect
  <2>5. watch' \in [Clients -> Statuses] /\ watch'[c].at = "idle"
        /\ \A d \in Clients : d # c => watch'[d] = watch[d]
    BY <2>1 DEF ManagerTypeOK, Statuses, Idle
  <2>6. clients[c] = "aware" =>
          core[c] = state.revision \/ [client |-> c, aware |-> TRUE] \in sends
          \/ r = state.revision
    BY <2>1 DEF ShownOrComing, Due
  <2> HIDE DEF r
  <2>7. core'[c] <= state.revision
        /\ (core[c] = state.revision \/ r = state.revision => core'[c] = state.revision)
    BY <1>1, <1>2, <2>2, <2>3, <2>4
  <2>8. ASSUME NEW d \in Clients, d = c PROVE Due(d)'
    BY <1>1, <2>1, <2>5, <2>6, <2>7, <2>8 DEF Due
  <2>9. ASSUME NEW d \in Clients, d # c PROVE Due(d)'
    BY <1>1, <2>1, <2>4, <2>5, <2>9 DEF ShownOrComing, Due
  <2> QED
    BY <2>1, <2>4, <2>5, <2>8, <2>9 DEF ShownOrComing, Due, ManagerTypeOK
<1> QED
  BY <1>3, <1>4, <1>5, <1>6 DEF Client

----------------------------------------------------------------------------
(* Browsers, the operation lock and page input *)

Browsers == HandoffLocked /\ HandoffKnows /\ BrowsersAccountedFor /\ InputStopped

\* Requests, and the parts of the server that leave the browsers alone.
LEMMA BrowsersRequest ==
  ASSUME ManagerTypeOK, Browsers, Request \/ PrepareShutdown \/ FocusDone \/ Shutdown
         \/ ShutdownReturns \/ Input \/ StreamLost \/ WindowsClosed
  PROVE  Browsers'
<1> USE DEF Browsers, HandoffLocked, HandoffKnows, BrowsersAccountedFor, AtMostOneBrowser,
            BrowsersAreOwned, InputStopped, Alive, Streaming
<1>1. CASE RequestFocus \/ FocusDone
  BY <1>1 DEF RequestFocus, FocusDone, serverVars, browserVars, inputVars
<1>2. CASE RequestOpen
  <2>1. state'.mode = "opening" /\ suspended' = IF current THEN "opening" # "streaming" ELSE suspended
    BY <1>2, SetStateEffect DEF RequestOpen, ManagerTypeOK, Modes
  <2> QED
    BY <1>2, <2>1 DEF RequestOpen, serverVars, inputVars, ManagerTypeOK
<1>3. CASE RequestResume
  <2>1. state'.mode = "resuming" /\ suspended' = IF current THEN "resuming" # "streaming" ELSE suspended
    BY <1>3, SetStateEffect DEF RequestResume, ManagerTypeOK, Modes
  <2> QED
    BY <1>3, <2>1 DEF RequestResume, serverVars, inputVars, ManagerTypeOK
<1>4. CASE PrepareShutdown
  BY <1>4 DEF PrepareShutdown, browserVars, inputVars
<1>5. CASE Shutdown \/ ShutdownReturns
  BY <1>5 DEF Shutdown, ShutdownReturns, browserVars, inputVars
<1>6. CASE Input
  BY <1>6 DEF Input, HandleMessage, BeginInput, EndInput, serverVars, browserVars
<1>7. CASE StreamLost
  BY <1>7 DEF StreamLost, serverVars, inputVars
<1>8. CASE WindowsClosed
  <2>1. visible'.launch = visible.launch /\ visible'.process = visible.process
    BY <1>8 DEF WindowsClosed, ManagerTypeOK
  <2> QED
    BY <1>8, <2>1 DEF WindowsClosed, serverVars, inputVars
<1> QED
  BY <1>1, <1>2, <1>3, <1>4, <1>5, <1>6, <1>7, <1>8 DEF Request

\* openSetup, up to the launch of the setup browser.
LEMMA BrowsersOpen ==
  ASSUME ManagerTypeOK, Browsers,
         \/ TakeController \/ Drain \/ Finish
         \/ \E ok \in BOOLEAN : Flush(ok) \/ CloseStream(ok)
  PROVE  Browsers'
<1> USE DEF Browsers, HandoffLocked, HandoffKnows, BrowsersAccountedFor, AtMostOneBrowser,
            BrowsersAreOwned, InputStopped, Alive, Streaming
<1>1. CASE TakeController \/ Drain
  BY <1>1 DEF TakeController, Drain, Step, Goto, serverVars, inputVars
<1>2. CASE Finish
  BY <1>2 DEF Finish, Step, serverVars, browserVars, inputVars
<1>3. ASSUME Flush(TRUE) PROVE Browsers'
  BY <1>3 DEF Flush, Step, Goto, serverVars
<1>4. ASSUME Flush(FALSE) PROVE Browsers'
  <2>1. state'.mode = "streaming" /\ suspended' = ("streaming" # "streaming")
    BY <1>4, SetStateEffect DEF Flush, End, Modes
  <2> QED
    BY <1>4, <2>1 DEF Flush, Step, End, serverVars
<1>5. ASSUME CloseStream(TRUE) PROVE Browsers'
  BY <1>5 DEF CloseStream, Step, Goto, serverVars
<1>6. ASSUME CloseStream(FALSE) PROVE Browsers'
  <2>1. state'.mode = "failed" /\ suspended' = ("failed" # "streaming")
    BY <1>6, SetStateEffect DEF CloseStream, End, Modes
  <2> QED
    BY <1>6, <2>1 DEF CloseStream, Step, End, serverVars, inputVars
<1> QED
  BY <1>1, <1>2, <1>3, <1>4, <1>5, <1>6

\* The setup browser is launched, into a profile that no other browser has.
LEMMA BrowsersLaunch ==
  ASSUME ManagerTypeOK, Browsers, NEW outcome \in {"ok", "retained", "failed"},
         StartSetup(outcome)
  PROVE  Browsers'
<1> USE DEF Browsers, HandoffLocked, HandoffKnows, BrowsersAccountedFor, AtMostOneBrowser,
            BrowsersAreOwned, InputStopped, Alive, Streaming
<1>1. task = "launch" /\ UNCHANGED <<op, shutdown, stop, current, stream, input, snapshot>>
  BY DEF StartSetup, Step, End, Goto, serverVars, inputVars
<1>2. \A p : /\ Launched(p).launch = visible.launch + 1 /\ Launched(p).process = p
             /\ Launched(p).launch # 0
  BY DEF Launched, ManagerTypeOK, SetupBrowser
<1>3. CASE outcome = "failed"
  BY <1>1, <1>2, <1>3 DEF StartSetup, Goto
<1>4. CASE outcome \in {"ok", "retained"}
  <2>1. /\ visible' = Launched("up") /\ setup' = visible'.launch /\ task' = "end"
        /\ \E can \in BOOLEAN : SetState("setup", can, FALSE)
    BY <1>4 DEF StartSetup, End
  <2>2. state'.mode = "setup" /\ suspended' = suspended
    BY <2>1, SetStateEffect DEF Modes
  <2> QED
    BY <1>1, <1>2, <2>1, <2>2
<1> QED
  BY <1>3, <1>4

\* resume closes what is there before it starts the streaming browser.
LEMMA BrowsersResume ==
  ASSUME ManagerTypeOK, Browsers,
         \/ NothingOld \/ Stream
         \/ \E ok \in BOOLEAN : CloseSetup(ok) \/ CloseOld(ok) \/ StartStreaming(ok)
  PROVE  Browsers'
<1> USE DEF Browsers, HandoffLocked, HandoffKnows, BrowsersAccountedFor, AtMostOneBrowser,
            BrowsersAreOwned, InputStopped, Alive, Streaming
<1>1. CASE NothingOld
  BY <1>1 DEF NothingOld, Step, Goto, serverVars, inputVars, ManagerTypeOK
<1>2. CASE Stream
  <2>1. state'.mode = "streaming" /\ suspended' = ("streaming" # "streaming")
    BY <1>2, SetStateEffect DEF Stream, End, Modes
  <2> QED
    BY <1>2, <2>1 DEF Stream, Step, End, serverVars, inputVars
<1>3. ASSUME CloseSetup(TRUE) PROVE Browsers'
  <2>1. visible'.launch = visible.launch /\ visible'.process = "none"
    BY <1>3 DEF CloseSetup, ManagerTypeOK, SetupBrowser
  <2> QED
    BY <1>3, <2>1 DEF CloseSetup, Step, Goto, serverVars, inputVars
<1>4. ASSUME CloseSetup(FALSE) PROVE Browsers'
  <2>1. state'.mode = "setup" /\ suspended' = IF current THEN "setup" # "streaming" ELSE suspended
    BY <1>4, SetStateEffect DEF CloseSetup, End, ManagerTypeOK, Modes
  <2> QED
    BY <1>4, <2>1 DEF CloseSetup, Step, End, serverVars, inputVars, ManagerTypeOK
<1>5. ASSUME CloseOld(TRUE) PROVE Browsers'
  BY <1>5 DEF CloseOld, Step, Goto, serverVars
<1>6. ASSUME CloseOld(FALSE) PROVE Browsers'
  <2>1. state'.mode = "failed" /\ suspended' = ("failed" # "streaming")
    BY <1>6, SetStateEffect DEF CloseOld, End, Modes
  <2> QED
    BY <1>6, <2>1 DEF CloseOld, Step, End, serverVars, inputVars
<1>7. ASSUME StartStreaming(TRUE) PROVE Browsers'
  BY <1>7 DEF StartStreaming, Step, serverVars
<1>8. ASSUME StartStreaming(FALSE) PROVE Browsers'
  <2>1. state'.mode = "failed" /\ suspended' = suspended
    BY <1>8, SetStateEffect DEF StartStreaming, End, Modes
  <2> QED
    BY <1>8, <2>1 DEF StartStreaming, Step, End, serverVars, inputVars
<1> QED
  BY <1>1, <1>2, <1>3, <1>4, <1>5, <1>6, <1>7, <1>8

\* The monitor resumes by itself, or ends the standalone server.
LEMMA BrowsersMonitor ==
  ASSUME ManagerTypeOK, Browsers,
         Tick \/ Act \/ MonitorStops \/ \E ok \in BOOLEAN : Poll(ok)
  PROVE  Browsers'
<1> USE DEF Browsers, HandoffLocked, HandoffKnows, BrowsersAccountedFor, AtMostOneBrowser,
            BrowsersAreOwned, InputStopped, Alive, Streaming
<1>1. CASE Tick \/ MonitorStops \/ \E ok \in BOOLEAN : Poll(ok)
  BY <1>1 DEF Tick, MonitorStops, Poll, serverVars, browserVars, inputVars
<1>2. CASE Act
  <2>1. UNCHANGED <<stop, shutdown, current, stream, setup, input, snapshot>>
    BY <1>2 DEF Act, inputVars
  <2>2. CASE SetState("resuming", FALSE, current) /\ op' = "monitor" /\ task' = "resume"
             /\ visible' = visible /\ StillSetup
    <3>1. state'.mode = "resuming" /\ suspended' = IF current THEN "resuming" # "streaming" ELSE suspended
      BY <2>2, SetStateEffect DEF ManagerTypeOK, Modes
    <3> QED
      BY <2>1, <2>2, <3>1 DEF StillSetup, ManagerTypeOK
  <2>3. CASE /\ visible' \in {visible, [visible EXCEPT !.process = "none"]}
             /\ UNCHANGED <<state, op, task, suspended>>
    <3>1. visible'.launch = visible.launch /\ visible'.process \in {visible.process, "none"}
      BY <2>3 DEF ManagerTypeOK, SetupBrowser
    <3> QED
      BY <2>1, <2>3, <3>1
  <2> QED
    BY <1>2, <2>2, <2>3 DEF Act
<1> QED
  BY <1>1, <1>2

\* Shutdown closes what the manager has.
LEMMA BrowsersShutdown ==
  ASSUME ManagerTypeOK, Browsers, ShutdownBrowsers PROVE Browsers'
<1> USE DEF Browsers, HandoffLocked, HandoffKnows, BrowsersAccountedFor, AtMostOneBrowser,
            BrowsersAreOwned, InputStopped, Alive, Streaming
<1>1. visible'.launch = visible.launch /\ visible'.process \in {visible.process, "none"}
  BY DEF ShutdownBrowsers, ManagerTypeOK, SetupBrowser
<1> QED
  BY <1>1 DEF ShutdownBrowsers, inputVars, ManagerTypeOK

----------------------------------------------------------------------------
(* Types and revisions through every step *)

\* A step leaves state and sends alone, announces a new state, or is the delivery of
\* an event; clients move only by themselves.
LEMMA Announcements ==
  ASSUME ManagerTypeOK, [Next]_vars
  PROVE  \/ UNCHANGED <<state, sends, clients, watch, core>>
         \/ /\ UNCHANGED <<clients, watch, core>>
            /\ \E mode \in Modes,
                  can \in BOOLEAN, cur \in BOOLEAN : SetState(mode, can, cur)
         \/ Send
         \/ \E c \in Clients : Client(c)
<1> DEFINE Quiet == UNCHANGED <<state, sends, clients, watch, core>>
           Announced == /\ UNCHANGED <<clients, watch, core>>
                        /\ \E mode \in Modes,
                              can \in BOOLEAN, cur \in BOOLEAN : SetState(mode, can, cur)
<1> USE DEF clientVars, inputVars, browserVars, serverVars
<1>1. current \in BOOLEAN
  BY DEF ManagerTypeOK
<1>2. ASSUME Request \/ PrepareShutdown PROVE Quiet \/ Announced
  BY <1>1, <1>2 DEF Request, RequestFocus, RequestOpen, RequestResume, PrepareShutdown, Modes
<1>3. ASSUME \/ FocusDone \/ TakeController \/ Drain \/ NothingOld \/ Stream \/ Finish
             \/ \E ok \in BOOLEAN : Flush(ok) \/ CloseStream(ok)
      PROVE  Quiet \/ Announced
  BY <1>3 DEF FocusDone, TakeController, Drain, NothingOld, Stream, Finish, Flush,
     CloseStream, Goto, End, Modes
<1>4. ASSUME NEW ok \in BOOLEAN, CloseSetup(ok) \/ CloseOld(ok) \/ StartStreaming(ok)
      PROVE  Quiet \/ Announced
  BY <1>1, <1>4 DEF CloseSetup, CloseOld, StartStreaming, Goto, End, Modes
<1>5. ASSUME NEW outcome, StartSetup(outcome) PROVE Quiet \/ Announced
  BY <1>5 DEF StartSetup, Goto, End, Modes
<1>6. ASSUME \/ Tick \/ MonitorStops \/ \E ok \in BOOLEAN : Poll(ok)
             \/ Shutdown \/ ShutdownBrowsers \/ ShutdownReturns \/ StreamLost \/ WindowsClosed
             \/ Input \/ UNCHANGED vars
      PROVE  Quiet
  BY <1>6 DEF Tick, MonitorStops, Poll, Shutdown, ShutdownBrowsers, ShutdownReturns,
     StreamLost, WindowsClosed, Input, HandleMessage, BeginInput, EndInput, vars
<1>7. ASSUME Act PROVE Quiet \/ Announced
  BY <1>1, <1>7 DEF Act, Modes
<1> QED
  BY <1>2, <1>3, <1>4, <1>5, <1>6, <1>7 DEF Next, Handoff

\* What is left of the state is well typed after every step.
LEMMA BrowserTypes ==
  ASSUME ManagerTypeOK, [Next]_vars
  PROVE  /\ op' \in {"free", "focus", "request", "monitor"} /\ task' \in Tasks
         /\ stop' \in BOOLEAN /\ shutdown' \in {"none", "lock", "wait", "returned"}
         /\ current' \in BOOLEAN /\ suspended' \in BOOLEAN
         /\ stream' \in {"none", "up", "lost"} /\ setup' \in Nat
         /\ visible' \in SetupBrowser
         /\ input' \in {"none", "queued", "running"} /\ snapshot' \in BOOLEAN
<1> DEFINE T == /\ op \in {"free", "focus", "request", "monitor"} /\ task \in Tasks
                /\ stop \in BOOLEAN /\ shutdown \in {"none", "lock", "wait", "returned"}
                /\ current \in BOOLEAN /\ suspended \in BOOLEAN
                /\ stream \in {"none", "up", "lost"} /\ setup \in Nat
                /\ visible \in SetupBrowser
                /\ input \in {"none", "queued", "running"} /\ snapshot \in BOOLEAN
<1> USE DEF clientVars, inputVars, browserVars, serverVars
<1>1. T
  BY DEF ManagerTypeOK
<1>2. \A mode, can, cur : SetState(mode, can, cur) => suspended' \in BOOLEAN
  BY <1>1 DEF SetState
<1>3. \A x \in {"none", "open", "drain", "flush", "close", "launch", "resume", "stream",
                "streaming", "end"} : x \in Tasks
  BY DEF Tasks
<1>4. CASE RequestFocus \/ PrepareShutdown \/ FocusDone
  BY <1>1, <1>4 DEF RequestFocus, PrepareShutdown, FocusDone
<1>5. CASE RequestOpen \/ RequestResume
  BY <1>1, <1>2, <1>3, <1>5 DEF RequestOpen, RequestResume
<1>6. CASE TakeController \/ Drain \/ NothingOld
  BY <1>1, <1>3, <1>6 DEF TakeController, Drain, NothingOld, Goto
<1>7. CASE Stream \/ Finish
  BY <1>1, <1>2, <1>3, <1>7 DEF Stream, Finish, End
<1>8. CASE Send
  BY <1>1, <1>8 DEF Send
<1>9. ASSUME NEW ok \in BOOLEAN, Flush(ok) PROVE T'
  BY <1>1, <1>2, <1>3, <1>9 DEF Flush, Goto, End
<1>10. ASSUME NEW ok \in BOOLEAN, CloseStream(ok) PROVE T'
  BY <1>1, <1>2, <1>3, <1>10 DEF CloseStream, Goto, End
<1>11. ASSUME NEW ok \in BOOLEAN, CloseOld(ok) PROVE T'
  BY <1>1, <1>2, <1>3, <1>11 DEF CloseOld, Goto, End
<1>12. ASSUME NEW ok \in BOOLEAN, StartStreaming(ok) PROVE T'
  BY <1>1, <1>2, <1>3, <1>12 DEF StartStreaming, Goto, End
<1>13. ASSUME NEW ok \in BOOLEAN, CloseSetup(ok) PROVE T'
  <2> DEFINE v == [visible EXCEPT !.process = "none"]
  <2>1. v \in SetupBrowser
    BY <1>1 DEF SetupBrowser
  <2>2. (visible' = v /\ setup' = 0) \/ (visible' = visible /\ setup' = setup)
    BY <1>13 DEF CloseSetup
  <2> HIDE DEF v
  <2>3. visible' \in SetupBrowser /\ setup' \in Nat
    BY <1>1, <2>1, <2>2
  <2>4. op' = op /\ task' \in Tasks /\ suspended' \in BOOLEAN
    BY <1>1, <1>2, <1>3, <1>13 DEF CloseSetup, Goto, End
  <2> QED
    BY <1>1, <1>13, <2>3, <2>4 DEF CloseSetup
<1>14. ASSUME NEW outcome, StartSetup(outcome) PROVE T'
  <2>1. \A p \in {"none", "up"} :
          /\ Launched(p) \in SetupBrowser
          /\ Launched(p).launch \in Nat
    BY <1>1 DEF Launched, SetupBrowser
  <2>2. visible' \in SetupBrowser
        /\ setup' \in Nat
    BY <1>1, <1>14, <2>1 DEF StartSetup
  <2> QED
    BY <1>1, <1>2, <1>3, <1>14, <2>2 DEF StartSetup, Goto, End
<1>15. CASE Tick \/ MonitorStops \/ \E ok \in BOOLEAN : Poll(ok)
  BY <1>1, <1>15 DEF Tick, MonitorStops, Poll
<1>16. CASE Shutdown \/ ShutdownReturns \/ StreamLost
  BY <1>1, <1>16 DEF Shutdown, ShutdownReturns, StreamLost
<1>17. CASE Input
  BY <1>1, <1>17 DEF Input, HandleMessage, BeginInput, EndInput
<1>18. CASE UNCHANGED vars
  BY <1>1, <1>18 DEF vars
<1>19. CASE WindowsClosed
  <2>1. [visible EXCEPT !.windows = FALSE] \in SetupBrowser
    BY <1>1 DEF SetupBrowser
  <2> QED
    BY <1>1, <1>19, <2>1 DEF WindowsClosed
<1>20. CASE Act \/ ShutdownBrowsers
  <2>1. [visible EXCEPT !.process = "none"] \in SetupBrowser
    BY <1>1 DEF SetupBrowser
  <2>2. CASE Act
    BY <1>1, <1>2, <1>3, <2>1, <2>2 DEF Act
  <2>3. CASE ShutdownBrowsers
    <3>1. suspended' \in BOOLEAN
      BY <1>1, <2>3 DEF ShutdownBrowsers
    <3> QED
      BY <1>1, <2>1, <2>3, <3>1 DEF ShutdownBrowsers
  <2> QED
    BY <1>20, <2>2, <2>3
<1>21. CASE \E c \in Clients : Client(c)
  BY <1>1, <1>21 DEF Client, ClientConnected, ClientDisconnected, Watch, ReadStatus,
     SendStatus, managerVars
<1> QED
  BY <1>4, <1>5, <1>6, <1>7, <1>8, <1>9, <1>10, <1>11, <1>12, <1>13, <1>14,
     <1>15, <1>16, <1>17, <1>18, <1>19, <1>20, <1>21
  DEF Next, Request, Handoff

LEMMA TypeStep ==
  ASSUME ManagerTypeOK, ShownOrComing, [Next]_vars PROVE ManagerTypeOK' /\ ShownOrComing'
<1>1. CASE UNCHANGED <<state, sends, clients, watch, core>>
  BY <1>1, BrowserTypes, DueStands DEF ManagerTypeOK
<1>2. CASE /\ UNCHANGED <<clients, watch, core>>
           /\ \E mode \in Modes,
                 can \in BOOLEAN, cur \in BOOLEAN : SetState(mode, can, cur)
  <2>1. PICK mode \in Modes,
             can \in BOOLEAN, cur \in BOOLEAN : SetState(mode, can, cur)
    BY <1>2
  <2>2. ShownOrComing'
    BY <1>2, <2>1, DueAnnounced
  <2>3. /\ state' \in States
        /\ sends' \subseteq [client : Clients, aware : BOOLEAN]
    BY <2>1, SetStateEffect
  <2> QED
    BY <1>2, <2>2, <2>3, BrowserTypes DEF ManagerTypeOK
<1>3. CASE Send
  <2>1. sends' \subseteq sends /\ UNCHANGED <<state, clients, watch>>
    BY <1>3 DEF Send
  <2> QED
    BY <1>3, <2>1, BrowserTypes, DueSent DEF ManagerTypeOK
<1>4. ASSUME NEW c \in Clients, Client(c) PROVE ManagerTypeOK' /\ ShownOrComing'
  <2>1. UNCHANGED <<state, sends>>
    BY <1>4 DEF Client, ClientConnected, ClientDisconnected, Watch, ReadStatus, SendStatus,
       managerVars
  <2> QED
    BY <1>4, <2>1, BrowserTypes, DueClient DEF ManagerTypeOK
<1> QED
  BY <1>1, <1>2, <1>3, <1>4, Announcements

LEMMA BrowsersStep ==
  ASSUME ManagerTypeOK, Browsers, [Next]_vars PROVE Browsers'
<1>1. ASSUME UNCHANGED <<state, op, task, stop, shutdown, browserVars, inputVars>>
      PROVE  Browsers'
  BY <1>1 DEF Browsers, HandoffLocked, HandoffKnows, BrowsersAccountedFor, AtMostOneBrowser,
     BrowsersAreOwned, InputStopped, Alive, Streaming, browserVars, inputVars
<1>2. CASE Send \/ (\E c \in Clients : Client(c)) \/ UNCHANGED vars
  BY <1>1, <1>2 DEF Send, Client, ClientConnected, ClientDisconnected, Watch, ReadStatus,
     SendStatus, managerVars, serverVars, vars
<1> QED
  BY <1>2, BrowsersRequest, BrowsersOpen, BrowsersLaunch, BrowsersResume, BrowsersMonitor,
     BrowsersShutdown DEF Next, Handoff

----------------------------------------------------------------------------
(* The invariant and what it says *)

\* The manager keeps its inductive invariant.
THEOREM ManagerInvariant == Spec => []ManagerInv
<1>1. Init => ManagerInv
  <2> SUFFICES ASSUME Init PROVE ManagerInv
    OBVIOUS
  <2>1. ManagerTypeOK
    <3>1. /\ state \in States
          /\ visible \in SetupBrowser
      BY DEF Init, States, Modes, SetupBrowser
    <3>2. current \in BOOLEAN
      BY DEF Init
    <3>3. Idle \in Statuses /\ "none" \in Tasks
      BY DEF Statuses, Tasks
    <3>4. /\ clients \in [Clients -> {"absent", "plain", "aware", "gone"}]
          /\ watch \in [Clients -> Statuses] /\ core \in [Clients -> Nat]
      BY <3>3 DEF Init
    <3>5. stream \in {"none", "up", "lost"} /\ setup \in Nat
      BY DEF Init
    <3>6. /\ op = "free" /\ task = "none" /\ sends = {} /\ stop = FALSE /\ shutdown = "none"
          /\ suspended = FALSE /\ input = "none" /\ snapshot = FALSE
      BY DEF Init
    <3> QED
      BY <3>1, <3>2, <3>3, <3>4, <3>5, <3>6 DEF ManagerTypeOK
  <2>2. HandoffLocked /\ InputStopped
    BY DEF Init, HandoffLocked, InputStopped
  <2>3. HandoffKnows /\ BrowsersAccountedFor
    <3>1. CASE standalone
      <4>1. /\ state.mode = "setup" /\ setup = 1 /\ stream = "none" /\ visible.launch = 1
            /\ task = "none"
        BY <3>1 DEF Init
      <4> QED
        BY <4>1 DEF HandoffKnows, BrowsersAccountedFor, AtMostOneBrowser, BrowsersAreOwned, Alive,
           Streaming
    <3>2. CASE ~standalone
      <4>1. /\ setup = 0 /\ current /\ visible.process = "none" /\ task = "none"
        BY <3>2 DEF Init
      <4> QED
        BY <4>1 DEF HandoffKnows, BrowsersAccountedFor, AtMostOneBrowser, BrowsersAreOwned, Alive,
           Streaming
    <3> QED
      BY <3>1, <3>2
  <2>4. ShownOrComing
    <3>1. state.revision = 2
      BY DEF Init
    <3> QED
      BY <3>1 DEF Init, ShownOrComing, Due, Idle
  <2> QED
    BY <2>1, <2>2, <2>3, <2>4 DEF ManagerInv
<1>2. ManagerInv /\ [Next]_vars => ManagerInv'
  BY TypeStep, BrowsersStep DEF ManagerInv, Browsers
<1> QED
  BY <1>1, <1>2, PTL DEF Spec

\* mode.go, setup.go: the profile never has two browsers, and whichever it has can
\* still be closed by the manager or by the handoff in progress, whatever fails.
THEOREM BrowsersAlwaysAccountedFor == Spec => []BrowsersAccountedFor
BY ManagerInvariant, PTL DEF ManagerInv

\* openSetup, beginInput: once a session is recorded no command runs on its page.
THEOREM SnapshotFreezesInput == Spec => []NoInputAfterSnapshot
<1>1. ManagerInv => NoInputAfterSnapshot
  BY DEF ManagerInv, InputStopped, NoInputAfterSnapshot
<1> QED
  BY <1>1, ManagerInvariant, PTL

\* setState, browser-watch: when no event or status is on its way, every client that
\* watches shows the manager's revision.
THEOREM WatchersConverge == Spec => []ClientsConverge
<1>1. ManagerInv => ClientsConverge
  BY DEF ManagerInv, ShownOrComing, Due, ClientsConverge, Idle
<1> QED
  BY <1>1, ManagerInvariant, PTL
=============================================================================
