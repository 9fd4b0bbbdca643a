------------------------------ MODULE InputLanes ------------------------------
(***************************************************************************)
(* The touch lane and the ordered pointer and key lane between the clients *)
(* and Chromium: bounded queues that may replace motion and never an edge, *)
(* one owner of each lane at a time, and the cancellation of what an owner *)
(* holds down when it, its tab or its video surface changes.               *)
(*   src/backend/internal/browser/touch_input.go, pointer_input.go,        *)
(*   input.go (HandleMessage, dispatchOrderedPageInput)                    *)
(*                                                                         *)
(* A worker takes the active tab, asks it for its viewport and then sends  *)
(* the event, so the active tab may change in between.  Positions, wheel   *)
(* deltas, keys and timestamps are left out: a message that is malformed   *)
(* or whose clock goes backwards is "bad", a pointer that leaves is a move *)
(* and a touch message starts or ends one finger.                          *)
(***************************************************************************)
EXTENDS Naturals, Sequences, FiniteSets, SequencesExt

CONSTANTS
    Clients, NoClient,
    Sessions, NoSession,  \* CDP sessions of tabs
    LaneSets,             \* the lanes that a behaviour may use
    Points,               \* fingers of a client
    Buttons,              \* mouse buttons
    QueueLimit,           \* touchQueueLimit, pointerQueueLimit
    MaxContacts,          \* maxTouchContacts
    MaxSends, MaxEvents   \* bounds: messages; bad ones and events around the lanes

ASSUME InputAssumption ==
    /\ NoClient \notin Clients /\ NoSession \notin Sessions /\ Sessions # {}
    /\ LaneSets \subseteq SUBSET {"touch", "pointer"}
    /\ {QueueLimit, MaxContacts, MaxSends, MaxEvents} \subseteq Nat

VARIABLES
    inUse,      \* the lanes in use
    alive,      \* external: Chromium and the connection to it
    active,     \* the session of the active tab; NoSession while it has none
    target,     \* the session switchActive switches to
    surface,    \* the video generation
    paused,     \* "no", "flag": Controller.suspended, "cancelled": openSetup has cancelled input
    link,       \* link[c]: "open", "closed" or "gone": ClientDisconnected ran
    down,       \* down[l][c]: what the user of c holds: fingers, or buttons
    queue,      \* the queue of each lane
    busy,       \* the work whose viewport the lane's worker waits for
    lane,       \* what each worker keeps: [owner, session, surface, lastSeq, held]
    contacts,   \* external: Chromium's touch contacts in each session
    pressed,    \* external: its pressed mouse buttons
    unsent,     \* history: edges that each client has given to a lane and its worker not taken
    sends,      \* how many messages were sent: the next one's sequence number
    events

context == <<inUse, alive, active, target, surface, paused>>
clients == <<link, down, sends>>
work == <<queue, unsent>>
worker == <<busy, lane, contacts, pressed>>
inputVars == <<context, clients, work, worker, events>>

Lanes == {"touch", "pointer"}
Motion == {"move", "wheel"}
Free == [owner |-> NoClient, session |-> NoSession, surface |-> 0, lastSeq |-> 0, held |-> {}]
Cancel == [kind |-> "cancel all", client |-> NoClient, seq |-> 0, surface |-> 0, item |-> 0,
           set |-> {}, bad |-> FALSE]
NoWork == [work |-> Cancel, session |-> NoSession, surface |-> 0]

InputInit ==
    /\ inUse \in LaneSets
    /\ alive = TRUE /\ active = (CHOOSE s \in Sessions : TRUE) /\ target = active /\ surface = 1 /\ paused = "no"
    /\ link = [c \in Clients |-> "open"]
    /\ down = [l \in Lanes |-> [c \in Clients |-> {}]]
    /\ queue = [l \in Lanes |-> <<>>]
    /\ busy = [l \in Lanes |-> NoWork]
    /\ lane = [l \in Lanes |-> Free]
    /\ contacts = [s \in Sessions |-> {}] /\ pressed = [s \in Sessions |-> {}]
    /\ unsent = [l \in Lanes |-> [c \in Clients |-> 0]]
    /\ sends = 0 /\ events = 0

----------------------------------------------------------------------------
\* enqueue

Replaceable(w) == w.kind \in Motion
\* replaceablePointerWork, and its counterpart for touch moves.
Replaces(l, old, new) ==
    /\ old.kind = new.kind /\ Replaceable(new)
    /\ old.client = new.client /\ old.surface = new.surface
    /\ l = "pointer" => old.set = new.set
EdgesOf(q, c) == {i \in DOMAIN q : q[i].client = c /\ ~Replaceable(q[i])}

\* Bug: a full queue gives up its oldest work, whatever it is.
EnqueueDropsOldest(l, w) ==
    LET q == queue[l] IN
    /\ queue' = [queue EXCEPT ![l] = IF q # <<>> /\ Replaces(l, Last(q), w) THEN [q EXCEPT ![Len(q)] = w]
                                     ELSE IF Len(q) >= QueueLimit THEN Append(Tail(q), w) ELSE Append(q, w)]
    /\ unsent' = [unsent EXCEPT ![l][w.client] = IF Replaceable(w) THEN @ ELSE @ + 1]
    /\ UNCHANGED link

\* Motion replaces motion at the end of the queue.  A full queue gives up its
\* oldest motion; without any, the client is closed.
EnqueueInput(l, w) ==
    LET q == queue[l]
        motion == {i \in DOMAIN q : Replaceable(q[i])}
        oldest == CHOOSE i \in motion : \A j \in motion : i <= j
        full == Len(q) >= QueueLimit
    IN IF q # <<>> /\ Replaces(l, Last(q), w)
       THEN queue' = [queue EXCEPT ![l][Len(q)] = w] /\ UNCHANGED <<link, unsent>>
       ELSE IF full /\ motion = {}
       THEN link' = [link EXCEPT ![w.client] = "closed"] /\ UNCHANGED <<queue, unsent>>
       ELSE /\ queue' = [queue EXCEPT ![l] = Append(IF full THEN RemoveAt(q, oldest) ELSE q, w)]
            /\ unsent' = [unsent EXCEPT ![l][w.client] = IF Replaceable(w) THEN @ ELSE @ + 1]
            /\ UNCHANGED link

Happens == events < MaxEvents /\ events' = events + 1

\* A client reports a change of what it holds ("set" is what it holds after it, or
\* the finger that moves or lifts), motion, a wheel turn or a key.
Send(l, c, kind, item, holds, bad) ==
    /\ l \in inUse /\ link[c] = "open" /\ sends < MaxSends
    /\ EnqueueInput(l, [kind |-> kind, client |-> c, seq |-> sends + 1, surface |-> surface, item |-> item,
                   set |-> holds, bad |-> bad])
    /\ down' = [down EXCEPT ![l][c] = holds]
    /\ sends' = sends + 1
    /\ IF bad THEN Happens ELSE UNCHANGED events
    /\ UNCHANGED <<context, worker>>

SendTouch(c, bad) ==
    LET mine == down["touch"][c] IN
    \/ \E p \in Points \ mine : Send("touch", c, "start", p, mine \cup {p}, bad)
    \/ \E p \in mine : Send("touch", c, "end", p, mine \ {p}, bad)
    \/ mine # {} /\ Send("touch", c, "move", 0, mine, bad)
    \/ mine # {} /\ Send("touch", c, "cancel", 0, {}, bad)

SendPointer(c, bad) ==
    LET mine == down["pointer"][c] IN
    \/ \E b \in Buttons \ mine : Send("pointer", c, "down", b, mine \cup {b}, bad)
    \/ \E b \in mine : Send("pointer", c, "up", b, mine \ {b}, bad)
    \/ \E kind \in Motion : Send("pointer", c, kind, 0, mine, bad)
    \/ ~bad /\ Send("pointer", c, "key", 0, mine, FALSE)

\* cancel(false) and cancel(true): a new active tab, a navigation, another layout, a
\* handoff.  It always finds room.
Cancelled(q) == [l \in Lanes |-> IF l \in inUse THEN Append(q[l], Cancel) ELSE q[l]]

----------------------------------------------------------------------------
\* What happens around the lanes

\* cancel(true) waits two seconds at most: a worker that waits for a viewport is late.
Waited == \A l \in Lanes : busy[l] # NoWork \/ Cancel \notin Range(queue[l])

\* switchActive cancels the input first and then makes the tab active.
SwitchStarts(s) ==
    /\ Happens /\ target = active /\ s # active
    /\ target' = s /\ queue' = Cancelled(queue)
    /\ UNCHANGED <<inUse, alive, active, surface, paused, clients, unsent, worker>>

SwitchEnds ==
    /\ target # active /\ Waited
    /\ active' = target
    /\ UNCHANGED <<inUse, alive, target, surface, paused, clients, work, worker, events>>

\* tabNavigated, handleSize, handleMobileLayout
CancelInput ==
    /\ Happens /\ queue' = Cancelled(queue)
    /\ UNCHANGED <<context, clients, unsent, worker>>

\* The encoder starts another generation of the video.
NewSurface ==
    /\ Happens /\ surface' = surface + 1
    /\ UNCHANGED <<inUse, alive, active, target, paused, clients, work, worker>>

\* A handoff to the setup browser sets the flag, cancels the input and, when the
\* session cannot be saved, goes on with this browser.
Pause ==
    /\ Happens /\ paused = "no" /\ paused' = "flag"
    /\ UNCHANGED <<inUse, alive, active, target, surface, clients, work, worker>>

PauseCancels ==
    /\ paused = "flag" /\ paused' = "cancelled"
    /\ queue' = Cancelled(queue)
    /\ UNCHANGED <<inUse, alive, active, target, surface, clients, unsent, worker, events>>

Resume ==
    /\ paused = "cancelled" /\ Waited /\ paused' = "no"
    /\ UNCHANGED <<inUse, alive, active, target, surface, clients, work, worker, events>>

\* External: Chromium ends, and with it what it held.
BrowserDies ==
    /\ Happens /\ alive /\ alive' = FALSE
    /\ contacts' = [s \in Sessions |-> {}] /\ pressed' = [s \in Sessions |-> {}]
    /\ UNCHANGED <<inUse, active, target, surface, paused, clients, work, busy, lane>>

ClientCloses(c) ==
    /\ Happens /\ link[c] = "open"
    /\ link' = [link EXCEPT ![c] = "closed"]
    /\ UNCHANGED <<context, down, sends, work, worker>>

\* Bug: the lanes are not told.
DisconnectedQuietly(c) ==
    /\ link[c] = "closed"
    /\ link' = [link EXCEPT ![c] = "gone"]
    /\ UNCHANGED <<context, down, sends, work, worker, events>>

\* ClientDisconnected cancels whatever is held: there is one shared surface.
Disconnected(c) ==
    /\ link[c] = "closed"
    /\ link' = [link EXCEPT ![c] = "gone"]
    /\ queue' = Cancelled(queue)
    /\ UNCHANGED <<context, down, sends, unsent, worker, events>>

----------------------------------------------------------------------------
\* The worker of a lane.  A touch lane holds pairs of a finger and the number
\* Chromium knows it by, the pointer lane the buttons the client last reported.

\* Bug: the touches of the tab that is active now are cancelled.
CancelActiveTab(l, took) ==
    /\ lane' = [lane EXCEPT ![l] = took]
    /\ LET held == lane[l].held IN
       /\ contacts' = IF l = "touch" /\ held # {} THEN [contacts EXCEPT ![active] = {}] ELSE contacts
       /\ pressed' = IF l = "pointer" /\ held # {} THEN [pressed EXCEPT ![lane[l].session] = @ \ held]
                     ELSE pressed

\* cancelActive: Chromium lets go what the owner held.  "took" is the lane afterwards.
CancelActive(l, took) ==
    /\ lane' = [lane EXCEPT ![l] = took]
    /\ LET held == lane[l].held s == lane[l].session IN
       /\ contacts' = IF l = "touch" /\ held # {} THEN [contacts EXCEPT ![s] = {}] ELSE contacts
       /\ pressed' = IF l = "pointer" /\ held # {} THEN [pressed EXCEPT ![s] = @ \ held] ELSE pressed

Discard == UNCHANGED <<lane, contacts, pressed>>
Owned(w, s) == [Free EXCEPT !.owner = w.client, !.session = s, !.surface = w.surface]
Mine(l, w, s) == lane[l].owner = w.client /\ lane[l].session = s /\ lane[l].surface = w.surface

\* addBrowserTouchID: the smallest number that no finger of the gesture has.
FreeID(held) == LET used == {h[2] : h \in held}
                    free == (0 .. MaxContacts - 1) \ used
                IN IF free = {} THEN MaxContacts ELSE CHOOSE n \in free : \A m \in free : n <= m
Fingers(held) == {h[1] : h \in held}
Numbers(held) == {h[2] : h \in held}

\* The end of touchInput.process, for a lane k that w's client owns.
Touch(w, s, k) ==
    LET fits == CASE w.kind = "start" -> w.item \notin Fingers(k.held) /\ FreeID(k.held) < MaxContacts
                  [] w.kind = "end" -> w.item \in Fingers(k.held)
                  [] w.kind = "move" -> w.set = Fingers(k.held)
                  [] OTHER -> TRUE
        held == CASE w.kind = "start" -> k.held \cup {<<w.item, FreeID(k.held)>>}
                  [] w.kind = "end" -> {h \in k.held : h[1] # w.item}
                  [] w.kind = "move" -> k.held
                  [] OTHER -> {}
    IN IF w.seq <= k.lastSeq \/ ~fits THEN CancelActive("touch", Free)
       ELSE /\ lane' = [lane EXCEPT !["touch"] = IF held = {} \/ ~alive THEN Free
                                                ELSE [k EXCEPT !.held = held, !.lastSeq = w.seq]]
            /\ contacts' = IF alive THEN [contacts EXCEPT ![s] = Numbers(held)] ELSE contacts
            /\ UNCHANGED pressed

\* The end of pointerInput.process: dispatchPointer and dispatchWheel.
Pointer(w, s, k) ==
    IF w.seq <= k.lastSeq THEN CancelActive("pointer", Free)
    ELSE IF ~alive THEN CancelActive("pointer", [Free EXCEPT !.lastSeq = w.seq])
    ELSE /\ lane' = [lane EXCEPT !["pointer"] = [k EXCEPT !.lastSeq = w.seq,
                                                   !.held = IF w.kind = "wheel" THEN @ ELSE w.set]]
         /\ pressed' = [pressed EXCEPT ![s] = CASE w.kind = "down" -> @ \cup {w.item}
                                                [] w.kind = "up" -> @ \ {w.item}
                                                [] OTHER -> @]
         /\ UNCHANGED contacts

\* Another owner, tab or surface; a gesture of several fingers.
NeedsViewport(l, w) ==
    LET k == lane[l] IN
    IF l = "pointer" THEN w.kind # "key" /\ ~Mine(l, w, active)
    ELSE \/ k.owner = NoClient
         \/ Mine(l, w, active) /\ w.seq > k.lastSeq
            /\ Cardinality(k.held) + (IF w.kind = "start" THEN 1 ELSE 0) > 1

\* validPointerCommand, validWheelCommand, validTouchCommand
Malformed(w) == w.bad

\* What process and processCommand do with a work before they call Chromium.
Verdict(l, w) ==
    LET k == lane[l] key == w.kind = "key" IN
    IF w = Cancel THEN "cancel"
    ELSE IF paused # "no" THEN "discard"
    ELSE IF Malformed(w) \/ link[w.client] # "open" THEN "cancel"
    ELSE IF active = NoSession THEN (IF key THEN "discard" ELSE "cancel")
    ELSE IF key THEN (IF k.owner \notin {NoClient, w.client} \/ k.session \notin {NoSession, active}
                      THEN "cancel" ELSE "discard")
    ELSE IF w.surface # surface THEN "cancel"
    ELSE IF l = "touch" /\ k.owner = NoClient /\ w.kind # "start" THEN "discard"
    ELSE IF NeedsViewport(l, w) THEN "viewport"
    ELSE IF Mine(l, w, active) THEN "go" ELSE "cancel"

\* loadViewport; the pointer lane has let go before.
Ask(l, w) ==
    /\ busy' = [busy EXCEPT ![l] = [work |-> w, session |-> active, surface |-> surface]]
    /\ IF l = "pointer" THEN CancelActive(l, Free) ELSE Discard

\* run takes the next work.  A key reaches Chromium whether or not it cancels.
Take(l) ==
    LET w == Head(queue[l]) verdict == Verdict(l, w) IN
    /\ queue[l] # <<>> /\ busy[l] = NoWork
    /\ queue' = [queue EXCEPT ![l] = Tail(@)]
    /\ unsent' = IF w = Cancel \/ Replaceable(w) THEN unsent ELSE [unsent EXCEPT ![l][w.client] = @ - 1]
    /\ \/ verdict = "discard" /\ Discard /\ UNCHANGED busy
       \/ verdict = "cancel" /\ CancelActive(l, Free) /\ UNCHANGED busy
       \/ verdict = "viewport" /\ Ask(l, w)
       \/ verdict = "go" /\ l = "touch" /\ Touch(w, active, lane[l]) /\ UNCHANGED busy
       \/ verdict = "go" /\ l = "pointer" /\ Pointer(w, active, lane[l]) /\ UNCHANGED busy
    /\ UNCHANGED <<context, clients, events>>

\* The viewport has come, or it has failed: for a lane that is owned the gesture ends.
Answered(l, ok) ==
    LET w == busy[l].work
        s == busy[l].session
        k == IF lane[l].owner = NoClient THEN Owned(w, s) ELSE lane[l]
    IN /\ busy[l] # NoWork /\ (ok => alive)
       /\ busy' = [busy EXCEPT ![l] = NoWork]
       /\ UNCHANGED <<context, clients, work, events>>
       /\ \/ ~ok /\ lane[l].owner = NoClient /\ Discard
          \/ ~ok /\ lane[l].owner # NoClient /\ CancelActive(l, Free)
          \/ ok /\ l = "touch" /\ Touch(w, s, k)
          \/ ok /\ l = "pointer" /\ Pointer(w, s, k)

----------------------------------------------------------------------------
Worker(l) == Take(l) \/ \E ok \in BOOLEAN : Answered(l, ok)

InputNext ==
    \/ \E c \in Clients, bad \in BOOLEAN : SendTouch(c, bad) \/ SendPointer(c, bad)
    \/ \E s \in Sessions \cup {NoSession} : SwitchStarts(s)
    \/ SwitchEnds \/ CancelInput \/ NewSurface \/ Pause \/ PauseCancels \/ Resume \/ BrowserDies
    \/ \E c \in Clients : ClientCloses(c) \/ Disconnected(c)
    \/ \E l \in Lanes : Worker(l)

\* Workers never stop, a call to Chromium returns or times out, and the hub calls
\* ClientDisconnected for each client that closes.
InputFairness ==
    /\ \A l \in Lanes : WF_inputVars(Worker(l))
    /\ \A c \in Clients : WF_inputVars(Disconnected(c))

InputSpec == InputInit /\ [][InputNext]_inputVars /\ InputFairness

----------------------------------------------------------------------------
\* Properties

\* Chromium's touch contacts are the fingers that the touch lane holds, in the tab it
\* holds them in: no change of tab, surface or client leaves a finger on a page
\* (touchInput.process and cancelActive).
ContactsOwned ==
    alive => \A s \in Sessions :
        contacts[s] = IF lane["touch"].session = s THEN Numbers(lane["touch"].held) ELSE {}

\* A button that is pressed in Chromium is one the pointer lane holds in that tab and
\* will release when it is cancelled (pointerInput.process and cancelActive).
PressesOwned ==
    alive => \A s \in Sessions :
        pressed[s] \subseteq IF lane["pointer"].session = s THEN lane["pointer"].held ELSE {}

\* Nothing is held down on a page behind the lanes' backs, whichever of a tab switch, a
\* new surface, a reload of the viewport or another client's event comes between the
\* press and its release (touchInput.process, pointerInput.process, cancelActive).
HeldInputOwned == ContactsOwned /\ PressesOwned

\* "button edges remain reliable" (pointer_input.go) and "a key event can never overtake
\* the click" (HandleMessage): the queues hold every edge that a client sent and the
\* worker has not taken, in the order in which they were sent.
EdgesReliable ==
    \A l \in Lanes :
        /\ \A c \in Clients : unsent[l][c] = Cardinality(EdgesOf(queue[l], c))
        /\ \A i, j \in DOMAIN queue[l] :
               i < j /\ queue[l][i].client = queue[l][j].client => queue[l][i].seq <= queue[l][j].seq

\* A client that goes away ends up holding nothing for good, whatever its last
\* messages were and wherever the workers were when it left (ClientDisconnected).
DepartedLetGo == <>[](\A c \in Clients, l \in Lanes : link[c] # "open" => lane[l].owner # c)

----------------------------------------------------------------------------
(* Why HeldInputOwned and EdgesReliable hold: their inductive invariant *)

Items == Points \cup Buttons \cup {0}
Works == [kind : {"start", "end", "cancel", "down", "up", "key"} \cup Motion, client : Clients, seq : Nat,
          surface : Nat, item : Items, set : SUBSET (Points \cup Buttons), bad : BOOLEAN]
Busies == [work : Works \cup {Cancel}, session : Sessions \cup {NoSession}, surface : Nat]
LaneStates(items) == [owner : Clients \cup {NoClient}, session : Sessions \cup {NoSession},
                      surface : Nat, lastSeq : Nat, held : SUBSET items]

InputTypeOK ==
    /\ inUse \in SUBSET Lanes /\ alive \in BOOLEAN
    /\ {active, target} \subseteq Sessions \cup {NoSession}
    /\ surface \in Nat /\ sends \in Nat
    /\ paused \in {"no", "flag", "cancelled"}
    /\ link \in [Clients -> {"open", "closed", "gone"}]
    /\ down \in [Lanes -> [Clients -> SUBSET (Points \cup Buttons)]]
    /\ queue \in [Lanes -> Seq(Works \cup {Cancel})]
    /\ busy \in [Lanes -> Busies]
    /\ lane \in [Lanes -> LaneStates((Items \X Nat) \cup Points \cup Buttons)]
    /\ lane["touch"].held \subseteq Items \X Nat /\ lane["pointer"].held \subseteq Points \cup Buttons
    /\ contacts \in [Sessions -> SUBSET Nat] /\ pressed \in [Sessions -> SUBSET Items]
    /\ unsent \in [Lanes -> [Clients -> Nat]]

WorkIsSent == \A l \in Lanes : \A i \in DOMAIN queue[l] : queue[l][i].seq <= sends

\* A worker that waits for a viewport has let go of everything before, or holds it in
\* the tab whose viewport it waits for.
LaneOwned ==
    \A l \in Lanes :
        /\ lane[l].owner = NoClient => lane[l].session = NoSession /\ lane[l].held = {}
        /\ busy[l] # NoWork =>
               /\ busy[l].work \in Works /\ busy[l].session \in Sessions
               /\ \/ lane[l].owner = NoClient
                  \/ l = "touch" /\ lane[l].session = busy[l].session
        /\ l \notin inUse => queue[l] = <<>> /\ busy[l] = NoWork /\ lane[l].owner = NoClient

\* Input that was cancelled for a handoff is let go before the handoff goes on.
PausedLetGo ==
    paused = "cancelled" =>
        \A l \in Lanes : Cancel \notin Range(queue[l]) => busy[l] = NoWork /\ lane[l].owner = NoClient

\* Between the places i and j of a queue client c lets button b go.
LetGo(q, i, j, c, b) == \E m \in i .. j : q[m].client = c /\ q[m].kind = "up" /\ q[m].item = b

\* No work behind place i, and not the client itself, which holds "mine", has a button of
\* X up unless it was let go in between.
Keeps(q, i, c, X, mine) ==
    \A b \in X :
        /\ \A j \in (i + 1) .. Len(q) : q[j].client = c /\ b \notin q[j].set => LetGo(q, i + 1, j, c, b)
        /\ b \notin mine => LetGo(q, i + 1, Len(q), c, b)

\* What a client holds, as far as it matters to what it will still send.
Holds(c) == IF link[c] = "open" THEN down["pointer"][c] ELSE Points \cup Buttons

\* The reports of a client follow one upon the other, from the one that its lane has acted
\* upon to what the client holds now: none that lets a button go is lost.
ReportsFollow ==
    LET q == queue["pointer"] k == lane["pointer"] w == busy["pointer"].work
        Follows(u, i) == u # Cancel => /\ Keeps(q, i, u.client, u.set, Holds(u.client))
                                       /\ u.kind = "down" => u.item \in u.set
    IN /\ \A i \in 1 .. Len(q) : Follows(q[i], i)
       /\ busy["pointer"] # NoWork => Follows(w, 0)
       /\ paused = "no" /\ k.owner # NoClient => Keeps(q, 0, k.owner, k.held, Holds(k.owner))

InputInv ==
    /\ InputTypeOK /\ WorkIsSent /\ LaneOwned /\ PausedLetGo
    /\ ReportsFollow /\ HeldInputOwned /\ EdgesReliable
=============================================================================
