------------------------------ MODULE TabSession ------------------------------
(***************************************************************************)
(* The tabs of the streaming browser and the session file that brings them *)
(* back: the startup batch, the goroutines that attach new targets and     *)
(* drop destroyed ones, the switch of the active tab, the delayed save,    *)
(* the flush at a handoff or shutdown and the polls of the setup browser.  *)
(*   src/backend/internal/browser/tabs.go, session.go, setup.go,           *)
(*   controller.go (Start, onEvent, Shutdown), input.go (handleTab)        *)
(*                                                                         *)
(* A goroutine per created and per destroyed target and the controller's   *)
(* command loop are the Flows; each has a place and a list of things to    *)
(* do.  What clients are shown of this is left out.                        *)
(***************************************************************************)
EXTENDS Naturals, Sequences, FiniteSets, SequencesExt

CONSTANTS
    Targets, NoTarget,  \* Chromium page targets; a name is used once
    Urls, StartURL,     \* what pages show; "blank" and "internal" among them
    Beginnings,         \* what a start may find: [native: page targets, page, file]
    SetupSessions,      \* what the windows of the setup browser may show
    MaxMoves            \* bound on what pages and users do

ASSUME TabsAssumption ==
    /\ NoTarget \notin Targets /\ StartURL \in Urls /\ {"blank", "internal"} \subseteq Urls
    /\ MaxMoves \in Nat

VARIABLES
    mode,      \* "start", "run", "closing", "setup" or "down"
    open,      \* external: Chromium's page targets
    page,      \* external: the URL that a page shows
    news,      \* external: its navigation events that are not delivered yet
    fresh,     \* targets that have never existed
    tabs,      \* the targets that have a tab (tabs, byTarget)
    id,        \* id[t]: the ID of t's tab, which no other tab gets
    url,       \* Tab.URL
    attached,  \* tabs that have a session (bySession)
    seq,       \* the last ID given
    active,    \* activeID
    latest,    \* the flow whose activeGen is current
    restore,   \* restorePending, restoreOrder, restoreActiveTarget, restoreActiveID
    at, todo,  \* where each flow stands, and what it does next
    armed,     \* sessionTimer is set
    closed,    \* sessionClosed
    save,      \* where SaveSession of the timer and of the flush stand
    file,      \* whose snapshot browser-session.json is: an earlier save's, the flush's or a poll's
    found,     \* the session that was read from it at the start
    setup,     \* setupBrowser: [shows: its windows' tabs, polled, snapshot]
    moves,     \* how often pages and users have done something (bounded)
    wanted,    \* history: the tab that the file had as active, as a target
    meddled    \* history: a user, a page or Chromium itself chose another tab

chromeVars == <<open, page, news, fresh>>
tabVars == <<tabs, id, url, attached, seq, active, latest, restore>>
saveVars == <<armed, closed, save, file, found>>
vars == <<mode, chromeVars, tabVars, at, todo, saveVars, setup, moves, wanted, meddled>>

Command == <<NoTarget, "command">>
NoFlow == <<NoTarget, "none">>
Flows == (Targets \X {"attach", "drop"}) \cup {Command}
Attach(t) == <<t, "attach">>
Drop(t) == <<t, "drop">>

NoRestore == [pending |-> {}, order |-> <<>>, active |-> NoTarget, id |-> 0]
NoSession == [tabs |-> <<>>, active |-> 1, fromSetup |-> FALSE]

\* The batch of a restore, and the places of t in it: one of them is its ID.
Listed(order) == {order[i] : i \in 1 .. Len(order)}
PlacesOf(t) == {i \in 1 .. Len(restore.order) : restore.order[i] = t}

Ids == {id[t] : t \in tabs}
MaxId(ids) == LET top == {i \in ids : \A j \in ids : j <= i}
              IN IF top = {} THEN 0 ELSE CHOOSE i \in top : TRUE

Restorable(u) == u # "internal"
\* What SaveSession keeps of the tabs: none, and nothing is written.
Kept == {t \in tabs : Restorable(url[t])}

Init ==
    /\ mode = "start"
    /\ \E b \in Beginnings : /\ open = b.native /\ fresh = Targets \ b.native
                              /\ page = b.page /\ found = b.file
    /\ news = [t \in Targets |-> {}]
    /\ tabs = {} /\ id = [t \in Targets |-> 0] /\ url = [t \in Targets |-> "blank"]
    /\ attached = {} /\ seq = 0 /\ active = 0 /\ latest = NoFlow
    /\ restore = NoRestore
    /\ at = [f \in Flows |-> "idle"] /\ todo = [f \in Flows |-> <<>>]
    /\ armed = FALSE /\ closed = FALSE
    /\ save = [w \in {"timer", "flush"} |-> "idle"]
    /\ file = "timer"
    /\ setup = [shows |-> "none", polled |-> "none", snapshot |-> "none"]
    /\ moves = 0
    /\ wanted = NoTarget /\ meddled = FALSE

----------------------------------------------------------------------------
\* Start: prepareStartupSession, normalizeStartupTargets and target discovery

Real(t) == Restorable(page[t]) /\ page[t] # "blank"

\* Saved URLs in order, each with a page that shows it and is not used yet.
Match(saved) ==
    LET m[i \in 0..Len(saved)] ==
          IF i = 0 THEN <<>>
          ELSE LET free == {t \in open : Real(t) /\ page[t] = saved[i]} \ Range(m[i - 1])
               IN Append(m[i - 1], IF free = {} THEN NoTarget ELSE CHOOSE t \in free : TRUE)
    IN m[Len(saved)]

\* Pages that Chromium brought back win; the saved session orders them and says
\* which is active.
OrderedPages(saved) ==
    LET matched == Match(saved)
    IN SelectSeq(matched, LAMBDA t : t # NoTarget)
         \o SetToSeq({t \in open : Real(t)} \ Range(matched))
ActivePage(session) ==
    LET matched == Match(session.tabs)
        ordered == OrderedPages(session.tabs)
        same == {i \in DOMAIN ordered : page[ordered[i]] = session.tabs[session.active]}
    IN IF matched[session.active] # NoTarget THEN matched[session.active]
       ELSE IF same # {} THEN ordered[CHOOSE i \in same : \A j \in same : i <= j]
       ELSE ordered[1]

\* beginRestore
Begin(order, target) ==
    /\ restore' = [pending |-> Listed(order), order |-> order, active |-> target, id |-> 0]
    /\ seq' = Len(order)
    /\ wanted' = target

\* setDiscoverTargets reports every page there is.
Discover == at' = [f \in Flows |-> IF f[2] = "attach" /\ f[1] \in open' THEN "reserve" ELSE "idle"]

\* Of several blank pages one is enough, and none beside a real one.
Normal(pages) ==
    LET blank == {t \in pages : page[t] = "blank"}
    IN IF blank = {} THEN pages
       ELSE IF blank # pages THEN pages \ blank
       ELSE {CHOOSE t \in blank : TRUE}

StartNative ==
    /\ mode = "start" /\ ~found.fromSetup /\ \E t \in open : Real(t)
    /\ UNCHANGED page
    /\ open' = Normal(open)
    /\ IF found.tabs = <<>> THEN UNCHANGED <<restore, seq, wanted>>
       ELSE Begin(OrderedPages(found.tabs), ActivePage(found))
    /\ UNCHANGED fresh

\* The saved pages that Chromium creates, under new names, in place of all others.
Recreate(made) ==
    LET which == SetToSortSeq(made, <)
        order == [i \in DOMAIN which |-> SetToSeq(fresh)[i]]
        saved(t) == found.tabs[which[CHOOSE i \in DOMAIN order : order[i] = t]]
        chosen == {i \in DOMAIN which : which[i] = found.active}
    IN /\ Cardinality(made) <= Cardinality(fresh)
       /\ page' = [t \in Targets |-> IF t \in Range(order) THEN saved(t) ELSE page[t]]
       /\ fresh' = fresh \ Range(order)
       /\ open' = Range(order)
       /\ Begin(order, order[IF chosen = {} THEN 1 ELSE CHOOSE i \in chosen : TRUE])

\* No page came back.  One that cannot be created is passed over.
StartCreated ==
    /\ mode = "start" /\ ~found.fromSetup /\ ~\E t \in open : Real(t)
    /\ \/ \E made \in SUBSET DOMAIN found.tabs : made # {} /\ Recreate(made)
       \/ open' = Normal(open) /\ UNCHANGED <<page, fresh, restore, seq, wanted>>

\* restoreHandoff: after setup the file alone counts, and all of it.
StartExact ==
    /\ mode = "start" /\ found.fromSetup
    /\ Recreate(DOMAIN found.tabs)

Start ==
    /\ StartNative \/ StartCreated \/ StartExact
    /\ mode' = "run" /\ found' = NoSession
    /\ Discover
    /\ UNCHANGED <<news, tabs, id, url, attached, active, latest, todo, armed, closed, save, file, setup, moves, meddled>>

----------------------------------------------------------------------------
\* The session file

\* scheduleSessionSave; sessionTimerMu is held through a scheduled save.
ScheduleSave == save["timer"] = "idle" /\ armed' = ~closed

\* runScheduledSessionSave up to the write, with the snapshot taken.  It keeps
\* sessionTimerMu and sessionWriteMu until then; a timer that was replaced does
\* nothing.  Without tabs SaveSession keeps the file.
RunScheduled ==
    /\ armed /\ save["timer"] = "idle"
    /\ armed' = FALSE
    /\ save' = [save EXCEPT !["timer"] = IF Kept = {} THEN "idle" ELSE "write"]
    /\ UNCHANGED <<mode, chromeVars, tabVars, at, todo, closed, file, found, setup, moves, wanted,
                   meddled>>

\* Bug: the flush does not wait for a save that is under way.
FlushAtOnce ==
    /\ mode = "run" /\ ~closed
    /\ mode' = "closing" /\ closed' = TRUE /\ armed' = FALSE
    /\ save' = [save EXCEPT !["flush"] = IF Kept = {} THEN "empty" ELSE "write"]
    /\ UNCHANGED <<chromeVars, tabVars, at, todo, file, found, setup, moves, wanted, meddled>>

\* flushSession, of openSetup and of Shutdown, up to the write.  It waits for both locks.
Flush ==
    /\ mode = "run" /\ ~closed /\ save["timer"] = "idle"
    /\ mode' = "closing" /\ closed' = TRUE /\ armed' = FALSE
    /\ save' = [save EXCEPT !["flush"] = IF Kept = {} THEN "empty" ELSE "write"]
    /\ UNCHANGED <<chromeVars, tabVars, at, todo, file, found, setup, moves, wanted, meddled>>

\* The file is replaced, or not at all.  A handoff that cannot save is called off,
\* a shutdown is not.
WriteSession(w) ==
    /\ save[w] = "write"
    /\ \/ /\ file' = w
          /\ save' = [save EXCEPT ![w] = IF w = "flush" THEN "done" ELSE "idle"]
          /\ UNCHANGED <<mode, closed>>
       \/ /\ save' = [save EXCEPT ![w] = "idle"]
          /\ IF w = "flush" THEN mode' \in {"run", "down"} /\ closed' = FALSE ELSE UNCHANGED <<mode, closed>>
          /\ UNCHANGED file
    /\ UNCHANGED <<chromeVars, tabVars, at, todo, armed, found, setup, moves, wanted, meddled>>

----------------------------------------------------------------------------
\* attachTarget

Proceed(f, place, list) ==
    /\ at' = [at EXCEPT ![f] = IF place = "todo" /\ list = <<>> THEN "idle" ELSE place]
    /\ todo' = [todo EXCEPT ![f] = list]
Next1(f) == Proceed(f, "todo", Tail(todo[f]))
Switch(i) == IF i = 0 THEN <<>> ELSE <<[do |-> "switch", id |-> i]>>

\* A blank page is not wanted beside a real one, for the first five seconds (which
\* are not kept).
Reserve(t) ==
    /\ at[Attach(t)] = "reserve"
    /\ \/ /\ page[t] = "blank" /\ \E s \in tabs : url[s] # "blank"
          /\ Proceed(Attach(t), "todo", <<[do |-> "close", id |-> 0]>>)
          /\ UNCHANGED <<tabs, id, url, seq>>
       \/ /\ IF PlacesOf(t) # {}
             THEN id' = [id EXCEPT ![t] = CHOOSE i \in PlacesOf(t) : TRUE] /\ seq' = seq
             ELSE id' = [id EXCEPT ![t] = seq + 1] /\ seq' = seq + 1
          /\ url' = [url EXCEPT ![t] = page[t]]
          /\ tabs' = tabs \cup {t}
          /\ Proceed(Attach(t), IF t \in open THEN "attaching" ELSE "lost", <<>>)
    /\ meddled' = (meddled \/ PlacesOf(t) = {})
    /\ UNCHANGED <<mode, chromeVars, attached, active, latest, restore, saveVars, setup, moves, wanted>>

\* Bug: the answer is taken for a tab that has been dropped meanwhile.
AttachedUnchecked(t) ==
    /\ at[Attach(t)] \in {"attaching", "lost"}
    /\ \/ tabs' = tabs \ {t} /\ Proceed(Attach(t), "fail", <<>>) /\ UNCHANGED attached
       \/ at[Attach(t)] = "attaching" /\ attached' = attached \cup {t} /\ Proceed(Attach(t), "setup", <<>>) /\ UNCHANGED tabs
    /\ UNCHANGED <<mode, chromeVars, id, url, seq, active, latest, restore, saveVars, setup, moves,
                   wanted, meddled>>

\* The answer of attachToTarget: it fails for a page that was gone before, may fail
\* for another, and may come when the tab is gone.
Attached(t) ==
    /\ at[Attach(t)] \in {"attaching", "lost"}
    /\ \/ tabs' = tabs \ {t} /\ Proceed(Attach(t), "fail", <<>>) /\ UNCHANGED attached
       \/ /\ at[Attach(t)] = "attaching" /\ t \in tabs
          /\ attached' = attached \cup {t} /\ Proceed(Attach(t), "setup", <<>>) /\ UNCHANGED tabs
       \/ at[Attach(t)] = "attaching" /\ t \notin tabs /\ Proceed(Attach(t), "todo", <<>>) /\ UNCHANGED <<tabs, attached>>
    /\ UNCHANGED <<mode, chromeVars, id, url, seq, active, latest, restore, saveVars, setup, moves,
                   wanted, meddled>>

\* The page is set up, and the first one gets its start page.
SetUp(t) ==
    /\ at[Attach(t)] = "setup"
    /\ ScheduleSave
    /\ IF id[t] = 1 /\ url[t] = "blank" /\ t \in open
       THEN page' = [page EXCEPT ![t] = StartURL] /\ news' = [news EXCEPT ![t] = {"info", "frame"}]
       ELSE UNCHANGED <<page, news>>
    /\ Proceed(Attach(t), "finish", <<>>)
    /\ UNCHANGED <<mode, open, fresh, tabVars, closed, save, file, found, setup, moves, wanted, meddled>>

\* Bug: the batch ends with the last target that attached, whichever it is.
FinishLast(t, i) ==
    IF t \notin restore.pending THEN [handled |-> FALSE, activate |-> 0, restore |-> restore]
    ELSE IF restore.pending # {t}
    THEN [handled |-> TRUE, activate |-> 0, restore |-> [restore EXCEPT !.pending = @ \ {t}, !.id = i]]
    ELSE [handled |-> TRUE, activate |-> IF i # 0 THEN i ELSE restore.id, restore |-> NoRestore]

\* finishRestoreTarget: the batch is over with its last target.
Finish(t, i) ==
    LET left == restore.pending \ {t}
        chosen == IF t = restore.active THEN i ELSE restore.id
    IN IF t \notin restore.pending THEN [handled |-> FALSE, activate |-> 0, restore |-> restore]
       ELSE IF left # {}
       THEN [handled |-> TRUE, activate |-> 0,
             restore |-> [restore EXCEPT !.pending = left, !.id = chosen]]
       ELSE [handled |-> TRUE, activate |-> IF chosen # 0 THEN chosen ELSE MaxId(Ids),
             restore |-> NoRestore]

FinishAttach(t) ==
    /\ at[Attach(t)] \in {"fail", "finish"}
    /\ LET ok == at[Attach(t)] = "finish"
           r == Finish(t, IF ok THEN id[t] ELSE 0)
       IN /\ restore' = r.restore
          /\ Proceed(Attach(t), "todo", Switch(IF ok /\ ~r.handled THEN id[t] ELSE r.activate))
    /\ UNCHANGED <<mode, chromeVars, tabs, id, url, attached, seq, active, latest, saveVars, setup, moves, wanted, meddled>>

----------------------------------------------------------------------------
\* dropTarget and switchActive

\* The tab to show next is chosen here and shown later.
DropTab(t) ==
    /\ at[Drop(t)] = "drop"
    /\ IF t \notin tabs
       THEN Proceed(Drop(t), "restore", <<>>) /\ UNCHANGED <<tabs, attached, active, latest>>
       ELSE LET mine == active = id[t]
                next == MaxId({id[s] : s \in tabs \ {t}})
            IN /\ tabs' = tabs \ {t} /\ attached' = attached \ {t}
               /\ active' = IF mine THEN 0 ELSE active
               /\ latest' = IF mine THEN NoFlow ELSE latest
               /\ Proceed(Drop(t), "restore",
                    (IF ~mine THEN <<>> ELSE IF next # 0 THEN Switch(next) ELSE <<[do |-> "create", id |-> 0]>>)
                      \o <<[do |-> "save", id |-> 0]>>)
    /\ UNCHANGED <<mode, chromeVars, id, url, seq, restore, saveVars, setup, moves, wanted, meddled>>

FinishDrop(t) ==
    /\ at[Drop(t)] = "restore"
    /\ LET r == Finish(t, 0)
       IN restore' = r.restore /\ Proceed(Drop(t), "todo", Switch(r.activate) \o todo[Drop(t)])
    /\ UNCHANGED <<mode, chromeVars, tabs, id, url, attached, seq, active, latest, saveVars, setup, moves, wanted, meddled>>

\* switchActive up to activateTarget.
SwitchActive(f) ==
    /\ at[f] = "todo" /\ Head(todo[f]).do = "switch"
    /\ IF Head(todo[f]).id \in Ids
       THEN /\ active' = Head(todo[f]).id /\ latest' = f
            /\ Proceed(f, "activating", todo[f])
       ELSE UNCHANGED <<active, latest>> /\ Next1(f)
    /\ UNCHANGED <<mode, chromeVars, tabs, id, url, attached, seq, restore, saveVars, setup, moves, wanted, meddled>>

\* Only the latest switch goes on, to the save and to the capture.
Activated(f) ==
    /\ at[f] = "activating"
    /\ \/ UNCHANGED armed
       \/ active = Head(todo[f]).id /\ latest = f /\ active \in Ids /\ ScheduleSave
    /\ latest' = IF latest = f THEN NoFlow ELSE latest
    /\ Next1(f)
    /\ UNCHANGED <<mode, chromeVars, tabs, id, url, attached, seq, active, restore, closed, save, file, found,
                   setup, moves, wanted, meddled>>

SaveLater(f) ==
    /\ at[f] = "todo" /\ Head(todo[f]).do = "save"
    /\ ScheduleSave
    /\ Next1(f)
    /\ UNCHANGED <<mode, chromeVars, tabVars, closed, save, file, found, setup, moves, wanted, meddled>>

\* Chromium creates a page, and closes one; its events start a goroutine each.
Creates(t, u, places) ==
    /\ t \in fresh
    /\ open' = open \cup {t} /\ fresh' = fresh \ {t} /\ page' = [page EXCEPT ![t] = u]
    /\ at' = [places EXCEPT ![Attach(t)] = "reserve"]
Closes(t, places) ==
    /\ open' = open \ {t}
    /\ at' = IF t \in open THEN [places EXCEPT ![Drop(t)] = "drop"] ELSE places

\* "Never leave zero tabs", and the blank page that is not wanted.
CreateOrClose(f) ==
    /\ at[f] = "todo"
    /\ \/ /\ Head(todo[f]).do = "create" /\ fresh # {}
          /\ Creates(CHOOSE t \in fresh : TRUE, "blank", [at EXCEPT ![f] = IF Len(todo[f]) = 1 THEN "idle" ELSE "todo"])
       \/ /\ Head(todo[f]).do = "close"
          /\ Closes(f[1], [at EXCEPT ![f] = "idle"]) /\ UNCHANGED <<fresh, page>>
    /\ todo' = [todo EXCEPT ![f] = Tail(@)]
    /\ UNCHANGED <<mode, news, tabVars, saveVars, setup, moves, wanted, meddled>>

----------------------------------------------------------------------------
\* Pages, their events and commands

Live == mode \in {"run", "closing"}
Moves == moves < MaxMoves /\ moves' = moves + 1

\* A page navigates, once it is reported and Chromium has told of its last navigation.
Navigate(t, u) ==
    /\ mode = "run" /\ t \in open /\ at[Attach(t)] # "reserve" /\ news[t] = {} /\ u # page[t]
    /\ Moves
    /\ page' = [page EXCEPT ![t] = u]
    /\ news' = [news EXCEPT ![t] = {"info"} \cup IF t \in attached THEN {"frame"} ELSE {}]
    /\ UNCHANGED <<mode, open, fresh, tabVars, at, todo, saveVars, setup, wanted, meddled>>

\* A page opens another one, or is closed, by itself or by Chromium.
Popup(t) ==
    /\ mode = "run" /\ open # {} /\ Moves /\ Creates(t, "blank", at)
    /\ UNCHANGED <<mode, news, tabVars, todo, saveVars, setup, wanted, meddled>>

PageCloses(t) ==
    /\ Live /\ t \in open /\ Moves
    /\ Closes(t, at) /\ news' = [news EXCEPT ![t] = {}]
    /\ UNCHANGED <<mode, page, fresh, tabVars, todo, saveVars, setup, wanted, meddled>>

\* targetInfoChanged, for every target, and tabNavigated, for one that has a session.
\* Their order is Chromium's.
TargetInfoChanged(t) ==
    /\ Live /\ "info" \in news[t] /\ at[Command] = "idle"
    /\ news' = [news EXCEPT ![t] = @ \ {"info"}]
    /\ IF t \in tabs /\ url[t] # page[t]
       THEN url' = [url EXCEPT ![t] = page[t]] /\ ScheduleSave
       ELSE UNCHANGED <<url, armed>>
    /\ UNCHANGED <<mode, open, page, fresh, tabs, id, attached, seq, active, latest, restore, at, todo,
                   closed, save, file, found, setup, moves, wanted, meddled>>

TabNavigated(t) ==
    /\ Live /\ "frame" \in news[t] /\ at[Command] = "idle"
    /\ news' = [news EXCEPT ![t] = @ \ {"frame"}]
    /\ url' = IF t \in attached THEN [url EXCEPT ![t] = page[t]] ELSE url
    /\ UNCHANGED <<mode, open, page, fresh, tabs, id, attached, seq, active, latest, restore, at, todo,
                   saveVars, setup, moves, wanted, meddled>>

Commanded ==
    /\ mode = "run" /\ at[Command] = "idle" /\ Moves
    /\ meddled' = TRUE
    /\ UNCHANGED <<mode, tabVars, saveVars, setup, wanted>>

Select(t) ==
    /\ Commanded /\ t \in tabs
    /\ Proceed(Command, "todo", Switch(id[t]))
    /\ UNCHANGED chromeVars

\* The last tab is not closed: "Reuse that final target as Surf's New Tab instead".
CloseTab(t) ==
    /\ Commanded /\ t \in tabs
    /\ IF Cardinality(tabs) <= 1 /\ t \in attached
       THEN /\ IF t \in open /\ page[t] # "blank"
               THEN page' = [page EXCEPT ![t] = "blank"] /\ news' = [news EXCEPT ![t] = {"info", "frame"}]
               ELSE UNCHANGED <<page, news>>
            /\ UNCHANGED <<open, fresh, at, todo>>
       ELSE Closes(t, at) /\ news' = [news EXCEPT ![t] = {}] /\ UNCHANGED <<page, fresh, todo>>

NewTab(t) == Commanded /\ Creates(t, "blank", at) /\ UNCHANGED <<news, todo>>

----------------------------------------------------------------------------
\* The setup browser

\* The controller is shut down and startSetup shows what the file has; the first
\* poll marks it as a session of setup.
StartSetup ==
    /\ mode = "closing" /\ save["flush"] \in {"done", "empty"}
    /\ mode' = "setup"
    /\ setup' = [shows |-> "restored", polled |-> "none", snapshot |-> "found"]
    /\ open' = {} /\ news' = [t \in Targets |-> {}]
    /\ page' = [t \in Targets |-> "blank"] /\ fresh' = {}
    /\ tabs' = {} /\ id' = [t \in Targets |-> 0] /\ url' = [t \in Targets |-> "blank"]
    /\ attached' = {} /\ seq' = 0 /\ active' = 0 /\ latest' = NoFlow /\ restore' = NoRestore
    /\ at' = [f \in Flows |-> "idle"] /\ todo' = [f \in Flows |-> <<>>]
    /\ save' = [w \in DOMAIN save |-> "idle"]
    /\ moves' = 0 /\ wanted' = NoTarget /\ meddled' = FALSE
    /\ UNCHANGED <<armed, closed, file, found>>

SetupOnly == UNCHANGED <<chromeVars, tabVars, at, todo, armed, closed, save, found, wanted, meddled>>

SetupChanges(session) ==
    /\ mode = "setup" /\ Moves
    /\ setup' = [setup EXCEPT !.shows = session]
    /\ UNCHANGED <<mode, file>> /\ SetupOnly

\* Bug: the snapshot is taken for written.
PollRemembers ==
    /\ mode = "setup" /\ setup.polled = "none" /\ setup.shows # setup.snapshot
    /\ setup' = [setup EXCEPT !.polled = setup.shows, !.snapshot = setup.shows]
    /\ UNCHANGED <<mode, file, moves>> /\ SetupOnly

Poll ==
    /\ mode = "setup" /\ setup.polled = "none" /\ setup.shows # setup.snapshot
    /\ setup' = [setup EXCEPT !.polled = setup.shows]
    /\ UNCHANGED <<mode, file, moves>> /\ SetupOnly

PollWrites ==
    /\ mode = "setup" /\ setup.polled # "none"
    /\ file' = setup.polled
    /\ setup' = [setup EXCEPT !.polled = "none", !.snapshot = setup.polled]
    /\ UNCHANGED <<mode, moves>> /\ SetupOnly

PollFails ==
    /\ mode = "setup" /\ setup.polled # "none"
    /\ setup' = [setup EXCEPT !.polled = "none"]
    /\ UNCHANGED <<mode, file, moves>> /\ SetupOnly

CloseSetup ==
    /\ mode = "setup" /\ setup.polled = "none"
    /\ mode' = "down"
    /\ UNCHANGED <<file, setup, moves>> /\ SetupOnly

----------------------------------------------------------------------------
FlowStep ==
    /\ Live
    /\ \/ \E t \in Targets : \/ Reserve(t) \/ Attached(t) \/ SetUp(t) \/ FinishAttach(t)
                             \/ DropTab(t) \/ FinishDrop(t)
       \/ \E f \in Flows : SwitchActive(f) \/ Activated(f) \/ SaveLater(f) \/ CreateOrClose(f)

Next ==
    \/ Start
    \/ FlowStep
    \/ Live /\ (RunScheduled \/ Flush \/ \E w \in DOMAIN save : WriteSession(w))
    \/ \E t \in Targets : \/ \E u \in Urls \ {"blank"} : Navigate(t, u)
                          \/ Popup(t) \/ PageCloses(t)
                          \/ TargetInfoChanged(t) \/ TabNavigated(t)
                          \/ Select(t) \/ CloseTab(t) \/ NewTab(t)
    \/ StartSetup
    \/ \E session \in SetupSessions : SetupChanges(session)
    \/ Poll \/ PollWrites \/ PollFails \/ CloseSetup

Spec == Init /\ [][Next]_vars

----------------------------------------------------------------------------
Quiet == mode = "run" /\ \A f \in Flows : at[f] = "idle"

\* A session belongs to a tab, and when all goroutines are done a tab belongs to a
\* page that exists, in whatever order attachment, destruction and their answers
\* came (tabs.go:232: "Do not let the stale completion repopulate bySession").
NoGhostTabs == attached \subseteq tabs /\ (Quiet => tabs \subseteq open)

\* session.go:204: "asynchronous discovery cannot accidentally focus a different
\* tab": however the batch attaches, fails or loses pages, the tab that was active
\* comes back as active, unless something outside the batch came for the focus.
RestoreFocuses ==
    Quiet /\ ~meddled /\ restore.pending = {} /\ wanted \in tabs => active = id[wanted]

\* What a handoff or a shutdown flushed is what the next browser finds: no save
\* that was under way, and none for tabs that go with the closing Chromium, comes
\* after it (session.go:175, 188).
FlushedStands == save["flush"] = "done" => file = "flush"

\* setup.go:204: "Commit only persisted snapshots, so a temporary disk error is
\* retried by the next poll": what a setup browser takes for saved is in the file.
SetupSaved == mode = "setup" /\ setup.snapshot # "found" => file = setup.snapshot

----------------------------------------------------------------------------
\* What the proofs need

SetupStates == {"none", "restored", "found"} \cup SetupSessions
FlowPlaces == {"idle", "reserve", "attaching", "lost", "fail", "setup", "finish", "drop", "restore",
               "todo", "activating"}
Todos == [do : {"switch", "save", "create", "close"}, id : Nat]

TabTypeOK ==
    /\ mode \in {"start", "run", "closing", "setup", "down"}
    /\ fresh \subseteq Targets /\ tabs \subseteq Targets
    /\ at \in [Flows -> FlowPlaces]
    /\ armed \in BOOLEAN /\ closed \in BOOLEAN /\ meddled \in BOOLEAN
    /\ save \in [{"timer", "flush"} -> {"idle", "write", "done", "empty"}]
    /\ setup \in [shows : SetupStates, polled : SetupStates, snapshot : SetupStates]

\* The flush closes the session for every other save, and none is under way then.
FlushIsLast ==
    /\ save["flush"] # "idle" => mode = "closing" /\ closed /\ save["timer"] = "idle"
    /\ closed => ~armed

----------------------------------------------------------------------------
\* A target's life: it is created once, and is dropped by a flow that its end starts.

LivesOnce ==
    /\ mode = "start" => tabs = {} /\ attached = {}
    /\ fresh \cap open = {} /\ fresh \cap tabs = {}
    /\ \A t \in fresh : at[Attach(t)] = "idle"
    /\ \A t \in Targets : at[Drop(t)] # "idle" => t \notin open /\ t \notin fresh

\* A tab without a page is about to be dropped, or attachTarget is about to fail.
AboutToGo ==
    /\ attached \subseteq tabs
    /\ \A t \in attached : at[Attach(t)] \notin {"reserve", "attaching", "lost"}
    /\ \A t \in tabs \ open : at[Drop(t)] = "drop" \/ at[Attach(t)] = "lost"
    /\ \A t \in Targets : at[Attach(t)] = "fail" => t \notin tabs
    /\ \A t \in Targets : at[Drop(t)] = "restore" /\ t \in tabs => at[Attach(t)] = "lost"

----------------------------------------------------------------------------
\* The focus of a restored batch.  Nothing of this holds once something outside the
\* batch has come for the focus.

SwitchIds(list) == {list[i].id : i \in {j \in 1 .. Len(list) : list[j].do = "switch"}}
Switches(f) == SwitchIds(todo[f])
HasClose(list) == \E i \in 1 .. Len(list) : list[i].do = "close"
InBatch == restore # NoRestore

BatchTypeOK ==
    /\ id \in [Targets -> Nat] /\ restore.id \in Nat
    /\ todo \in [Flows -> Seq(Todos)]
    /\ \A f \in Flows : /\ at[f] \in {"todo", "activating"} => todo[f] # <<>>
                        /\ at[f] = "activating" => Head(todo[f]).do = "switch"
                        /\ HasClose(todo[f]) => f[2] = "attach" /\ Len(todo[f]) = 1

\* A tab's ID is its place in the batch, so no two tabs have the same.
IdsApart ==
    /\ \A t \in tabs : id[t] > 0
    /\ \A s, t \in tabs : id[s] = id[t] => s = t
    /\ InBatch => \A t \in tabs : id[t] \in PlacesOf(t)

\* A target that the batch no longer waits for has finished, or has no tab to finish.
BatchWaits ==
    \A t \in Targets :
        /\ at[Attach(t)] \in {"attaching", "lost", "setup", "finish"} /\ InBatch => id[t] \in PlacesOf(t)
        /\ t \notin restore.pending =>
              /\ at[Attach(t)] \in {"attaching", "setup", "finish"} => id[t] \notin Ids
              /\ at[Attach(t)] = "reserve" /\ PlacesOf(t) # {} => t \notin open
              /\ t \in fresh => PlacesOf(t) = {}

BatchShape ==
    /\ restore = [pending |-> restore.pending, order |-> restore.order, active |-> restore.active,
                  id |-> restore.id]
    /\ InBatch => restore.active = wanted
    /\ restore.pending = {} => \A t \in Targets : PlacesOf(t) = {}

\* During the batch nothing is active, and a switch is to a tab that is gone.
BatchIsStill ==
    InBatch =>
        /\ active = 0
        /\ \A f \in Flows : /\ at[f] # "activating"
                            /\ \A i \in Switches(f) : f[2] = "attach" /\ f[1] \notin tabs /\ i \in PlacesOf(f[1])
        /\ wanted \in tabs /\ wanted \notin restore.pending =>
              restore.id = id[wanted] \/ at[Attach(wanted)] = "lost"

\* After it, the tab that was wanted is active or some flow will switch to it; and
\* no flow switches to another.
BatchIsFocused ==
    ~InBatch /\ wanted \in tabs /\ at[Attach(wanted)] # "lost" =>
        /\ active \in {0, id[wanted]}
        /\ \A f \in Flows : Switches(f) \cap Ids \subseteq {id[wanted]}
        /\ active = id[wanted] \/ \E f \in Flows : at[f] = "todo" /\ id[wanted] \in Switches(f)

BatchInv == BatchShape /\ (~meddled => BatchTypeOK /\ IdsApart /\ BatchWaits /\ BatchIsStill /\ BatchIsFocused)

\* Before discovery no flow has anything to do.
StartsEmpty == mode = "start" => active = 0 /\ restore = NoRestore /\ \A f \in Flows : todo[f] = <<>>

TabInv == TabTypeOK /\ FlushIsLast /\ FlushedStands /\ SetupSaved /\ LivesOnce /\ AboutToGo /\ StartsEmpty /\ BatchInv
=============================================================================
