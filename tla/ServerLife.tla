------------------------------ MODULE ServerLife -----------------------------
(***************************************************************************)
(* The life of the server processes of one SURF_HOME, as their supervisor  *)
(* and the command line see it: the instance lock, the start of the        *)
(* browser, the published control descriptor daemon.json and the order in  *)
(* which an ending server gives these up.                                  *)
(*   src/backend/internal/app/serve.go, control/control.go                 *)
(*                                                                         *)
(* A member of Servers stands for one process, its PID and its admin       *)
(* token.  It stands for another process once the first is gone and its    *)
(* descriptor too, as tokens are random.                                   *)
(***************************************************************************)
EXTENDS Naturals

CONSTANTS Servers, NoServer

ASSUME ServersAssumption == NoServer \notin Servers

VARIABLES
    pc,         \* pc[n]: where ServeBrowserContext stands in process n
    kind,       \* kind[n]: child of the desktop, foreground, or standalone setup
    cancelled,  \* cancelled[n]: ctx was cancelled (shutdown route, signal, guard pipe) and n has yet to see it
    lock,       \* the owner of server.lock and of the profile lock
    daemon      \* whose descriptor daemon.json holds

lifeVars == <<pc, kind, cancelled, lock, daemon>>

Kinds == {"child", "foreground", "standalone"}
Steps == {"gone", "lock", "launch", "run", "closing", "remove", "unlink"}

\* A server of an earlier day may have died and left its descriptor.
LifeInit ==
    /\ pc = [n \in Servers |-> "gone"]
    /\ kind = [n \in Servers |-> "child"]
    /\ cancelled = [n \in Servers |-> FALSE]
    /\ lock = NoServer
    /\ daemon \in Servers \cup {NoServer}

Running(n) == pc[n] # "gone"

\* The control endpoint answers: its listener is open, and daemon.json names it.
Serving(n) == daemon = n /\ pc[n] = "run"

Goto(n, step) == pc' = [pc EXCEPT ![n] = step]

\* The process is over, and nothing of it is left but perhaps a descriptor.
Over(n) ==
    /\ Goto(n, "gone")
    /\ kind' = [kind EXCEPT ![n] = "child"]
    /\ cancelled' = [cancelled EXCEPT ![n] = FALSE]
    /\ lock' = IF lock = n THEN NoServer ELSE lock

Spawn(n, k) ==
    /\ ~Running(n) /\ daemon # n
    /\ Goto(n, "lock")
    /\ kind' = [kind EXCEPT ![n] = k]
    /\ UNCHANGED <<cancelled, lock, daemon>>

\* LockProfile: nobody serves the profile, under this home or another.
LocksFree == lock = NoServer

\* AcquireInstanceLock does not wait.
Acquire(n) ==
    /\ pc[n] = "lock"
    /\ IF LocksFree THEN Goto(n, "launch") /\ lock' = n /\ UNCHANGED <<kind, cancelled>>
                          ELSE Over(n)
    /\ UNCHANGED daemon

\* The browser, a listener or the descriptor fails, and nothing is published.
StartFails(n) ==
    /\ pc[n] = "launch"
    /\ Over(n)
    /\ UNCHANGED daemon

\* The browser starts, the listeners open, and the descriptor replaces whatever
\* daemon.json held.
Publish(n) ==
    /\ pc[n] = "launch"
    /\ daemon' = n /\ Goto(n, "run")
    /\ UNCHANGED <<kind, cancelled, lock>>

\* The last select: a cancelled context, a browser that died, a failed listener.
Leave(n) ==
    /\ pc[n] = "run"
    /\ Goto(n, "closing")
    /\ cancelled' = [cancelled EXCEPT ![n] = FALSE]
    /\ UNCHANGED <<kind, lock, daemon>>

\* Deferred calls run last in, first out: listeners, browser and locks close
\* before the descriptor is taken away.
Release(n) ==
    /\ pc[n] = "closing"
    /\ lock' = NoServer
    /\ Goto(n, "remove")
    /\ UNCHANGED <<kind, cancelled, daemon>>

\* RemoveOwned loads the descriptor, compares the token, and then removes the file.
RemoveOwnedLoad(n) ==
    /\ pc[n] = "remove"
    /\ IF daemon = n THEN Goto(n, "unlink") /\ UNCHANGED <<kind, cancelled, lock>> ELSE Over(n)
    /\ UNCHANGED daemon

RemoveOwnedUnlink(n) ==
    /\ pc[n] = "unlink"
    /\ daemon' = NoServer
    /\ Over(n)

\* The kernel frees the locks of a process that dies.
Die(n) ==
    /\ Running(n)
    /\ Over(n)
    /\ UNCHANGED daemon

\* Only a server that has not begun to close can still learn that it should.
Cancellable == {"lock", "launch", "run"}
Cancel(ns) == cancelled' = [n \in Servers |-> cancelled[n] \/ (n \in ns /\ pc[n] \in Cancellable)]

ServeStep(n) ==
    \/ Acquire(n) \/ StartFails(n) \/ Publish(n)
    \/ Leave(n) /\ cancelled[n]
    \/ Release(n) \/ RemoveOwnedLoad(n) \/ RemoveOwnedUnlink(n)

LifeNext ==
    \E n \in Servers :
        \/ \E k \in Kinds : Spawn(n, k)
        \/ ServeStep(n)
        \/ Leave(n)
        \/ Die(n)
        \/ Cancel({n}) /\ UNCHANGED <<pc, kind, lock, daemon>>

\* A process that has something to do gets on with it; one that serves may do so
\* for ever, until its context is cancelled.
LifeFairness == \A n \in Servers : WF_lifeVars(ServeStep(n))

LifeSpec == LifeInit /\ [][LifeNext]_lifeVars /\ LifeFairness

----------------------------------------------------------------------------
(* What the locks promise *)

LifeTypeOK ==
    /\ pc \in [Servers -> Steps]
    /\ kind \in [Servers -> Kinds]
    /\ cancelled \in [Servers -> BOOLEAN]
    /\ lock \in Servers \cup {NoServer}
    /\ daemon \in Servers \cup {NoServer}

\* A process owns the locks from AcquireInstanceLock to its deferred release, and at
\* no other time: the kernel's release and its own do not free another's lock.
LockHeld == \A n \in Servers : lock = n <=> pc[n] \in {"launch", "run", "closing"}

LifeInv == LifeTypeOK /\ LockHeld

\* No two processes start, serve or close a browser on the profile at once, however
\* they are spawned, killed and cancelled (serve.go:80-117).
OneServer ==
    \A m, n \in Servers : pc[m] \in {"launch", "run", "closing"}
                          /\ pc[n] \in {"launch", "run", "closing"} => m = n
=============================================================================
