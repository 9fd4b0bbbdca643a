---------------------------- MODULE ServerProcess ----------------------------
(***************************************************************************)
(* A server process with the recovery of a profile that Chromium cannot    *)
(* start with: the failure counter that successive processes read, change  *)
(* and write, and the steps between a decision to recover and its record,  *)
(* any of which may fail or be the last thing the process does.            *)
(*   src/backend/internal/app/serve.go, app/recovery.go                    *)
(*                                                                         *)
(* Times are kept as ages: a failure is "recent" up to browserFailureWindow*)
(* and then "old", a recovery up to browserRecoveryCooldown.               *)
(***************************************************************************)
EXTENDS ServerLife

CONSTANTS
    Profiles,    \* values of cfg.Profile
    MaxFailures  \* bound: failures that the record counts

ASSUME FailuresAssumption == MaxFailures \in Nat

VARIABLES
    record,    \* runtime/browser-startup.json
    serves,    \* serves[n]: cfg.Profile of process n
    lastFail,  \* history, per profile: how long ago a start failed
    paired,    \* history: the failure that a recovery is decided for followed a recent one
    deferred   \* history: profiles whose recovery was decided, within the window, and not done

procVars == <<pc, kind, cancelled, lock, daemon, record, serves, lastFail, paired, deferred>>
recoveryVars == <<record, serves, lastFail, paired, deferred>>

NoRecord == [profile |-> "", failures |-> 0, lastFailure |-> "never", lastRecovery |-> "never"]
StartSteps == {"listen", "failed", "noted", "moved", "abort"}

\* What the supervisor sees of a process that is busy with recovery, or has a
\* browser and no listener yet: it is starting.
Seen == [n \in Servers |-> IF pc[n] \in StartSteps THEN "launch" ELSE pc[n]]
Life == INSTANCE ServerLife WITH pc <- Seen

ProcInit ==
    /\ LifeInit
    /\ record = NoRecord
    /\ serves \in [Servers -> Profiles]
    /\ lastFail = [p \in Profiles |-> "never"]
    /\ paired = FALSE
    /\ deferred = {}

\* The configuration may name another profile than it did for the last process.
ProcSpawn(n) ==
    /\ Spawn(n, "child")
    /\ \E p \in Profiles : serves' = [serves EXCEPT ![n] = p]
    /\ UNCHANGED <<record, lastFail, paired, deferred>>

\* clearBrowserStartupFailures ignores the error of its Remove.
BrowserStarts(n) ==
    /\ pc[n] = "launch"
    /\ Goto(n, "listen")
    /\ record' \in {NoRecord, record}
    /\ deferred' = {}
    /\ UNCHANGED <<kind, cancelled, lock, daemon, serves, lastFail, paired>>

\* The listeners open and the descriptor is written, or one of these fails.
Listen(n) ==
    /\ pc[n] = "listen"
    /\ \/ daemon' = n /\ Goto(n, "run")
       \/ daemon' = daemon /\ Goto(n, "abort")
    /\ UNCHANGED <<kind, cancelled, lock, recoveryVars>>

\* The deferred calls of a server that has published nothing.
Abort(n) ==
    /\ pc[n] = "abort"
    /\ Over(n)
    /\ UNCHANGED <<daemon, recoveryVars>>

\* A launch that may still own the profile ends here.  So does standalone setup,
\* which is in all else like a server of this module.
BrowserFails(n) ==
    /\ pc[n] = "launch"
    /\ \E step \in {"failed", "abort"} : Goto(n, step)
    /\ UNCHANGED <<kind, cancelled, lock, daemon, recoveryVars>>

\* Bug: the count outlives its window.
NotedForever(n) ==
    LET old == IF record.profile # serves[n] THEN [NoRecord EXCEPT !.profile = serves[n]] ELSE record
    IN [old EXCEPT !.failures = IF @ = MaxFailures THEN @ ELSE @ + 1, !.lastFailure = "recent"]

\* noteBrowserStartupFailure up to its write.
Noted(n) ==
    LET old == IF record.profile # serves[n] THEN [NoRecord EXCEPT !.profile = serves[n]]
               ELSE IF record.lastFailure # "recent" THEN [record EXCEPT !.failures = 0]
               ELSE record
    IN [old EXCEPT !.failures = IF @ = MaxFailures THEN @ ELSE @ + 1, !.lastFailure = "recent"]

\* The second failure in the window recovers, unless a recovery is a day old or less.
Recovers(r) == r.failures >= 2 /\ r.lastRecovery # "recent"

NoteFailure(n) ==
    /\ pc[n] = "failed"
    /\ \/ record' = Noted(n) /\ Goto(n, IF Recovers(Noted(n)) THEN "noted" ELSE "abort")
       \/ record' = record /\ Goto(n, "abort")
    /\ paired' = (lastFail[serves[n]] = "recent" /\ pc'[n] = "noted")
    /\ lastFail' = [lastFail EXCEPT ![serves[n]] = "recent"]
    /\ deferred' = (IF record'.profile = record.profile THEN deferred ELSE {})
                      \cup (IF pc'[n] = "noted" THEN {serves[n]} ELSE {})
    /\ UNCHANGED <<kind, cancelled, lock, daemon, serves>>

\* Bug: the attempt is consumed before it is known to have worked.
QuarantineConsumes(n) ==
    /\ pc[n] = "noted"
    /\ \/ Goto(n, "moved") /\ deferred' = deferred \ {serves[n]} /\ record' = record
       \/ Goto(n, "abort") /\ deferred' = deferred
          /\ record' = [record EXCEPT !.failures = 0, !.lastRecovery = "recent"]
    /\ paired' = FALSE
    /\ UNCHANGED <<kind, cancelled, lock, daemon, serves, lastFail>>

\* QuarantineProfile, whose failure must not consume the attempt.
Quarantine(n) ==
    /\ pc[n] = "noted"
    /\ \/ Goto(n, "moved") /\ deferred' = deferred \ {serves[n]}
       \/ Goto(n, "abort") /\ deferred' = deferred
    /\ paired' = FALSE
    /\ UNCHANGED <<kind, cancelled, lock, daemon, record, serves, lastFail>>

\* Bug: the process that recovered tries again itself.
MarkRecoveryRetries(n) ==
    /\ pc[n] = "moved"
    /\ Goto(n, "launch")
    /\ record' \in {[record EXCEPT !.failures = 0, !.lastRecovery = "recent"], record}
    /\ UNCHANGED <<kind, cancelled, lock, daemon, serves, lastFail, paired, deferred>>

MarkRecovery(n) ==
    /\ pc[n] = "moved"
    /\ Goto(n, "abort")
    /\ record' \in {[(IF record.profile = serves[n] THEN record
                      ELSE [NoRecord EXCEPT !.profile = serves[n]])
                        EXCEPT !.failures = 0, !.lastRecovery = "recent"],
                    record}
    /\ UNCHANGED <<kind, cancelled, lock, daemon, serves, lastFail, paired, deferred>>

\* Ten minutes, or a day, pass without a failed start.
TimePasses(day) ==
    LET Aged(a) == IF a = "recent" THEN "old" ELSE a
    IN /\ record' = [record EXCEPT !.lastFailure = Aged(@),
                                   !.lastRecovery = IF day THEN Aged(@) ELSE @]
       /\ lastFail' = [p \in Profiles |-> Aged(lastFail[p])]
       /\ deferred' = {}
       /\ UNCHANGED <<pc, kind, cancelled, lock, daemon, serves, paired>>

\* The recovery and the listeners do not look at the context: the last select does.
ProcCancel(n) ==
    /\ Life!Cancel({n})
    /\ UNCHANGED <<pc, kind, lock, daemon, recoveryVars>>

ProcStep(n) ==
    \/ BrowserFails(n) \/ NoteFailure(n) \/ Quarantine(n) \/ MarkRecovery(n)
    \/ BrowserStarts(n) \/ Listen(n) \/ Abort(n)
    \/ (Acquire(n) \/ Release(n) \/ RemoveOwnedLoad(n) \/ RemoveOwnedUnlink(n))
         /\ UNCHANGED recoveryVars
    \/ Leave(n) /\ cancelled[n] /\ UNCHANGED recoveryVars

ProcNext ==
    \/ \E n \in Servers :
        \/ ProcSpawn(n)
        \/ ProcStep(n)
        \/ Leave(n) /\ UNCHANGED recoveryVars
        \/ Die(n) /\ UNCHANGED recoveryVars
        \/ ProcCancel(n)
    \/ \E day \in BOOLEAN : TimePasses(day)

ProcSpec ==
    /\ ProcInit /\ [][ProcNext]_procVars
    /\ \A n \in Servers : WF_procVars(ProcStep(n))

\* backend.md:185: the profile is set aside only "after two Chromium startup
\* failures within ten minutes", whatever was recorded, lost or left by processes
\* that died or could not write (serve.go:127, recovery.go:61).
RecoveryJustified == [][\A n \in Servers : pc[n] = "noted" /\ pc'[n] = "moved" => paired]_procVars

\* recovery.go:80: a recovery that could not move the profile "remains eligible
\* for the next fully contained server generation": the next failure that is
\* recorded within the window tries again.
DeferredRecoveryStands ==
    [][\A n \in Servers :
         pc[n] = "failed" /\ serves[n] \in deferred /\ record' = Noted(n)
           => pc'[n] # "abort" \/ record = Noted(n)]_procVars

\* A process with its recovery steps is a server as the supervisor's model has it.
IsServerLife == Life!LifeSpec

\* The safety half of it: what the supervisor sees of a step is a step of its model,
\* or nothing.
LifeSteps == Life!LifeInit /\ [][Life!LifeNext]_(Life!lifeVars)

----------------------------------------------------------------------------
(* Why RecoveryJustified holds: its inductive invariant *)

Ages == {"never", "recent", "old"}
Records == [profile : Profiles \cup {""}, failures : Nat, lastFailure : Ages,
            lastRecovery : Ages]

ProcTypeOK ==
    /\ pc \in [Servers -> Steps \cup StartSteps]
    /\ lock \in Servers \cup {NoServer}
    /\ record \in Records
    /\ serves \in [Servers -> Profiles]
    /\ lastFail \in [Profiles -> Ages]
    /\ paired \in BOOLEAN

\* Between its acquisition and its release, the recovery steps included, a process
\* has the locks, so that one process at a time reads, changes and writes the record.
Owning == {"launch", "run", "closing"} \cup StartSteps
LockOwned == \A n \in Servers : lock = n <=> pc[n] \in Owning

\* A recent failure in the record is one that the profile it names really had.
RecordTrue == record.lastFailure = "recent"
                => record.profile \in Profiles /\ lastFail[record.profile] = "recent"

DecisionPaired == \A n \in Servers : pc[n] = "noted" => paired

ProcInv == ProcTypeOK /\ LockOwned /\ RecordTrue /\ DecisionPaired

----------------------------------------------------------------------------
(* Why DeferredRecoveryStands holds: what ProcInv needs besides *)

\* A recovery that was decided and not done is still due by the record, which is the
\* record of that profile: nothing that failed after the decision has touched it.
DeferredRecorded ==
    \A p \in deferred : /\ record.profile = p
                        /\ Recovers(record)
                        /\ record.lastFailure = "recent"

\* The process that moves a profile decided so by the record of that profile, so that
\* nothing is deferred when it marks its recovery.
DecisionRecorded ==
    \A n \in Servers : /\ pc[n] = "noted" => record.profile = serves[n]
                       /\ pc[n] = "moved" => deferred = {}

DeferInv == DeferredRecorded /\ DecisionRecorded
=============================================================================
