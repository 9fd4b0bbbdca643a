----------------------------- MODULE ServerProofs -----------------------------
(***************************************************************************)
(* Proofs about server processes: their locks (ServerLife), the recovery   *)
(* of a profile that the browser does not start with (ServerProcess), and  *)
(* the desktop that supervises them (DesktopSupervisor), for any number of *)
(* processes, profiles, restart timers, requests and revisions.            *)
(***************************************************************************)
EXTENDS ServerProcess, DesktopSupervisor, TLAPS

\* No process runs when the machine starts, and none owns a lock.
LEMMA LifeInitInv == LifeInit => LifeInv
  BY ServersAssumption DEF LifeInit, LifeInv, LifeTypeOK, LockHeld, Steps, Kinds

\* The end of a process, by itself or killed, frees its own lock and no other.
LEMMA OverInv ==
  ASSUME LifeInv, NEW n \in Servers, Over(n), daemon' \in Servers \cup {NoServer}
  PROVE  LifeInv'
  BY ServersAssumption DEF LifeInv, LifeTypeOK, LockHeld, Over, Goto, Steps, Kinds

\* Every step of every process keeps the lock with the one between its acquisition
\* and its release.
LEMMA LifeStepInv == LifeInv /\ [LifeNext]_lifeVars => LifeInv'
<1> SUFFICES ASSUME LifeInv, [LifeNext]_lifeVars
             PROVE  LifeInv'
  OBVIOUS
<1> USE ServersAssumption DEF LifeInv, LifeTypeOK, LockHeld, Goto, Steps, Kinds
<1>1. CASE UNCHANGED lifeVars
  BY <1>1 DEF lifeVars
<1>2. CASE LifeNext
  <2> PICK n \in Servers :
        \/ \E k \in Kinds : Spawn(n, k)
        \/ ServeStep(n)
        \/ Leave(n)
        \/ Die(n)
        \/ Cancel({n}) /\ UNCHANGED <<pc, kind, lock, daemon>>
    BY <1>2 DEF LifeNext
  <2>1. CASE \E k \in Kinds : Spawn(n, k)
    BY <2>1 DEF Spawn, Running
  <2>2. CASE Acquire(n)
    <3>1. CASE LocksFree
      BY <2>2, <3>1 DEF Acquire, LocksFree
    <3>2. CASE ~LocksFree
      BY <2>2, <3>2, OverInv DEF Acquire
    <3> QED
      BY <3>1, <3>2
  <2>3. CASE StartFails(n)
    BY <2>3, OverInv DEF StartFails
  <2>4. CASE Publish(n)
    BY <2>4 DEF Publish
  <2>5. CASE Leave(n)
    BY <2>5 DEF Leave
  <2>6. CASE Release(n)
    BY <2>6 DEF Release
  <2>7. CASE RemoveOwnedLoad(n)
    <3>1. CASE daemon = n
      BY <2>7, <3>1 DEF RemoveOwnedLoad
    <3>2. CASE daemon # n
      BY <2>7, <3>2, OverInv DEF RemoveOwnedLoad
    <3> QED
      BY <3>1, <3>2
  <2>8. CASE RemoveOwnedUnlink(n)
    BY <2>8, OverInv DEF RemoveOwnedUnlink
  <2>9. CASE Die(n)
    BY <2>9, OverInv DEF Die
  <2>10. CASE Cancel({n}) /\ UNCHANGED <<pc, kind, lock, daemon>>
    BY <2>10 DEF Cancel
  <2> QED
    BY <2>1, <2>2, <2>3, <2>4, <2>5, <2>6, <2>7, <2>8, <2>9, <2>10 DEF ServeStep
<1> QED
  BY <1>1, <1>2

\* In every run of the servers the lock is held by the process that starts, serves or
\* closes, and by nobody else.
THEOREM LifeInvariant == LifeSpec => []LifeInv
  BY LifeInitInv, LifeStepInv, PTL DEF LifeSpec

\* At most one process at a time has a browser on the profile.
THEOREM OneServerAtATime == LifeSpec => []OneServer
<1>1. LifeInv => OneServer
  BY DEF LifeInv, LockHeld, OneServer
<1> QED
  BY <1>1, LifeInvariant, PTL

----------------------------------------------------------------------------
(* Recovery *)

\* Nothing is recorded and nobody runs at first.
LEMMA ProcInitInv == ProcInit => ProcInv
<1> SUFFICES ASSUME ProcInit
             PROVE  ProcInv
  OBVIOUS
<1>1. paired \in BOOLEAN /\ DecisionPaired
  BY DEF ProcInit, LifeInit, DecisionPaired
<1>2. record = NoRecord
  BY DEF ProcInit
<1>3. RecordTrue
  BY <1>2 DEF NoRecord, RecordTrue
<1>4. record \in Records
  BY <1>2 DEF NoRecord, Records, Ages
<1>5. lastFail \in [Profiles -> Ages]
  BY DEF ProcInit, Ages
<1>6. /\ pc \in [Servers -> Steps \cup StartSteps]
      /\ lock \in Servers \cup {NoServer}
      /\ serves \in [Servers -> Profiles]
  BY DEF ProcInit, LifeInit, Steps
<1>7. LockOwned
  BY ServersAssumption DEF ProcInit, LifeInit, LockOwned, Owning, StartSteps
<1> QED
  BY <1>1, <1>3, <1>4, <1>5, <1>6, <1>7 DEF ProcInv, ProcTypeOK

\* The end of a process leaves the record as it is and frees no lock but its own.
LEMMA ProcOverInv ==
  ASSUME ProcInv, NEW n \in Servers, Over(n), UNCHANGED recoveryVars
  PROVE  ProcInv'
  BY ServersAssumption
  DEF ProcInv, ProcTypeOK, LockOwned, RecordTrue, DecisionPaired, Over, Goto,
      recoveryVars, Steps, StartSteps, Owning

\* A record with another count and a recent failure is a record.
LEMMA CountedRecord ==
  ASSUME NEW r \in Records, NEW c \in Nat
  PROVE  /\ [r EXCEPT !.failures = c, !.lastFailure = "recent"] \in Records
         /\ [r EXCEPT !.failures = c, !.lastFailure = "recent"].profile = r.profile
         /\ [r EXCEPT !.failures = c, !.lastFailure = "recent"].failures = c
  BY DEF Records, Ages

\* What noteBrowserStartupFailure writes, and that it asks for a recovery only after a
\* failure of the same profile that was recent.
LEMMA NotedIsTrue ==
  ASSUME ProcInv, NEW n \in Servers
  PROVE  /\ Noted(n) \in Records
         /\ Noted(n).profile = serves[n]
         /\ Recovers(Noted(n)) => lastFail[serves[n]] = "recent"
<1> DEFINE old == IF record.profile # serves[n] THEN [NoRecord EXCEPT !.profile = serves[n]]
                  ELSE IF record.lastFailure # "recent" THEN [record EXCEPT !.failures = 0]
                  ELSE record
           Count(r) == IF r.failures = MaxFailures THEN r.failures ELSE r.failures + 1
<1>1. /\ old \in Records
      /\ old.profile = serves[n]
      /\ old.failures # 0 => lastFail[serves[n]] = "recent"
  BY DEF ProcInv, ProcTypeOK, RecordTrue, NoRecord, Records, Ages
<1>2. Noted(n) = [old EXCEPT !.failures = Count(old), !.lastFailure = "recent"]
  BY Zenon DEF Noted
<1>3. PICK r \in Records : r = old
  BY <1>1
<1>4. PICK c \in Nat : c = Count(r) /\ (c >= 2 => r.failures # 0)
  <2>1. PICK f \in Nat : f = r.failures
    BY DEF Records
  <2>2. (IF f = MaxFailures THEN f ELSE f + 1) \in Nat
        /\ ((IF f = MaxFailures THEN f ELSE f + 1) >= 2 => f # 0)
    BY FailuresAssumption
  <2> QED
    BY <2>1, <2>2
<1>5. Noted(n) = [r EXCEPT !.failures = c, !.lastFailure = "recent"]
  BY <1>2, <1>3, <1>4, Zenon
<1>6. /\ Noted(n) \in Records
      /\ Noted(n).profile = r.profile
      /\ Noted(n).failures = c
  <2> DEFINE w == [r EXCEPT !.failures = c, !.lastFailure = "recent"]
  <2>1. w \in Records /\ w.profile = r.profile /\ w.failures = c
    BY CountedRecord
  <2>2. Noted(n) = w
    BY <1>5
  <2> HIDE DEF w
  <2> QED
    BY <2>1, <2>2
<1>7. r.profile = serves[n] /\ (r.failures # 0 => lastFail[serves[n]] = "recent")
  BY <1>1, <1>3
<1> QED
  BY <1>4, <1>6, <1>7 DEF Recovers

\* The decision to recover, taken with the locks held.
LEMMA NoteFailureInv ==
  ASSUME ProcInv, NEW n \in Servers, NoteFailure(n)
  PROVE  ProcInv'
<1> USE DEF ProcInv, ProcTypeOK
<1>1. /\ \/ /\ record' = Noted(n)
            /\ pc' = [pc EXCEPT ![n] = IF Recovers(Noted(n)) THEN "noted" ELSE "abort"]
         \/ record' = record /\ pc' = [pc EXCEPT ![n] = "abort"]
      /\ paired' = (lastFail[serves[n]] = "recent" /\ pc'[n] = "noted")
      /\ lastFail' = [lastFail EXCEPT ![serves[n]] = "recent"]
      /\ UNCHANGED <<lock, serves>>
      /\ pc[n] = "failed"
  BY DEF NoteFailure, Goto
<1>2. ProcTypeOK'
  <2>1. paired' \in BOOLEAN
    BY <1>1, Zenon
  <2>2. pc' \in [Servers -> Steps \cup StartSteps]
    BY <1>1 DEF Steps, StartSteps
  <2>3. record' \in Records
    BY <1>1, NotedIsTrue
  <2>4. lastFail' \in [Profiles -> Ages]
    BY <1>1 DEF Ages
  <2> QED
    BY <1>1, <2>1, <2>2, <2>3, <2>4
<1>3. LockOwned'
  BY <1>1 DEF LockOwned, Owning, StartSteps
<1>4. RecordTrue'
  <2>1. CASE record' = Noted(n)
    BY <1>1, <2>1, NotedIsTrue DEF RecordTrue
  <2>2. CASE record' = record
    BY <1>1, <2>2 DEF RecordTrue
  <2> QED
    BY <1>1, <2>1, <2>2
<1>5. DecisionPaired'
  <2>1. \A m \in Servers : m # n => pc'[m] # "noted"
    BY <1>1 DEF LockOwned, Owning, StartSteps
  <2>2. pc'[n] = "noted" => paired'
    BY <1>1, NotedIsTrue
  <2> QED
    BY <2>1, <2>2 DEF DecisionPaired
<1> QED
  BY <1>2, <1>3, <1>4, <1>5

\* Every other step of a process, and the passing of time.
LEMMA ProcStepInv == ProcInv /\ [ProcNext]_procVars => ProcInv'
<1> SUFFICES ASSUME ProcInv, [ProcNext]_procVars
             PROVE  ProcInv'
  OBVIOUS
<1> USE ServersAssumption
    DEF ProcInv, ProcTypeOK, LockOwned, DecisionPaired, RecordTrue, Goto, Steps,
        StartSteps, Owning, recoveryVars
<1>1. CASE UNCHANGED procVars
  BY <1>1 DEF procVars
<1>2. ASSUME NEW n \in Servers, ProcSpawn(n)
      PROVE  ProcInv'
  BY <1>2 DEF ProcSpawn, Spawn, Running
<1>3. ASSUME NEW n \in Servers, BrowserStarts(n)
      PROVE  ProcInv'
  <2>1. record' \in Records /\ RecordTrue'
    <3>1. CASE record' = NoRecord
      BY <3>1 DEF NoRecord, Records, Ages
    <3>2. CASE record' = record
      BY <1>3, <3>2 DEF BrowserStarts
    <3> QED
      BY <1>3, <3>1, <3>2 DEF BrowserStarts
  <2> QED
    BY <1>3, <2>1 DEF BrowserStarts
<1>4. ASSUME NEW n \in Servers, Listen(n)
      PROVE  ProcInv'
  BY <1>4 DEF Listen
<1>5. ASSUME NEW n \in Servers, Abort(n)
      PROVE  ProcInv'
  BY <1>5, ProcOverInv DEF Abort
<1>6. ASSUME NEW n \in Servers, BrowserFails(n)
      PROVE  ProcInv'
  BY <1>6 DEF BrowserFails
<1>7. ASSUME NEW n \in Servers, Quarantine(n)
      PROVE  ProcInv'
  <2>1. \A m \in Servers : pc'[m] # "noted"
    BY <1>7 DEF Quarantine
  <2> QED
    BY <1>7, <2>1 DEF Quarantine
<1>8. ASSUME NEW n \in Servers, MarkRecovery(n)
      PROVE  ProcInv'
  <2> DEFINE old == IF record.profile = serves[n] THEN record
                    ELSE [NoRecord EXCEPT !.profile = serves[n]]
  <2>1. record' \in {[old EXCEPT !.failures = 0, !.lastRecovery = "recent"], record}
        /\ lastFail' = lastFail
    BY <1>8, Zenon DEF MarkRecovery
  <2>2. PICK r \in Records : /\ r = old
                             /\ r.lastFailure = "recent"
                                  => r.profile \in Profiles /\ lastFail[r.profile] = "recent"
    <3>1. CASE record.profile = serves[n]
      BY <3>1
    <3>2. CASE record.profile # serves[n]
      <4>1. /\ [NoRecord EXCEPT !.profile = serves[n]] \in Records
            /\ [NoRecord EXCEPT !.profile = serves[n]].lastFailure = "never"
        BY DEF NoRecord, Records, Ages
      <4> QED
        BY <3>2, <4>1
    <3> QED
      BY <3>1, <3>2
  <2>3. record' \in {[r EXCEPT !.failures = 0, !.lastRecovery = "recent"], record}
    BY <2>1, <2>2, Zenon
  <2>4. record' \in Records /\ RecordTrue'
    <3>1. CASE record' = [r EXCEPT !.failures = 0, !.lastRecovery = "recent"]
      BY <2>1, <2>2, <3>1 DEF Records, Ages
    <3>2. CASE record' = record
      BY <2>1, <3>2
    <3> QED
      BY <2>3, <3>1, <3>2
  <2> QED
    BY <1>8, <2>4 DEF MarkRecovery
<1>9. ASSUME NEW n \in Servers, UNCHANGED recoveryVars,
             Acquire(n) \/ Release(n) \/ RemoveOwnedLoad(n) \/ RemoveOwnedUnlink(n)
      PROVE  ProcInv'
  <2>1. CASE Over(n)
    BY <1>9, <2>1, ProcOverInv
  <2>2. CASE ~Over(n)
    BY <1>9, <2>2
    DEF Acquire, LocksFree, Release, RemoveOwnedLoad, RemoveOwnedUnlink
  <2> QED
    BY <2>1, <2>2
<1>10. ASSUME NEW n \in Servers, UNCHANGED recoveryVars, Leave(n)
       PROVE  ProcInv'
  BY <1>10 DEF Leave
<1>11. ASSUME NEW n \in Servers, UNCHANGED recoveryVars, Die(n)
       PROVE  ProcInv'
  BY <1>11, ProcOverInv DEF Die
<1>12. ASSUME NEW day \in BOOLEAN, TimePasses(day)
       PROVE  ProcInv'
  BY <1>12 DEF TimePasses, Records, Ages
<1>13. ASSUME UNCHANGED recoveryVars, UNCHANGED <<pc, lock>>
       PROVE  ProcInv'
  BY <1>13
<1> HIDE DEF ProcInv
<1>14. ASSUME NEW n \in Servers, ProcStep(n)
       PROVE  ProcInv'
  <2>1. CASE \/ Acquire(n) \/ Release(n) \/ RemoveOwnedLoad(n) \/ RemoveOwnedUnlink(n)
             \/ Leave(n)
    BY <1>14, <1>9, <1>10, <2>1
    DEF ProcStep, BrowserFails, NoteFailure, Quarantine, MarkRecovery, BrowserStarts, Listen,
        Abort, Acquire, Release, RemoveOwnedLoad, RemoveOwnedUnlink, Leave
  <2> QED
    BY <1>3, <1>4, <1>5, <1>6, <1>7, <1>8, <1>14, <2>1, NoteFailureInv DEF ProcStep
<1>15. CASE ProcNext
  BY <1>2, <1>10, <1>11, <1>12, <1>13, <1>14, <1>15 DEF ProcNext, ProcCancel
<1> QED
  BY <1>1, <1>15

\* The record of failures tells the truth in every run, and one process at a time
\* works on it.
THEOREM ProcInvariant == ProcSpec => []ProcInv
  BY ProcInitInv, ProcStepInv, PTL DEF ProcSpec

\* A profile is set aside only after two failures within the window: only Quarantine
\* takes a process from its decision to the move, and the decision was paired.
THEOREM RecoveryIsJustified == ProcSpec => RecoveryJustified
<1>1. ProcInv => [\A n \in Servers : pc[n] = "noted" /\ pc'[n] = "moved" => paired]_procVars
  BY DEF ProcInv, DecisionPaired
<1> QED
  BY <1>1, ProcInvariant, PTL DEF RecoveryJustified

\* A step that leaves the record and what is deferred alone, and brings nobody to a
\* decision or a move.
LEMMA DeferKept ==
  ASSUME DeferInv, UNCHANGED <<record, deferred>>,
         \A m \in Servers : pc'[m] \in {"noted", "moved"} => pc'[m] = pc[m] /\ serves'[m] = serves[m]
  PROVE  DeferInv'
  BY DEF DeferInv, DeferredRecorded, DecisionRecorded, Recovers

\* A failure of a profile whose recovery is due leaves it due.
LEMMA DueStays ==
  ASSUME ProcInv, NEW n \in Servers, record.profile = serves[n], Recovers(record),
         record.lastFailure = "recent"
  PROVE  Recovers(Noted(n)) /\ Noted(n).lastFailure = "recent"
<1>1. PICK r \in Records : r = record
  BY DEF ProcInv, ProcTypeOK
<1>2. PICK f \in Nat : f = r.failures
  BY DEF Records
<1>3. PICK c \in Nat : c = (IF f = MaxFailures THEN f ELSE f + 1) /\ c >= f
  BY FailuresAssumption
<1>4. Noted(n) = [r EXCEPT !.failures = c, !.lastFailure = "recent"]
  BY <1>1, <1>2, <1>3 DEF Noted, Records
<1>5. /\ Noted(n).failures = c
      /\ Noted(n).lastFailure = "recent"
      /\ Noted(n).lastRecovery = r.lastRecovery
  BY <1>4 DEF Records
<1>6. f >= 2 /\ r.lastRecovery # "recent"
  BY <1>1, <1>2 DEF Recovers
<1>7. c >= 2
  BY <1>3, <1>6
<1> QED
  BY <1>5, <1>6, <1>7 DEF Recovers

\* What is written after a failure is always recent.
LEMMA NotedIsRecent ==
  ASSUME ProcInv, NEW n \in Servers
  PROVE  Noted(n).lastFailure = "recent"
<1> DEFINE old == IF record.profile # serves[n] THEN [NoRecord EXCEPT !.profile = serves[n]]
                  ELSE IF record.lastFailure # "recent" THEN [record EXCEPT !.failures = 0]
                  ELSE record
           Count(r) == IF r.failures = MaxFailures THEN r.failures ELSE r.failures + 1
<1>1. old \in Records
  BY DEF ProcInv, ProcTypeOK, NoRecord, Records, Ages
<1>2. Noted(n) = [old EXCEPT !.failures = Count(old), !.lastFailure = "recent"]
  BY Zenon DEF Noted
<1>3. ASSUME NEW r \in Records, NEW c
      PROVE  [r EXCEPT !.failures = c, !.lastFailure = "recent"].lastFailure = "recent"
  BY DEF Records
<1> QED
  BY <1>1, <1>2, <1>3

\* Every step keeps what is deferred due by the record.
LEMMA DeferStepInv == ProcInv /\ DeferInv /\ [ProcNext]_procVars => DeferInv'
<1> SUFFICES ASSUME ProcInv, DeferInv, [ProcNext]_procVars
             PROVE  DeferInv'
  OBVIOUS
<1>0. /\ pc \in [Servers -> Steps \cup StartSteps] /\ serves \in [Servers -> Profiles]
      /\ record \in Records
      /\ \A m, n \in Servers : pc[m] \in Owning /\ pc[n] \in Owning => m = n
  BY DEF ProcInv, ProcTypeOK, LockOwned
<1>1. CASE UNCHANGED procVars
  BY <1>1, DeferKept DEF procVars
<1>2. ASSUME NEW n \in Servers, ProcSpawn(n)
      PROVE  DeferInv'
  <2>1. pc' = [pc EXCEPT ![n] = "lock"] /\ UNCHANGED <<record, deferred>>
        /\ \E p \in Profiles : serves' = [serves EXCEPT ![n] = p]
    BY <1>2 DEF ProcSpawn, Spawn, Goto
  <2>2. \A m \in Servers : pc'[m] \in {"noted", "moved"} => pc'[m] = pc[m] /\ serves'[m] = serves[m]
    BY <1>0, <2>1
  <2> QED
    BY <2>1, <2>2, DeferKept
<1>3. ASSUME NEW n \in Servers, BrowserStarts(n)
      PROVE  DeferInv'
  <2>1. pc[n] = "launch" /\ pc' = [pc EXCEPT ![n] = "listen"] /\ deferred' = {}
    BY <1>3 DEF BrowserStarts, Goto
  <2>2. \A m \in Servers : pc'[m] # "noted"
    BY <1>0, <2>1 DEF Owning, StartSteps
  <2> QED
    BY <2>1, <2>2 DEF DeferInv, DeferredRecorded, DecisionRecorded
<1>4. ASSUME NEW n \in Servers, NEW step \in (Steps \cup StartSteps) \ {"noted", "moved"}, Goto(n, step),
             UNCHANGED recoveryVars
      PROVE  DeferInv'
  BY <1>0, <1>4, DeferKept DEF Goto, recoveryVars
<1>5. ASSUME NEW n \in Servers, NoteFailure(n)
      PROVE  DeferInv'
  <2>1. /\ pc[n] = "failed"
        /\ \/ /\ record' = Noted(n)
              /\ pc' = [pc EXCEPT ![n] = IF Recovers(Noted(n)) THEN "noted" ELSE "abort"]
           \/ record' = record /\ pc' = [pc EXCEPT ![n] = "abort"]
        /\ deferred' = (IF record'.profile = record.profile THEN deferred ELSE {})
                         \cup (IF pc'[n] = "noted" THEN {serves[n]} ELSE {})
        /\ serves' = serves
    BY <1>5 DEF NoteFailure, Goto
  <2>2. /\ \A m \in Servers : pc'[m] # "moved" /\ (pc'[m] = "noted" => m = n)
        /\ pc'[n] = "noted" => record' = Noted(n) /\ Recovers(Noted(n))
    BY <1>0, <2>1 DEF Owning, StartSteps
  <2>3. DecisionRecorded'
    BY <2>1, <2>2, NotedIsTrue DEF DecisionRecorded
  <2>4. ASSUME NEW p \in deferred'
        PROVE  record'.profile = p /\ Recovers(record') /\ record'.lastFailure = "recent"
    <3>1. CASE pc'[n] = "noted" /\ p = serves[n]
      BY <2>2, <3>1, NotedIsTrue, NotedIsRecent
    <3>2. CASE p \in deferred /\ record'.profile = record.profile
      <4>1. record.profile = p /\ Recovers(record) /\ record.lastFailure = "recent"
        BY <3>2 DEF DeferInv, DeferredRecorded
      <4>2. CASE record' = Noted(n)
        BY <3>2, <4>1, <4>2, NotedIsTrue, DueStays
      <4> QED
        BY <2>1, <4>1, <4>2
    <3> QED
      BY <2>1, <3>1, <3>2
  <2> QED
    BY <2>3, <2>4 DEF DeferInv, DeferredRecorded, Recovers
<1>6. ASSUME NEW n \in Servers, Quarantine(n)
      PROVE  DeferInv'
  <2>1. /\ pc[n] = "noted" /\ UNCHANGED <<record, serves>>
        /\ \/ pc' = [pc EXCEPT ![n] = "moved"] /\ deferred' = deferred \ {serves[n]}
           \/ pc' = [pc EXCEPT ![n] = "abort"] /\ deferred' = deferred
    BY <1>6 DEF Quarantine, Goto
  <2>2. \A m \in Servers : pc'[m] # "noted" /\ (pc'[m] = "moved" => m = n)
    BY <1>0, <2>1 DEF Owning, StartSteps
  <2>3. pc'[n] = "moved" => deferred' = {}
    BY <1>0, <2>1 DEF DeferInv, DeferredRecorded, DecisionRecorded
  <2> QED
    BY <2>1, <2>2, <2>3 DEF DeferInv, DeferredRecorded, DecisionRecorded, Recovers
<1>7. ASSUME NEW n \in Servers, MarkRecovery(n)
      PROVE  DeferInv'
  <2>1. pc[n] = "moved" /\ pc' = [pc EXCEPT ![n] = "abort"] /\ deferred' = deferred
    BY <1>7 DEF MarkRecovery, Goto
  <2>2. \A m \in Servers : pc'[m] # "noted" /\ pc'[m] # "moved"
    BY <1>0, <2>1 DEF Owning, StartSteps
  <2>3. deferred' = {}
    BY <2>1 DEF DeferInv, DecisionRecorded
  <2> QED
    BY <2>2, <2>3 DEF DeferInv, DeferredRecorded, DecisionRecorded
<1>8. ASSUME NEW day \in BOOLEAN, TimePasses(day)
      PROVE  DeferInv'
  <2>1. UNCHANGED <<pc, serves>> /\ deferred' = {} /\ record'.profile = record.profile
    BY <1>0, <1>8 DEF TimePasses, Records
  <2> QED
    BY <2>1 DEF DeferInv, DeferredRecorded, DecisionRecorded
<1>9. ASSUME NEW n \in Servers, UNCHANGED recoveryVars,
             \/ Listen(n) \/ Abort(n) \/ BrowserFails(n) \/ Acquire(n) \/ Release(n)
             \/ RemoveOwnedLoad(n) \/ RemoveOwnedUnlink(n) \/ Leave(n) \/ Die(n)
      PROVE  DeferInv'
  <2>1. \E step \in (Steps \cup StartSteps) \ {"noted", "moved"} : Goto(n, step)
    BY <1>9 DEF Listen, Abort, BrowserFails, Acquire, Release, RemoveOwnedLoad, RemoveOwnedUnlink,
                Leave, Die, Over, Steps, StartSteps
  <2> QED
    BY <1>4, <1>9, <2>1
<1>10. ASSUME NEW n \in Servers, ProcCancel(n)
       PROVE  DeferInv'
  BY <1>10, DeferKept DEF ProcCancel, recoveryVars
<1>11. ASSUME NEW n \in Servers, ProcStep(n)
       PROVE  DeferInv'
  BY <1>3, <1>5, <1>6, <1>7, <1>9, <1>11 DEF ProcStep, Listen, Abort, BrowserFails
<1> QED
  BY <1>1, <1>2, <1>8, <1>9, <1>10, <1>11 DEF ProcNext

\* A recovery that was decided and not done is tried at the next failure that is
\* recorded within the window: it is still due by the record, whatever failed since.
THEOREM DeferredRecoveryIsTried == ProcSpec => DeferredRecoveryStands
<1> DEFINE Tried ==
      \A n \in Servers :
         pc[n] = "failed" /\ serves[n] \in deferred /\ record' = Noted(n)
           => pc'[n] # "abort" \/ record = Noted(n)
<1>1. ProcInit => DeferInv
  BY DEF ProcInit, LifeInit, DeferInv, DeferredRecorded, DecisionRecorded
<1>2. ProcInv /\ DeferInv /\ [ProcNext]_procVars => [Tried]_procVars
  <2> SUFFICES ASSUME ProcInv, DeferInv, ProcNext, NEW n \in Servers, pc[n] = "failed",
                      serves[n] \in deferred, record' = Noted(n), pc'[n] = "abort", record # Noted(n)
               PROVE  FALSE
    OBVIOUS
  <2>0. pc \in [Servers -> Steps \cup StartSteps]
        /\ \A m, k \in Servers : pc[m] \in Owning /\ pc[k] \in Owning => m = k
    BY DEF ProcInv, ProcTypeOK, LockOwned
  <2>1. Recovers(Noted(n))
    BY DueStays DEF DeferInv, DeferredRecorded
  <2>2. ~NoteFailure(n)
    BY <2>0, <2>1 DEF NoteFailure, Goto
  <2>3. ~UNCHANGED record
    OBVIOUS
  <2>4. ~\E m \in Servers : BrowserStarts(m) \/ MarkRecovery(m) \/ (NoteFailure(m) /\ m # n)
    BY <2>0 DEF BrowserStarts, MarkRecovery, NoteFailure, Owning, StartSteps
  <2>5. ~\E day \in BOOLEAN : TimePasses(day)
    BY DEF TimePasses
  <2> QED
    BY <2>2, <2>3, <2>4, <2>5
    DEF ProcNext, ProcStep, ProcSpawn, ProcCancel, BrowserFails, Quarantine, Listen, Abort, recoveryVars
<1>3. [][Tried]_procVars => DeferredRecoveryStands
  BY PTL DEF DeferredRecoveryStands
<1> QED
  BY <1>1, <1>2, <1>3, DeferStepInv, ProcInvariant, PTL DEF ProcSpec

\* What the supervisor sees of a process that goes from one step to another.
LEMMA SeenGoto ==
  ASSUME ProcTypeOK, NEW n \in Servers, NEW step \in Steps \cup StartSteps, Goto(n, step)
  PROVE  Seen' = [Seen EXCEPT ![n] = IF step \in StartSteps THEN "launch" ELSE step]
  BY DEF ProcTypeOK, Goto, Seen

\* A step in which a process stays among the steps that the supervisor takes for its
\* start is none for the supervisor.
LEMMA UnseenStep ==
  ASSUME ProcTypeOK, NEW n \in Servers, NEW step \in StartSteps, Goto(n, step),
         pc[n] \in StartSteps \cup {"launch"}
  PROVE  Seen' = Seen
  BY DEF ProcTypeOK, Goto, Seen

\* A process that does not reach a recovery step moves alike in both models.
LEMMA SameGoto ==
  ASSUME ProcTypeOK, NEW n \in Servers, NEW step \in Steps, Goto(n, step)
  PROVE  Life!Goto(n, step)
  BY SeenGoto DEF Life!Goto, Steps, StartSteps

LEMMA SameOver ==
  ASSUME ProcTypeOK, NEW n \in Servers, Over(n)
  PROVE  Life!Over(n)
  BY SameGoto DEF Over, Life!Over, Steps

\* The processes of the two models start alike.
LEMMA LifeStarts == ProcInit => Life!LifeInit
  BY DEF ProcInit, LifeInit, Life!LifeInit, Seen, StartSteps

\* A step of a process in its start, other than the publication and the end, changes
\* nothing that the supervisor sees.
LEMMA StartIsUnseen ==
  ASSUME ProcTypeOK, NEW n \in Servers,
         BrowserStarts(n) \/ BrowserFails(n) \/ NoteFailure(n) \/ Quarantine(n) \/ MarkRecovery(n)
  PROVE  UNCHANGED Life!lifeVars
<1>1. \E step \in StartSteps : Goto(n, step)
  BY DEF BrowserStarts, BrowserFails, NoteFailure, Quarantine, MarkRecovery, StartSteps
<1>2. pc[n] \in StartSteps \cup {"launch"} /\ UNCHANGED <<kind, cancelled, lock, daemon>>
  BY DEF BrowserStarts, BrowserFails, NoteFailure, Quarantine, MarkRecovery, StartSteps
<1> QED
  BY <1>1, <1>2, UnseenStep DEF Life!lifeVars

\* Every step of a process is one of the supervisor's model, or unseen.
LEMMA LifeStep == ProcInv /\ [ProcNext]_procVars => [Life!LifeNext]_(Life!lifeVars)
<1> SUFFICES ASSUME ProcTypeOK, [ProcNext]_procVars
             PROVE  [Life!LifeNext]_(Life!lifeVars)
  BY DEF ProcInv
<1>1. CASE UNCHANGED procVars
  BY <1>1 DEF procVars, Life!lifeVars, Seen
<1>2. CASE \E day \in BOOLEAN : TimePasses(day)
  BY <1>2 DEF TimePasses, Life!lifeVars, Seen
<1>3. ASSUME NEW n \in Servers, ProcSpawn(n)
      PROVE  Life!Spawn(n, "child")
  BY <1>3, SameGoto DEF ProcSpawn, Spawn, Running, Life!Spawn, Life!Running, Seen, Steps, StartSteps
<1>4. ASSUME NEW n \in Servers, Listen(n)
      PROVE  Life!Publish(n) \/ UNCHANGED Life!lifeVars
  <2>1. CASE daemon' = n /\ Goto(n, "run")
    BY <1>4, <2>1, SameGoto DEF Listen, Life!Publish, Seen, Steps, StartSteps
  <2>2. CASE daemon' = daemon /\ Goto(n, "abort")
    BY <1>4, <2>2, UnseenStep DEF Listen, Life!lifeVars, StartSteps
  <2> QED
    BY <1>4, <2>1, <2>2 DEF Listen
<1>5. ASSUME NEW n \in Servers, Abort(n)
      PROVE  Life!StartFails(n)
  BY <1>5, SameOver DEF Abort, Life!StartFails, Seen, StartSteps
<1>6. ASSUME NEW n \in Servers, Acquire(n)
      PROVE  Life!Acquire(n)
  BY <1>6, SameGoto, SameOver
  DEF Acquire, LocksFree, Life!Acquire, Life!LocksFree, Seen, Steps, StartSteps
<1>7. ASSUME NEW n \in Servers, Release(n)
      PROVE  Life!Release(n)
  BY <1>7, SameGoto DEF Release, Life!Release, Seen, Steps, StartSteps
<1>8. ASSUME NEW n \in Servers, RemoveOwnedLoad(n)
      PROVE  Life!RemoveOwnedLoad(n)
  BY <1>8, SameGoto, SameOver
  DEF RemoveOwnedLoad, Life!RemoveOwnedLoad, Seen, Steps, StartSteps
<1>9. ASSUME NEW n \in Servers, RemoveOwnedUnlink(n)
      PROVE  Life!RemoveOwnedUnlink(n)
  BY <1>9, SameOver DEF RemoveOwnedUnlink, Life!RemoveOwnedUnlink, Seen, StartSteps
<1>10. ASSUME NEW n \in Servers, Leave(n)
       PROVE  Life!Leave(n)
  BY <1>10, SameGoto DEF Leave, Life!Leave, Seen, Steps, StartSteps
<1>11. ASSUME NEW n \in Servers, Die(n)
       PROVE  Life!Die(n)
  BY <1>11, SameOver DEF Die, Running, Life!Die, Life!Running, Seen, StartSteps
<1>12. ASSUME NEW n \in Servers, ProcCancel(n)
       PROVE  Life!Cancel({n}) /\ UNCHANGED <<Seen, kind, lock, daemon>>
  BY <1>12 DEF ProcCancel, Seen
<1>13. ASSUME NEW n \in Servers, ProcStep(n)
       PROVE  Life!ServeStep(n) \/ Life!Leave(n) \/ UNCHANGED Life!lifeVars
  BY <1>4, <1>5, <1>6, <1>7, <1>8, <1>9, <1>10, <1>13, StartIsUnseen
  DEF ProcStep, Life!ServeStep
<1>14. CASE ProcNext
  BY <1>2, <1>3, <1>10, <1>11, <1>12, <1>13, <1>14 DEF ProcNext, Life!LifeNext, Life!Kinds, Kinds
<1> QED
  BY <1>1, <1>14

\* A process with its recovery implements, step by step, the server that the desktop's
\* supervisor is modelled against.
THEOREM RecoveryIsUnseen == ProcSpec => LifeSteps
  BY LifeStarts, LifeStep, ProcInvariant, PTL DEF ProcSpec, LifeSteps

----------------------------------------------------------------------------
(* The locks below the desktop *)

\* The desktop cancels several servers at once and removes descriptors, its own and
\* those of others: neither touches a lock.
LEMMA CancelInv ==
  ASSUME LifeInv, NEW ns, Cancel(ns), UNCHANGED <<pc, kind, lock, daemon>>
  PROVE  LifeInv'
  BY DEF LifeInv, LifeTypeOK, LockHeld, Cancel

\* The steps of processes that the desktop takes or lets happen.
LEMMA LifeMoves ==
  ASSUME LifeInv, NEW n \in Servers,
         ServeStep(n) \/ Leave(n) \/ Kill(n) \/ Die(n) \/ \E k \in Kinds : Spawn(n, k)
  PROVE  LifeInv'
<1>1. [LifeNext]_lifeVars
  BY DEF LifeNext, Kill
<1> QED
  BY <1>1, LifeStepInv

\* No step of the desktop gives a lock away.
LEMMA DeskLifeStep == DeskInv /\ [DeskNext]_vars => LifeInv'
<1> SUFFICES ASSUME DeskInv, [DeskNext]_vars
             PROVE  LifeInv'
  OBVIOUS
<1> USE DEF DeskInv
<1>1. ASSUME UNCHANGED lifeVars PROVE LifeInv'
  BY <1>1, LifeStepInv
<1>2. CASE UNCHANGED vars
  BY <1>1, <1>2 DEF vars, lifeVars
<1>3. ASSUME NEW f \in Flows, Starts(f) PROVE LifeInv'
  <2>1. CASE \E n \in Servers : StartChild(f, n)
    BY <2>1, LifeMoves DEF StartChild, Kinds
  <2>2. CASE StartCheck(f) \/ StartNot(f) \/ PlanAfter(f)
    BY <1>1, <2>2 DEF StartCheck, StartNot, PlanAfter
  <2> QED
    BY <1>3, <2>1, <2>2 DEF Starts
<1>4. ASSUME NEW f \in Flows, Stops(f) PROVE LifeInv'
  <2>1. CASE Ask(f)
    BY <2>1, CancelInv DEF Ask
  <2>2. CASE WaitChild(f)
    <3>1. CASE UNCHANGED lifeVars
      BY <1>1, <3>1
    <3>2. CASE at[f] = "wait" /\ Die(held[f])
      BY <3>2, LifeMoves DEF WaitsForChild
    <3> QED
      BY <2>2, <3>1, <3>2 DEF WaitChild
  <2>3. CASE Stop(f) \/ Confirm(f) \/ LetGo(f) \/ WatchOwner(f)
    BY <1>1, <2>3 DEF Stop, Confirm, LetGo, WatchOwner
  <2> QED
    BY <1>4, <2>1, <2>2, <2>3 DEF Stops
<1>5. CASE TakeControl \/ TakeProbe
  <2>1. CASE UNCHANGED lifeVars
    BY <1>1, <2>1
  <2>2. CASE (\E asked \in {{}, {daemon}} : Cancel(asked)) /\ UNCHANGED <<pc, kind, lock, daemon>>
    BY <2>2, CancelInv
  <2>3. CASE at["ready"] = "probe" /\ Kill(held["ready"])
    BY <2>3, LifeMoves DEF WaitsForChild
  <2> QED
    BY <1>5, <2>1, <2>2, <2>3 DEF TakeControl, TakeProbe
<1>6. CASE TakeWait
  <2>1. CASE UNCHANGED lifeVars
    BY <1>1, <2>1
  <2>2. CASE at["ready"] = "takewait" /\ Kill(held["ready"])
    BY <2>2, LifeMoves DEF WaitsForChild
  <2> QED
    BY <1>6, <2>1, <2>2 DEF TakeWait
<1>7. CASE TakeRemove
  BY <1>7 DEF TakeRemove, LifeInv, LifeTypeOK, LockHeld
<1>8. CASE DesktopEnds
  BY <1>8, CancelInv DEF DesktopEnds
<1>9. CASE \E n \in Servers : (\E k \in Kinds : ForeignServer(n, k)) \/ Serve(n) \/ Lose(n)
  BY <1>9, LifeMoves DEF ForeignServer, Serve, Lose
<1>10. CASE Download \/ Replace \/ Quit \/ DesktopStarts \/ MonitorHears \/ MonitorTick
  BY <1>1, <1>10 DEF Download, Replace, Quit, DesktopStarts, MonitorHears, MonitorTick
<1>11. CASE \E t \in Timers : TimerFires(t) \/ TimerRuns(t)
  BY <1>1, <1>11 DEF TimerFires, TimerRuns
<1>12. CASE \E n \in Servers : ChildExits(n) \/ ChildReplaced(n) \/ ChangeMode(n)
  BY <1>1, <1>12 DEF ChildExits, ChildReplaced, ChangeMode
<1>13. CASE \E j \in {"restart", "update"}, c \in {NoRevision, Sent} : Request(j, c)
  BY <1>1, <1>13 DEF Request
<1>14. CASE \E f \in Flows : Flow(f)
  BY <1>3, <1>4, <1>5, <1>6, <1>7, <1>8, <1>10, <1>11, <1>14 DEF Flow
<1> QED
  BY <1>2, <1>8, <1>9, <1>10, <1>12, <1>13, <1>14 DEF DeskNext, Desktop

----------------------------------------------------------------------------
(* The invariant of the desktop *)

\* A timer that is recalled was armed: no flow that stands anywhere else is moved.
LEMMA RecalledIs ==
  ASSUME DeskTypeOK
  PROVE  /\ Recalled \in [Flows -> Places]
         /\ \A f \in Flows : Recalled[f] # at[f] => at[f] = "armed" /\ Recalled[f] = "idle" /\ f \in Timers
  BY DeskAssumption DEF DeskTypeOK, Recalled, Flows, Places

\* A planned restart arms an idle timer and moves no other flow.
LEMMA PlanRestartIs ==
  ASSUME NEW after \in [Flows -> Places], PlanRestart(after), timer \in Timers \cup {NoTimer}
  PROVE  /\ timer' \in Timers \cup {NoTimer}
         /\ at' \in [Flows -> Places]
         /\ \A f \in Flows : at'[f] # after[f] => after[f] = "idle" /\ at'[f] = "armed" /\ f \in Timers
  BY DEF PlanRestart, Flows, Places

\* What a step other than a change of the mode or a reading of it does to the browser:
\* where the server that was read still runs, its mode stands.
BrowserKept ==
    /\ mode' \in Modes /\ revision' \in Nat
    /\ same' => same /\ revision' = revision /\ mode' = mode

LEMMA ModeKept ==
  ASSUME DeskTypeOK, ModeFollows \/ UNCHANGED browser
  PROVE  BrowserKept
<1>1. CASE UNCHANGED browser
  BY <1>1 DEF BrowserKept, DeskTypeOK, browser
<1>2. CASE mode' = "streaming" /\ revision' = 2 /\ same' = FALSE
  BY <1>2 DEF BrowserKept, Modes
<1> QED
  BY <1>1, <1>2 DEF ModeFollows

\* What was read stays true of the server while nobody reads again.
LEMMA ReadStands ==
  ASSUME ReadWithConsent, BrowserKept, UNCHANGED <<agreed, reading>>,
         at'["manage"] = "ask" => at["manage"] = "ask"
  PROVE  ReadWithConsent'
  BY DEF ReadWithConsent, BrowserKept, Away

\* A step that starts no process, and neither gives up a child nor stops waiting for one.
LEMMA HeldStands ==
  ASSUME ChildrenHeld, UNCHANGED <<cmd, watch>>,
         \A n \in Servers : pc[n] = "gone" => pc'[n] = "gone",
         \A f \in Flows : at[f] = "wait" => at'[f] = "wait" /\ held'[f] = held[f]
  PROVE  ChildrenHeld'
  BY DEF ChildrenHeld, Running

\* No process that is over comes back by itself.
LEMMA GoneStays ==
  ASSUME LifeInv,
         \/ UNCHANGED pc
         \/ \E n \in Servers : ServeStep(n) \/ Leave(n) \/ Kill(n) \/ Die(n)
  PROVE  \A m \in Servers : pc[m] = "gone" => pc'[m] = "gone"
<1>1. ASSUME NEW n \in Servers, Over(n) PROVE \A m \in Servers : pc[m] = "gone" => pc'[m] = "gone"
  BY <1>1 DEF Over, Goto, LifeInv, LifeTypeOK
<1>2. ASSUME NEW n \in Servers, ServeStep(n) \/ Leave(n) PROVE \A m \in Servers : pc[m] = "gone" => pc'[m] = "gone"
  BY <1>1, <1>2 DEF ServeStep, Acquire, StartFails, Publish, Leave, Release, RemoveOwnedLoad,
     RemoveOwnedUnlink, Goto, LifeInv, LifeTypeOK
<1> QED
  BY <1>1, <1>2 DEF Kill, Die, lifeVars

\* The rest of DeskInv, of which each step below keeps one group.
LEMMA StartsInv ==
  ASSUME DeskInv, NEW f \in {"ready", "manage"} \cup Timers, Starts(f)
  PROVE  DeskTypeOK' /\ WaitsForChild' /\ ChildrenHeld' /\ ReadWithConsent'
<1> f \in Flows /\ f # "exit" /\ {"ready", "manage", "exit"} \subseteq Flows
  BY DeskAssumption DEF Flows
<1> USE DEF DeskInv
<1>1. BrowserKept /\ UNCHANGED <<desk, agreed, reading>>
  <2>1. UNCHANGED browser /\ UNCHANGED <<desk, agreed, reading>>
    BY DEF Starts, StartCheck, StartChild, StartNot, PlanAfter
  <2> QED
    BY <2>1, ModeKept
<1>2. CASE StartCheck(f)
  <2>1. DeskTypeOK'
    BY <1>1, <1>2 DEF StartCheck, Enter, DeskTypeOK, Places, BrowserKept
  <2>2. WaitsForChild' /\ ReadWithConsent'
    BY <1>1, <1>2, ReadStands DEF StartCheck, Enter, DeskTypeOK, WaitsForChild
  <2>3. ChildrenHeld'
    BY <1>2, HeldStands DEF StartCheck, Enter, DeskTypeOK, lifeVars
  <2> QED
    BY <1>1, <2>1, <2>2, <2>3
<1>3. ASSUME NEW n \in Servers, StartChild(f, n)
      PROVE  DeskTypeOK' /\ WaitsForChild' /\ ChildrenHeld' /\ ReadWithConsent'
  <2>1. \A g \in Flows : at'[g] # at[g] => at'[g] = "idle" /\ at[g] \in {"armed", "launch"}
    BY <1>3, RecalledIs DEF StartChild
  <2>2. DeskTypeOK'
    BY <1>1, <1>3, RecalledIs DEF StartChild, DeskTypeOK, Places, BrowserKept
  <2>3. WaitsForChild' /\ ReadWithConsent'
    <3>1. desk' = "up" /\ UNCHANGED held
      BY <1>3 DEF StartChild
    <3> QED
      BY <1>1, <2>1, <3>1, ReadStands DEF DeskTypeOK, WaitsForChild
  <2>4. ChildrenHeld'
    <3>1. cmd = NoServer /\ cmd' = n /\ UNCHANGED held
      BY <1>3 DEF StartChild
    <3>2. \A m \in Servers : m # n => (Running(m)' <=> Running(m)) /\ watch'[m] = watch[m]
      BY <1>3 DEF StartChild, Spawn, Goto, Running, DeskTypeOK, LifeInv, LifeTypeOK
    <3>3. \A g \in Flows : at[g] = "wait" => at'[g] = "wait"
      BY <2>1
    <3> QED
      BY <3>1, <3>2, <3>3, ServersAssumption DEF ChildrenHeld
  <2> QED
    BY <2>2, <2>3, <2>4
<1>4. CASE StartNot(f)
  <2>1. \A g \in Flows : at'[g] # at[g] => at'[g] \in {"idle", "plan"} /\ at[g] \in {"armed", "launch"} /\ g # "exit"
    BY <1>4, RecalledIs, DeskAssumption DEF StartNot, Enter, DeskTypeOK, Flows
  <2>2. DeskTypeOK'
    BY <1>1, <1>4, RecalledIs DEF StartNot, Enter, DeskTypeOK, Places, BrowserKept
  <2>3. WaitsForChild' /\ ReadWithConsent'
    <3>1. UNCHANGED <<held, watch>>
      BY <1>4 DEF StartNot
    <3> QED
      BY <1>1, <2>1, <3>1, ReadStands DEF DeskTypeOK, WaitsForChild
  <2>4. ChildrenHeld'
    BY <1>4, <2>1, HeldStands DEF StartNot, lifeVars
  <2> QED
    BY <1>1, <2>2, <2>3, <2>4
<1>5. CASE PlanAfter(f)
  <2> DEFINE after == [at EXCEPT ![f] = "idle"]
  <2>1. after \in [Flows -> Places] /\ PlanRestart(after)
    BY <1>5 DEF PlanAfter, DeskTypeOK, Places
  <2>2. /\ timer' \in Timers \cup {NoTimer} /\ at' \in [Flows -> Places]
        /\ \A g \in Flows : at'[g] # after[g] => after[g] = "idle" /\ at'[g] = "armed" /\ g \in Timers
    BY <2>1, PlanRestartIs DEF DeskTypeOK
  <2>3. \A g \in Flows : at'[g] # at[g] => at'[g] \in {"idle", "armed"} /\ at[g] \in {"plan", "idle"} /\ g # "exit"
    BY <1>5, <2>2, DeskAssumption DEF PlanAfter, DeskTypeOK
  <2>4. DeskTypeOK'
    BY <1>1, <1>5, <2>2 DEF PlanAfter, DeskTypeOK, BrowserKept
  <2>5. WaitsForChild' /\ ReadWithConsent'
    <3>1. UNCHANGED <<held, watch>>
      BY <1>5 DEF PlanAfter
    <3> QED
      BY <1>1, <2>3, <3>1, ReadStands DEF DeskTypeOK, WaitsForChild
  <2>6. ChildrenHeld'
    BY <1>5, <2>3, HeldStands DEF PlanAfter, lifeVars
  <2> QED
    BY <1>1, <2>4, <2>5, <2>6
<1> QED
  BY <1>1, <1>2, <1>3, <1>4, <1>5 DEF Starts


\* What a caller of stopBackend goes on with is never another stop, and it is its own
\* affair.
LEMMA ReturnIs ==
  ASSUME DeskTypeOK, NEW f \in {"manage", "exit"}, NEW ok, NEW places \in [Flows -> Places],
         Return(f, ok, places)
  PROVE  /\ at' \in [Flows -> Places] /\ held' \in [Flows -> Servers \cup {NoServer}]
         /\ at'[f] \in {"idle", "start", "replace", "exited"}
         /\ \A g \in Flows : g # f => at'[g] = places[g] /\ held'[g] = held[g]
         /\ f = "exit" => at'[f] = "exited" /\ UNCHANGED <<agreed, reading>>
  BY DEF Return, DeskTypeOK, Flows, Places

\* A stop moves its own flow, recalls the restart, and stops waiting only for a child
\* that has ended.
LEMMA StopsInv ==
  ASSUME DeskInv, NEW f \in {"manage", "exit"}, Stops(f)
  PROVE  DeskTypeOK' /\ WaitsForChild' /\ ChildrenHeld' /\ ReadWithConsent'
<1> f \in Flows /\ {"ready", "manage", "exit"} \subseteq Flows /\ f \notin Timers
  BY DeskAssumption DEF Flows
<1> USE DEF DeskInv
<1>1. mode' \in Modes /\ revision' \in Nat /\ (Confirm(f) \/ BrowserKept) /\ UNCHANGED <<desk, watch>>
  <2>1. CASE Stop(f) \/ LetGo(f) \/ WatchOwner(f) \/ WaitChild(f)
    <3>1. (ModeFollows \/ UNCHANGED browser) /\ UNCHANGED <<desk, watch>>
      BY <2>1 DEF Stop, LetGo, WatchOwner, WaitChild
    <3> QED
      BY <3>1, ModeKept DEF BrowserKept
  <2>2. CASE Ask(f)
    <3>1. same' = (same /\ ~Confirms(f)) /\ UNCHANGED <<mode, revision, desk, watch>>
      BY <2>2 DEF Ask
    <3>2. same' => same
      BY <3>1, Zenon
    <3> QED
      BY <3>1, <3>2 DEF BrowserKept, DeskTypeOK
  <2>3. CASE Confirm(f)
    <3>1. UNCHANGED <<mode, revision, desk, watch>>
      BY <2>3 DEF Confirm
    <3> QED
      BY <2>3, <3>1 DEF DeskTypeOK
  <2> QED
    BY <2>1, <2>2, <2>3 DEF Stops
\* Nothing but the place and the memory of flow f changes, and armed timers.
<1>2. ASSUME at' \in [Flows -> Places], held' \in [Flows -> Servers \cup {NoServer}],
             timer' \in Timers \cup {NoTimer}, cmd' \in Servers \cup {NoServer},
             desk \notin {"off", "up"} \/ f # "exit",
             \A g \in Flows : g # f => held'[g] = held[g]
                                       /\ (at'[g] # at[g] => at'[g] = "idle" /\ g \in Timers /\ at[g] = "armed"),
             at'[f] \in {"letgo", "wait"} => held'[f] \in Servers,
             at'["exit"] # "confirm",
             f = "exit" => BrowserKept /\ UNCHANGED <<agreed, reading>>,
             f = "manage" => at'[f] # "ask" \/ ReadWithConsent'
      PROVE  DeskTypeOK' /\ WaitsForChild' /\ ReadWithConsent'
  <2>1. DeskTypeOK'
    BY <1>1, <1>2 DEF DeskTypeOK
  <2>2. WaitsForChild'
    BY <1>1, <1>2, DeskAssumption DEF WaitsForChild
  <2>3. ReadWithConsent'
    <3>1. CASE f = "manage" /\ at'[f] # "ask"
      BY <3>1 DEF ReadWithConsent
    <3>2. CASE f = "exit"
      BY <1>2, <3>2, ReadStands, DeskAssumption
    <3> QED
      BY <1>2, <3>1, <3>2
  <2> QED
    BY <1>1, <2>1, <2>2, <2>3
<1>3. CASE Stop(f)
  <2>1. at' \in [Flows -> Places] /\ held' \in [Flows -> Servers \cup {NoServer}]
    <3>1. CASE Return(f, TRUE, Recalled)
      BY <3>1, ReturnIs, RecalledIs
    <3>2. CASE ~Return(f, TRUE, Recalled)
      BY <1>3, <3>2, RecalledIs, ZenonT(60) DEF Stop, DeskTypeOK, Places
    <3> QED
      BY <3>1, <3>2
  <2>2. \A g \in Flows : g # f => at'[g] = Recalled[g] /\ held'[g] = held[g]
    <3>1. CASE Return(f, TRUE, Recalled)
      BY <3>1, ReturnIs, RecalledIs
    <3>2. CASE ~Return(f, TRUE, Recalled)
      BY <1>3, <3>2, RecalledIs DEF Stop, DeskTypeOK
    <3> QED
      BY <3>1, <3>2
  <2>3. at'[f] \notin {"letgo", "wait"} /\ (f = "manage" => at'[f] # "ask") /\ (f = "exit" => at'[f] # "confirm")
    <3>1. CASE Return(f, TRUE, Recalled)
      BY <3>1, ReturnIs, RecalledIs
    <3>2. CASE ~Return(f, TRUE, Recalled)
      BY <1>3, <3>2, RecalledIs DEF Stop, DeskTypeOK, Confirms
    <3> QED
      BY <3>1, <3>2
  <2>4. f = "exit" => BrowserKept /\ UNCHANGED <<agreed, reading>>
    <3>1. UNCHANGED browser
      BY <1>3 DEF Stop
    <3>2. f = "exit" => UNCHANGED <<agreed, reading>>
      BY <1>3 DEF Stop, Return
    <3> QED
      BY <3>1, <3>2, ModeKept
  <2>5. at[f] = "stop" /\ timer' = NoTimer /\ cmd' = cmd /\ pc' = pc
    BY <1>3 DEF Stop, lifeVars
  <2>6. \A g \in Flows : g # f /\ at'[g] # at[g] => at'[g] = "idle" /\ g \in Timers /\ at[g] = "armed"
    BY <2>2, RecalledIs
  <2>7. DeskTypeOK' /\ WaitsForChild' /\ ReadWithConsent'
    <3>1. at'["exit"] # "confirm"
      BY <2>3, <2>6, DeskAssumption DEF WaitsForChild
    <3>2. desk \notin {"off", "up"} \/ f # "exit"
      BY <2>5 DEF WaitsForChild
    <3>3. cmd' \in Servers \cup {NoServer}
      BY <2>5 DEF DeskTypeOK
    <3> QED
      BY <1>2, <2>1, <2>2, <2>3, <2>4, <2>5, <2>6, <3>1, <3>2, <3>3
  <2>8. ChildrenHeld'
    BY <1>1, <2>2, <2>5, <2>6, HeldStands
  <2> QED
    BY <2>7, <2>8
<1>4. CASE Confirm(f)
  <2>1. f = "manage" /\ at[f] = "confirm" /\ UNCHANGED <<cmd, timer, pc>>
    BY <1>4 DEF Confirm, WaitsForChild, lifeVars
  <2>2. CASE Return(f, FALSE, at)
    <3>1. /\ at' \in [Flows -> Places] /\ held' \in [Flows -> Servers \cup {NoServer}]
          /\ at'[f] \in {"idle", "start", "replace", "exited"}
          /\ \A g \in Flows : g # f => at'[g] = at[g] /\ held'[g] = held[g]
      BY <2>2, ReturnIs DEF DeskTypeOK
    <3>2. DeskTypeOK' /\ WaitsForChild' /\ ReadWithConsent'
      BY <1>2, <2>1, <3>1 DEF DeskTypeOK, WaitsForChild
    <3>3. ChildrenHeld'
      BY <1>1, <2>1, <3>1, HeldStands
    <3> QED
      BY <3>2, <3>3
  <2>3. CASE ~Return(f, FALSE, at)
    <3>1. /\ at' = [at EXCEPT ![f] = "ask"] /\ reading' = revision /\ UNCHANGED <<held, agreed, mode, revision>>
          /\ Answers /\ (InSetup => agreed = revision)
      BY <1>4, <2>3 DEF Confirm, Enter
    <3>2. ReadWithConsent'
      <4>1. Away' => agreed' = reading'
        BY <3>1 DEF InSetup, Away
      <4>2. reading' \in 0..revision'
        BY <3>1 DEF DeskTypeOK
      <4> QED
        BY <4>1, <4>2 DEF ReadWithConsent
    <3>3. DeskTypeOK' /\ WaitsForChild' /\ ReadWithConsent'
      <4>1. at' \in [Flows -> Places] /\ at'[f] = "ask" /\ \A g \in Flows : g # f => at'[g] = at[g]
        BY <3>1 DEF DeskTypeOK, Places
      <4> QED
        BY <1>2, <2>1, <3>1, <3>2, <4>1 DEF DeskTypeOK, WaitsForChild
    <3>4. ChildrenHeld'
      BY <1>1, <2>1, <3>1, HeldStands DEF DeskTypeOK
    <3> QED
      BY <3>3, <3>4
  <2> QED
    BY <2>2, <2>3
<1>5. CASE Ask(f)
  <2>1. at[f] = "ask" /\ UNCHANGED <<timer, pc>>
    BY <1>5 DEF Ask
  <2>4. BrowserKept
    BY <1>1, <2>1 DEF Confirm
  <2>2. CASE Return(f, FALSE, at) /\ cmd' = cmd
    <3>1. /\ at' \in [Flows -> Places] /\ held' \in [Flows -> Servers \cup {NoServer}]
          /\ at'[f] \in {"idle", "start", "replace", "exited"}
          /\ \A g \in Flows : g # f => at'[g] = at[g] /\ held'[g] = held[g]
          /\ f = "exit" => at'[f] = "exited" /\ UNCHANGED <<agreed, reading>>
      BY <2>2, ReturnIs DEF DeskTypeOK
    <3>2. DeskTypeOK' /\ WaitsForChild' /\ ReadWithConsent'
      BY <1>2, <2>1, <2>2, <2>4, <3>1 DEF DeskTypeOK, WaitsForChild
    <3>3. ChildrenHeld'
      BY <1>1, <2>1, <2>2, <3>1, HeldStands
    <3> QED
      BY <3>2, <3>3
  <2>3. CASE /\ Enter(f, IF held[f] = NoServer THEN "watch" ELSE IF desk = "up" THEN "letgo" ELSE "wait")
             /\ cmd' = IF at'[f] = "wait" /\ cmd = held[f] THEN NoServer ELSE cmd
             /\ UNCHANGED <<held, seen, job>> /\ Used(f)
    <3>1. /\ at' \in [Flows -> Places] /\ \A g \in Flows : g # f => at'[g] = at[g]
          /\ at'[f] = IF held[f] = NoServer THEN "watch" ELSE IF desk = "up" THEN "letgo" ELSE "wait"
      BY <2>3 DEF Enter, DeskTypeOK, Places
    <3>2. f = "exit" => UNCHANGED <<agreed, reading>>
      BY <2>3 DEF Used, Confirms
    <3>3. DeskTypeOK' /\ WaitsForChild' /\ ReadWithConsent'
      BY <1>2, <2>1, <2>3, <2>4, <3>1, <3>2 DEF DeskTypeOK, WaitsForChild
    <3>4. ChildrenHeld'
      BY <1>1, <2>1, <2>3, <3>1, ServersAssumption DEF ChildrenHeld, Running
    <3> QED
      BY <3>3, <3>4
  <2> QED
    BY <1>5, <2>2, <2>3 DEF Ask
<1>8. CASE LetGo(f)
  <2>1. at[f] = "letgo" /\ held[f] \in Servers /\ UNCHANGED <<timer, pc, held, agreed, reading>> /\ UNCHANGED browser
    BY <1>8 DEF LetGo, WaitsForChild, lifeVars
  <2>2. /\ at' \in [Flows -> Places] /\ at'[f] = "wait" /\ \A g \in Flows : g # f => at'[g] = at[g]
        /\ cmd' = IF cmd = held[f] THEN NoServer ELSE cmd
    BY <1>8 DEF LetGo, Enter, DeskTypeOK, Places
  <2>3. DeskTypeOK' /\ WaitsForChild' /\ ReadWithConsent'
    BY <1>2, <2>1, <2>2, ModeKept DEF DeskTypeOK, WaitsForChild
  <2>4. ChildrenHeld'
    BY <1>1, <2>1, <2>2 DEF ChildrenHeld, Running
  <2> QED
    BY <2>3, <2>4
<1>6. CASE WatchOwner(f)
  <2>1. at[f] = "watch" /\ UNCHANGED <<cmd, timer, pc>> /\ BrowserKept
    BY <1>1, <1>6 DEF WatchOwner, Confirm, lifeVars
  <2>2. /\ at' \in [Flows -> Places] /\ held' \in [Flows -> Servers \cup {NoServer}]
        /\ at'[f] \in {"idle", "start", "replace", "exited"}
        /\ \A g \in Flows : g # f => at'[g] = at[g] /\ held'[g] = held[g]
        /\ f = "exit" => at'[f] = "exited" /\ UNCHANGED <<agreed, reading>>
    BY <1>6, ReturnIs DEF WatchOwner, DeskTypeOK
  <2>3. DeskTypeOK' /\ WaitsForChild' /\ ReadWithConsent'
    BY <1>2, <2>1, <2>2 DEF DeskTypeOK, WaitsForChild
  <2>4. ChildrenHeld'
    BY <1>1, <2>1, <2>2, HeldStands
  <2> QED
    BY <2>3, <2>4
<1>7. CASE WaitChild(f)
  <2>1. at[f] = "wait" /\ held[f] \in Servers /\ UNCHANGED <<cmd, timer>> /\ BrowserKept
    BY <1>1, <1>7 DEF WaitChild, WaitsForChild, Confirm
  <2>2. CASE watch[held[f]] # "waiting" /\ Return(f, TRUE, at) /\ UNCHANGED lifeVars
    <3>1. /\ at' \in [Flows -> Places] /\ held' \in [Flows -> Servers \cup {NoServer}]
          /\ at'[f] \in {"idle", "start", "replace", "exited"}
          /\ \A g \in Flows : g # f => at'[g] = at[g] /\ held'[g] = held[g]
          /\ f = "exit" => at'[f] = "exited" /\ UNCHANGED <<agreed, reading>>
      BY <2>2, ReturnIs DEF DeskTypeOK
    <3>2. DeskTypeOK' /\ WaitsForChild' /\ ReadWithConsent'
      BY <1>2, <2>1, <3>1 DEF DeskTypeOK, WaitsForChild
    <3>3. ChildrenHeld'
      BY <1>1, <2>1, <2>2, <3>1 DEF ChildrenHeld, Running, lifeVars
    <3> QED
      BY <3>2, <3>3
  <2>3. CASE Die(held[f]) /\ UNCHANGED <<at, held, seen, job, agreed, reading>>
    <3>1. DeskTypeOK' /\ WaitsForChild' /\ ReadWithConsent'
      BY <1>2, <2>1, <2>3 DEF DeskTypeOK, WaitsForChild
    <3>2. ChildrenHeld'
      BY <1>1, <2>1, <2>3, GoneStays, HeldStands
    <3> QED
      BY <3>1, <3>2
  <2> QED
    BY <1>7, <2>2, <2>3 DEF WaitChild
<1> QED
  BY <1>3, <1>4, <1>5, <1>6, <1>7, <1>8 DEF Stops

\* The takeover of a server that runs already moves only the flow that does it.
LEMMA TakeInv ==
  ASSUME DeskInv, TakeControl \/ TakeProbe \/ TakeWait \/ TakeRemove
  PROVE  DeskTypeOK' /\ WaitsForChild' /\ ChildrenHeld' /\ ReadWithConsent'
<1> {"ready", "manage", "exit"} \subseteq Flows
  BY DEF Flows
<1> USE DEF DeskInv
<1>1. BrowserKept
  <2>1. ModeFollows \/ UNCHANGED browser
    BY DEF TakeControl, TakeProbe, TakeWait, TakeRemove
  <2> QED
    BY <2>1, ModeKept
<1>2. /\ UNCHANGED <<desk, cmd, timer, agreed, reading, watch>>
      /\ at["ready"] \in {"take", "probe", "takewait", "takeload", "takeunlink"}
  BY DEF TakeControl, TakeProbe, TakeWait, TakeRemove
<1>3. /\ at' \in [Flows -> Places] /\ held' \in [Flows -> Servers \cup {NoServer}]
      /\ \A g \in Flows : g # "ready" => at'[g] = at[g] /\ held'[g] = held[g]
      /\ at'["ready"] \in {"start", "probe", "takewait", "takeload", "takeunlink"}
      /\ at'["ready"] \in {"probe", "takewait"} => held'["ready"] \in Servers
  <2>1. CASE TakeControl
    <3>1. PICK place \in {"start", "probe"} :
            at' = [at EXCEPT !["ready"] = place] /\ (place # "start" => daemon # NoServer)
      BY <2>1 DEF TakeControl, Enter
    <3>2. held' = [held EXCEPT !["ready"] = IF at'["ready"] = "start" THEN NoServer ELSE daemon]
      BY <2>1 DEF TakeControl
    <3>3. at' \in [Flows -> Places] /\ at'["ready"] = place /\ \A g \in Flows : g # "ready" => at'[g] = at[g]
      BY <3>1 DEF DeskTypeOK, Places
    <3> QED
      BY <3>1, <3>2, <3>3 DEF DeskTypeOK, LifeInv, LifeTypeOK
  <2>2. CASE TakeProbe
    <3>1. at["ready"] = "probe" /\ UNCHANGED held
      BY <2>2 DEF TakeProbe
    <3>2. PICK place \in {"start", "takewait", "takeload"} : at' = [at EXCEPT !["ready"] = place]
      BY <2>2 DEF TakeProbe, Enter
    <3>3. at' \in [Flows -> Places] /\ at'["ready"] = place /\ \A g \in Flows : g # "ready" => at'[g] = at[g]
      BY <3>2 DEF DeskTypeOK, Places
    <3> QED
      BY <3>1, <3>3 DEF DeskTypeOK, WaitsForChild
  <2>3. CASE TakeWait
    BY <2>3 DEF TakeWait, Enter, DeskTypeOK, Places
  <2>4. CASE TakeRemove
    BY <2>4 DEF TakeRemove, Enter, DeskTypeOK, Places
  <2> QED
    BY <2>1, <2>2, <2>3, <2>4
<1>4. \A n \in Servers : pc[n] = "gone" => pc'[n] = "gone"
  <2>1. CASE UNCHANGED pc
    BY <2>1, GoneStays
  <2>2. CASE at["ready"] \in {"probe", "takewait"} /\ Kill(held["ready"])
    BY <2>2, GoneStays DEF WaitsForChild
  <2> QED
    BY <2>1, <2>2 DEF TakeControl, TakeProbe, TakeWait, TakeRemove, lifeVars
<1>5. DeskTypeOK'
  BY <1>1, <1>2, <1>3 DEF DeskTypeOK, BrowserKept
<1>6. WaitsForChild' /\ ReadWithConsent'
  BY <1>1, <1>2, <1>3, ReadStands DEF WaitsForChild
<1>7. ChildrenHeld'
  BY <1>2, <1>3, <1>4, HeldStands
<1> QED
  BY <1>5, <1>6, <1>7

\* Timers, the monitor, requests and the other steps of the application: no child is
\* given up.
LEMMA OtherInv ==
  ASSUME DeskInv,
         \/ \E t \in Timers : TimerFires(t) \/ TimerRuns(t)
         \/ \E n \in Servers : ChildReplaced(n)
         \/ MonitorHears \/ MonitorTick \/ Download \/ Replace \/ Quit \/ DesktopStarts
         \/ \E j \in {"restart", "update"}, c \in {NoRevision, Sent} : Request(j, c)
  PROVE  DeskTypeOK' /\ WaitsForChild' /\ ChildrenHeld' /\ ReadWithConsent'
<1> {"ready", "manage", "exit"} \subseteq Flows /\ Timers \subseteq Flows
  BY DEF Flows
<1> USE DEF DeskInv
<1>1. UNCHANGED <<pc, cmd, held, reading>> /\ UNCHANGED browser
  BY DEF TimerFires, TimerRuns, ChildReplaced, MonitorHears, MonitorTick, Download, Replace, Quit, DesktopStarts,
     Request, lifeVars
<1>2. BrowserKept
  BY <1>1, ModeKept
\* No flow begins or ends to wait; the end of the desktop begins with its closing.
<1>3. ASSUME at' \in [Flows -> Places], timer' \in Timers \cup {NoTimer},
             desk' \in {"off", "up", "closing", "gone"},
             watch' \in [Servers -> {"idle", "waiting", "plan"}],
             \A n \in Servers : watch'[n] = "waiting" <=> watch[n] = "waiting",
             desk' = "off" => desk = "off" /\ UNCHANGED watch,
             \A g \in Flows : at'[g] # at[g] =>
                 at[g] # "wait" /\ at'[g] \notin {"letgo", "wait", "probe", "takewait", "confirm", "ask"},
             desk' \in {"off", "up"} => desk \in {"off", "up"} /\ at'["exit"] = at["exit"],
             at["manage"] = "ask" => agreed' = agreed
      PROVE  DeskTypeOK' /\ WaitsForChild' /\ ChildrenHeld' /\ ReadWithConsent'
  <2>1. DeskTypeOK'
    BY <1>1, <1>2, <1>3 DEF DeskTypeOK, BrowserKept
  <2>2. WaitsForChild'
    BY <1>1, <1>3 DEF WaitsForChild
  <2>4. ReadWithConsent'
    BY <1>1, <1>3 DEF ReadWithConsent, Away, browser
  <2>3. ChildrenHeld'
    BY <1>1, <1>3 DEF ChildrenHeld, Running
  <2> QED
    BY <2>1, <2>2, <2>3, <2>4
<1>4. ASSUME NEW t \in Timers, TimerFires(t) \/ TimerRuns(t)
      PROVE  DeskTypeOK' /\ WaitsForChild' /\ ChildrenHeld' /\ ReadWithConsent'
  <2>1. at[t] \in {"armed", "fired"} /\ UNCHANGED <<desk, watch, agreed>> /\ timer' \in Timers \cup {NoTimer}
    BY <1>4 DEF TimerFires, TimerRuns, DeskTypeOK
  <2>2. PICK place \in {"fired", "start", "idle"} : at' = [at EXCEPT ![t] = place]
    BY <1>4 DEF TimerFires, TimerRuns, Enter
  <2>3. at' \in [Flows -> Places] /\ at'[t] = place /\ \A g \in Flows : g # t => at'[g] = at[g]
    BY <2>2 DEF DeskTypeOK, Places
  <2>4. t # "exit"
    BY DeskAssumption
  <2> QED
    BY <1>3, <2>1, <2>3, <2>4 DEF DeskTypeOK
<1>5. ASSUME PlanRestart(at) \/ (timer' = NoTimer /\ at' = Recalled),
             UNCHANGED <<desk, agreed>>,
             watch' \in [Servers -> {"idle", "waiting", "plan"}],
             \A n \in Servers : watch'[n] = "waiting" <=> watch[n] = "waiting",
             desk # "off" \/ UNCHANGED watch
      PROVE  DeskTypeOK' /\ WaitsForChild' /\ ChildrenHeld' /\ ReadWithConsent'
  <2>1. /\ at' \in [Flows -> Places] /\ timer' \in Timers \cup {NoTimer}
        /\ \A g \in Flows : at'[g] # at[g] => g \in Timers /\ at[g] \in {"idle", "armed"} /\ at'[g] \in {"idle", "armed"}
    <3>1. CASE PlanRestart(at)
      BY <3>1, PlanRestartIs DEF DeskTypeOK
    <3>2. CASE timer' = NoTimer /\ at' = Recalled
      BY <3>2, RecalledIs
    <3> QED
      BY <1>5, <3>1, <3>2
  <2>2. at'["exit"] = at["exit"]
    BY <2>1, DeskAssumption
  <2> QED
    BY <1>3, <1>5, <2>1, <2>2 DEF DeskTypeOK
<1>6. ASSUME NEW n \in Servers, ChildReplaced(n)
      PROVE  DeskTypeOK' /\ WaitsForChild' /\ ChildrenHeld' /\ ReadWithConsent'
  <2>1. PlanRestart(at) /\ UNCHANGED <<desk, agreed>>
    BY <1>6 DEF ChildReplaced
  <2>2. /\ watch' \in [Servers -> {"idle", "waiting", "plan"}]
        /\ \A m \in Servers : watch'[m] = "waiting" <=> watch[m] = "waiting"
        /\ desk # "off"
    BY <1>6 DEF ChildReplaced, DeskTypeOK, WaitsForChild
  <2> QED
    BY <1>5, <2>1, <2>2
<1>7. CASE MonitorHears \/ MonitorTick
  <2>1. UNCHANGED <<desk, watch, agreed>>
    BY <1>7 DEF MonitorHears, MonitorTick
  <2>2. CASE PlanRestart(at) \/ (timer' = NoTimer /\ at' = Recalled)
    BY <1>5, <2>1, <2>2 DEF DeskTypeOK
  <2>3. CASE UNCHANGED <<timer, at>>
    BY <1>3, <2>1, <2>3 DEF DeskTypeOK
  <2> QED
    BY <1>7, <2>2, <2>3 DEF MonitorHears, MonitorTick
<1>8. CASE Download
  <2>1. at["manage"] = "download" /\ UNCHANGED <<desk, watch, timer>>
    BY <1>8 DEF Download
  <2>2. PICK place \in {"stop", "idle"} : at' = [at EXCEPT !["manage"] = place]
    BY <1>8 DEF Download, Enter
  <2>3. at' \in [Flows -> Places] /\ at'["manage"] = place /\ \A g \in Flows : g # "manage" => at'[g] = at[g]
    BY <2>2 DEF DeskTypeOK, Places
  <2> QED
    BY <1>3, <2>1, <2>3 DEF DeskTypeOK
<1>9. CASE Replace
  <2>1. at["manage"] = "replace" /\ UNCHANGED <<desk, watch, timer>>
    BY <1>9 DEF Replace
  <2>2. PICK place \in {"quit", "start", "idle"} : at' = [at EXCEPT !["manage"] = place]
    BY <1>9 DEF Replace, Enter, ReplaceOutcomes
  <2>3. at' \in [Flows -> Places] /\ at'["manage"] = place /\ \A g \in Flows : g # "manage" => at'[g] = at[g]
    BY <2>2 DEF DeskTypeOK, Places
  <2> QED
    BY <1>3, <2>1, <2>3 DEF DeskTypeOK
<1>10. CASE Quit
  <2>1. at["exit"] = "idle" /\ desk' = "closing" /\ timer' = NoTimer /\ UNCHANGED agreed
    BY <1>10 DEF Quit, WaitsForChild
  <2>2. /\ at' \in [Flows -> Places] /\ at'["exit"] = "stop"
        /\ \A g \in Flows : g # "exit" /\ at'[g] # at[g] => at[g] \in Futile /\ at'[g] = "idle"
    BY <1>10 DEF Quit, DeskTypeOK, Places
  <2>3. /\ watch' \in [Servers -> {"idle", "waiting", "plan"}]
        /\ \A n \in Servers : watch'[n] = "waiting" <=> watch[n] = "waiting"
    BY <1>10 DEF Quit, DeskTypeOK
  <2> QED
    BY <1>3, <2>1, <2>2, <2>3 DEF DeskTypeOK, Futile
<1>11. CASE DesktopStarts
  <2>1. desk = "off" /\ desk' = "up" /\ UNCHANGED <<watch, agreed, timer>>
    BY <1>11 DEF DesktopStarts
  <2>2. /\ at' \in [Flows -> Places] /\ at'["ready"] = "take"
        /\ \A g \in Flows : g # "ready" => at'[g] = at[g]
    BY <1>11 DEF DesktopStarts, Enter, DeskTypeOK, Places
  <2>3. at["ready"] # "wait"
    BY DEF WaitsForChild
  <2> QED
    BY <1>3, <2>1, <2>2, <2>3 DEF DeskTypeOK
<1>12. ASSUME NEW j \in {"restart", "update"}, NEW c, Request(j, c)
       PROVE  DeskTypeOK' /\ WaitsForChild' /\ ChildrenHeld' /\ ReadWithConsent'
  <2>1. at["manage"] = "idle" /\ UNCHANGED <<desk, watch, timer>>
    BY <1>12 DEF Request
  <2>2. PICK place \in {"stop", "download"} : at' = [at EXCEPT !["manage"] = place]
    BY <1>12 DEF Request, Enter
  <2>3. at' \in [Flows -> Places] /\ at'["manage"] = place /\ \A g \in Flows : g # "manage" => at'[g] = at[g]
    BY <2>2 DEF DeskTypeOK, Places
  <2> QED
    BY <1>3, <2>1, <2>3 DEF DeskTypeOK
<1> QED
  BY <1>4, <1>6, <1>7, <1>8, <1>9, <1>10, <1>11, <1>12

\* The exits of children, the end of the desktop, and what servers do by themselves.
LEMMA ServersInv ==
  ASSUME DeskInv,
         \/ DesktopEnds
         \/ \E n \in Servers : \/ ChildExits(n) \/ ChangeMode(n) \/ Serve(n) \/ Lose(n)
                               \/ \E k \in Kinds : ForeignServer(n, k)
  PROVE  DeskTypeOK' /\ WaitsForChild' /\ ChildrenHeld' /\ ReadWithConsent'
<1> {"ready", "manage", "exit"} \subseteq Flows
  BY DEF Flows
<1> USE DEF DeskInv
<1>1. CASE DesktopEnds
  <2>2. DeskTypeOK'
    BY <1>1 DEF DesktopEnds, DeskTypeOK, Places
  <2>3. WaitsForChild' /\ ReadWithConsent'
    BY <1>1 DEF DesktopEnds, WaitsForChild, ReadWithConsent
  <2>4. ChildrenHeld'
    BY <1>1 DEF DesktopEnds, ChildrenHeld
  <2> QED
    BY <2>2, <2>3, <2>4
<1>2. ASSUME NEW n \in Servers, ChildExits(n)
      PROVE  DeskTypeOK' /\ WaitsForChild' /\ ChildrenHeld' /\ ReadWithConsent'
  <2>1. UNCHANGED <<pc, desk, timer, at, held, agreed, reading>> /\ UNCHANGED browser /\ ~Running(n)
    BY <1>2 DEF ChildExits, lifeVars
  <2>2. BrowserKept
    BY <2>1, ModeKept
  <2>3. /\ cmd' = IF cmd = n THEN NoServer ELSE cmd
        /\ watch' \in [Servers -> {"idle", "waiting", "plan"}]
        /\ \A m \in Servers : watch'[m] = "waiting" => watch[m] = "waiting"
        /\ desk # "off"
    BY <1>2 DEF ChildExits, DeskTypeOK, WaitsForChild
  <2>4. DeskTypeOK'
    BY <2>1, <2>2, <2>3 DEF DeskTypeOK, BrowserKept
  <2>5. WaitsForChild' /\ ReadWithConsent'
    BY <2>1, <2>2, <2>3, ReadStands DEF WaitsForChild
  <2>6. ChildrenHeld'
    BY <2>1, <2>3 DEF ChildrenHeld, Running
  <2> QED
    BY <2>2, <2>4, <2>5, <2>6
\* What servers do leaves the desktop where it is.
<1>3. ASSUME UNCHANGED <<desk, cmd, timer, at, held, agreed, reading, watch>>,
             mode' \in Modes, revision' \in Nat, ReadWithConsent',
             \A n \in Servers : pc[n] = "gone" => pc'[n] = "gone" \/ watch[n] = "idle"
      PROVE  DeskTypeOK' /\ WaitsForChild' /\ ChildrenHeld' /\ ReadWithConsent'
  <2>1. DeskTypeOK'
    BY <1>3 DEF DeskTypeOK
  <2>2. WaitsForChild'
    BY <1>3 DEF WaitsForChild
  <2>3. ChildrenHeld'
    BY <1>3 DEF ChildrenHeld, Running
  <2> QED
    BY <1>3, <2>1, <2>2, <2>3
<1>4. ASSUME NEW n \in Servers, ChangeMode(n)
      PROVE  DeskTypeOK' /\ WaitsForChild' /\ ChildrenHeld' /\ ReadWithConsent'
  <2>1. /\ UNCHANGED <<pc, desk, cmd, timer, at, held, agreed, reading, watch, same>>
        /\ revision' = revision + 1 /\ mode' \in NextModes
    BY <1>4 DEF ChangeMode, lifeVars
  <2>2. mode' \in Modes
    BY <2>1 DEF NextModes, Modes, DeskTypeOK
  \* Whatever was read of this server is an earlier revision now.
  <2>3. ReadWithConsent' /\ revision' \in Nat
    BY <2>1 DEF ReadWithConsent, DeskTypeOK
  <2> QED
    BY <1>3, <2>1, <2>2, <2>3
<1>5. ASSUME NEW n \in Servers, Serve(n) \/ Lose(n)
      PROVE  DeskTypeOK' /\ WaitsForChild' /\ ChildrenHeld' /\ ReadWithConsent'
  <2>1. UNCHANGED <<desk, cmd, timer, at, held, agreed, reading, watch>> /\ ModeFollows
    BY <1>5 DEF Serve, Lose
  <2>2. \A m \in Servers : pc[m] = "gone" => pc'[m] = "gone"
    BY <1>5, GoneStays DEF Serve, Lose
  <2>3. BrowserKept /\ ReadWithConsent'
    BY <2>1, ModeKept, ReadStands
  <2> QED
    BY <1>3, <2>1, <2>2, <2>3 DEF BrowserKept
<1>6. ASSUME NEW n \in Servers, NEW k \in Kinds, ForeignServer(n, k)
      PROVE  DeskTypeOK' /\ WaitsForChild' /\ ChildrenHeld' /\ ReadWithConsent'
  <2>1. UNCHANGED <<desk, cmd, timer, at, held, agreed, reading, watch>> /\ UNCHANGED browser /\ desk = "off"
    BY <1>6 DEF ForeignServer, deskVars
  <2>2. \A m \in Servers : watch[m] = "idle"
    BY <2>1 DEF WaitsForChild
  <2>3. BrowserKept /\ ReadWithConsent'
    BY <2>1, ModeKept, ReadStands
  <2> QED
    BY <1>3, <2>1, <2>2, <2>3 DEF BrowserKept
<1> QED
  BY <1>1, <1>2, <1>4, <1>5, <1>6

\* The supervisor, the locks and the consent stand in every state: no refused, failed or
\* overtaken stop, takeover, exit or timer disturbs them.
THEOREM DeskInvariant == DeskSpec => []DeskInv
<1>1. DeskInit => DeskInv
  <2> SUFFICES ASSUME DeskInit PROVE DeskInv
    OBVIOUS
  <2>1. LifeInv
    BY LifeInitInv DEF DeskInit
  <2>2. DeskTypeOK
    BY DEF DeskInit, DeskTypeOK, Places, Modes
  <2>3. WaitsForChild /\ ReadWithConsent /\ ChildrenHeld
    BY DEF DeskInit, WaitsForChild, ReadWithConsent, ChildrenHeld, Flows
  <2> QED
    BY <2>1, <2>2, <2>3 DEF DeskInv
<1>2. DeskInv /\ [DeskNext]_vars => DeskInv'
  <2> SUFFICES ASSUME DeskInv, [DeskNext]_vars PROVE DeskInv'
    OBVIOUS
  <2>1. LifeInv'
    BY DeskLifeStep
  <2>2. CASE UNCHANGED vars
    <3>1. UNCHANGED <<pc, desk, cmd, timer, at, held, agreed, reading, watch>> /\ UNCHANGED browser
      BY <2>2 DEF vars, deskVars
    <3>2. BrowserKept /\ ReadWithConsent'
      BY <3>1, ModeKept, ReadStands DEF DeskInv
    <3>3. DeskTypeOK' /\ WaitsForChild' /\ ChildrenHeld'
      BY <3>1, <3>2 DEF DeskInv, DeskTypeOK, WaitsForChild, ChildrenHeld, Running, BrowserKept
    <3> QED
      BY <2>1, <3>2, <3>3 DEF DeskInv
  <2>3. CASE DeskNext
    <3>1. DeskTypeOK' /\ WaitsForChild' /\ ChildrenHeld' /\ ReadWithConsent'
      <4>1. CASE \E f \in Flows : Flow(f)
        BY <4>1, StartsInv, StopsInv, TakeInv, OtherInv, ServersInv DEF Flow
      <4>2. CASE ~\E f \in Flows : Flow(f)
        BY <2>3, <4>2, OtherInv, ServersInv DEF DeskNext, Desktop
      <4> QED
        BY <4>1, <4>2
    <3> QED
      BY <2>1, <3>1 DEF DeskInv
  <2> QED
    BY <2>2, <2>3
<1> QED
  BY <1>1, <1>2, PTL DEF DeskSpec

\* No stop that is refused, fails or is overtaken loses sight of a running child.
THEOREM ChildrenAlwaysHeld == DeskSpec => []ChildrenHeld
<1>1. DeskInv => ChildrenHeld
  BY DEF DeskInv
<1> QED
  BY <1>1, DeskInvariant, PTL

\* However the desktop kills servers, removes descriptors and starts children, at most
\* one process at a time has a browser on the profile.
THEOREM DesktopKeepsOneServer == DeskSpec => []OneServer
<1>1. DeskInv => OneServer
  BY DEF DeskInv, LifeInv, LockHeld, OneServer
<1> QED
  BY <1>1, DeskInvariant, PTL

\* A restart or an update that its user asked for ends a browser setup only at the
\* revision that was confirmed, as long as the server whose mode it read still runs.
THEOREM SetupEndsWithConsent == DeskSpec => SetupNeedsConsent
<1> DEFINE Consent ==
      \A n \in Servers :
         at["manage"] = "ask" /\ at'["manage"] # "ask" /\ Away /\ pc[n] = "run" /\ cancelled'[n] /\ ~cancelled[n]
           => desk' = "gone" \/ ~same \/ agreed = revision
<1>1. DeskInv /\ [DeskNext]_vars => [Consent]_vars
  <2> SUFFICES ASSUME DeskInv, DeskNext, desk' # "gone", NEW n \in Servers,
                      at["manage"] = "ask", at'["manage"] # "ask", Away, pc[n] = "run",
                      cancelled'[n], ~cancelled[n], same
               PROVE  agreed = revision
    OBVIOUS
  <2> "manage" \in Flows
    BY DEF Flows
  <2>1. CASE Ask("manage")
    <3>1. PICK o \in Outcomes("manage") : Cancel(o.asked \cup Cut("manage", o))
      BY <2>1 DEF Ask
    <3>2. Cut("manage", o) = {}
      BY DEF Cut, Confirms
    <3>3. n \in o.asked
      BY <3>1, <3>2 DEF Cancel
    <3>4. Prepared("manage")
      BY <3>3 DEF Outcomes
    <3>5. revision = reading
      BY <3>4 DEF Prepared, Confirms
    <3> QED
      BY <3>5 DEF DeskInv, ReadWithConsent
  \* Only a takeover, a stop and the end of the desktop cancel a server.
  <2>2. TakeProbe \/ Ask("manage") \/ Ask("exit")
    <3>1. ~UNCHANGED cancelled
      OBVIOUS
    <3>2. ASSUME NEW m \in Servers, Over(m) PROVE FALSE
      BY <3>2 DEF Over, DeskInv, LifeInv, LifeTypeOK
    <3>3. ASSUME NEW m \in Servers, ServeStep(m) \/ Leave(m) \/ Die(m) \/ Kill(m) PROVE FALSE
      BY <3>1, <3>2, <3>3 DEF ServeStep, Acquire, StartFails, Publish, Leave, Release, RemoveOwnedLoad,
         RemoveOwnedUnlink, Die, Kill, lifeVars, DeskInv, LifeInv, LifeTypeOK
    <3>4. ~(Quit \/ DesktopEnds \/ DesktopStarts \/ MonitorHears \/ MonitorTick \/ Download \/ Replace
            \/ TakeControl \/ TakeRemove)
      BY <3>1 DEF Quit, DesktopEnds, DesktopStarts, MonitorHears, MonitorTick, Download, Replace, TakeControl,
         TakeRemove, lifeVars
    <3>5. ~\E m \in Servers : ChildExits(m) \/ ChildReplaced(m) \/ ChangeMode(m) \/ Serve(m) \/ Lose(m)
                               \/ \E k \in Kinds : ForeignServer(m, k)
      BY <3>1, <3>3 DEF ChildExits, ChildReplaced, ChangeMode, Serve, Lose, ForeignServer, Spawn, lifeVars
    <3>6. ~\E j \in {"restart", "update"}, c \in {NoRevision, Sent} : Request(j, c)
      BY <3>1 DEF Request, lifeVars
    <3>7. ASSUME NEW f \in Flows, Starts(f) \/ TimerFires(f) \/ TimerRuns(f) PROVE FALSE
      BY <3>1, <3>7 DEF Starts, StartCheck, StartChild, StartNot, PlanAfter, TimerFires, TimerRuns, Spawn,
         lifeVars
    <3>8. ASSUME NEW f \in Flows, Stop(f) \/ Confirm(f) \/ LetGo(f) \/ WatchOwner(f) \/ WaitChild(f) PROVE FALSE
      <4>1. CASE WaitChild(f) /\ at[f] = "wait" /\ Die(held[f])
        BY <3>3, <4>1 DEF DeskInv, WaitsForChild
      <4> QED
        BY <3>1, <3>8, <4>1 DEF Stop, Confirm, LetGo, WatchOwner, WaitChild, lifeVars
    <3>9. ~TakeWait
      <4>1. CASE at["ready"] = "takewait" /\ Kill(held["ready"])
        BY <3>3, <4>1 DEF DeskInv, WaitsForChild
      <4> QED
        BY <3>1, <4>1 DEF TakeWait, lifeVars
    <3> QED
      BY <3>4, <3>5, <3>6, <3>7, <3>8, <3>9 DEF DeskNext, Desktop, Flow, Stops
  <2>3. CASE TakeProbe \/ Ask("exit")
    <3>1. \A f \in {"ready", "exit"} : at' # [at EXCEPT ![f] = at'[f]]
      BY DEF DeskInv, DeskTypeOK
    <3>2. {"ready", "exit"} \subseteq Flows
      BY DEF Flows
    <3>3. CASE TakeProbe
      BY <3>1, <3>2, <3>3 DEF TakeProbe, Enter, DeskInv, DeskTypeOK
    <3>4. CASE Ask("exit")
      <4>1. PICK place : at' = [at EXCEPT !["exit"] = place]
        BY <3>4 DEF Ask, Return, Enter
      <4> QED
        BY <3>1, <3>2, <4>1 DEF DeskInv, DeskTypeOK
    <3> QED
      BY <2>3, <3>3, <3>4
  <2> QED
    BY <2>1, <2>2, <2>3
<1>2. [][Consent]_vars => SetupNeedsConsent
  BY PTL DEF SetupNeedsConsent
<1> QED
  BY <1>1, <1>2, DeskInvariant, PTL DEF DeskSpec
=============================================================================
