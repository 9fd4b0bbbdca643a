---------------------------- MODULE AuthManager ----------------------------
(***************************************************************************)
(* The device registry and credential manager of the backend               *)
(* (backend/internal/auth/auth.go): pairing invitations and candidates,    *)
(* the persisted device registry, login challenges and WebSocket tickets.  *)
(*                                                                         *)
(* Every method of auth.Manager runs under Manager.mu, so a method is one  *)
(* action; CompleteChallenge, which drops the mutex to verify the          *)
(* signature, is two.  Identifiers are random in the code and fresh        *)
(* numbers here.  A credential is abstracted to whether it matches, a      *)
(* deadline to whether it has passed (Expire lets it pass at any time),    *)
(* and a device to its key fingerprint, which is its identifier.           *)
(***************************************************************************)
EXTENDS Naturals, FiniteSets

CONSTANTS
  Device,               \* device key fingerprints
  Request,              \* concurrent HTTP requests completing a challenge
  MaxPairingAttempts,   \* wrong credentials that close an invitation
  MaxId                 \* bound: identifiers ever issued

ASSUME AuthAssumption ==
  /\ MaxPairingAttempts \in Nat \ {0}
  /\ MaxId \in Nat

VARIABLES
  devices,      \* Manager.devices: the paired devices
  disk,         \* devices.json: the devices a restart would load
  pairing,      \* Manager.pairing: the open invitation
  candidates,   \* Manager.candidates
  challenges,   \* Manager.challenges
  tickets,      \* Manager.tickets
  verifying,    \* requests checking a signature, with the challenge they took
  stale,        \* identifiers whose TTL has passed
  nextId        \* the next fresh identifier

authVars == <<devices, disk, pairing, candidates, challenges, tickets,
              verifying, stale, nextId>>

\* Identifier 0 is the empty string of the code: no session, no candidate.
PairingSession == [id : Nat, attempts : Nat, cand : Nat]
NoPairing == [id |-> 0, attempts |-> 0, cand |-> 0]
Candidate == [id : Nat, device : Device, session : Nat, paired : BOOLEAN]
Credential == [id : Nat, device : Device]     \* a challenge or a ticket
Verification == [req : Request, id : Nat, device : Device]

Open == pairing.id # 0

(* Constructor New with the registry that loadDevices reads *)
AuthInit ==
  /\ devices \in SUBSET Device
  /\ disk = devices
  /\ pairing = NoPairing
  /\ candidates = {}
  /\ challenges = {}
  /\ tickets = {}
  /\ verifying = {}
  /\ stale = {}
  /\ nextId = 1

----------------------------------------------------------------------------
(* Helpers *)

Fresh == nextId <= MaxId
TakeId == nextId' = nextId + 1

Live(creds) == {c \in creds : c.id \notin stale}

\* pruneLocked drops completed candidates, challenges and tickets past their
\* TTL.  An unpaired candidate never expires.
PrunedCandidates == {c \in candidates : ~c.paired \/ c.id \notin stale}
PruneCredentials ==
  /\ challenges' = Live(challenges)
  /\ tickets' = Live(tickets)
Prune == PruneCredentials /\ candidates' = PrunedCandidates

\* saveDevicesLocked writes devices.json.tmp and renames it: the file holds
\* the new registry or, when a step failed, still the old one.
Save(saved) == disk' = IF saved THEN devices' ELSE disk

Unpaired == {c \in candidates : ~c.paired}
Completed == {c \in candidates : c.paired}

----------------------------------------------------------------------------
(* Invitations *)

OpenPairing ==
  /\ Fresh
  /\ candidates' = Completed
  /\ pairing' = [id |-> nextId, attempts |-> 0, cand |-> 0]
  /\ TakeId
  /\ UNCHANGED <<devices, disk, challenges, tickets, verifying, stale>>

\* The invitation's own candidate goes with it unless it has completed.
WithoutInvited(cs) == {c \in cs : c.paired \/ c.id # pairing.cand}

ClosePairing ==
  /\ Open
  /\ candidates' = WithoutInvited(candidates)
  /\ pairing' = NoPairing
  /\ UNCHANGED <<devices, disk, challenges, tickets, verifying, stale, nextId>>

\* RequestPair with a wrong credential: the fifth closes the invitation.
RequestPairWrong ==
  /\ Open
  /\ PruneCredentials
  /\ IF pairing.attempts + 1 >= MaxPairingAttempts
       THEN /\ candidates' = WithoutInvited(PrunedCandidates)
            /\ pairing' = NoPairing
       ELSE /\ candidates' = PrunedCandidates
            /\ pairing' = [pairing EXCEPT !.attempts = @ + 1]
  /\ UNCHANGED <<devices, disk, verifying, stale, nextId>>

\* RequestPair with the right credential, for an unpaired device, while the
\* invitation has no candidate: it is created.  (Asking again from the same
\* device only renames the candidate; ErrPairingClosed, ErrPairingUsed and
\* ErrAlreadyPaired change nothing: those calls are the Observe action.)
RequestPairAdmit(d) ==
  /\ Open
  /\ pairing.cand = 0
  /\ d \notin devices
  /\ Fresh
  /\ PruneCredentials
  /\ candidates' = PrunedCandidates \cup
       {[id |-> nextId, device |-> d, session |-> pairing.id, paired |-> FALSE]}
  /\ pairing' = [pairing EXCEPT !.cand = nextId]
  /\ TakeId
  /\ UNCHANGED <<devices, disk, verifying, stale>>

\* PairStatus, ListCandidates and the refused or repeated RequestPair prune
\* and change nothing else.
Observe ==
  /\ Prune
  /\ UNCHANGED <<devices, disk, pairing, verifying, stale, nextId>>

\* The invitation of candidate c is the open one.
ClosesInvitation(c) == Open /\ c.session = pairing.id

RejectPair(c) ==
  /\ ~c.paired
  /\ candidates' = candidates \ {c}
  /\ pairing' = IF ClosesInvitation(c) THEN NoPairing ELSE pairing
  /\ UNCHANGED <<devices, disk, challenges, tickets, verifying, stale, nextId>>

AckPair(c) ==
  /\ c.paired
  /\ candidates' = candidates \ {c}
  /\ UNCHANGED <<devices, disk, pairing, challenges, tickets, verifying,
                 stale, nextId>>

CompletedForm(c) ==
  [id |-> c.id, device |-> c.device, session |-> c.session, paired |-> TRUE]

\* ConfirmPair (updatePair) of an unpaired candidate admits its device and
\* persists the registry; if that fails both are undone.
ConfirmPair(c, saved) ==
  /\ c \in PrunedCandidates
  /\ ~c.paired
  /\ PruneCredentials
  /\ devices' = IF saved THEN devices \cup {c.device} ELSE devices \ {c.device}
  /\ Save(saved)
  /\ candidates' = IF saved
                     THEN (PrunedCandidates \ {c}) \cup {CompletedForm(c)}
                     ELSE PrunedCandidates
  /\ pairing' = IF saved /\ ClosesInvitation(c) THEN NoPairing ELSE pairing
  /\ UNCHANGED <<verifying, stale, nextId>>

\* Bug: confirming a completed candidate again admits its device again.
ConfirmAgainReadmits(c) ==
  /\ c \in PrunedCandidates
  /\ c.paired
  /\ Prune
  /\ devices' = devices \cup {c.device}
  /\ disk' = devices'
  /\ UNCHANGED <<pairing, verifying, stale, nextId>>

\* ConfirmPair of a completed candidate reports it again.
ConfirmAgain(c) ==
  /\ c \in PrunedCandidates
  /\ c.paired
  /\ Prune
  /\ UNCHANGED <<devices, disk, pairing, verifying, stale, nextId>>

----------------------------------------------------------------------------
(* Challenges, tickets, sessions *)

NewChallenge(d) ==
  /\ d \in devices
  /\ Fresh
  /\ challenges' = Live(challenges) \cup {[id |-> nextId, device |-> d]}
  /\ tickets' = Live(tickets)
  /\ candidates' = PrunedCandidates
  /\ TakeId
  /\ UNCHANGED <<devices, disk, pairing, verifying, stale>>

\* Bug: the challenge is not consumed when it is taken.
TakeChallengeKeepsIt(r, c) ==
  /\ \A v \in verifying : v.req # r
  /\ verifying' = IF c.id \notin stale /\ c.device \in devices
                    THEN verifying \cup {[req |-> r, id |-> c.id, device |-> c.device]}
                    ELSE verifying
  /\ UNCHANGED <<devices, disk, pairing, candidates, challenges, tickets, stale, nextId>>

\* First critical section of CompleteChallenge: the challenge is consumed
\* whatever follows; an expired one, or one of an unknown device, ends here.
TakeChallenge(r, c) ==
  /\ \A v \in verifying : v.req # r
  /\ challenges' = challenges \ {c}
  /\ verifying' = IF c.id \notin stale /\ c.device \in devices
                    THEN verifying \cup {[req |-> r, id |-> c.id, device |-> c.device]}
                    ELSE verifying
  /\ UNCHANGED <<devices, disk, pairing, candidates, tickets, stale, nextId>>

\* The signature is bad, or the device was revoked during the verification.
ChallengeFails(v) ==
  /\ verifying' = verifying \ {v}
  /\ UNCHANGED <<devices, disk, pairing, candidates, challenges, tickets,
                 stale, nextId>>

\* Second critical section: the device is still paired.  Its completed
\* candidates are no longer needed.
ChallengeSucceeds(v) ==
  /\ v.device \in devices
  /\ candidates' = {c \in candidates : ~(c.paired /\ c.device = v.device)}
  /\ verifying' = verifying \ {v}
  /\ UNCHANGED <<devices, disk, pairing, challenges, tickets, stale, nextId>>

\* Valid may refresh LastSeen and then rewrites the registry.
Valid(d, saved) ==
  /\ d \in devices
  /\ UNCHANGED devices
  /\ Save(saved)
  /\ UNCHANGED <<pairing, candidates, challenges, tickets, verifying,
                 stale, nextId>>

\* WSTicket does not look at the registry: the caller did, earlier.
WSTicket(d) ==
  /\ Fresh
  /\ tickets' = tickets \cup {[id |-> nextId, device |-> d]}
  /\ TakeId
  /\ UNCHANGED <<devices, disk, pairing, candidates, challenges, verifying,
                 stale>>

\* Bug: the ticket's device is not looked up.
TicketAdmitsAnyDevice(t) == t \in Live(tickets)

\* VerifyWSTicket consumes the ticket; it admits iff TicketAdmits.
TicketAdmits(t) == t \in Live(tickets) /\ t.device \in devices

\* Bug: a verified ticket stays valid.
VerifyWSTicketKeepsIt(t) ==
  /\ candidates' = PrunedCandidates
  /\ challenges' = Live(challenges)
  /\ tickets' = Live(tickets)
  /\ UNCHANGED <<devices, disk, pairing, verifying, stale, nextId>>

VerifyWSTicket(t) ==
  /\ candidates' = PrunedCandidates
  /\ challenges' = Live(challenges)
  /\ tickets' = Live(tickets) \ {t}
  /\ UNCHANGED <<devices, disk, pairing, verifying, stale, nextId>>

----------------------------------------------------------------------------
(* Revocation, time, restart *)

\* Bug: a failed save does not put the device back.
RevokeWithoutUndo(d, saved) ==
  /\ d \in devices
  /\ devices' = devices \ {d}
  /\ Save(saved)
  /\ challenges' = {c \in challenges : c.device # d}
  /\ tickets' = {t \in tickets : t.device # d}
  /\ UNCHANGED <<pairing, candidates, verifying, stale, nextId>>

\* Revoke under the mutex.  When the save fails the device is put back, its
\* challenges and tickets are not.  The callback runs after the unlock.
Revoke(d, saved) ==
  /\ d \in devices
  /\ devices' = IF saved THEN devices \ {d} ELSE devices
  /\ Save(saved)
  /\ challenges' = {c \in challenges : c.device # d}
  /\ tickets' = {t \in tickets : t.device # d}
  /\ UNCHANGED <<pairing, candidates, verifying, stale, nextId>>

\* ChallengeTTL, WSTicketTTL or CompletedPairTTL passes for identifier i.
Expire(i) ==
  /\ i \in {c.id : c \in Completed \cup challenges \cup tickets} \ stale
  /\ stale' = stale \cup {i}
  /\ UNCHANGED <<devices, disk, pairing, candidates, challenges, tickets,
                 verifying, nextId>>

\* The process ends and New loads devices.json.  loadDevices sets an
\* unreadable registry aside and starts with an empty one.
Restart(readable) ==
  /\ devices' = IF readable THEN disk ELSE {}
  /\ disk' = IF readable THEN disk ELSE {}
  /\ pairing' = NoPairing
  /\ candidates' = {}
  /\ challenges' = {}
  /\ tickets' = {}
  /\ verifying' = {}
  /\ UNCHANGED <<stale, nextId>>

AuthNext ==
  \/ OpenPairing
  \/ ClosePairing
  \/ RequestPairWrong
  \/ \E d \in Device : RequestPairAdmit(d)
  \/ Observe
  \/ \E c \in candidates : RejectPair(c)
  \/ \E c \in candidates : AckPair(c)
  \/ \E c \in candidates, saved \in BOOLEAN : ConfirmPair(c, saved)
  \/ \E c \in candidates : ConfirmAgain(c)
  \/ \E d \in Device : NewChallenge(d)
  \/ \E r \in Request, c \in challenges : TakeChallenge(r, c)
  \/ \E v \in verifying : ChallengeFails(v)
  \/ \E v \in verifying : ChallengeSucceeds(v)
  \/ \E d \in Device, saved \in BOOLEAN : Valid(d, saved)
  \/ \E d \in Device : WSTicket(d)
  \/ \E t \in tickets : VerifyWSTicket(t)
  \/ \E d \in Device, saved \in BOOLEAN : Revoke(d, saved)
  \/ \E i \in 1..MaxId : Expire(i)
  \/ \E readable \in BOOLEAN : Restart(readable)

AuthSpec == AuthInit /\ [][AuthNext]_authVars
----------------------------------------------------------------------------
(* Properties *)

\* The type of every variable; identifiers are below nextId.
AuthTypeOK ==
  /\ devices \in SUBSET Device
  /\ disk \in SUBSET Device
  /\ pairing \in PairingSession
  /\ candidates \in SUBSET Candidate
  /\ challenges \in SUBSET Credential
  /\ tickets \in SUBSET Credential
  /\ verifying \in SUBSET Verification
  /\ stale \in SUBSET Nat
  /\ nextId \in Nat \ {0}

\* Whatever saves fail and whenever the process restarts, the registry that is
\* enforced is the one on disk: a revocation or an admission that was reported
\* as done survives a restart, one that was reported as failed leaves no trace
\* (Revoke and updatePair undo the map when saveDevicesLocked fails).
RegistryDurable == disk = devices

\* A candidate that can still be confirmed belongs to the invitation that is
\* open, is the one that invitation remembers, and is of a device that is not
\* paired: so no leftover of a closed invitation can be confirmed, and the
\* rollback in updatePair never removes a device that was paired before.
ConfirmableIsInvited ==
  \A c \in candidates : ~c.paired =>
    /\ Open
    /\ c.session = pairing.id
    /\ c.id = pairing.cand
    /\ c.device \notin devices

\* An open invitation that says it is used has its candidate: RequestPair never
\* answers ErrPairingUsed to everybody, and there is something to confirm or to
\* reject.
UsedHasCandidate ==
  Open /\ pairing.cand # 0 =>
    \E c \in candidates : c.id = pairing.cand /\ ~c.paired

\* An open invitation has seen fewer than MaxPairingAttempts wrong credentials.
AttemptsBounded == Open => pairing.attempts < MaxPairingAttempts

\* A login challenge is pending only for a paired device, however revocations,
\* failed saves and restarts interleave (Revoke deletes the device's
\* challenges in the critical section that deletes the device).
ChallengeOfPaired == \A c \in challenges : c.device \in devices

\* A challenge is verified at most once: while one request checks a signature
\* for it, no other request does, and it cannot be taken again.
ChallengeSingleUse ==
  \A v \in verifying :
    /\ \A w \in verifying : w.id = v.id => w = v
    /\ \A c \in challenges : c.id # v.id

\* A device enters the registry only by the confirmation that consumes the
\* open invitation it was invited with: a revoked device is not readmitted by
\* repeating its confirmation, by a failed save or by a restart, and one
\* invitation admits at most one device.
AdmissionStep ==
  \A d \in devices' \ devices :
    /\ devices' \ devices = {d}
    /\ Open
    /\ \E c \in candidates : c.id = pairing.cand /\ c.device = d /\ ~c.paired
    /\ pairing' = NoPairing
AdmissionConsumesInvitation == [][AdmissionStep]_authVars

----------------------------------------------------------------------------
(* The inductive invariant behind the invariants above *)

\* Identifiers are never 0, were all issued, and name one thing each.
IdsIssued ==
  /\ \A c \in candidates : c.id # 0 /\ c.id < nextId
  /\ \A c \in challenges : c.id < nextId
  /\ \A v \in verifying : v.id < nextId
IdsUnique ==
  /\ \A c, e \in candidates : c.id = e.id => c = e
  /\ \A c, e \in challenges : c.id = e.id => c = e

\* The conjunction that every step preserves: the identifiers make it
\* inductive (a second candidate with the identifier of the invited one, or a
\* challenge issued twice under one identifier, would break the rest).
AuthInv ==
  /\ AuthTypeOK
  /\ IdsIssued
  /\ IdsUnique
  /\ RegistryDurable
  /\ ConfirmableIsInvited
  /\ UsedHasCandidate
  /\ AttemptsBounded
  /\ ChallengeOfPaired
  /\ ChallengeSingleUse
=============================================================================
