------------------------- MODULE DeviceAccessProofs -------------------------
(***************************************************************************)
(* Proofs about AuthManager and about its composition with the handlers    *)
(* and the hub, DeviceAccess, for every set of devices and requests and    *)
(* every value of the bounds.                                              *)
(***************************************************************************)
EXTENDS DeviceAccess, TLAPS

----------------------------------------------------------------------------
(* The auth manager *)

\* The registry a fresh process loads satisfies the inductive invariant.
LEMMA InitInv == AuthInit => AuthInv
  BY AuthAssumption
  DEF AuthInit, AuthInv, NoPairing, Open, AuthTypeOK, IdsIssued, IdsUnique,
      RegistryDurable, ConfirmableIsInvited, UsedHasCandidate, AttemptsBounded,
      ChallengeOfPaired, ChallengeSingleUse, PairingSession, Candidate, Credential, Verification

\* RequestPair that creates the invitation's candidate.
LEMMA AdmitInv ==
  ASSUME AuthInv, NEW d \in Device, RequestPairAdmit(d)
  PROVE  AuthInv'
<1> USE DEF Live, PrunedCandidates, PruneCredentials, Open, TakeId,
            PairingSession, Candidate, Credential, Verification
<1> DEFINE new == [id |-> nextId, device |-> d, session |-> pairing.id,
                   paired |-> FALSE]
<1>1. /\ candidates' = PrunedCandidates \cup {new}
      /\ new \in Candidate
      /\ nextId' = nextId + 1
      /\ challenges' = Live(challenges)
      /\ tickets' = Live(tickets)
      /\ UNCHANGED <<devices, disk, verifying, stale>>
  BY DEF RequestPairAdmit, AuthInv, AuthTypeOK
<1>2. pairing' = [id |-> pairing.id, attempts |-> pairing.attempts, cand |-> nextId]
  BY DEF RequestPairAdmit, AuthInv, AuthTypeOK
\* No other candidate can be confirmed: it would be the invited one.
<1>3. \A c \in PrunedCandidates : c \in candidates /\ c.paired
  BY DEF RequestPairAdmit, AuthInv, IdsIssued, ConfirmableIsInvited
<1>4. new.id = nextId /\ new.device = d /\ new.session = pairing.id /\ ~new.paired
  OBVIOUS
<1>5. pairing.id # 0 /\ d \notin devices
  BY DEF RequestPairAdmit
<1> HIDE DEF new, PrunedCandidates
<1>6. AuthTypeOK'
  BY <1>1, <1>2, <1>3 DEF AuthInv, AuthTypeOK
<1>7. IdsIssued' /\ IdsUnique'
  BY <1>1, <1>3, <1>4 DEF AuthInv, AuthTypeOK, IdsIssued, IdsUnique
<1>8. ConfirmableIsInvited'
  BY <1>1, <1>2, <1>3, <1>4, <1>5 DEF AuthInv, AuthTypeOK, ConfirmableIsInvited
<1>9. UsedHasCandidate'
  BY <1>1, <1>2, <1>4 DEF UsedHasCandidate
<1>10. AttemptsBounded' /\ RegistryDurable'
  BY <1>1, <1>2, <1>5 DEF AuthInv, AuthTypeOK, AttemptsBounded, RegistryDurable
<1>11. ChallengeOfPaired' /\ ChallengeSingleUse'
  BY <1>1 DEF AuthInv, ChallengeOfPaired, ChallengeSingleUse
<1> QED
  BY <1>6, <1>7, <1>8, <1>9, <1>10, <1>11 DEF AuthInv

\* ConfirmPair, with and without the registry reaching the disk.
LEMMA ConfirmInv ==
  ASSUME AuthInv, NEW c \in candidates, NEW saved \in BOOLEAN,
         ConfirmPair(c, saved)
  PROVE  AuthInv'
<1> USE DEF Live, PrunedCandidates, PruneCredentials, Save, ClosesInvitation,
            Open, NoPairing, PairingSession, Candidate, Credential, Verification
<1> DEFINE done == CompletedForm(c)
<1>1. /\ c \in Candidate /\ ~c.paired
      /\ c.session = pairing.id /\ c.id = pairing.cand /\ c.device \notin devices
      /\ pairing.id # 0
  BY DEF ConfirmPair, AuthInv, AuthTypeOK, ConfirmableIsInvited
<1>2. /\ challenges' = Live(challenges)
      /\ tickets' = Live(tickets)
      /\ UNCHANGED <<verifying, stale, nextId>>
  BY DEF ConfirmPair
\* The candidate is the only one that can be confirmed.
<1>3. \A e \in PrunedCandidates : e \in candidates /\ (e # c => e.paired)
  BY <1>1 DEF AuthInv, ConfirmableIsInvited, IdsUnique
<1>4. CASE ~saved
  \* The rollback removes nothing: the device was not paired before.
  <2>1. devices' = devices /\ disk' = disk /\ pairing' = pairing
    BY <1>1, <1>4 DEF ConfirmPair
  <2>2. candidates' = PrunedCandidates
    BY <1>4 DEF ConfirmPair
  <2> QED
    BY <1>2, <2>1, <2>2
    DEF AuthInv, AuthTypeOK, IdsIssued, IdsUnique, RegistryDurable,
        ConfirmableIsInvited, UsedHasCandidate, AttemptsBounded,
        ChallengeOfPaired, ChallengeSingleUse
<1>5. CASE saved
  <2>1. devices' = devices \cup {c.device} /\ disk' = devices'
    BY <1>5 DEF ConfirmPair
  <2>2. pairing' = NoPairing
    BY <1>1, <1>5 DEF ConfirmPair
  <2>3. candidates' = (PrunedCandidates \ {c}) \cup {done}
    BY <1>5 DEF ConfirmPair
  <2>4. done \in Candidate /\ done.id = c.id /\ done.paired
    BY <1>1 DEF CompletedForm
  <2> HIDE DEF done, PrunedCandidates
  <2>5. AuthTypeOK'
    BY <1>1, <1>2, <1>3, <2>1, <2>2, <2>3, <2>4 DEF AuthInv, AuthTypeOK
  <2>6. IdsIssued' /\ IdsUnique'
    BY <1>1, <1>2, <1>3, <2>3, <2>4 DEF AuthInv, IdsIssued, IdsUnique
  <2>7. ConfirmableIsInvited'
    BY <1>3, <2>3, <2>4 DEF ConfirmableIsInvited
  <2>8. UsedHasCandidate' /\ AttemptsBounded' /\ RegistryDurable'
    BY <2>1, <2>2 DEF UsedHasCandidate, AttemptsBounded, RegistryDurable
  <2>9. ChallengeOfPaired' /\ ChallengeSingleUse'
    BY <1>2, <2>1 DEF AuthInv, ChallengeOfPaired, ChallengeSingleUse
  <2> QED
    BY <2>5, <2>6, <2>7, <2>8, <2>9 DEF AuthInv
<1> QED
  BY <1>4, <1>5

\* Every method of auth.Manager, and a restart, preserves it.
LEMMA StepInv == AuthInv /\ [AuthNext]_authVars => AuthInv'
<1> SUFFICES ASSUME AuthInv, [AuthNext]_authVars PROVE AuthInv'
  OBVIOUS
<1> USE AuthAssumption
<1> USE DEF AuthInv, AuthTypeOK, IdsIssued, IdsUnique, RegistryDurable,
            ConfirmableIsInvited, UsedHasCandidate, AttemptsBounded,
            ChallengeOfPaired, ChallengeSingleUse, Live, PrunedCandidates,
            PruneCredentials, Prune, Save, Unpaired, Completed, WithoutInvited,
            ClosesInvitation, Open, NoPairing, Fresh, TakeId,
            PairingSession, Candidate, Credential, Verification
<1>1. ASSUME OpenPairing PROVE AuthInv'
  BY <1>1 DEF OpenPairing
<1>2. ASSUME ClosePairing PROVE AuthInv'
  BY <1>2 DEF ClosePairing
<1>3. ASSUME RequestPairWrong PROVE AuthInv'
  BY <1>3 DEF RequestPairWrong
<1>4. ASSUME NEW d \in Device, RequestPairAdmit(d) PROVE AuthInv'
  BY <1>4, AdmitInv
<1>5. ASSUME Observe PROVE AuthInv'
  BY <1>5 DEF Observe
<1>6. ASSUME NEW c \in candidates, RejectPair(c) PROVE AuthInv'
  BY <1>6 DEF RejectPair
<1>7. ASSUME NEW c \in candidates, AckPair(c) PROVE AuthInv'
  BY <1>7 DEF AckPair
<1>8. ASSUME NEW c \in candidates, NEW saved \in BOOLEAN, ConfirmPair(c, saved)
      PROVE  AuthInv'
  BY <1>8, ConfirmInv
<1>9. ASSUME NEW c \in candidates, ConfirmAgain(c) PROVE AuthInv'
  BY <1>9 DEF ConfirmAgain
<1>10. ASSUME NEW d \in Device, NewChallenge(d) PROVE AuthInv'
  BY <1>10 DEF NewChallenge
<1>11. ASSUME NEW r \in Request, NEW c \in challenges, TakeChallenge(r, c) PROVE AuthInv'
  BY <1>11 DEF TakeChallenge
<1>12. ASSUME NEW v \in verifying, ChallengeFails(v) PROVE AuthInv'
  BY <1>12 DEF ChallengeFails
<1>13. ASSUME NEW v \in verifying, ChallengeSucceeds(v) PROVE AuthInv'
  BY <1>13 DEF ChallengeSucceeds
<1>14. ASSUME NEW d \in Device, NEW saved \in BOOLEAN, Valid(d, saved) PROVE AuthInv'
  BY <1>14 DEF Valid
<1>15. ASSUME NEW d \in Device, WSTicket(d) PROVE AuthInv'
  BY <1>15 DEF WSTicket
<1>16. ASSUME NEW t \in tickets, VerifyWSTicket(t) PROVE AuthInv'
  BY <1>16 DEF VerifyWSTicket
<1>17. ASSUME NEW d \in Device, NEW saved \in BOOLEAN, Revoke(d, saved) PROVE AuthInv'
  BY <1>17 DEF Revoke
<1>18. ASSUME NEW i \in 1..MaxId, Expire(i) PROVE AuthInv'
  BY <1>18 DEF Expire
<1>19. ASSUME NEW readable \in BOOLEAN, Restart(readable) PROVE AuthInv'
  BY <1>19 DEF Restart
<1>20. ASSUME UNCHANGED authVars PROVE AuthInv'
  BY <1>20 DEF authVars
<1> HIDE DEF AuthInv
<1> QED
  BY <1>1, <1>2, <1>3, <1>4, <1>5, <1>6, <1>7, <1>8, <1>9, <1>10, <1>11, <1>12,
     <1>13, <1>14, <1>15, <1>16, <1>17, <1>18, <1>19, <1>20 DEF AuthNext

\* auth.Manager keeps the inductive invariant in every run, whatever the
\* number of devices, requests, invitations, failed saves and restarts.
THEOREM AuthInvariant == AuthSpec => []AuthInv
<1>1. AuthInit => AuthInv
  BY InitInv
<1>2. AuthInv /\ [AuthNext]_authVars => AuthInv'
  BY StepInv
<1> QED
  BY <1>1, <1>2, PTL DEF AuthSpec

\* The types of the variables are kept in every run.
THEOREM AuthTypeCorrect == AuthSpec => []AuthTypeOK
<1>1. AuthInv => AuthTypeOK
  BY DEF AuthInv
<1> QED
  BY <1>1, AuthInvariant, PTL

\* The registry enforced is the registry on disk, in every run.
THEOREM RegistryIsDurable == AuthSpec => []RegistryDurable
<1>1. AuthInv => RegistryDurable
  BY DEF AuthInv
<1> QED
  BY <1>1, AuthInvariant, PTL

\* Only the candidate of the open invitation can be confirmed, in every run.
THEOREM OnlyInvitedConfirmable == AuthSpec => []ConfirmableIsInvited
<1>1. AuthInv => ConfirmableIsInvited
  BY DEF AuthInv
<1> QED
  BY <1>1, AuthInvariant, PTL

\* A challenge is verified at most once, in every run.
THEOREM ChallengesAreSingleUse == AuthSpec => []ChallengeSingleUse
<1>1. AuthInv => ChallengeSingleUse
  BY DEF AuthInv
<1> QED
  BY <1>1, AuthInvariant, PTL

\* A step that adds a device to the registry is the confirmation of the open
\* invitation's candidate, and closes that invitation.
LEMMA AdmissionOfStep == AuthInv /\ [AuthNext]_authVars => [AdmissionStep]_authVars
<1> SUFFICES ASSUME AuthInv, AuthNext, NEW d \in devices' \ devices
             PROVE  AdmissionStep
  BY DEF AdmissionStep
<1>1. PICK c \in candidates : ConfirmPair(c, TRUE)
  <2>1. \A c \in candidates : ~ConfirmPair(c, FALSE)
    BY DEF ConfirmPair
  <2>2. \A readable \in BOOLEAN : ~Restart(readable)
    BY DEF Restart, AuthInv, RegistryDurable
  <2> QED
    BY <2>1, <2>2
    DEF AuthNext, OpenPairing, ClosePairing, RequestPairWrong, RequestPairAdmit,
        Observe, RejectPair, AckPair, ConfirmAgain, NewChallenge, TakeChallenge,
        ChallengeFails, ChallengeSucceeds, Valid, WSTicket, VerifyWSTicket,
        Revoke, Expire
<1>2. /\ devices' = devices \cup {c.device}
      /\ pairing' = IF ClosesInvitation(c) THEN NoPairing ELSE pairing
      /\ ~c.paired
  BY <1>1 DEF ConfirmPair
<1>3. Open /\ c.session = pairing.id /\ c.id = pairing.cand
  BY <1>2 DEF AuthInv, ConfirmableIsInvited
<1>4. devices' \ devices = {c.device}
  BY <1>2
<1> QED
  BY <1>2, <1>3, <1>4 DEF AdmissionStep, ClosesInvitation

\* One invitation admits one device, and nothing else admits any: in every run
\* a device enters the registry only by consuming the open invitation.
THEOREM AdmissionNeedsInvitation == AuthSpec => AdmissionConsumesInvitation
<1>1. AuthInv /\ [AuthNext]_authVars => [AdmissionStep]_authVars
  BY AdmissionOfStep
<1> QED
  BY <1>1, AuthInvariant, PTL DEF AuthSpec, AdmissionConsumesInvitation

----------------------------------------------------------------------------
(* The path from login to socket *)

\* Every step of the handlers and the hub is, for the auth manager, one of its
\* own steps or none.
LEMMA AccessStepIsAuthStep ==
  ASSUME AccessTypeOK, [AccessNext]_accessVars
  PROVE  [AuthNext]_authVars
<1>1. ASSUME Pairing PROVE AuthNext
  BY <1>1 DEF Pairing, AuthNext
<1>2. ASSUME Login PROVE AuthNext
  BY <1>2 DEF Login, AuthNext
<1>3. ASSUME NEW v \in verifying, CompleteLogin(v) PROVE AuthNext
  BY <1>3 DEF CompleteLogin, AuthNext
<1>4. ASSUME NEW d \in Device, NEW saved \in BOOLEAN, NEW r \in Request, Authorize(r, d, saved)
      PROVE  AuthNext
  BY <1>4 DEF Authorize, AuthNext
<1>5. ASSUME NEW a \in authorized, HandleConfig(a) PROVE AuthNext
  <2>1. a.device \in Device /\ WSTicket(a.device)
    BY <1>5 DEF HandleConfig, AccessTypeOK
  <2> QED
    BY <2>1 DEF AuthNext
<1>6. ASSUME NEW a \in authorized, NEW saved \in BOOLEAN, RevokeSelf(a, saved)
      PROVE  AuthNext \/ UNCHANGED authVars
  <2>1. a.device \in Device
    BY DEF AccessTypeOK
  <2>2. Revoke(a.device, saved) \/ UNCHANGED authVars
    BY <1>6 DEF RevokeSelf, RevokeAndNotify
  <2> QED
    BY <2>1, <2>2 DEF AuthNext
<1>7. ASSUME NEW d \in Device, NEW saved \in BOOLEAN, RevokeByAdmin(d, saved) PROVE AuthNext
  BY <1>7 DEF RevokeByAdmin, RevokeAndNotify, AuthNext
<1>8. ASSUME NEW t \in tickets, NEW compatible \in BOOLEAN, HandleWS(t, compatible)
      PROVE  AuthNext
  BY <1>8 DEF HandleWS, AuthNext
<1>9. ASSUME NEW readable \in BOOLEAN, RestartServer(readable) PROVE AuthNext
  BY <1>9 DEF RestartServer, AuthNext
<1>10. ASSUME \/ \E d \in Device : CookieExpires(d)
              \/ \E t \in upgrading : Register(t) \/ UpgradeFails(t)
              \/ \E d \in Device : CloseDevice(d)
              \/ \E c \in targets : CloseTarget(c)
              \/ \E c \in clients : ConnectionLost(c) \/ Unregister(c)
              \/ UNCHANGED accessVars
       PROVE  UNCHANGED authVars
  BY <1>10 DEF CookieExpires, Register, UpgradeFails, CloseDevice, CloseTarget,
               ConnectionLost, Unregister, accessVars
<1> QED
  BY <1>1, <1>2, <1>3, <1>4, <1>5, <1>6, <1>7, <1>8, <1>9, <1>10 DEF AccessNext

\* Identifiers are issued in ascending order.
LEMMA IdsAscend ==
  ASSUME AuthInv, [AuthNext]_authVars
  PROVE  nextId' >= nextId
<1> USE DEF AuthInv, AuthTypeOK, TakeId
<1>1. CASE UNCHANGED authVars
  BY <1>1 DEF authVars
<1>2. CASE AuthNext
  <2>1. nextId' = nextId \/ nextId' = nextId + 1
    BY <1>2 DEF AuthNext, OpenPairing, ClosePairing, RequestPairWrong, RequestPairAdmit,
        Observe, RejectPair, AckPair, ConfirmPair, ConfirmAgain, NewChallenge, TakeChallenge,
        ChallengeFails, ChallengeSucceeds, Valid, WSTicket, VerifyWSTicket,
        Revoke, Expire, Restart
  <2> QED
    BY <2>1
<1> QED
  BY <1>1, <1>2

\* Tickets, handshakes and sockets that only become fewer keep their names.
LEMMA FewerTickets ==
  ASSUME TicketsIssued, TicketsUnique, TicketOpensOneSocket,
         nextId \in Nat, nextId' \in Nat, nextId' >= nextId,
         tickets \in SUBSET Credential, upgrading \in SUBSET Credential, clients \in SUBSET Credential,
         tickets' \subseteq tickets, upgrading' \subseteq upgrading, clients' \subseteq clients
  PROVE  TicketsIssued' /\ TicketsUnique' /\ TicketOpensOneSocket'
<1>1. \A t \in tickets \cup upgrading \cup clients : t.id \in Nat
  BY DEF Credential
<1>2. TicketsIssued'
  BY <1>1 DEF TicketsIssued
<1>3. TicketsUnique' /\ TicketOpensOneSocket'
  BY DEF TicketsUnique, TicketOpensOneSocket
<1> QED
  BY <1>2, <1>3
\* The types of the handlers' and the hub's variables.
LEMMA AccessTypeStep ==
  ASSUME AccessTypeOK, AuthTypeOK, [AccessNext]_accessVars
  PROVE  AccessTypeOK'
<1> USE DEF AccessTypeOK, AuthTypeOK, Verification
<1>1. ASSUME NEW v \in verifying, CompleteLogin(v) PROVE AccessTypeOK'
  BY <1>1 DEF CompleteLogin
<1>2. ASSUME NEW r \in Request, NEW d \in Device, NEW saved \in BOOLEAN,
             Authorize(r, d, saved)
      PROVE  AccessTypeOK'
  BY <1>2 DEF Authorize
<1>3. ASSUME NEW a \in authorized, HandleConfig(a) PROVE AccessTypeOK'
  BY <1>3 DEF HandleConfig
<1>4. ASSUME NEW a \in authorized, NEW saved \in BOOLEAN, RevokeSelf(a, saved)
      PROVE  AccessTypeOK'
  BY <1>4 DEF RevokeSelf
<1>5. ASSUME NEW t \in tickets, NEW compatible \in BOOLEAN, HandleWS(t, compatible)
      PROVE  AccessTypeOK'
  BY <1>5 DEF HandleWS
<1>6. ASSUME NEW t \in upgrading, Register(t) \/ UpgradeFails(t) PROVE AccessTypeOK'
  BY <1>6 DEF Register, UpgradeFails
<1>7. ASSUME NEW d \in Device, CookieExpires(d) \/ CloseDevice(d) PROVE AccessTypeOK'
  BY <1>7 DEF CookieExpires, CloseDevice
<1>8. ASSUME NEW c \in clients, ConnectionLost(c) \/ Unregister(c) PROVE AccessTypeOK'
  BY <1>8 DEF ConnectionLost, Unregister
<1>9. ASSUME NEW c \in targets, CloseTarget(c) PROVE AccessTypeOK'
  BY <1>9 DEF CloseTarget
<1>10. ASSUME NEW readable \in BOOLEAN, RestartServer(readable) PROVE AccessTypeOK'
  BY <1>10 DEF RestartServer
<1>11. ASSUME \/ Pairing \/ Login \/ UNCHANGED accessVars
              \/ \E d \in Device, saved \in BOOLEAN : RevokeByAdmin(d, saved)
       PROVE  AccessTypeOK'
  BY <1>11 DEF Pairing, Login, RevokeByAdmin, accessVars, hubVars
<1> QED
  BY <1>1, <1>2, <1>3, <1>4, <1>5, <1>6, <1>7, <1>8, <1>9, <1>10, <1>11 DEF AccessNext

\* A socket or a handshake of a device that leaves the registry has the callback of the
\* revocation ahead of it; when that has looked for sockets, the ones it found are its
\* targets and the handshakes it could not see are known.
LEMMA RaceStep ==
  ASSUME AccessInv, [AccessNext]_accessVars
  PROVE  RevokedSocketsRaced' /\ HandshakesRaced'
<1> USE DEF AccessInv
<1> DEFINE Hub == <<upgrading, clients, closedConns, revoked, targets, racing>>
<1>1. ASSUME devices \subseteq devices', UNCHANGED Hub
      PROVE  RevokedSocketsRaced' /\ HandshakesRaced'
  BY <1>1 DEF RevokedSocketsRaced, HandshakesRaced
<1>2. CASE Pairing
  <2>1. \A c \in candidates : ~c.paired => c.device \notin devices
    BY DEF AuthInv, ConfirmableIsInvited
  <2>2. ASSUME NEW c \in candidates, NEW saved \in BOOLEAN, ConfirmPair(c, saved)
        PROVE  devices \subseteq devices'
    BY <2>1, <2>2 DEF ConfirmPair
  <2>3. devices \subseteq devices'
    BY <1>2, <2>2 DEF Pairing, OpenPairing, ClosePairing, RequestPairWrong, RequestPairAdmit, Observe,
       RejectPair, AckPair, ConfirmAgain
  <2> QED
    BY <1>1, <1>2, <2>3 DEF Pairing, hubVars
<1>3. CASE Login
  <2>1. devices' = devices
    BY <1>3 DEF Login, NewChallenge, TakeChallenge, ChallengeFails, Expire
  <2> QED
    BY <1>1, <1>3, <2>1 DEF Login, hubVars
<1>4. ASSUME \/ \E v \in verifying : CompleteLogin(v)
             \/ \E d \in Device : CookieExpires(d)
             \/ \E r \in Request, d \in Device, saved \in BOOLEAN : Authorize(r, d, saved)
             \/ \E a \in authorized : HandleConfig(a)
             \/ UNCHANGED accessVars
      PROVE  RevokedSocketsRaced' /\ HandshakesRaced'
  <2>1. devices' = devices
    BY <1>4 DEF CompleteLogin, ChallengeSucceeds, CookieExpires, Authorize, Valid, HandleConfig, WSTicket,
       accessVars, authVars
  <2>2. UNCHANGED Hub
    BY <1>4 DEF CompleteLogin, CookieExpires, Authorize, HandleConfig, accessVars, hubVars
  <2> QED
    BY <1>1, <2>1, <2>2
<1>5. ASSUME NEW d, NEW saved \in BOOLEAN, RevokeAndNotify(d, saved),
             UNCHANGED <<upgrading, clients, closedConns, targets, racing>>
      PROVE  RevokedSocketsRaced' /\ HandshakesRaced'
  <2>1. \A e \in devices : e \in devices' \/ e \in revoked'
    BY <1>5 DEF RevokeAndNotify, Revoke
  <2>2. revoked \subseteq revoked'
    BY <1>5 DEF RevokeAndNotify
  <2> QED
    BY <1>5, <2>1, <2>2 DEF RevokedSocketsRaced, HandshakesRaced
<1>6. ASSUME NEW a \in authorized, NEW saved \in BOOLEAN, RevokeSelf(a, saved)
      PROVE  RevokedSocketsRaced' /\ HandshakesRaced'
  BY <1>1, <1>5, <1>6 DEF RevokeSelf, authVars
<1>7. ASSUME NEW d \in Device, NEW saved \in BOOLEAN, RevokeByAdmin(d, saved)
      PROVE  RevokedSocketsRaced' /\ HandshakesRaced'
  BY <1>5, <1>7 DEF RevokeByAdmin
\* Only a paired device's ticket begins a handshake.
<1>8. ASSUME NEW t \in tickets, NEW compatible \in BOOLEAN, HandleWS(t, compatible)
      PROVE  RevokedSocketsRaced' /\ HandshakesRaced'
  <2>1. devices' = devices /\ (upgrading' = upgrading \/ (upgrading' = upgrading \cup {t} /\ t.device \in devices))
    BY <1>8 DEF HandleWS, VerifyWSTicket, TicketAdmits
  <2>2. UNCHANGED <<clients, closedConns, revoked, targets, racing>>
    BY <1>8 DEF HandleWS
  <2> QED
    BY <2>1, <2>2 DEF RevokedSocketsRaced, HandshakesRaced
<1>9. ASSUME NEW t \in upgrading, Register(t) \/ UpgradeFails(t)
      PROVE  RevokedSocketsRaced' /\ HandshakesRaced'
  <2>1. UNCHANGED <<devices, closedConns, revoked, targets>> /\ upgrading' = upgrading \ {t}
    BY <1>9 DEF Register, UpgradeFails, authVars
  <2>2. CASE clients' = clients \cup {t} /\ racing' = racing
    BY <2>1, <2>2 DEF RevokedSocketsRaced, HandshakesRaced
  \* The ticket of a handshake that fails is of no socket.
  <2>3. CASE clients' = clients /\ racing' = racing \ {t}
    <3>1. t \notin clients
      BY DEF TicketOpensOneSocket
    <3> QED
      BY <2>1, <2>3, <3>1 DEF RevokedSocketsRaced, HandshakesRaced
  <2> QED
    BY <1>9, <2>2, <2>3 DEF Register, UpgradeFails
<1>10. ASSUME NEW d \in Device, CloseDevice(d)
       PROVE  RevokedSocketsRaced' /\ HandshakesRaced'
  BY <1>10 DEF CloseDevice, authVars, RevokedSocketsRaced, HandshakesRaced
<1>11. ASSUME NEW c, CloseTarget(c) \/ ConnectionLost(c)
       PROVE  RevokedSocketsRaced' /\ HandshakesRaced'
  BY <1>11 DEF CloseTarget, ConnectionLost, authVars, RevokedSocketsRaced, HandshakesRaced
<1>12. ASSUME NEW c \in clients, Unregister(c)
       PROVE  RevokedSocketsRaced' /\ HandshakesRaced'
  <2>1. c \notin upgrading
    BY DEF TicketOpensOneSocket
  <2> QED
    BY <1>12, <2>1 DEF Unregister, authVars, RevokedSocketsRaced, HandshakesRaced
<1>13. ASSUME NEW readable \in BOOLEAN, RestartServer(readable)
       PROVE  RevokedSocketsRaced' /\ HandshakesRaced'
  BY <1>13 DEF RestartServer, RevokedSocketsRaced, HandshakesRaced
<1> QED
  BY <1>2, <1>3, <1>4, <1>6, <1>7, <1>8, <1>9, <1>10, <1>11, <1>12, <1>13 DEF AccessNext

\* handleWS moves a ticket out of the reach of other handshakes, Register hands it
\* on to the socket, and a fresh ticket has a name of its own.
LEMMA AccessStep == AccessInv /\ [AccessNext]_accessVars => AccessInv'
<1> SUFFICES ASSUME AccessInv, [AccessNext]_accessVars PROVE AccessInv'
  OBVIOUS
<1>1. AuthInv /\ AccessTypeOK /\ AuthTypeOK
  BY DEF AccessInv, AuthInv
<1>2. [AuthNext]_authVars
  BY <1>1, AccessStepIsAuthStep
<1>3. AuthInv' /\ AccessTypeOK'
  BY <1>1, <1>2, StepInv, AccessTypeStep
<1>4. /\ nextId \in Nat /\ nextId' \in Nat /\ nextId' >= nextId
      /\ tickets \in SUBSET Credential
      /\ upgrading \in SUBSET Credential
      /\ clients \in SUBSET Credential
  BY <1>1, <1>2, <1>3, IdsAscend DEF AuthInv, AuthTypeOK, AccessTypeOK
<1> DEFINE Names == TicketsIssued /\ TicketsUnique /\ TicketOpensOneSocket
<1>5. ASSUME NEW t \in tickets, NEW compatible \in BOOLEAN, HandleWS(t, compatible)
      PROVE  Names'
  <2>1. /\ tickets' \subseteq tickets \ {t}
        /\ upgrading' \subseteq upgrading \cup {t}
        /\ clients' = clients /\ nextId' = nextId
    BY <1>5 DEF HandleWS, VerifyWSTicket, Live
  <2> QED
    BY <2>1, <1>4 DEF AccessInv, TicketsIssued, TicketsUnique, TicketOpensOneSocket
<1>6. ASSUME NEW t \in upgrading, Register(t) PROVE Names'
  <2>1. /\ tickets' = tickets /\ nextId' = nextId
        /\ upgrading' = upgrading \ {t} /\ clients' = clients \cup {t}
    BY <1>6 DEF Register, authVars
  <2> QED
    BY <2>1, <1>4 DEF AccessInv, TicketsIssued, TicketsUnique, TicketOpensOneSocket
<1>7. ASSUME NEW a \in authorized, HandleConfig(a) PROVE Names'
  <2>1. /\ tickets' = tickets \cup {[id |-> nextId, device |-> a.device]}
        /\ nextId' = nextId + 1
        /\ upgrading' = upgrading /\ clients' = clients
    BY <1>7 DEF HandleConfig, WSTicket, TakeId
  <2>2. \A u \in tickets \cup upgrading \cup clients : u.id \in Nat /\ u.id < nextId
    BY <1>4 DEF AccessInv, TicketsIssued, Credential
  <2> QED
    BY <2>1, <2>2, <1>4 DEF AccessInv, TicketsIssued, TicketsUnique, TicketOpensOneSocket
\* Every other step leaves the tickets, handshakes and sockets or takes some away.
<1>8. ASSUME ~(\E t \in tickets, compatible \in BOOLEAN : HandleWS(t, compatible)),
             ~(\E t \in upgrading : Register(t)),
             ~(\E a \in authorized : HandleConfig(a))
      PROVE  Names'
  <2>1. upgrading' \subseteq upgrading /\ clients' \subseteq clients
    BY <1>8 DEF AccessNext, Pairing, Login, CompleteLogin, CookieExpires, Authorize,
        RevokeSelf, RevokeByAdmin, UpgradeFails, CloseDevice, CloseTarget,
        ConnectionLost, Unregister, RestartServer, hubVars, accessVars
  <2>2. tickets' \subseteq tickets
    BY <1>8 DEF AccessNext, Pairing, Login, CompleteLogin, CookieExpires, Authorize,
        RevokeSelf, RevokeByAdmin, RevokeAndNotify, UpgradeFails, CloseDevice, CloseTarget,
        ConnectionLost, Unregister, RestartServer, hubVars, accessVars, authVars,
        OpenPairing, ClosePairing, RequestPairWrong, RequestPairAdmit, Observe,
        RejectPair, AckPair, ConfirmPair, ConfirmAgain, NewChallenge, TakeChallenge,
        ChallengeFails, ChallengeSucceeds, Valid, Revoke, Expire, Restart,
        Live, Prune, PruneCredentials
  <2> QED
    BY <2>1, <2>2, <1>4, FewerTickets DEF AccessInv
<1> QED
  BY <1>1, <1>3, <1>5, <1>6, <1>7, <1>8, RaceStep DEF AccessInv

\* The handlers, the hub and the auth manager keep the invariant in every run.
THEOREM AccessInvariant == AccessSpec => []AccessInv
<1>1. AccessInit => AccessInv
  BY InitInv DEF AccessInit, AccessInv, AccessTypeOK, TicketsIssued, TicketsUnique,
     TicketOpensOneSocket, RevokedSocketsRaced, HandshakesRaced, AuthInit
<1>2. AccessInv /\ [AccessNext]_accessVars => AccessInv'
  BY AccessStep
<1> QED
  BY <1>1, <1>2, PTL DEF AccessSpec

\* For the auth manager the composition is one of its own behaviours, so what is
\* proved of AuthSpec holds of the server.
THEOREM AccessImplementsAuth == AccessSpec => AuthSpec
<1>1. AccessInit => AuthInit
  BY DEF AccessInit
<1>2. AccessInv /\ [AccessNext]_accessVars => [AuthNext]_authVars
  BY AccessStepIsAuthStep DEF AccessInv
<1> QED
  BY <1>1, <1>2, AccessInvariant, PTL DEF AccessSpec, AuthSpec

\* A ticket opens at most one socket, in every run.
THEOREM TicketsOpenOneSocket == AccessSpec => []TicketOpensOneSocket
<1>1. AccessInv => TicketOpensOneSocket
  BY DEF AccessInv
<1> QED
  BY <1>1, AccessInvariant, PTL

\* The only sockets that outlive a revocation that was carried out are those whose
\* handshake was under way while it was, in every run.
THEOREM OnlyRacersOutliveRevocation == AccessSpec => []RevokedSocketsRaced
<1>1. AccessInv => RevokedSocketsRaced
  BY DEF AccessInv
<1> QED
  BY <1>1, AccessInvariant, PTL
=============================================================================
