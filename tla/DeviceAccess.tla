---------------------------- MODULE DeviceAccess ----------------------------
(***************************************************************************)
(* The path of a paired device from its login to its live sockets, and     *)
(* revocation across it: the HTTP handlers of backend/internal/web/        *)
(* server.go that call the auth manager in one step and act on its answer  *)
(* in a later one, the socket registry of backend/internal/transport/      *)
(* hub.go, and the revoke handler that backend/internal/app/serve.go       *)
(* installs between the two.                                               *)
(*                                                                         *)
(* A socket carries the identifier of the ticket that opened it.           *)
(***************************************************************************)
EXTENDS AuthManager

VARIABLES
  cookies,      \* devices that hold an unexpired signed session cookie
  authorized,   \* requests that passed Valid and have not acted yet
  upgrading,    \* tickets verified by handleWS whose socket is not registered
  clients,      \* Hub.clients
  closedConns,  \* registered sockets whose connection has been closed
  revoked,      \* devices whose Revoke committed and whose callback is pending
  targets,      \* sockets that CloseDevice has collected and will close
  racing        \* handshakes that were under way when CloseDevice of their device
                \* looked for sockets, and the sockets they became (history)

hubVars == <<cookies, authorized, upgrading, clients, closedConns, revoked, targets, racing>>
accessVars == <<authVars, hubVars>>

AccessInit ==
  /\ AuthInit
  /\ cookies = {}
  /\ authorized = {}
  /\ upgrading = {}
  /\ clients = {}
  /\ closedConns = {}
  /\ revoked = {}
  /\ targets = {}
  /\ racing = {}

----------------------------------------------------------------------------
(* Steps of the auth manager that touch no handler and no socket *)

Pairing ==
  /\ \/ OpenPairing
     \/ ClosePairing
     \/ RequestPairWrong
     \/ \E d \in Device : RequestPairAdmit(d)
     \/ Observe
     \/ \E c \in candidates : RejectPair(c) \/ AckPair(c) \/ ConfirmAgain(c)
     \/ \E c \in candidates, saved \in BOOLEAN : ConfirmPair(c, saved)
  /\ UNCHANGED hubVars

Login ==
  /\ \/ \E d \in Device : NewChallenge(d)
     \/ \E r \in Request, c \in challenges : TakeChallenge(r, c)
     \/ \E v \in verifying : ChallengeFails(v)
     \/ \E i \in 1..MaxId : Expire(i)
  /\ UNCHANGED hubVars

\* handleAuthComplete: CompleteChallenge succeeds and SetCookie signs a cookie
\* that no server state remembers.
CompleteLogin(v) ==
  /\ ChallengeSucceeds(v)
  /\ cookies' = cookies \cup {v.device}
  /\ UNCHANGED <<authorized, upgrading, clients, closedConns, revoked, targets, racing>>

\* The client loses its cookie, or SessionTTL passes.
CookieExpires(d) ==
  /\ d \in cookies
  /\ cookies' = cookies \ {d}
  /\ UNCHANGED <<authVars, authorized, upgrading, clients, closedConns, revoked,
                 targets, racing>>

----------------------------------------------------------------------------
(* Authenticated requests *)

\* The session gate of ServeHTTP: Valid looks at the registry once, and the
\* request goes on with the device it found.
Authorize(r, d, saved) ==
  /\ d \in cookies
  /\ \A a \in authorized : a.req # r
  /\ Valid(d, saved)
  /\ authorized' = authorized \cup {[req |-> r, device |-> d]}
  /\ UNCHANGED <<cookies, upgrading, clients, closedConns, revoked, targets, racing>>

\* handleConfig hands out a ticket for the device found earlier.
HandleConfig(a) ==
  /\ WSTicket(a.device)
  /\ authorized' = authorized \ {a}
  /\ UNCHANGED <<cookies, upgrading, clients, closedConns, revoked, targets, racing>>

\* Revoke schedules its callback only when the registry was saved.
RevokeAndNotify(d, saved) ==
  /\ Revoke(d, saved)
  /\ revoked' = IF saved THEN revoked \cup {d} ELSE revoked

\* /auth/revoke: the device revokes itself, unless it is no longer paired.
RevokeSelf(a, saved) ==
  /\ IF a.device \in devices
       THEN RevokeAndNotify(a.device, saved)
       ELSE UNCHANGED <<authVars, revoked>>
  /\ authorized' = authorized \ {a}
  /\ UNCHANGED <<cookies, upgrading, clients, closedConns, targets, racing>>

\* /admin/devices/revoke/: the administrator does.
RevokeByAdmin(d, saved) ==
  /\ RevokeAndNotify(d, saved)
  /\ UNCHANGED <<cookies, authorized, upgrading, clients, closedConns, targets, racing>>

----------------------------------------------------------------------------
(* Sockets *)

\* handleWS: the ticket is consumed; a client of another compatibility
\* generation is refused although its ticket was good.
HandleWS(t, compatible) ==
  /\ VerifyWSTicket(t)
  /\ upgrading' = IF TicketAdmits(t) /\ compatible
                    THEN upgrading \cup {t} ELSE upgrading
  /\ UNCHANGED <<cookies, authorized, clients, closedConns, revoked, targets, racing>>

\* ServeHTTPForDevice after the upgrade: the socket joins Hub.clients.
Register(t) ==
  /\ upgrading' = upgrading \ {t}
  /\ clients' = clients \cup {t}
  /\ UNCHANGED <<authVars, cookies, authorized, closedConns, revoked, targets, racing>>

UpgradeFails(t) ==
  /\ upgrading' = upgrading \ {t}
  /\ racing' = racing \ {t}
  /\ UNCHANGED <<authVars, cookies, authorized, clients, closedConns, revoked,
                 targets>>

\* The revoke handler calls CloseDevice, which collects the device's sockets
\* under Hub.mu ...
CloseDevice(d) ==
  /\ d \in revoked
  /\ revoked' = revoked \ {d}
  /\ targets' = targets \cup {c \in clients : c.device = d}
  /\ racing' = racing \cup {t \in upgrading : t.device = d}
  /\ UNCHANGED <<authVars, cookies, authorized, upgrading, clients, closedConns>>

\* ... and closes them one by one after the unlock.
CloseTarget(c) ==
  /\ targets' = targets \ {c}
  /\ closedConns' = closedConns \cup ({c} \cap clients)
  /\ UNCHANGED <<authVars, cookies, authorized, upgrading, clients, revoked, racing>>

\* The peer or the network ends the connection.
ConnectionLost(c) ==
  /\ c \notin closedConns
  /\ closedConns' = closedConns \cup {c}
  /\ UNCHANGED <<authVars, cookies, authorized, upgrading, clients, revoked,
                 targets, racing>>

\* Bug: the read loop ends and its socket stays registered.
UnregisterLeavesIt(c) ==
  /\ c \in closedConns
  /\ UNCHANGED accessVars

\* The read loop sees the closed connection and unregisters the socket.
Unregister(c) ==
  /\ c \in closedConns
  /\ clients' = clients \ {c}
  /\ closedConns' = closedConns \ {c}
  /\ racing' = racing \ {c}
  /\ UNCHANGED <<authVars, cookies, authorized, upgrading, revoked, targets>>

\* A restart ends every request and socket; cookies stay good because the
\* signing key is on disk.
RestartServer(readable) ==
  /\ Restart(readable)
  /\ authorized' = {}
  /\ upgrading' = {}
  /\ clients' = {}
  /\ closedConns' = {}
  /\ revoked' = {}
  /\ targets' = {}
  /\ racing' = {}
  /\ UNCHANGED cookies

AccessNext ==
  \/ Pairing
  \/ Login
  \/ \E v \in verifying : CompleteLogin(v)
  \/ \E d \in Device : CookieExpires(d)
  \/ \E r \in Request, d \in Device, saved \in BOOLEAN : Authorize(r, d, saved)
  \/ \E a \in authorized : HandleConfig(a)
  \/ \E a \in authorized, saved \in BOOLEAN : RevokeSelf(a, saved)
  \/ \E d \in Device, saved \in BOOLEAN : RevokeByAdmin(d, saved)
  \/ \E t \in tickets, compatible \in BOOLEAN : HandleWS(t, compatible)
  \/ \E t \in upgrading : Register(t)
  \/ \E t \in upgrading : UpgradeFails(t)
  \/ \E d \in Device : CloseDevice(d)
  \/ \E c \in targets : CloseTarget(c)
  \/ \E c \in clients : ConnectionLost(c)
  \/ \E c \in clients : Unregister(c)
  \/ \E readable \in BOOLEAN : RestartServer(readable)

\* The goroutine that revoked runs the callback to its end, and a read loop
\* whose connection is closed gets an error from ReadMessage.
AccessFairness ==
  /\ \A d \in Device : WF_accessVars(CloseDevice(d))
  /\ WF_accessVars(\E c \in targets : CloseTarget(c))
  /\ WF_accessVars(\E c \in clients : Unregister(c))

AccessSpec == AccessInit /\ [][AccessNext]_accessVars /\ AccessFairness

----------------------------------------------------------------------------
(* Properties *)

\* A ticket opens at most one socket: once handleWS accepted it, it is neither
\* valid for another handshake nor on its way to a second socket.
TicketOpensOneSocket ==
  /\ \A t \in upgrading \cup clients : \A u \in tickets : u.id # t.id
  /\ \A t \in upgrading, c \in clients : t.id # c.id

\* A socket that is not about to be closed although its device is no longer paired
\* and the revocation has been carried out is one whose handshake was under way when
\* CloseDevice looked for the device's sockets (server.go, handleWS; hub.go, CloseDevice).
\* Nothing else that outlives a revocation opens one: no cookie, no request that was
\* authorized before, and no ticket that such a request obtains afterwards, also when
\* the device is paired and revoked once more.
RevokedSocketsRaced ==
  \A c \in clients \ (targets \cup closedConns) :
    c.device \in devices \/ c.device \in revoked \/ c \in racing

\* Every socket that is registered while the revocation of its device is being
\* carried out goes away, whatever opens, closes or re-pairs meanwhile.
RevocationReachesSockets ==
  \A i \in 1..MaxId, d \in Device :
    ([id |-> i, device |-> d] \in clients /\ d \in revoked)
      ~> [id |-> i, device |-> d] \notin clients

----------------------------------------------------------------------------
(* The inductive invariant behind them *)

AccessTypeOK ==
  /\ cookies \in SUBSET Device
  /\ authorized \in SUBSET [req : Request, device : Device]
  /\ upgrading \in SUBSET Credential
  /\ clients \in SUBSET Credential

\* Tickets, handshakes and sockets carry identifiers that were issued ...
TicketsIssued == \A t \in tickets \cup upgrading \cup clients : t.id < nextId

\* ... each to one ticket.
TicketsUnique ==
  /\ \A t, u \in tickets : t.id = u.id => t = u
  /\ \A t, u \in upgrading \cup clients : t.id = u.id => t = u

\* A handshake under way will become such a socket.
HandshakesRaced ==
  \A t \in upgrading : t.device \in devices \/ t.device \in revoked \/ t \in racing

\* Without the identifiers a fresh ticket could bear the name of a socket that is
\* open already.
AccessInv ==
  /\ AuthInv
  /\ AccessTypeOK
  /\ TicketsIssued
  /\ TicketsUnique
  /\ TicketOpensOneSocket
  /\ RevokedSocketsRaced
  /\ HandshakesRaced
=============================================================================
