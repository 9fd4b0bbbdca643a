SPECIFICATION AccessSpec
CONSTANTS
  Device = {d1}
  Request = {r1, r2}
  MaxPairingAttempts = 2
  MaxId = 4
INVARIANTS
  RegistryDurable
  ChallengeSingleUse
  TicketOpensOneSocket
  RevokedSocketsRaced
PROPERTIES
  AdmissionConsumesInvitation
  RevocationReachesSockets
