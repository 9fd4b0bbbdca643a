SPECIFICATION ProcSpec
CONSTANTS
  s1 = s1
  s2 = s2
  NoServer = NoServer
  Servers <- MCServers
  Profiles <- MCProfiles
  MaxFailures = 3
CHECK_DEADLOCK FALSE
PROPERTIES
  RecoveryJustified
  DeferredRecoveryStands
  IsServerLife
