SPECIFICATION FairSpec
CONSTANTS
  mc_profiles <- Profiles
  Arguments <- CommandLines
  MaxThreads = 3
  MaxServers = 3
  MaxConns = 2
  MaxOps = 1
INVARIANTS
  TypeOK
  NobodyAhead
  SyncAlone
  RoundCounted
  SharesAddUp
  ServersDealtOut
PROPERTIES
  StopEndsProcess
  RoundsEnd
