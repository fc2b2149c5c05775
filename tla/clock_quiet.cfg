SPECIFICATION FairSpec
CONSTANTS
  ResetConfig <- MCResetConfig
  LogicNoise  <- MCLogicNoise
  SyncFirst   = 1
  SyncJump    = 2
  SyncAgain   = 3
  SyncWrap    = 4
  RebootCount = 2
  BusRaces     = FALSE
  ThreadFaults = TRUE
INVARIANTS
  TypeOK
  RoleAuthority
  MasterOffPtp
  CounterSyncsAtMostTwice
PROPERTIES
  ValidOnlyWhenServed
  RefinesRole
  LostGpsEndsMastership
  FoundGpsRestoresMaster
