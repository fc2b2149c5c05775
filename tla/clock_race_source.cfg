SPECIFICATION Spec
CONSTANTS
  ResetConfig <- MCRaceReset
  LogicNoise  <- MCRaceNoise
  SyncFirst   = 1
  SyncJump    = 2
  SyncAgain   = 3
  SyncWrap    = 4
  RebootCount = 1
  BusRaces     = TRUE
  ThreadFaults = FALSE
INVARIANT
  MasterOffPtp
