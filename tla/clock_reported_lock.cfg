SPECIFICATION Spec
CONSTANTS
  ResetConfig <- MCResetConfig
  LogicNoise  <- MCLogicNoise
  SyncFirst   = 1
  SyncJump    = 2
  SyncAgain   = 3
  SyncWrap    = 4
  RebootCount = 2
  BusRaces     = FALSE
  ThreadFaults = TRUE
INVARIANT
  ReportedLockIsReal
