SPECIFICATION Spec
CONSTANTS
  QUEUE_MAX_SIZE = 2
  Round     = 2
  AgentRoom = 1
  MaxTicks  = 4
  IpcFaults = FALSE
CHECK_DEADLOCK FALSE
INVARIANT
  SenderSurvivesOverflow
