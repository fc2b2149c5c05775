SPECIFICATION FairSpec
CONSTANTS
  QUEUE_MAX_SIZE = 3
  Round     = 2
  AgentRoom = 1
  MaxTicks  = 3
  IpcFaults = TRUE
CHECK_DEADLOCK FALSE
INVARIANTS
  TypeOK
  MutexHandedOver
  AnnouncementsMatch
  GivesUpOnlyAfterOverwrite
  NewestKept
PROPERTIES
  AllArrive
  RefinesChannel
