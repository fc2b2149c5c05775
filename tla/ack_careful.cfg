SPECIFICATION FairSpec
CONSTANTS
  QUEUE_MAX_SIZE = 3
  Opers       = {"net", "mac", "db", "source", "info"}
  RecvRoom    = 2
  AckRoom     = 1
  Window      = 2
  MaxRequests = 4
  IpcFaults   = FALSE
CHECK_DEADLOCK FALSE
INVARIANT
  NeverOverwritten
PROPERTIES
  RefinesService
  EveryReplyArrives
