SPECIFICATION Spec
CONSTANTS
  QUEUE_MAX_SIZE = 2
  Opers       = {"net", "info"}
  RecvRoom    = 2
  AckRoom     = 1
  Window      = 5
  MaxRequests = 4
  IpcFaults   = TRUE
CHECK_DEADLOCK FALSE
INVARIANTS
  TypeOK
  AnnouncementsMatch
  RemovesWhatItSent
