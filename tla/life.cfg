SPECIFICATION FairSpec
CONSTANTS
  Procs = {p1, p2}
  RecvRoom = 1
  MaxStarts = 3
INVARIANTS
  TypeOK
  CleanStopLeavesNothing
  OldRequestsNeedAbort
  ThreadsUseLiveQueues
PROPERTY SignalEnds
