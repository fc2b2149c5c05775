SPECIFICATION Spec
CONSTANTS
  TimeLength = 4
  MaxTimes = 5
INVARIANTS
  TypeOK
  CopyIsATime
  OneTimeBackAtMost
CHECK_DEADLOCK FALSE
