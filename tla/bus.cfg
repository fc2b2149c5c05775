SPECIFICATION Spec
CONSTANTS
  Words      = {0, 1, 2, 3}
  Zero       = 0
  LogicWords = {1}
INVARIANTS
  TypeOK
  ConfigReadAsAssumed
  LogicReadAsAssumed
PROPERTY
  ConfigWriteAsAssumed
