SPECIFICATION Spec
CONSTANTS
  Capacity = 1
  MaxSent = 2
INVARIANTS TypeOK InOrder AnswerIsWhole
PROPERTY BridgesEnd
CHECK_DEADLOCK FALSE
