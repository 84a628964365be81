SPECIFICATION Spec
CONSTANTS
  BusIdle = 1
  Cell = 1
  SyncTimeout = 2
  KeyAckNotBefore = 1
  KeyAckDeadline = 3
  LoopLimit = 16
  MaxTime = 16
  NoiseBytes = {85, 117}
  MaxNoise = 1
INVARIANTS
  AddressWave
  AnswerInOrder
PROPERTIES
  AttemptEnds
CHECK_DEADLOCK FALSE
