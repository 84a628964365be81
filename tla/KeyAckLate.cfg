SPECIFICATION Spec
CONSTANTS
  BusIdle = 1
  Cell = 1
  SyncTimeout = 2
  KeyAckNotBefore = 1
  KeyAckDeadline = 3
  LoopLimit = 16
  MaxTime = 16
  NoiseBytes = {85, 117}
  MaxNoise = 0
PROPERTY AnswerInWindow
CHECK_DEADLOCK FALSE
