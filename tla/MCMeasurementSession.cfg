SPECIFICATION PathSpec
CONSTANTS
  CounterModulus = 4
  EcuCounters = {252}
  EcuPayloads <- MCEcuPayloads
  MaxIdentification = 1
  MaxDisturbances = 1
  SlotCount = 3
  MaxPublications = 4
INVARIANTS
  UndisturbedKeepsRunning
  DialogueInOrder
  SnapshotsIntact
PROPERTIES
  BlocksIntact
  GroupsComeAgain
  LatestArrives
CHECK_DEADLOCK FALSE
