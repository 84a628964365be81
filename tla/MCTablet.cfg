SPECIFICATION TabletSpec
CONSTANTS
  RingCapacity = 3
  MaxBytes = 9
  MaxBatch = 4
  HeadStoreOrdered = TRUE
  InputBytes = {3, 4, 251, 252}
  Capacity = 2
  Groups = {1}
  MaxFrames = 3
  MaxEpoch = 2
  MaxGeneration = 1
  Blocks = {0, 1}
  MaxReady = 1
  InFlight = 2
  FrameCounts = {1, 2}
  MaxSessions = 2
  MaxSequence = 3
  Period = 3
  RingSlots = 2
  ReportEvery = 2
  MaxImuTime = 12
  LastGroup = 1
  CounterModulus = 8
  ClockModulus = 100
  LineIdle = 1
  ResponseTimeout = 2
  SessionTimeout = 2
  RetryInterval = 2
  MaxLate = 2
  MaxClock = 6
  MaxDisturbances = 1
  TestCount = 2
  BufferBlocks = 2
  MaxStarts = 3
INVARIANTS
  BytesInOrder
  CompleteFramesParse
  LossShown
  DecodedAsAnswered
  FileIsTheCapture
PROPERTIES
  ImplementsIngressQueue
  BodyUsesItsHeader
  KnownHeaderDecodes
  FramesAccountedFor
  OneSamplePerPeriod
CHECK_DEADLOCK FALSE
