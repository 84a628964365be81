SPECIFICATION Spec
CONSTANTS
  Holdback = 2
  Late = 1
  StampModulus = 100
  Failures = {"WriteError"}
  Kinds = {"LogStart", "LogStop", "SprotzStart"}
  SnapshotSlots = 1
  ImuSlots = 1
  CommandSlots = 2
  MaxTime = 5
  MaxSnapshots = 1
  MaxImu = 1
  MaxCommands = 4
INVARIANTS
  EventsBracketed
  MergeFollowsCore
  StopWaitsForAccepted
PROPERTY
  StopEnds
CHECK_DEADLOCK FALSE
