SPECIFICATION Spec
CONSTANTS
  Holdback = 2
  Late = 1
  StampModulus = 100
  Failures = {"WriteError"}
  Kinds = {"LogStart", "LogStop"}
  SnapshotSlots = 2
  ImuSlots = 1
  CommandSlots = 2
  MaxTime = 7
  MaxSnapshots = 2
  MaxImu = 0
  MaxCommands = 2
INVARIANTS
  StopKeepsAccepted
CHECK_DEADLOCK FALSE
