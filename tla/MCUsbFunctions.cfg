SPECIFICATION FunctionsSpec
CONSTANTS
  Luns = {0, 1}
  Paths = {"/a", "/b"}
  MaxMounts = 2
  MaxBlockChunks = 2
  MaxTags = 5
  Preferred = 2
  NtbLimit = 3
  DeviceMaxima = {1, 3, 4}
  RingFrames = 1
  MaxNtbs = 2
  MaxSends = 1
  MaxOpens = 2
  Depth = 2
  LastTransfer = 4
  PoolTokens = {1}
  RetiredSlots = 1
  MaxBegins = 2
  Callers = {1, 2}
  SequenceModulus = 2
  MaxMismatches = 2
  MaxExtensions = 1
  MaxCards = 1
  MaxCcidCommands = 2
  MaxCcidOpens = 2
  InputKeys = {4, 57}
  CapsKey = 57
  Modifiers = {224}
  InputUsages = {233}
  Buttons = {300}
  KeySlots = 2
  ListenerLimit = 1
  IdModulus = 3
  InputKinds = {"key", "consumer", "system", "mouse", "gamepad", "midi"}
  MaxReports = 3
  MaxListeners = 2
INVARIANTS
  CreditedIsServed
  BlocksReceived
  NobodySendsAfterRelease
  
  
  
  KeysFollowReports
  ReleasesArePaired
CHECK_DEADLOCK FALSE
