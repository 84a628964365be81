SPECIFICATION LifecycleSpec
CONSTANTS
  Keyboards = {kbd}
  Hubs = {hub}
  MaxDevices = 1
  MaxPlugs = 2
  MaxPresses = 2
INVARIANTS  LibraryOutlivesClient
PROPERTY KeyboardListensAgain
CHECK_DEADLOCK FALSE
