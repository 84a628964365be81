SPECIFICATION Spec
CONSTANTS
  Capacity = 3
  PreinitSteps = 1
  CoreSteps = 1
  MaxGeneration = 2
  MaxOperation = 6
INVARIANT ReportedMeansDone
