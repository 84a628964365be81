SPECIFICATION Spec
CONSTANTS
  Capacity = 3
  PreinitSteps = 1
  CoreSteps = 1
  MaxGeneration = 2
  MaxOperation = 6
INVARIANTS
  TokensAccountedFor
PROPERTIES
  CreditsOwnCompletion
  OperationsInOrder
  GoneSessionEnds
  TriedAgain
