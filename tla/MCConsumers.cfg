SPECIFICATION ConsumersSpec
CONSTANTS
  Letters <- MCLetters
  Words <- MCWords
  LineLength = 3
  Snapshots <- MCSnapshots
  Statuses <- MCStatuses
  Touches <- MCTouches
  SpriteAttempts = 2
  MaxTabSequence = 1
PROPERTY ScreenFollows
CHECK_DEADLOCK FALSE
