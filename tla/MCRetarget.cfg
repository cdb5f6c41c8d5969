CONSTANTS
  TimeExpected = 1
  DifficultyInit = 2
  AdjustAfter = 2
  FactorLimit = 2
  Stamps <- MCStamps
  MaxBlocks = 5
SPECIFICATION Spec
INVARIANTS
  TypeOK
  WindowStart
  MatchesReference
PROPERTIES
  BoundedAdjustment
CHECK_DEADLOCK FALSE
