CONSTANTS
  TimeExpected = 1
  DifficultyInit = 2
  AdjustAfter = 1
  FactorLimit = 2
  ProofOfWork = TRUE
  TimeMaxDelta = 1
  n1 = n1
  n2 = n2
  d1 = d1
  d2 = d2
  None = None
  Nodes <- TwoNodes
  Detached <- TwoThreads
  Miners <- TwoNodes
  Links <- OneWay
  Skew <- FastClock
  ExtraZeros = 0
  MaxBlocks = 3
  MaxPeers = 1
  MaxTime = 1
  MaxLosses = 0
SPECIFICATION Spec
SYMMETRY ThreadSymmetry
INVARIANTS
  ChainsValid
  AdjusterCoversChain
PROPERTIES
  RefinesBlockTree
CHECK_DEADLOCK FALSE
