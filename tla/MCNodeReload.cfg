CONSTANTS
  TimeExpected = 3
  DifficultyInit = 2
  AdjustAfter = 1
  FactorLimit = 16
  ProofOfWork = TRUE
  TimeMaxDelta = 1
  n1 = n1
  n2 = n2
  d1 = d1
  d2 = d2
  None = None
  Nodes <- TwoNodes
  Detached <- OneThread
  Miners <- OneMiner
  Links <- OneWay
  Skew <- NoSkew
  ExtraZeros = 0
  MaxBlocks = 2
  MaxPeers = 1
  MaxTime = 2
  MaxLosses = 0
SPECIFICATION Spec
INVARIANTS
  PersistedChainLoads
CHECK_DEADLOCK FALSE
