CONSTANTS
  TimeExpected = 1
  DifficultyInit = 2
  AdjustAfter = 1
  FactorLimit = 2
  ProofOfWork = FALSE
  TimeMaxDelta = 1
  n1 = n1
  n2 = n2
  d1 = d1
  d2 = d2
  None = None
  Nodes <- TwoNodes
  Detached <- TwoThreads
  Miners <- TwoNodes
  Links <- OneWay
  Skew <- NoSkew
  ExtraZeros = 0
  MaxBlocks = 4
  MaxPeers = 1
  MaxTime = 0
  MaxLosses = 0
SPECIFICATION Spec
PROPERTIES
  ReplacedByGreater
CHECK_DEADLOCK FALSE
