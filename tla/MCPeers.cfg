CONSTANTS
  n1 = n1
  n2 = n2
  d1 = d1
  d2 = d2
  d3 = d3
  None = None
  Nodes <- TwoNodes
  Detached <- OneThread
  Miners <- TwoNodes
  Links <- OneWay
  Stoppers <- Second
  MaxLength = 3
  MaxPeers = 1
  MaxLosses = 1
  MaxCrashes = 1
SPECIFICATION FairSpec
INVARIANTS
  TypeOK
PROPERTIES
  SurvivorsComeToRest
  StoppedNodeEnds
CHECK_DEADLOCK FALSE
