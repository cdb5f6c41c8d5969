CONSTANTS
  n1 = n1
  n2 = n2
  d1 = d1
  d2 = d2
  d3 = d3
  None = None
  Nodes <- TwoNodes
  Detached <- ThreeThreads
  Miners <- First
  Links <- OneWay
  Stoppers <- First
  MaxLength = 2
  MaxPeers = 1
  MaxLosses = 0
  MaxCrashes = 0
SPECIFICATION FairSpec
PROPERTIES
  StoppedNodeEnds
CHECK_DEADLOCK FALSE
