SPECIFICATION ThreadSpec
CONSTANTS
  TimeExpected = 1
  DifficultyInit = 1
  AdjustAfter = 1
  FactorLimit = 2
  ProofOfWork = FALSE
  TimeMaxDelta = 1
  n1 = n1
  n2 = n2
  alice = alice
  bob = bob
  Nodes <- TwoNodes
  Addresses <- TwoWallets
  RewardAmount = 2
  NumPerBlock = 2
  Payees <- OnlyBob
  Amounts <- OneCoin
  MaxBlocks = 3
  MaxTransfers = 2
  Uses <- Shared
  Mines <- OwnNodes
  MaxRequests = 1
CHECK_DEADLOCK FALSE
INVARIANT OutputsSpentOnce
