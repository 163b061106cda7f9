CONSTANTS
  Cores = {0, 1}
  NumWords = 3
  XferWords = 2
  Versions = {1}
  Queue = 2
  MaxTries = 2
  MaxCalls = 2
  MaxLost = 2
SPECIFICATION FairSpec
CHECK_DEADLOCK FALSE
INVARIANT IInv
INVARIANT TransfersRight
INVARIANT ReadRightAddress
INVARIANT StepsExecuted
PROPERTY CallReturns
