CONSTANTS
  Regs = 2
  Values = {0, 1}
  Polls = 1
  CtrSize = 4
  MaxOps = 2
  MaxLost = 1
SPECIFICATION FairSpec
CHECK_DEADLOCK FALSE
INVARIANT ReasonsToldOnce
INVARIANT HonestAnswer
INVARIANT CaughtAtReset
INVARIANT RegsRight
PROPERTY OpEnds
