CONSTANTS
  Aps = {0, 1}
  NumWords = 4
  PageWords = 2
  MaxWords = 3
  MaxTries = 2
  ReadNums = {3}
  WriteNums = {}
  on = on
  junk = junk
  n1 = n1
  n2 = n2
  CswWordIncr = on
  Junk = junk
  Val <- MCVal
  InitMem <- MCInitMem
  Payloads <- MCPayloads
SPECIFICATION FairSpec
INVARIANT ReadReturnsMemory
INVARIANT TarTracksCurAddr
INVARIANT ReadyConfigured
PROPERTY CallReturns
