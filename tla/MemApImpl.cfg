CONSTANTS
  Aps = {0}
  NumWords = 4
  PageWords = 2
  MaxWords = 3
  MaxTries = 2
  ReadNums = {3}
  WriteNums = {3}
  on = on
  junk = junk
  n1 = n1
  n2 = n2
  CswWordIncr = on
  Junk = junk
  Val <- MCVal
  InitMem <- MCInitMem
  Payloads <- MCPayloads
SPECIFICATION SelectSpec
INVARIANT WriteStored
INVARIANT IInv
PROPERTY ImplementsPromise
