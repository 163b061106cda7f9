CONSTANTS
  M = 5
  MaxCalls = 2
  MaxStack = 1
  CheckEvery = 2
  Regs = {0, 1}
  Quarter = 2
  InitRegs <- MCInitRegs
  NativeRets <- MCNativeRets
  Source <- MCSource
  MaxCells = 1
  MaxJumps = 2
  Everything = FALSE
  MaxPlain = 1
SPECIFICATION FairSpec
INVARIANT Intact
INVARIANT FailsOnlyWhenFull
PROPERTY RunsAsAsked
PROPERTY RunEnds
