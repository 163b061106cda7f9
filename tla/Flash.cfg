CONSTANTS
  Top = 8
  Many = 2
  FileLen = 3
  MaxLost = 1
  Old = Old
  Erased = Erased
  Junk = Junk
  Bases = {0, 2, 3}
  Shapes = {0, 1000, 2001}
  Counts = {0, 1}
  MaxPieces = 2
  Layouts <- MCLayouts
  Asked <- MCAsked
SPECIFICATION FairSpec
CHECK_DEADLOCK FALSE
INVARIANT LeavesPrefix
INVARIANT TablesRight
INVARIANT RangesRight
INVARIANT SuccessIsDone
PROPERTY OpEnds
