CONSTANTS
  Top = 12
  W = 3
  Chunk = 2
  MaxGdb = 10
  FileLen = 7
  Zero = Zero
  Dma = Dma
  MaxReqs = 1
  MaxTouches = 1
SPECIFICATION FairSpec
CHECK_DEADLOCK FALSE
PROPERTY ImplementsBytes
