CONSTANTS
  N = 3
  Bytes = {0, 1}
  FromDut = {1}
  MaxPacket = 2
SPECIFICATION FairSpec
INVARIANT QueuesSafe
PROPERTY ArePipes
PROPERTY BytesLeave
