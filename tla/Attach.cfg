CONSTANTS
  MaxAps = 3
  MaxCores = 2
  Low = 2
  MaxAttach = 2
  Kinds = {"v6", "v7f", "bare", "be", "other"}
SPECIFICATION FairSpec
CHECK_DEADLOCK FALSE
INVARIANT ReplyParses
INVARIANT AllCoresListed
INVARIANT LeftClean
INVARIANT SelectedIsCurrent
PROPERTY AttachEnds
