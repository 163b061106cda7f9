CONSTANTS
  MaxAps = 2
  MaxCores = 2
  Low = 2
  MaxAttach = 1
  Kinds = {"v6", "bare"}
SPECIFICATION Spec
CHECK_DEADLOCK FALSE
INVARIANT OnlyCoreSelected
