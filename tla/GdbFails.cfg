CONSTANTS
  N = 2
  CtrlRegs = 1
  HasFpu = FALSE
  GdbRegs = {0, 1, 2}
  NumBpts = 2
  BptAddrs = {4, 8}
  Interrupts = TRUE
  Fails = TRUE
  MaxReqs = 6
SPECIFICATION FairSpec
CHECK_DEADLOCK FALSE
INVARIANT TargetGoesNowhere
INVARIANT BreakpointsHeld
INVARIANT PictureTrue
INVARIANT NoSpareStop
PROPERTY StopReported
