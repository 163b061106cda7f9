CONSTANTS
  N = 2
  CtrlRegs = 1
  HasFpu = FALSE
  GdbRegs = {}
  NumBpts = 2
  BptAddrs = {4, 8}
  Interrupts = FALSE
  Fails = TRUE
  MaxReqs = 5
SPECIFICATION Spec
INVARIANT NoForgottenBreakpoint
CHECK_DEADLOCK FALSE
