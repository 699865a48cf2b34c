CONSTANTS
  Waiters = {w1, w2}
  Bits <- MC_Bits
  WaitTimed = FALSE
  MaxCalls = 2
  MaxOps = 3
  NoW = NoW
SPECIFICATION Spec
PROPERTY BlockedWaiterReturns
CHECK_DEADLOCK FALSE
