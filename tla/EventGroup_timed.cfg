CONSTANTS
  Waiters = {w1, w2}
  Bits <- MC_Bits
  WaitTimed = TRUE
  MaxCalls = 2
  MaxOps = 3
  NoW = NoW
SPECIFICATION Spec
INVARIANT TypeOK
INVARIANT ConsumeOnce
PROPERTY ContractSpec
