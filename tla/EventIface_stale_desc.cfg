CONSTANTS
  Els = {e1, e2}
  Listeners = {l1, l2}
  Desc <- MC_Desc
  Cap = 1
  ExtSize = 5
  MaxSend = 1
  MaxCmd = 1
  RemoveFirst = TRUE
  NoL = NoL
  NoE = NoE
SPECIFICATION Spec
INVARIANT MessagesReachBoundListener
\* A zero-wait listen on a destroyed listener blocks forever: the code can
\* really stop with every thread waiting.
CHECK_DEADLOCK FALSE
