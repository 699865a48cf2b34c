CONSTANTS
  Answers <- MC_OddAnswers
  Uninit <- MC_Uninit
  BodyLen = 3
  ReadMax = 2
  ConnectFails = FALSE
  ReadErrors = FALSE
  MaxRuns = 2
SPECIFICATION Spec
INVARIANT BodyInOrder
