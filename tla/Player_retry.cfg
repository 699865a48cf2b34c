CONSTANTS
  Answers <- MC_Answers
  Uninit <- MC_Uninit
  BodyLen = 3
  ReadMax = 2
  ConnectFails = TRUE
  ReadErrors = TRUE
  MaxRuns = 2
  InLen = 3
  FrameBytes = 2
  PcmOpenFails = TRUE
  WriteErrors = TRUE
  RbSize = 3
SPECIFICATION Spec
INVARIANT PipelineTypeOK
INVARIANT BodyInOrder
PROPERTY WriterEndsAfterReader
