CONSTANTS
  InLen = 6
  FrameLen = 2
  FrameSize = 3
  Streams <- MC_OneStream
  Timeouts = TRUE
  MaxShorts = 0
  Stops = TRUE
SPECIFICATION Spec
INVARIANT TypeOK
INVARIANT FramesInOrder
