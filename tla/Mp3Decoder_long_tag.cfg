CONSTANTS
  InLen = 6
  FrameLen = 2
  FrameSize = 3
  Streams <- MC_LongTag
  Timeouts = FALSE
  MaxShorts = 0
  Stops = FALSE
SPECIFICATION Spec
INVARIANT StreamComplete
