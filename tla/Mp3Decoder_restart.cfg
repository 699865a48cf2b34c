CONSTANTS
  InLen = 6
  FrameLen = 2
  FrameSize = 3
  Streams <- MC_Playlist
  Timeouts = FALSE
  MaxShorts = 0
  Stops = TRUE
SPECIFICATION Spec
INVARIANT FramesInOrder
