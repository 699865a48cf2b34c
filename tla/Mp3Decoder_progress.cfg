CONSTANTS
  InLen = 12
  FrameLen = 4
  FrameSize = 5
  Streams <- MC_Playlist
  Timeouts = FALSE
  MaxShorts = 0
  Stops = FALSE
SPECIFICATION Spec
INVARIANT StreamComplete
PROPERTY DecoderProgress
