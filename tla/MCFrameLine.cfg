SPECIFICATION Spec
CONSTANTS
  BufferSize = 27
  DegMax = 11
  TokenSize = 16
  Alphabet = {"hash", "dollar", "digit", "junk"}
  Frames <- MCFrames
  SendSize = 29
  MaxLosses = 1
  MaxStrays = 2
PROPERTIES
  WholeFrameIsParsed
  OverrunNeedsLostEnd
CHECK_DEADLOCK FALSE
