CONSTANTS
  BlockSize = 3
  UsizeMod = 4096
  Archives <- MCFewArchives
  Ends <- MCOneEnd
  Truncated = TRUE
  Capacity = 3
  ReadSizes = {2}
  ShortReads = TRUE
  Faults = {"pending", "ioerror"}
  Stale = FALSE
  Careful = TRUE
SPECIFICATION FairSpec
INVARIANT CarefulReaderPanics
PROPERTY CallsReturn
CHECK_DEADLOCK FALSE
