CONSTANTS
  BlockSize = 3
  UsizeMod = 4096
  Archives <- MCArchives
  Ends <- MCWholeEnds
  Truncated = FALSE
  Capacity = 6
  ReadSizes = {2}
  ShortReads = TRUE
  Faults = {}
  Stale = FALSE
  Careful = TRUE
SPECIFICATION Spec
INVARIANT HeadersAreFound
CHECK_DEADLOCK FALSE
