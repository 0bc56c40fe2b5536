CONSTANTS
  BlockSize = 3
  UsizeMod = 4
  MaxChunk = 8
  Archives <- MCBigEntry
SPECIFICATION FairSpec
INVARIANTS
  ForwardProgress
CHECK_DEADLOCK FALSE
