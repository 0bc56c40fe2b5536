CONSTANTS
  BlockSize = 3
  UsizeMod = 4096
  Archives <- MCAllArchives
  Ends <- MCEnds
  Truncated = TRUE
  Capacity = 6
  ReadSizes = {0, 2}
  ShortReads = TRUE
  Faults = {"pending", "ioerror"}
  Stale = FALSE
  Careful = FALSE
SPECIFICATION Spec
INVARIANTS
  TypeOK
  StandsInArchive
  HandleReadsItsEntry
  AnswersAreReal
  NoBytesAtTheEndOnly
  ChecksHold
CHECK_DEADLOCK FALSE
