CONSTANTS
  BlockSize = 2
  UsizeMod = 4096
  Headers <- GoodHeaders
  MaxEntries = 2
  Bufs <- SomeBufs
  Capacity = 2
  Vectored = TRUE
  Debug = FALSE
  Faults = {"pending", "ioerror", "writezero"}
  Careful = TRUE
SPECIFICATION FairTurns
INVARIANT CarefulPanics
PROPERTY CallsReturn
CHECK_DEADLOCK FALSE
