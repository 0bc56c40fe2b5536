CONSTANTS
  BlockSize = 2
  UsizeMod = 4096
  Headers <- GoodHeaders
  MaxEntries = 2
  Bufs <- SomeBufs
  Capacity = 2
  Vectored = FALSE
  Debug = TRUE
  Faults = {"pending"}
  Careful = TRUE
SPECIFICATION Spec
INVARIANT PendingTakesNothing
CHECK_DEADLOCK FALSE
