CONSTANTS
  BlockSize = 2
  UsizeMod = 4096
  Headers <- GoodHeaders
  MaxEntries = 1
  Bufs <- SomeBufs
  Capacity = 2
  Vectored = TRUE
  Debug = FALSE
  Faults = {"pending"}
  Careful = FALSE
SPECIFICATION Spec
PROPERTY OkZeroMeansNothingOffered
CHECK_DEADLOCK FALSE
