CONSTANTS
  BlockSize = 2
  UsizeMod = 4096
  Headers <- AnyHeaders
  MaxEntries = 2
  Bufs <- SomeBufs
  Capacity = 2
  Vectored = TRUE
  Debug = FALSE
  Faults = {"pending", "ioerror", "writezero"}
  Careful = FALSE
SPECIFICATION Spec
INVARIANTS
  TypeOK
  ArchiveImage
  BlocksAreWhole
  HandleIsOfArchive
  ToldIsTaken
  OutgoingIsValid
  FinishDelivers
  FlushDelivers
  SlicesAreWritten
PROPERTY ImplementsLog
CHECK_DEADLOCK FALSE
