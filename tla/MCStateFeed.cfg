CONSTANTS
  BlockSize = 3
  UsizeMod = 4096
  MaxChunk = 8
  Archives <- MCArchives
SPECIFICATION FairSpec
INVARIANTS
  TypeOK
  StateTracksOffset
  OnlyDamageIsRefused
  SlicesDoNotMatter
  SplitIsExact
  ForwardProgress
PROPERTY FeedReachesEnd
CHECK_DEADLOCK FALSE
