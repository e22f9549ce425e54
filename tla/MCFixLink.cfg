SPECIFICATION FairSpec
CONSTANTS
  MaxMessageLen = 14
  MaxHeaderScan = 7
  MaxNumber = 99
  Scripts <- SomeScripts
  ReadChunk = 16
  ReadSizes = {6, 16}
  WireCapacity <- Buffers
INVARIANTS
  NothingLost
  BufferIsBounded
  CleanEndIsComplete
  FailedEndsAreRight
PROPERTIES
  ImplementsStream
  StreamsFlow
