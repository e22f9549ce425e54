SPECIFICATION Spec
CONSTANTS
  MaxMessageLen = 29
  MaxHeaderScan = 9
  MaxNumber = 99
  Streams <- SomeStreams
  MaxChunk = 6
INVARIANTS
  CutsTheGrammar
  FailureDeserved
  RetainsLessThanAMessage
  HeaderSaysTheBody
PROPERTY
  FailureSticks
