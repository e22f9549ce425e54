SPECIFICATION FairControlSpec
CONSTANTS
  MaxSeqNum = 2
  TicksPerSec = 2
  Grain = 1
  MaxError = 0
  Rounding <- Exact
  Headers <- AnyHeader
  Protocol = "moldudp64"
  Scenarios <- Flows
  MaxInFlight = 1
  MaxTimeout = 2
  SocketCapacity = 2
  Observers <- None
  MaxPackets = 2
  MaxReloads = 2
  MaxClock = 0
  Files <- SomeFiles
  Bodies <- SomeBodies
  Posters = {p1, p2}
  Readers <- None
INVARIANTS
  TypeOK
  PublishedWhole
  AcknowledgedIsPublished
  LatestReloadWins
  DropsExactly
  StartsWhole
PROPERTIES
  IsProxy
  EveryEndIsReported
  RequestsAreAnswered
