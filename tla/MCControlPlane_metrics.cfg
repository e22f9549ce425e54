SPECIFICATION ControlSpec
CONSTANTS
  MaxSeqNum = 2
  TicksPerSec = 2
  Grain = 1
  MaxError = 0
  Rounding <- Exact
  Headers <- NoHeader
  Protocol = "none"
  Scenarios <- Flows
  MaxInFlight = 1
  MaxTimeout = 2
  SocketCapacity = 2
  Observers <- None
  MaxPackets = 2
  MaxReloads = 0
  MaxClock = 0
  Files <- CopyFile
  Bodies <- NoBodies
  Posters <- None
  Readers = {r1}
INVARIANTS
  ReadingInRange
  ReportIsFinal
  MomentsConsistent
