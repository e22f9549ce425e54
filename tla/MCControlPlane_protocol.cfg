SPECIFICATION ControlSpec
CONSTANTS
  MaxSeqNum = 2
  TicksPerSec = 2
  Grain = 1
  MaxError = 0
  Rounding <- Exact
  Headers <- Numbered
  Protocol = "none"
  Scenarios <- Flows
  MaxInFlight = 1
  MaxTimeout = 2
  SocketCapacity = 2
  Observers <- None
  MaxPackets = 1
  MaxReloads = 1
  MaxClock = 0
  Files <- PlainFile
  Bodies <- GapSeqOnly
  Posters = {p1}
  Readers <- None
INVARIANT
  TargetedNeverSent
