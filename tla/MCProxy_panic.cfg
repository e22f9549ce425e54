SPECIFICATION Spec
CONSTANTS
  MaxSeqNum = 2
  TicksPerSec = 2
  Grain = 1
  MaxError = 0
  Rounding <- Exact
  Headers <- NoHeader
  Protocol = "none"
  Scenarios <- OversizedScenarios
  MaxInFlight = 1
  MaxTimeout = 2
  SocketCapacity = 2
  Observers <- NoObserver
  MaxPackets = 2
  MaxReloads = 0
  MaxClock = 1
INVARIANT
  NeverPanics
