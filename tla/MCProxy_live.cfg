SPECIFICATION FairSpec
CONSTANTS
  MaxSeqNum = 2
  TicksPerSec = 2
  Grain = 1
  MaxError = 0
  Rounding <- Exact
  Headers <- NoHeader
  Protocol = "none"
  Scenarios <- ReloadScenarios
  MaxInFlight = 1
  MaxTimeout = 2
  SocketCapacity = 2
  Observers <- NoObserver
  MaxPackets = 3
  MaxReloads = 1
  MaxClock = 1
PROPERTIES
  DelayedIsSent
  ReloadLands
