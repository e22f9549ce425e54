SPECIFICATION Spec
CONSTANTS
  MaxSeqNum = 2
  TicksPerSec = 2
  Grain = 1
  MaxError = 0
  Rounding <- Exact
  Headers <- NoHeader
  Protocol = "none"
  Scenarios <- ReloadScenarios
  MaxInFlight = 1
  MaxTimeout = 2
  SocketCapacity = 2
  Observers = {o1, o2}
  MaxPackets = 2
  MaxReloads = 3
  MaxClock = 1
INVARIANTS
  StaleBound
PROPERTY
  FlowMovesForward
