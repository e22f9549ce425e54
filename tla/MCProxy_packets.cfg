SPECIFICATION Spec
CONSTANTS
  MaxSeqNum = 2
  TicksPerSec = 2
  Grain = 1
  MaxError = 0
  Rounding <- Exact
  Headers <- NoHeader
  Protocol = "none"
  Scenarios <- MixedScenarios
  MaxInFlight = 2
  MaxTimeout = 2
  SocketCapacity = 2
  Observers <- NoObserver
  MaxPackets = 3
  MaxReloads = 1
  MaxClock = 2
INVARIANTS
  CopiesBalance
  HoldsBalance
  BoundedMemory
  SentAsDecided
  NotEarly
  DeadlineOrder
  DirectOrder
PROPERTY
  ImplementsRelay
