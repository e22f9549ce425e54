SPECIFICATION Spec
CONSTANTS
  MaxSeqNum = 2
  TicksPerSec = 2
  Grain = 1
  MaxError = 0
  Rounding <- Exact
  WordBits = 2
  Period = 3
  Headers <- AnyHeader
  Scenarios <- Mixed
  MaxPackets = 3
  MaxClock = 2
INVARIANTS
  UnlimitedRunsReplay
PROPERTIES
  OnlyLimitersDiverge
  SeededIsAllowed
