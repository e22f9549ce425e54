SPECIFICATION Spec
CONSTANTS
  MaxSeqNum = 0
  TicksPerSec = 3
  Grain = 10
  MaxError = 1
  Rounding <- RoundsOff
  Rates = {0, 1, 2, 4}
  TopRate = 4
  MaxClock = 8
  MaxReloads = 1
INVARIANTS
  RateIsCapped
  RefusalsAreDue
