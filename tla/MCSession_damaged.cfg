SPECIFICATION SessionSpec
CONSTANTS
  Byte = {0, 1}
  OtherCalls <- MCOtherCalls
  TimeLen = 1
  MaxReadLen = 2
  NextCall <- Branching
  LiveResults <- MCLiveResults
  Leftovers <- NewOnly
  Traces <- DamagedTraces
  Faults = {}
  MaxSignals = 0
  TargetQuoted = FALSE
  Output <- Lines
CHECK_DEADLOCK FALSE
INVARIANT PassMeansReproduced
