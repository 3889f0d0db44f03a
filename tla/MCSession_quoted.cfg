SPECIFICATION SessionSpec
CONSTANTS
  Byte = {0, 1}
  OtherCalls <- MCOtherCalls
  TimeLen = 1
  MaxReadLen = 2
  NextCall <- Unsteady
  LiveResults <- MCLiveResults
  Leftovers <- NewOnly
  Traces <- UnsteadyTraces
  Faults = {}
  MaxSignals = 0
  TargetQuoted = TRUE
  Output <- Lines
CHECK_DEADLOCK FALSE
INVARIANT PassMeansSameEvents
