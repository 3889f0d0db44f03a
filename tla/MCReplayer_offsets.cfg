SPECIFICATION Spec
CONSTANTS
  Byte = {0, 1}
  OtherCalls <- MCOtherCalls
  TimeLen = 1
  MaxReadLen = 2
  NextCall <- Unsteady
  LiveResults <- MCLiveResults
  Leftovers <- NewOnly
  Traces <- UnsteadyTraces
  Faults = {}
  MaxSignals = 1
CHECK_DEADLOCK FALSE
INVARIANT RefsBeginTheirBytes
