SPECIFICATION Spec
CONSTANTS
  Byte = {0, 1}
  OtherCalls <- MCOtherCalls
  TimeLen = 1
  MaxReadLen = 2
  NextCall <- TwoReads
  LiveResults <- MCLiveResults
  Leftovers <- NewOnly
  Traces <- TwoReadsTraces
  Faults = {}
  MaxSignals = 1
CHECK_DEADLOCK FALSE
INVARIANT LoaderReadsLeftAlone
