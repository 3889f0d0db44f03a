SPECIFICATION FairSpec
CONSTANTS
  Byte = {0, 1}
  OtherCalls <- MCOtherCalls
  TimeLen = 1
  MaxReadLen = 2
  NextCall <- Faulting
  LiveResults <- MCLiveResults
  Faults = {}
  MaxSignals = 0
  MaxRuns = 1
  MaxSync = 0
CHECK_DEADLOCK FALSE
PROPERTY ResultEventuallyStored
