SPECIFICATION Spec
CONSTANTS
  Byte = {0, 1}
  OtherCalls <- MCOtherCalls
  TimeLen = 1
  MaxReadLen = 2
  NextCall <- Reads
  LiveResults <- MCLiveResults
  Faults = {"kill", "crash", "start", "payload"}
  MaxSignals = 0
  MaxRuns = 2
  MaxSync = 1
CHECK_DEADLOCK FALSE
INVARIANTS PayloadsAddressed WriteAhead LinesChained CompleteRecording
