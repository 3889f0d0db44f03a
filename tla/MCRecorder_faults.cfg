SPECIFICATION FairSpec
CONSTANTS
  Byte = {0, 1}
  OtherCalls <- MCOtherCalls
  TimeLen = 1
  MaxReadLen = 2
  NextCall <- Branching
  LiveResults <- MCLiveResults
  Faults = {"signal", "kill", "crash", "start", "payload", "flush", "result"}
  MaxSignals = 1
  MaxRuns = 1
  MaxSync = 1
CHECK_DEADLOCK FALSE
INVARIANTS TypeOK StopsAlternate WriteAhead LinesChained ResultMatchesTrace ResultTranscribed
PROPERTIES Finishes ImplementsJournal
