SPECIFICATION PipelineSpec
CONSTANTS
  Byte = {0, 1}
  OtherCalls <- MCOtherCalls
  TimeLen = 1
  MaxReadLen = 2
  NextCall <- Wavering
  LiveResults <- FewLiveResults
  Leftovers <- NewOnly
  Traces <- MCTraces
  Faults = {"kill", "signal", "start", "inject"}
  MaxSignals = 1
  TargetQuoted = FALSE
  Output <- Diagnostics
  Around = 1
  LastLines = 2
  TopK = 3
  MaxRepeat = 2
CHECK_DEADLOCK FALSE
INVARIANTS PipelineTypeOK VerdictSound VerdictComplete MismatchIsFirst ExitCodeTells ReportOfLast InputNamedFirst OutputNamed SyncNamedAtEnd
