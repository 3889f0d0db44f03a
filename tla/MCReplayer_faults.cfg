SPECIFICATION FairSpec
CONSTANTS
  Byte = {0, 1}
  OtherCalls <- MCOtherCalls
  TimeLen = 1
  MaxReadLen = 2
  NextCall <- Branching
  LiveResults <- MCLiveResults
  Leftovers <- UsedOnly
  Traces <- DamagedTraces
  Faults = {"signal", "kill", "crash", "start", "metadata", "result", "inject", "payload"}
  MaxSignals = 1
CHECK_DEADLOCK FALSE
INVARIANTS TypeOK ReplaysRecording InjectedInPlace LinesMatchHistory SpentInOrder RefsEndTheirBytes
PROPERTY Finishes
