SPECIFICATION Spec
CONSTANTS
  Messages <- MCMessages
  BufLen = 48
  Garbage <- MCGarbage
CHECK_DEADLOCK FALSE
INVARIANTS TypeOK Streamed DigestOfMessage
