CONSTANTS
  Half32 = 8
  MAX_PAYLOAD_SIZE = 2
  StreamLen = 3
  SendCapacity = 3
  RetxTimeout = 2
  ISNs = {5}
  MaxWin = 3
  MaxRetx = 2
  TickMs = {3}
  StaleAcks = TRUE
  Byte <- MCByte
  Stream <- MCStream
SPECIFICATION Spec
INVARIANTS TypeOK OutstandingIsInFlight TimerFollowsOutstanding SegmentsInPlace WindowUsed
PROPERTY StopsAtWindow
