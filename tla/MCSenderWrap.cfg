CONSTANTS
  Half32 = 8
  MAX_PAYLOAD_SIZE = 2
  StreamLen = 4
  SendCapacity = 3
  RetxTimeout = 2
  ISNs = {11, 15}
  MaxWin = 4
  MaxRetx = 3
  TickMs = {1, 2}
  StaleAcks = FALSE
  Byte <- MCByte
  Stream <- MCStream
SPECIFICATION Spec
INVARIANT OutstandingIsInFlight
