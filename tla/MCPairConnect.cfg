CONSTANTS
  Half32 = 8
  MAX_PAYLOAD_SIZE = 1
  MAX_RETX_ATTEMPTS = 1
  LingerTimeouts = 2
  MaxU16 = 4
  Endpoint <- MCEndpoint
  Client = "client"
  ClientLen = 1
  ServerLen = 1
  ClientISN = 0
  ServerISN = 5
  Byte <- MCByte
  Stream <- MCStream
  ISN <- MCISN
  SendCapacity = 2
  Capacity = 1
  RetxTimeout = 1
  TickMs = 1
  MaxTime = 2
  MaxDrops = 1
  MaxDups = 0
  MaxTimeouts = 2
  MaxOverdue = 0
SPECIFICATION Spec
INVARIANT ConnectReturnsConnected
CHECK_DEADLOCK FALSE
