CONSTANTS
  Half32 = 8
  MAX_PAYLOAD_SIZE = 1
  MAX_RETX_ATTEMPTS = 1
  LingerTimeouts = 2
  MaxU16 = 4
  Endpoint <- MCEndpoint
  Client = "client"
  ClientLen = 1
  ServerLen = 0
  ClientISN = 0
  ServerISN = 5
  Byte <- MCByte
  Stream <- MCStream
  ISN <- MCISN
  SendCapacity = 2
  Capacity = 2
  RetxTimeout = 1
  TickMs = 1
  MaxTime = 2
  MaxDrops = 0
  MaxDups = 1
  MaxTimeouts = 2
  MaxOverdue = 1
SPECIFICATION Spec
INVARIANTS CleanCloseIsComplete AckedIsHeld
PROPERTY StreamsAreReliable
CHECK_DEADLOCK FALSE
