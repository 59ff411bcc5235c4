CONSTANTS
  Half32 = 8
  MAX_PAYLOAD_SIZE = 1
  MAX_RETX_ATTEMPTS = 3
  LingerTimeouts = 4
  MaxU16 = 4
  Endpoint <- MCEndpoint
  Client = "client"
  ClientLen = 1
  ServerLen = 1
  ClientISN = 0
  ServerISN = 5
  Byte <- MCByte
  Stream <- MCStream
  ISN <- MCISN
  SendCapacity = 2
  Capacity = 1
  RetxTimeout = 1
  TickMs = 1
  MaxTime = 4
  MaxDrops = 1
  MaxDups = 0
  MaxTimeouts = 3
  MaxOverdue = 0
SPECIFICATION FairSpec
INVARIANTS TypeOK CleanCloseIsComplete OneEndLingers
PROPERTIES StreamsAreReliable BothClose
CHECK_DEADLOCK FALSE
