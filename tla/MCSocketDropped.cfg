CONSTANTS
  Half32 = 8
  MAX_PAYLOAD_SIZE = 2
  MAX_RETX_ATTEMPTS = 1
  LingerTimeouts = 1
  MaxU16 = 4
  SocketBuffer = 1
  CopyBuffer = 2
  SendCapacity = 1
  Capacity = 2
  RetxTimeout = 1
  LocalISN = 0
  PeerISN = 5
  TickMs = 1
  MaxTime = 1
  Faults = {"reset"}
  Scenarios <- MCScenarios
  InputLen = 3
  ReplyLen = 1
  Byte <- MCByte
  Input <- MCInput
  Reply <- MCReply
SPECIFICATION Spec
INVARIANT NothingDropped
