CONSTANTS
  Half32 = 8
  MaxAbs = 34
  LoopsCapacity = 3
  Capacity = 5
  MaxIndex = 4
  MaxCount = 2
  StreamLen = 15
  MaxPayload = 3
  ISNs = {0, 7, 15}
  SynCarriesData = FALSE
  Byte <- MCByte
  Stream <- MCStream
  Local <- MCLocal
  Elsewhere <- MCElsewhere
  Remotes <- MCRemotes
  Segments <- MCSegments
SPECIFICATION PartsSpec
INVARIANTS
  Recovered UnwrapIsClosest LoopsCompute EndToEnd OnePeer Delivers
  TypeOK OutputIsPrefix BufferInWindow BufferDisjoint MemoryBound EndExact TakesTheWindow
  DeliveredIsPrefix
PROPERTIES ImplementsIdeal ImplementsContract NeverTakenBack
