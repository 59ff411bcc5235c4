CONSTANTS
  Half32 = 4
  StreamLen = 3
  Capacity = 2
  MaxPayload = 3
  ISNs = {0, 3, 7}
  SynCarriesData = TRUE
  Byte <- MCByte
  Stream <- MCStream
SPECIFICATION Spec
INVARIANT NothingAckedMissing
