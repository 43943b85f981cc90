SPECIFICATION Spec
CONSTANTS
  MaxUnits = 4
  BufCaps <- MCBufCaps
  BlockCap = 2
  IovMax = 2
  NetMax = 1
  SockCap = 2
  MaxIntr = 1
  RingMayRefuse = TRUE
  MayEvict = TRUE
  MayToggle = TRUE
CHECK_DEADLOCK FALSE
INVARIANTS
  TypeOK
  OneInFlight
  StableCells
  AckWithinReply
  OffsetsConsistent
PROPERTIES
  HandlerNotArmedInFlight
  StreamInOrder
