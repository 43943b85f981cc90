SPECIFICATION FairSpec
CONSTANTS
  MaxUnits = 3
  BufCaps <- MCBufCaps
  BlockCap = 2
  IovMax = 2
  NetMax = 1
  SockCap = 2
  MaxIntr = 1
  RingMayRefuse = FALSE
  MayEvict = FALSE
  MayToggle = FALSE
CHECK_DEADLOCK FALSE
INVARIANTS
  NoOrphanedReply
PROPERTIES
  ReplyDelivered
  CloseAfterReplyFrees
  HandlerRetired
