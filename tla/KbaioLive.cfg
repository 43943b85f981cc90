SPECIFICATION FairSpec
CONSTANTS
  MaxPushed = 2
  MaxParts = 2
  MaxConns = 1
  MaxErr = 0
  BufCap = 1
  BlockCap = 2
  SockCap = 2
  NetMax = 9
  MaxQuery = 2
  ReplySizes = {1, 2}
  MultiPart = FALSE
  Pushes = FALSE
CHECK_DEADLOCK FALSE
PROPERTIES
  RequestServed
  ReplyDelivered
  CloseAfterReplyFrees
