SPECIFICATION FairSpec
CONSTANTS
  MaxUnits = 4
  BufCap = 2
  BlockCap = 2
  SockCap = 2
  MaxErr = 1
  SizeMax = 7
CHECK_DEADLOCK FALSE
INVARIANTS
  OneInFlight
  CompletionFindsObject
PROPERTIES
  StreamInOrder
  ReplyDelivered
  CloseAfterReplyFrees
