SPECIFICATION FairSpec
CONSTANTS
  MaxTimers = 3
  MaxDepth = 2
  MaxTime = 1
  Delays = {0, 1}
  WalksInFinalizer = FALSE
INVARIANTS
  NoFreedTimerReached
  NewTimersUnseen
PROPERTIES
  DueTimerFires
  DeletedTimerFreed
