SPECIFICATION FairSpec
CONSTANTS
  Keys = {k}
  Chunks = 1
  CancelSafe = TRUE
  RelayBuffer = 1
  BusCapacity = 2
  HistoryCapacity = 2
  MaxFrames = 3
  MaxTasks = 2
INVARIANTS
  FeedHasNoGaps
  OneRelayPerKey
PROPERTIES
  RelaysComeToAnEnd
CHECK_DEADLOCK FALSE
