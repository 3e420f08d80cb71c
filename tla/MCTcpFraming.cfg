SPECIFICATION Spec
CONSTANTS
  Keys = {k}
  Chunks = 2
  CancelSafe = FALSE
  RelayBuffer = 1
  BusCapacity = 2
  HistoryCapacity = 1
  MaxFrames = 2
  MaxTasks = 1
INVARIANT InboundAligned
CHECK_DEADLOCK FALSE
