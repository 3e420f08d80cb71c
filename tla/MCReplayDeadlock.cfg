SPECIFICATION FairSpec
CONSTANTS
  Keys = {k}
  Chunks = 1
  CancelSafe = TRUE
  RelayBuffer = 2
  BusCapacity = 2
  HistoryCapacity = 1
  MaxFrames = 3
  MaxTasks = 1
PROPERTY CommandLoopResumes
CHECK_DEADLOCK FALSE
