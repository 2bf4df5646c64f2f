CONSTANTS
  MaxThreads = 3
  MaxTasks = 2
  CreationMayFail = FALSE
  WaitExpires = FALSE
  OpenInput = FALSE
SPECIFICATION FairSpec
CHECK_DEADLOCK FALSE
PROPERTIES EveryWaitEnds
