CONSTANTS
  MaxThreads = 3
  MaxTasks = 3
  CreationMayFail = TRUE
  WaitExpires = TRUE
  OpenInput = TRUE
SPECIFICATION Spec
CHECK_DEADLOCK FALSE
INVARIANTS TypeOK SignalledMeansWork AloneWithoutLocks
PROPERTIES TasksAreJoined ResultIsTold
