SPECIFICATION FairSpec
CONSTANTS
  MaxSize = 3
  MaxTasks = 4
CHECK_DEADLOCK FALSE
INVARIANTS TypeOK NoIdleWorker NobodyWaitsStopped DrainedAtEnd
PROPERTIES TaskIsTaken DestructorReturns
