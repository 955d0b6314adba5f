SPECIFICATION FairSpec
CONSTANTS
  Threads = {p1, p2}
  Tasks = {t1, t2}
  NoTask = NoTask
  MaxCount = 2
INVARIANTS TypeOK NoLostWakeup QuitReachesPoll
PROPERTIES ImplementsFunctorQueue QueuedFunctorRuns QuitEndsLoop IoNotStarved
