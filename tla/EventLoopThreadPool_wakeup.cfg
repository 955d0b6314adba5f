SPECIFICATION Spec
CONSTANTS
  NumThreads = 2
  MaxCalls = 2
CHECK_DEADLOCK FALSE
INVARIANTS WakesLiveLoop
