SPECIFICATION FairSpec
CONSTANTS
  NumThreads = 2
  MaxCalls = 1
CHECK_DEADLOCK FALSE
PROPERTIES DestructorReturns
