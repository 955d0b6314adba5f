SPECIFICATION FairSpec
CONSTANTS
  NumThreads = 2
  MaxCalls = 2
CHECK_DEADLOCK FALSE
INVARIANTS TypeOK PublishedLoopAlive QuitsLiveLoop MembersOutliveThread Balanced
PROPERTIES StartReturns QuitEndsThread
