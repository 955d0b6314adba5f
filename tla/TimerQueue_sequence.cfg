SPECIFICATION Spec
CONSTANTS
  Slots = {1, 2}
  Threads = {p1}
  Kinds <- TwoKinds
  MaxTimers = 2
  MaxTime = 4
  MaxRequests = 2
INVARIANTS SequenceReadIsLive
