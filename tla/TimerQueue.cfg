SPECIFICATION Spec
CONSTANTS
  Slots = {1, 2}
  Threads = {p1}
  Kinds <- TwoKinds
  MaxTimers = 3
  MaxTime = 3
  MaxRequests = 2
INVARIANTS TypeOK TimersMatchActive NoDanglingTimer CancelEffective NoTimerVanishes NotLate StallsOnlyAfterEmptyExpiry
