SPECIFICATION Spec
CONSTANTS
  kCheapPrepend = 1
  kInitialSize = 3
  ExtraSize = 2
  MaxBytes = 4
  MaxUserBytes = 2
  SendSpace = 2
CHECK_DEADLOCK FALSE
INVARIANT StreamIntact
