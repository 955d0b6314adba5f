SPECIFICATION Spec
CONSTANTS
  Conns = {c1}
  BaseLoop = base
  IoLoops = {io}
  Users = {}
  NoConn = NoConn
  MaxCalls = 1
CHECK_DEADLOCK FALSE
INVARIANTS UpFirst
