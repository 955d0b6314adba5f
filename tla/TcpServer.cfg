SPECIFICATION FairSpec
CONSTANTS
  Conns = {c1}
  BaseLoop = base
  IoLoops = {io}
  Users = {user}
  NoConn = NoConn
  MaxCalls = 3
CHECK_DEADLOCK FALSE
INVARIANTS TypeOK IndexMatchesKernel NoDanglingChannel DownAtMostOnce DestroyedSawDown LoopFunctorsAlive
PROPERTIES ImplementsConnectionLife EndedIsRemoved ShutdownSendsFin
