SPECIFICATION FairSpec
CONSTANTS
  Turns = {t1, t2}
  Capacity = 1
  InitialBackoff = 1
  MaxBackoff = 2
  None = None
INVARIANTS
  TypeOK
  IdleReachesServer
PROPERTIES
  AckPrecedesWorking
  ShutdownHeard
  Reconnects
CHECK_DEADLOCK FALSE
