SPECIFICATION FairSpec
CONSTANTS
  Agents = {a1}
  Launches = {l1}
  ProcIds = {p1, p2}
  Deliveries = {d1, d2}
  Bodies = {"text"}
  MaxProbes = 0
  MaxExits = 1
  None = None
  Torn = Torn
INVARIANTS
  TypeOK
  OneTurnPerProcess
  ActiveTurnsCounted
PROPERTIES
  TurnsEnd
  ServesAgain
  ImplementsTurnService
