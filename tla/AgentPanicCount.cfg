SPECIFICATION Spec
CONSTANTS
  Agents = {a1}
  Launches = {l1}
  ProcIds = {p1, p2}
  Deliveries = {d1}
  Bodies = {"text"}
  MaxProbes = 0
  MaxExits = 0
  None = None
  Torn = Torn
INVARIANT IdleCountsNoTurn
