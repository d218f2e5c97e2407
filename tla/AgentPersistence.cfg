SPECIFICATION Spec
CONSTANTS
  Agents = {a1, a2}
  Launches = {l1, l2}
  ProcIds = {p1, p2}
  Deliveries = {d1}
  Bodies = {"text", "files"}
  MaxProbes = 1
  MaxExits = 2
  None = None
  Torn = Torn
SYMMETRY NameSymmetry
INVARIANTS
  NotLeftWorking
  InstalledIsSaved
  DiskIsCurrent
  ServerToldTruth
PROPERTIES
  StoppedStaysStopped
  ExitKeepsRunningAgents
