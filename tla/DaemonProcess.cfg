SPECIFICATION Spec
CONSTANTS
  Pids = {p1, p2}
  Commands = {c1, c2}
  None = None
  Absent = Absent
  Empty = Empty
SYMMETRY NameSymmetry
VIEW LiveState
INVARIANTS
  TypeOK
  AtMostOneDaemon
  DaemonIsAddressable
PROPERTY
  StopFindsTheDaemon
