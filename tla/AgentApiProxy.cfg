SPECIFICATION Spec
CONSTANTS
  Agents = {a1, a2}
  Launches = {l1, l2}
  Tokens = {k1, k2, k3, k4}
  Turns = {t1}
  None = None
  Absent = Absent
  Empty = Empty
SYMMETRY NameSymmetry
INVARIANTS
  TypeOK
  SpeaksForItself
  TokenFileIsCurrent
