SPECIFICATION Spec
CONSTANTS
  k1 = k1
  k2 = k2
  Computers = {c}
  Calls = {k1, k2}
  Items = {i}
  Callers = {u1, u2}
  None = None
SYMMETRY Symmetry
INVARIANTS TypeOK Unstuck
PROPERTY RemovedStaysRemoved
