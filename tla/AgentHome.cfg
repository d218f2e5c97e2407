SPECIFICATION Spec
CONSTANTS
  n1 = n1
  n2 = n2
  f1 = f1
  f2 = f2
  t1 = t1
  t2 = t2
  Agents = {a}
  Names = {n1, n2}
  Attachments = {f1, f2}
  FileName <- NameOfFile
  TooLarge = {}
  Binary = {n2}
  Hidden = {n2}
  Turns = {t1, t2}
  None = None
  Absent = Absent
  Torn = Torn
SYMMETRY Symmetry
INVARIANTS TypeOK InstalledHasHome
PROPERTY StartKeepsFiles
