SPECIFICATION UpdateSpec
CONSTANTS
  Daemons = {d1}
  MaxVersion = 3
  MaxTurns = 2
  MaxLeaks = 1
INVARIANTS
  UpdateTypeOK
  InstalledIsVerified
PROPERTY NeverDowngrades
