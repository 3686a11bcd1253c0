SPECIFICATION RequestsSpec
CONSTANTS
  Hosts = {s1, s2}
  Documents = {d1, d2}
  Requests = {r1, r2, r3}
  Nobody = Nobody
  LockFiles = FALSE
  MaxUnits = 2
  MaxLeaves = 3
INVARIANTS HoldersGoOn
SYMMETRY RequestsAlike
CHECK_DEADLOCK FALSE
