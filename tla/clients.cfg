SPECIFICATION Spec
CONSTANTS
  MaxRecords = 4
  MaxBranches = 1
  MaxTies = 1
  Syncs = {p1, p2}
  MaxFaults = 1
  MaxFailures = 1
  MaxUnitChars = 2
  Hosts = {p1, p2}
  Documents = {d1, d2}
  Requests = {r1, r2, r3}
  Nobody = Nobody
  LockFiles = TRUE
  MaxUnits = 2
  MaxLeaves = 3
INVARIANTS ExactAfterSync CountedOnce BatchesAreApart BusyHasAHolder
CONSTRAINT NoRace
SYMMETRY Alike
CHECK_DEADLOCK FALSE
