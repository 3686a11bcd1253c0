SPECIFICATION FairSpec
CONSTANTS
  Runs = {r1, r2}
  NoRun = NoRun
  NoContext = NoContext
  MaxAppends = 2
  Slots = 2
  MaxMishaps = 2
  MaxChecks = 2
INVARIANTS CompletedRunsAreDone
PROPERTIES RunsEnd
CHECK_DEADLOCK FALSE
