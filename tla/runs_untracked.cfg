SPECIFICATION Spec
CONSTANTS
  Runs = {r1, r2}
  NoRun = NoRun
  NoContext = NoContext
  MaxAppends = 2
  Slots = 2
  MaxMishaps = 0
  MaxChecks = 2
INVARIANT EmbedsWhatItsRunTracks
CHECK_DEADLOCK FALSE
