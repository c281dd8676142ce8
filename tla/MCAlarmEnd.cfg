CONSTANTS
  Alarm = {a, b, c}
  MaxDelay = 1
  MaxPeriod = 1
  Wrap = 2
  Careful = FALSE
  NULL = NULL
SPECIFICATION Spec
INVARIANTS
  EmptyMeansUnused
SYMMETRY Exchange
