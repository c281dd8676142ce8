CONSTANTS
  NumHeaps = 1
  ArenaSize = 6
  NULL = NULL
SPECIFICATION Spec
INVARIANTS FixedIsFree
CHECK_DEADLOCK FALSE
