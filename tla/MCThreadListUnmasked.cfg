CONSTANTS
  a = a
  b = b
  c = c
  Launcher = Launcher
  Idle = Idle
  Thread <- ListThread
  Priorities <- ThreePriorities
  Lasting = {Idle}
  Careful = FALSE
  NULL = NULL
SPECIFICATION Spec
INVARIANTS
  EndFindsThread
SYMMETRY Exchange
