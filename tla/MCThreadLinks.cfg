CONSTANTS
  a = a
  b = b
  Launcher = Launcher
  Idle = Idle
  Thread <- ListThread
  Priorities <- ThreePriorities
  Lasting = {Idle}
  Careful = TRUE
  Sleepers = {s, t, u, v}
  Queue = {p, q}
  QueuePriorities = {0, 1}
  NULL = NULL
SPECIFICATION MCSpec
INVARIANTS
  BackIsForth
PROPERTIES
  LinksKeepOrders
SYMMETRY Exchange
