CONSTANTS
  Thread = {launcher, idle, a, b}
  Launcher = launcher
  Idle = idle
  Queue = {irqQueue}
  IrqQueue = irqQueue
  MaxPriority = 1
  MaxNesting = 1
  NULL = NULL
SPECIFICATION Spec
INVARIANTS
  TypeOK
  HighestRuns
  ThreadsAreListed
  NothingOwed
PROPERTIES
  DisabledOnlyIrqQueueSwitches
SYMMETRY Exchange
CHECK_DEADLOCK FALSE
