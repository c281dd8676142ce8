CONSTANTS
  Alarm = {a, b, c}
  MaxDelay = 2
  MaxPeriod = 1
  Wrap = 2
  Careful = TRUE
  Pair = {d, e}
  PairDelay = 3
  PairPeriod = 2
  TimerRange = 8
  MaxTick = 40
  VAlarm = {f, g}
  Lines = 3
  Patient = {f}
  Delay = 0
  Latency = 1
  NULL = NULL
SPECIFICATION MCSpec
INVARIANTS
  QueueIsUsed
  TimerServesFirst
  TickIsCurrent
PROPERTIES
  FiresInOrder
  AlarmsFire
  FiresAfterItsLine
SYMMETRY Exchange
