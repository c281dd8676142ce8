CONSTANTS
  Thread = {a, b, c}
  Mutex = {m, n}
  MaxCount = 2
  RWMutex = {m}
  MaxLocks = 4
  NULL = NULL
  Child = {1, 2}
  Room = 2
  MaxPuts = 2
  MaxChanges = 2
SPECIFICATION MCSpec
INVARIANTS
  QueueIsOwned
  NobodyForgotten
  LocksAgree
  NoLockForgotten
PROPERTIES
  KeptUntilUnlocked
  ConvertingSleepsForever
  ImplementsOrder
  AllReported
CHECK_DEADLOCK FALSE
