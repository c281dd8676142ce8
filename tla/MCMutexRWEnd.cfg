CONSTANTS
  Thread = {a, b, c}
  Mutex = {m}
  MaxCount = 4
  NULL = NULL
SPECIFICATION Spec
INVARIANTS
  EndFindsItsOwn
CHECK_DEADLOCK FALSE
