CONSTANTS
  Command = {c, d}
  Caller = {t, u}
  Depth = 1
  FifoDepth = 1
  TagRange = 6
  None = None
  Few = {e, f}
  Lone = {v}
  Long = 2
  LongTags = 8
SPECIFICATION SoundSpec
INVARIANTS
  ListsAndTags
PROPERTIES
  ExecutedInOrder
  LoneCallsReturn
SYMMETRY Exchange
CHECK_DEADLOCK FALSE
