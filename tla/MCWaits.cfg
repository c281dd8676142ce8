CONSTANTS
  Thread = {a, b}
  Msg = {m, n}
  MsgCount = 2
  Bit = {x, y}
  NULL = NULL
SPECIFICATION MCSpec
INVARIANTS
  NobodyForgotten
  NobodySleepsOnSetBits
PROPERTIES
  ImplementsChannel
  EachIsServed
