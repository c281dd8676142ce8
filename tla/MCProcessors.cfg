CONSTANTS
  MainID = {64, 65}
  SubID = {128, 129}
  StaleBits = {0, 1, 2, 3, 4, 5, 6, 7, 8, 9, 10, 11, 12, 13, 14, 15}
  FifoDepth = 3
  Child = {p, q}
  MaxSets = 2
  MaxChanges = 1
  MaxFull = 1
  NULL = NULL
SPECIFICATION MCSpec
INVARIANTS
  BusFollowsHolder
  StartTogether
  SetsAgree
  NobodyWaits
PROPERTIES
  ImplementsLock
  SomeoneGetsIt
  BothRun
CONSTRAINT Explored
SYMMETRY Exchange
