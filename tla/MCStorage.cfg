CONSTANTS
  NumHeaps = 2
  ArenaSize = 7
  Client = {c, d}
  TaskThread = task
  MaxRef = 1
  MaxLen = 2
  SectorPages = 1
  MaxRetry = 2
  File = {f, g}
  Suspender = s
  Reader = r
  NULL = NULL
SPECIFICATION MCSpec
INVARIANTS
  HeapsSound
  CardAnswers
  ArchiveTurns
PROPERTIES
  KeepsBlocks
  CommandsEnd
CHECK_DEADLOCK FALSE
