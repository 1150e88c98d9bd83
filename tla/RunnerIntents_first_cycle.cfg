\* A hosted agent whose first cycles never got to save.
CONSTANTS
  Runners = {p1}
  Intents = {open}
  MaxSeq = 2
  MaxIds = 2
  FileBacked = FALSE
  Recorded = FALSE
SPECIFICATION Spec
CHECK_DEADLOCK FALSE
INVARIANTS
  NoDoubleTrade
