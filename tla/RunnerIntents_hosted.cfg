\* A hosted agent with a saved state: two runs of it may overlap.
CONSTANTS
  Runners = {p1, p2}
  Intents = {open, close}
  MaxSeq = 2
  MaxIds = 3
  FileBacked = FALSE
  Recorded = TRUE
SPECIFICATION Spec
SYMMETRY Symmetry
CHECK_DEADLOCK FALSE
INVARIANTS
  NoDoubleTrade
  ExecutedInOrder
  SavedIsExecuted
