\* Three commands, two of which may be killed; one reclaims at a time.
CONSTANTS
  Processes = {p1, p2, p3}
  Nobody = nobody
  Killable = {p1, p2}
  OneReclaimer = TRUE
  Intents = {open}
  MaxSeq = 2
  MaxIds = 3
SPECIFICATION HostSpec
CHECK_DEADLOCK FALSE
INVARIANTS
  RunnerKeepsItsLock
  TradesPlacedOnce
PROPERTIES
  OrphanIsReclaimed
  ImplementsIntents
