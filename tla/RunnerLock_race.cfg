\* A killed runner, and two commands that find its lock at the same time.
CONSTANTS
  Processes = {p1, p2, p3}
  Nobody = nobody
  Killable = {p1}
  OneReclaimer = FALSE
SPECIFICATION Spec
CHECK_DEADLOCK FALSE
INVARIANTS
  OneRunner
