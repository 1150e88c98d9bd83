\* One run outlives its lock; the runs after it do not.
CONSTANTS
  Agents = {a1}
  Replicas = {r1, r2}
  Slots = 1
  Lock = 2
  Ticks = 1
  Cadence <- MCCadence
  MaxFails = 2
  Timely = FALSE
  QuietOwner = TRUE
  NoRun = NoRun
SPECIFICATION Spec
CHECK_DEADLOCK FALSE
INVARIANTS
  LockHolds
