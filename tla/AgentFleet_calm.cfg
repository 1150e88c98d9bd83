\* Two agents, two replicas; runs end in time and the owner resumes idle agents.
CONSTANTS
  Agents = {a1, a2}
  Replicas = {r1, r2}
  Slots = 1
  Lock = 2
  Ticks = 1
  Cadence <- MCCadence
  MaxFails = 2
  Timely = TRUE
  QuietOwner = TRUE
  NoRun = NoRun
SPECIFICATION Spec
SYMMETRY SymmetryBoth
CHECK_DEADLOCK FALSE
INVARIANTS
  TypeOK
  NoOverlap
  SnapshotIsCurrent
  DisableIsEarned
PROPERTIES
  TrippedIsNotActive
  StopsAreAuthoritative
