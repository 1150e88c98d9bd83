\* One owner's two agents: a small and a large estimate, a usage beyond both.
SPECIFICATION Spec
CONSTANTS
  Agents = {a1, a2}
  LeaseIds = {l1, l2}
  Needs = {1, 3}
  Usages = {4}
  Refill = 1
  Tpm = 2
  MaxConcurrent = 1
  LeaseTtl = 4
  Budget = 3
  MaxWait = 2
  MinResponse = 1
  Slack = 1
  Horizon = 5
  None = None
INVARIANTS
  CallsWithinLimit
  NoCreditFromNothing
  SleeperFindsItsRefill
SYMMETRY Symmetry
CHECK_DEADLOCK FALSE
