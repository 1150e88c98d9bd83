\* Two requests of one client, for one slot; it may send one a window.
SPECIFICATION Spec
CONSTANTS
  r1 = r1
  r2 = r2
  Requests = {r1, r2}
  ClientOf <- MCClientOf
  Batches <- MCBatches
  perClient = 1
  maxInFlight = 1
CHECK_DEADLOCK FALSE
INVARIANTS
  SlotsAreExact
  LoggedAsDelivered
PROPERTY EndIsLogged
