\* Two agents of one owner, two concurrent calls, one recovering replica; no
\* symmetry, for the temporal properties.  The balance covers two small reserves
\* or one large one; a usage costs nothing, the large reserve, or more than the
\* small one.
CONSTANTS
  Calls = {c1, c2}
  a1 = a1
  o1 = o1
  Agents = {a1, a2}
  Owners = {o1}
  OwnerOf <- MCOwnerOf
  Months = {m1}
  Cap <- MCCap
  WorstCases = {2, 3}
  Prices = {0, 3}
  CreditSteps = {4}
  MaxCredit = 4
  Replicas = {r1}
  NoTerms = NoTerms
SPECIFICATION FairSpec
CHECK_DEADLOCK FALSE
INVARIANTS
  LedgerMatchesCalls
  NeverOverdrawn
  MonthWithinCap
  BooksAgree
  ChargedAsReported
  AskedIsOnRecord
PROPERTIES
  OnlyUnbilledReleased
  UncertainWaitsForRoot
  EveryHoldSettles
  ImplementsHold
