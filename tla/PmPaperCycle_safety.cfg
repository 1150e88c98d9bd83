\* Three markets and room for two positions, so that the limit and the rule of one
\* position per market are told apart; a second request of the same identity.
SPECIFICATION Spec
CONSTANTS
  Markets = {m1, m2, m3}
  Budgets = {2}
  Floors = {"low", "high"}
  Policies <- MCPolicies
  MaxOpen = 2
  MaxSeq = 2
  MaxIntents = 3
  None = None
INVARIANTS
  TradableIsOnRecord
  FreshKeyIsNew
  OnePositionPerMarket
  OpenWithinLimit
  SendsWithinPolicy
SYMMETRY MarketSymmetry
