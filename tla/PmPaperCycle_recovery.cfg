\* One market: no symmetry, for the temporal property.
SPECIFICATION FairSpec
CONSTANTS
  Markets = {m1}
  Budgets = {2}
  Floors = {"low", "high"}
  Policies <- MCPolicies
  MaxOpen = 1
  MaxSeq = 2
  MaxIntents = 2
  None = None
PROPERTY ReceiptIsReconciled
