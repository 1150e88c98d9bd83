\* Every endpoint and every class of the SDK, one deviation per document.
CONSTANTS
  Answers <- MCAnswers
  Standard <- MCStandard
  None = None
SPECIFICATION Spec
CHECK_DEADLOCK FALSE
INVARIANTS
  HoldsWhatWasSaid
  UpgradeKeepsStore
  ParsedIsStorable
  RefusalIsTold
PROPERTIES
  StoringIsStable
