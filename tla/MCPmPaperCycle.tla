--------------------------- MODULE MCPmPaperCycle ---------------------------
(* Instances of PmPaperCycle for TLC. *)
EXTENDS PmPaperCycle, TLC

\* The house as it is, with a smaller budget, and paused under another floor.
MarketSymmetry == Permutations(Markets)

MCPolicies ==
  {[entry |-> TRUE,  cash |-> 2, floor |-> "low",  live |-> TRUE],
   [entry |-> TRUE,  cash |-> 1, floor |-> "low",  live |-> TRUE],
   [entry |-> FALSE, cash |-> 2, floor |-> "high", live |-> FALSE]}
=============================================================================
