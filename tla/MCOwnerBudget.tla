--------------------------- MODULE MCOwnerBudget ----------------------------
(* Instances of OwnerBudget for TLC.                                        *)
EXTENDS OwnerBudget, TLC

Symmetry == Permutations(Agents) \union Permutations(LeaseIds)
=============================================================================
