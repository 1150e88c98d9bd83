----------------------------- MODULE MCPaidCalls -----------------------------
(***************************************************************************)
(* Instances of PaidCalls for TLC: two agents of one owner, so that their  *)
(* cycles compete for one balance.  The cap of a1 covers any one call and  *)
(* a second one if the first was free, that of a2 small calls only.        *)
(***************************************************************************)
EXTENDS PaidCalls

CONSTANTS a1, o1

MCOwnerOf == [a \in Agents |-> o1]
MCCap == [a \in Agents |-> IF a = a1 THEN 3 ELSE 2]
=============================================================================
