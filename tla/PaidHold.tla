------------------------------- MODULE PaidHold -------------------------------
(***************************************************************************)
(* What the paid-call protocol promises about one owner's money, with no   *)
(* databases, cycles, replicas or crashes in sight: a credit hold is       *)
(* placed before the service may be used; a hold nobody used is returned;  *)
(* a used one is charged at most its limit, or disputed and settled by     *)
(* hand.  Returned and charged holds are final.                            *)
(***************************************************************************)
EXTENDS Integers

CONSTANTS Holds,   \* names of holds
          Limits   \* amounts a hold can be placed for

VARIABLES
  hold,     \* hold[h]: where the hold stands
  limit,    \* limit[h]: the amount it holds, 0 before it is placed
  charge,   \* charge[h]: the amount taken from it
  used      \* used[h]: the service may have been consumed

vars == <<hold, limit, charge, used>>

HoldStates == {"none", "held", "returned", "charged", "disputed"}

Init ==
  /\ hold   = [h \in Holds |-> "none"]
  /\ limit  = [h \in Holds |-> 0]
  /\ charge = [h \in Holds |-> 0]
  /\ used   = [h \in Holds |-> FALSE]

Place(h) ==
  /\ hold[h] = "none"
  /\ hold' = [hold EXCEPT ![h] = "held"]
  /\ \E n \in Limits : limit' = [limit EXCEPT ![h] = n]
  /\ UNCHANGED <<charge, used>>

(* The service is used under a hold that is still open.                     *)
Use(h) ==
  /\ hold[h] \in {"held", "disputed"}
  /\ used' = [used EXCEPT ![h] = TRUE]
  /\ UNCHANGED <<hold, limit, charge>>

(* The service says it did nothing.                                         *)
Absolve(h) ==
  /\ used[h]
  /\ used' = [used EXCEPT ![h] = FALSE]
  /\ UNCHANGED <<hold, limit, charge>>

Return(h) ==
  /\ hold[h] = "held"
  /\ ~used[h]
  /\ hold' = [hold EXCEPT ![h] = "returned"]
  /\ UNCHANGED <<limit, charge, used>>

Charge(h) ==
  /\ hold[h] = "held"
  /\ used[h]
  /\ hold' = [hold EXCEPT ![h] = "charged"]
  /\ \E n \in 0 .. limit[h] : charge' = [charge EXCEPT ![h] = n]
  /\ UNCHANGED <<limit, used>>

(* Nobody knows, or the service claims more than the hold: take nothing or  *)
(* everything, and let a human decide.                                      *)
Dispute(h) ==
  /\ hold[h] = "held"
  /\ hold' = [hold EXCEPT ![h] = "disputed"]
  /\ \E n \in {0, limit[h]} : charge' = [charge EXCEPT ![h] = n]
  /\ UNCHANGED <<limit, used>>

Settle(h) ==
  /\ hold[h] = "disputed"
  /\ \/ /\ charge[h] = 0
        /\ hold' = [hold EXCEPT ![h] = "returned"]
        /\ UNCHANGED charge
     \/ /\ hold' = [hold EXCEPT ![h] = "charged"]
        /\ \E n \in charge[h] .. limit[h] : charge' = [charge EXCEPT ![h] = n]
  /\ UNCHANGED <<limit, used>>

Next ==
  \E h \in Holds :
    \/ Place(h)
    \/ Use(h)
    \/ Absolve(h)
    \/ Return(h)
    \/ Charge(h)
    \/ Dispute(h)
    \/ Settle(h)

Spec == Init /\ [][Next]_vars
=============================================================================
