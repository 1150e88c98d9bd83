-------------------------- MODULE OwnerBudgetProofs -------------------------
(***************************************************************************)
(* Proofs about OwnerBudget, for any number of agents, any estimates and   *)
(* usages, any rate and any times: calls in flight stay within the slots,  *)
(* nothing is ever credited that the refill did not bring, and a sleeping  *)
(* claimant finds its refill.                                              *)
(***************************************************************************)
EXTENDS OwnerBudget, FiniteSetTheorems, FunctionTheorems, TLAPS

-----------------------------------------------------------------------------
(* Arithmetic of the bucket *)

LEMMA RefillAddsUp ==
  ASSUME NEW r \in Nat, NEW x \in Int, NEW y \in Int, NEW z \in Int
  PROVE  /\ r * (x - y) \in Int /\ r * x \in Int
         /\ r * (x - y) + r * (y - z) = r * (x - z)
         /\ r * y + r * (x - y) = r * x
         /\ x <= y => r * x <= r * y
OBVIOUS

LEMMA RefillSplits ==
  ASSUME NEW r \in Nat, NEW h \in Int, NEW y \in Int, NEW z \in Int
  PROVE  r * (y - z) + r * h = r * (y + h - z) /\ r * h \in Int /\ r * (y - z) \in Int
OBVIOUS

LEMMA PlainNumbers ==
  /\ Refill \in Nat
  /\ \A n \in Needs \union {0} : n \in Nat
BY BudgetAssumption

LEMMA CeilDivCovers ==
  ASSUME NEW x \in Nat, NEW r \in Nat \ {0}
  PROVE  CeilDiv(x, r) \in Nat /\ r * CeilDiv(x, r) >= x
<1> DEFINE q == (x + r - 1) \div r
<1>1. q \in Int /\ r * q <= x + r - 1 /\ x + r - 1 < r * (q + 1)
  OBVIOUS
<1>2. r * (q + 1) = r * q + r
  BY <1>1
<1>3. r * q >= x
  BY <1>1, <1>2
<1>4. q \in Nat
  BY <1>1
<1> QED BY <1>3, <1>4 DEF CeilDiv

LEMMA LackCovers ==
  ASSUME NEW x \in Int
  PROVE  Lack(x) \in Nat /\ Refill * Lack(x) >= x
<1>1. CASE x > 0
  BY <1>1, CeilDivCovers, BudgetAssumption DEF Lack
<1>2. CASE ~(x > 0)
  BY <1>2, BudgetAssumption DEF Lack
<1> QED BY <1>1, <1>2

LEMMA AvailableIsBounded ==
  ASSUME TypeOK, NEW n \in Needs
  PROVE  /\ Available(n) \in Int /\ Burst(n) \in Nat
         /\ Refill * (now - refilledAt) \in Nat
         /\ Available(n) <= Burst(n)
         /\ Available(n) <= tokens + Refill * (now - refilledAt)
<1>1. now \in Nat /\ refilledAt \in Nat /\ refilledAt <= now /\ tokens \in Int
  BY BudgetAssumption DEF TypeOK
<1>2. Refill * (now - refilledAt) \in Nat
  BY <1>1, BudgetAssumption
<1>3. Burst(n) \in Nat
  BY BudgetAssumption DEF Burst
<1> DEFINE r == Refill * (now - refilledAt)
<1>4. r \in Nat
  BY <1>2
<1> HIDE DEF r
<1>5. Available(n) = LesserOf(Burst(n), tokens + r)
  BY DEF Available, r
<1>6. Available(n) \in Int /\ Available(n) <= Burst(n) /\ Available(n) <= tokens + r
  BY <1>1, <1>3, <1>4, <1>5 DEF LesserOf
<1> QED BY <1>2, <1>3, <1>6 DEF r

-----------------------------------------------------------------------------
(* Types *)

Claims == [by: Agents, need: Needs, until: Nat]
Rows == [reserved: Needs, until: Nat]

LEMMA OwedIsNatural ==
  ASSUME TypeOK, NEW a \in Agents
  PROVE  Owed(a) \in Nat
<1>1. claim # None => claim.need \in Needs
  BY DEF TypeOK
<1> QED BY <1>1, BudgetAssumption DEF Owed, ClaimLive

\* What a reservation, admitted or denied, leaves behind has its type.
LEMMA AdmitTypes ==
  ASSUME TypeOK, NEW a \in Agents, NEW n \in Needs, Admit(a, n)
  PROVE  /\ tokens' \in Int /\ refilledAt' = now /\ charged' \in Int
         /\ claim' \in Claims \union {None}
         /\ leases' \in [LeaseIds -> Rows \union {None}]
         /\ pc' \in [Agents -> Steps] /\ held' \in [Agents -> LeaseIds \union {None}]
<1>1. n \in Nat /\ Available(n) \in Int /\ now + LeaseTtl \in Nat
  BY AvailableIsBounded, BudgetAssumption DEF TypeOK
<1>2. Purged \in [LeaseIds -> Rows \union {None}]
  BY DEF Purged, TypeOK, Rows
<1>3. PICK l \in LeaseIds :
        /\ leases' = [Purged EXCEPT ![l] = [reserved |-> n, until |-> now + LeaseTtl]]
        /\ held' = [held EXCEPT ![a] = l]
  BY DEF Admit
<1>4. leases' \in [LeaseIds -> Rows \union {None}]
  <2> DEFINE row == [reserved |-> n, until |-> now + LeaseTtl]
  <2>1. row \in Rows
    BY <1>1 DEF Rows
  <2> HIDE DEF row
  <2>2. leases' = [Purged EXCEPT ![l] = row]
    BY <1>3 DEF row
  <2> QED BY <1>2, <2>1, <2>2
<1>5. held' \in [Agents -> LeaseIds \union {None}]
  BY <1>3 DEF TypeOK
<1>6. pc' \in [Agents -> Steps]
  BY DEF Admit, TypeOK, Steps
<1>7. tokens' \in Int /\ refilledAt' = now /\ charged' \in Int
  BY <1>1 DEF Admit, TypeOK
<1>8. claim' \in Claims \union {None}
  BY DEF Admit, TypeOK, Claims
<1> QED BY <1>4, <1>5, <1>6, <1>7, <1>8

LEMMA DenyTypes ==
  ASSUME TypeOK, NEW a \in Agents, NEW n \in Needs, Deny(a, n)
  PROVE  /\ tokens' = tokens /\ refilledAt' = refilledAt /\ charged' = charged
         /\ claim' \in Claims \union {None}
         /\ leases' \in [LeaseIds -> Rows \union {None}]
<1>1. leases' \in [LeaseIds -> Rows \union {None}]
  BY DEF Deny, Purged, TypeOK, Rows
<1> DEFINE t == IF ClaimLive THEN claim.until
                ELSE now + LesserOf(MaxWait + Slack, Lack(n - Available(n)) + Slack)
<1>2. t \in Nat
  <2>1. Lack(n - Available(n)) \in Nat
    BY LackCovers, AvailableIsBounded, BudgetAssumption
  <2>2. LesserOf(MaxWait + Slack, Lack(n - Available(n)) + Slack) \in Nat
    BY <2>1, BudgetAssumption DEF LesserOf
  <2>3. ClaimLive => claim.until \in Nat
    BY DEF ClaimLive, TypeOK
  <2>4. now \in Nat
    BY BudgetAssumption DEF TypeOK
  <2> QED BY <2>2, <2>3, <2>4
<1> HIDE DEF t
<1>3. [by |-> a, need |-> n, until |-> t] \in Claims
  BY <1>2 DEF Claims
<1>4. claim' = claim \/ claim' = [by |-> a, need |-> n, until |-> t]
  BY DEF Deny, Queued, t
<1>5. claim' \in Claims \union {None}
  BY <1>3, <1>4 DEF TypeOK, Claims
<1> QED BY <1>1, <1>5 DEF Deny

LEMMA ReleaseTypes ==
  ASSUME TypeOK, NEW a \in Agents, NEW u \in Nat, held[a] \in LeaseIds, Release(a, u)
  PROVE  /\ tokens' \in Int /\ charged' \in Int
         /\ claim' \in Claims \union {None}
         /\ leases' \in [LeaseIds -> Rows \union {None}]
         /\ debt' \in [Agents -> Nat]
<1> DEFINE l == held[a]
           n == leases[l].reserved
<1>1. CASE leases[l] = None
  BY <1>1 DEF Release, TypeOK, Claims, Rows
<1>2. CASE leases[l] # None
  <2>1. leases[l] \in Rows
    BY <1>2 DEF TypeOK, Rows
  <2>2. n \in Nat
    BY <2>1, BudgetAssumption DEF Rows
  <2> HIDE DEF n
  <2>3. tokens' = LesserOf(Burst(n), tokens + n - u) /\ charged' = charged - n + u
    BY <1>2 DEF Release, n
  <2>4. tokens' \in Int /\ charged' \in Int
    BY <2>2, <2>3, BudgetAssumption DEF LesserOf, Burst, TypeOK
  <2>5. leases' \in [LeaseIds -> Rows \union {None}]
    BY <1>2 DEF Release, TypeOK, Rows
  <2>6. claim' \in Claims \union {None}
    BY <1>2 DEF Release, TypeOK, Claims
  <2>7. debt' = [b \in Agents |-> IF pc[b] = "sleeping" /\ u > n
                                  THEN debt[b] + u - n ELSE debt[b]]
    BY <1>2 DEF Release, n
  <2>8. \A b \in Agents : debt[b] \in Nat
    BY DEF TypeOK
  <2>9. debt' \in [Agents -> Nat]
    BY <2>2, <2>7, <2>8
  <2> QED BY <2>4, <2>5, <2>6, <2>9
<1> QED BY <1>1, <1>2

LEMMA FinishTypes ==
  ASSUME TypeOK, NEW a \in Agents, Finish(a)
  PROVE  /\ pc' \in [Agents -> Steps]
         /\ need' \in [Agents -> Needs \union {0}]
         /\ deadline' \in [Agents -> Nat] /\ wake' \in [Agents -> Nat]
         /\ held' \in [Agents -> LeaseIds \union {None}]
BY DEF Finish, TypeOK, Steps

LEMMA StartTypes ==
  ASSUME TypeOK, NEW a \in Agents, NEW n \in Needs, Start(a, n)
  PROVE  /\ now' = now /\ active' = active /\ pc[a] = "idle"
         /\ need' \in [Agents -> Needs \union {0}]
         /\ deadline' \in [Agents -> Nat]
         /\ now \in Nat /\ Budget \in Nat
BY BudgetAssumption DEF Start, TypeOK

\* What a cycle in progress knows of itself.
InCycle(a) ==
  /\ pc[a] # "idle" => need[a] \in Needs /\ deadline[a] <= now + Budget
  /\ (held[a] # None) <=> (pc[a] \in {"admitted", "calling", "undoing"})

TInv == TypeOK /\ \A a \in Agents : InCycle(a)

LEMMA InitTypes == Init => TInv
<1> SUFFICES ASSUME Init PROVE TInv
  OBVIOUS
<1>1. TypeOK
  BY BudgetAssumption DEF Init, TypeOK, Steps
<1>2. \A a \in Agents : InCycle(a)
  BY DEF Init, InCycle
<1> QED BY <1>1, <1>2 DEF TInv

LEMMA FinishKeepsCycles ==
  ASSUME TInv, NEW a \in Agents, Finish(a), now' = now
  PROVE  \A b \in Agents : InCycle(b)'
BY DEF TInv, TypeOK, Finish, InCycle, Steps

LEMMA StepTypes == TInv /\ [Next]_vars => TInv'
<1> SUFFICES ASSUME TInv, [Next]_vars PROVE TInv'
  OBVIOUS
<1>1. TypeOK /\ \A a \in Agents : InCycle(a)
  BY DEF TInv
<1> USE <1>1
<1>2. now \in Nat /\ \A n \in Needs : n \in Nat
  BY BudgetAssumption DEF TypeOK
<1>3. ASSUME NEW a \in Agents, NEW n \in Needs, AskAdmitted(a, n) PROVE TInv'
  <2>1. /\ Admit(a, n) /\ now' = now /\ active' = active /\ wake' = wake /\ debt' = debt
        /\ need' = [need EXCEPT ![a] = n] /\ deadline' = [deadline EXCEPT ![a] = now + Budget]
    BY <1>3 DEF AskAdmitted, Start
  <2>2. TypeOK'
    BY <2>1, <1>2, AdmitTypes, BudgetAssumption DEF TypeOK, Claims, Rows
  <2>3. PICK l \in LeaseIds : held' = [held EXCEPT ![a] = l]
    BY <2>1 DEF Admit
  <2>4. pc' = [pc EXCEPT ![a] = "admitted"]
    BY <2>1 DEF Admit
  <2>5. \A b \in Agents : InCycle(b)'
    BY <2>1, <2>3, <2>4, <1>2, BudgetAssumption DEF InCycle, TypeOK
  <2> QED BY <2>2, <2>5 DEF TInv
<1>4. ASSUME NEW a \in Agents, NEW n \in Needs, AskSleeps(a, n) PROVE TInv'
  <2> DEFINE h == Lack(n - Available(n))
  <2>1. /\ Deny(a, n) /\ now' = now /\ active' = active /\ debt' = debt /\ held' = held
        /\ need' = [need EXCEPT ![a] = n] /\ deadline' = [deadline EXCEPT ![a] = now + Budget]
        /\ pc[a] = "idle" /\ pc' = [pc EXCEPT ![a] = "sleeping"]
        /\ wake' = [wake EXCEPT ![a] = now + h]
    BY <1>4 DEF AskSleeps, Start
  <2>2. h \in Nat
    BY LackCovers, AvailableIsBounded, <1>2
  <2> HIDE DEF h
  <2>5. /\ tokens' = tokens /\ refilledAt' = refilledAt /\ charged' = charged
        /\ claim' \in Claims \union {None} /\ leases' \in [LeaseIds -> Rows \union {None}]
    BY <2>1, DenyTypes
  <2>6. /\ need' \in [Agents -> Needs \union {0}] /\ deadline' \in [Agents -> Nat]
    BY <1>4, StartTypes DEF AskSleeps
  <2>8. pc' \in [Agents -> Steps]
    BY <2>1 DEF TypeOK, Steps
  <2>9. now + h \in Nat
    BY <2>2, <1>2
  <2>7. wake' \in [Agents -> Nat] /\ pc' \in [Agents -> Steps]
    BY <2>1, <2>8, <2>9 DEF TypeOK
  <2>3. TypeOK'
    BY <2>1, <2>5, <2>6, <2>7 DEF TypeOK, Claims, Rows
  <2>4. \A b \in Agents : InCycle(b)'
    BY <2>1, <1>2, BudgetAssumption DEF InCycle, TypeOK
  <2> QED BY <2>3, <2>4 DEF TInv
<1>5. ASSUME NEW a \in Agents, NEW n \in Needs, AskRefused(a, n) PROVE TInv'
  <2>1. /\ Deny(a, n) /\ now' = now /\ active' = active /\ debt' = debt /\ held' = held /\ wake' = wake
        /\ need' = [need EXCEPT ![a] = n] /\ deadline' = [deadline EXCEPT ![a] = now + Budget]
        /\ pc[a] = "idle" /\ pc' = [pc EXCEPT ![a] = "giving up"]
    BY <1>5 DEF AskRefused, Start
  <2>5. /\ tokens' = tokens /\ refilledAt' = refilledAt /\ charged' = charged
        /\ claim' \in Claims \union {None} /\ leases' \in [LeaseIds -> Rows \union {None}]
    BY <2>1, DenyTypes
  <2>6. /\ need' \in [Agents -> Needs \union {0}] /\ deadline' \in [Agents -> Nat]
    BY <1>5, StartTypes DEF AskRefused
  <2>7. pc' \in [Agents -> Steps]
    BY <2>1 DEF TypeOK, Steps
  <2>3. TypeOK'
    BY <2>1, <2>5, <2>6, <2>7 DEF TypeOK, Claims, Rows
  <2>4. ASSUME NEW b \in Agents PROVE InCycle(b)'
    <3>1. CASE b = a
      <4>1. need'[a] = n /\ deadline'[a] = now + Budget /\ pc'[a] = "giving up"
        BY <2>1 DEF TypeOK
      <4>2. held'[a] = None
        BY <2>1 DEF InCycle
      <4>3. now' = now /\ now \in Nat /\ Budget \in Nat
        BY <1>5, StartTypes DEF AskRefused
      <4>5. now + Budget \in Nat /\ now + Budget <= now + Budget
        BY <4>3
      <4>6. now' + Budget = now + Budget /\ deadline'[b] = now + Budget
        BY <3>1, <4>1, <4>3
      <4>4. deadline'[b] <= now' + Budget
        BY <4>5, <4>6
      <4> QED BY <3>1, <4>1, <4>2, <4>4 DEF InCycle
    <3>2. CASE b # a
      BY <2>1, <3>2 DEF InCycle, TypeOK
    <3> QED BY <3>1, <3>2
  <2> QED BY <2>3, <2>4 DEF TInv
<1>6. ASSUME NEW a \in Agents, WakeAdmitted(a) PROVE TInv'
  <2>1. /\ Admit(a, need[a]) /\ now' = now /\ active' = active
        /\ wake' = [wake EXCEPT ![a] = 0] /\ debt' = [debt EXCEPT ![a] = 0]
        /\ need' = need /\ deadline' = deadline /\ pc[a] = "sleeping"
    BY <1>6 DEF WakeAdmitted, Awake
  <2>2. need[a] \in Needs
    BY <2>1 DEF InCycle
  <2>7. /\ tokens' \in Int /\ refilledAt' = now /\ charged' \in Int
        /\ claim' \in Claims \union {None} /\ leases' \in [LeaseIds -> Rows \union {None}]
        /\ pc' \in [Agents -> Steps] /\ held' \in [Agents -> LeaseIds \union {None}]
    BY <2>1, <2>2, AdmitTypes
  <2>8. wake' \in [Agents -> Nat] /\ debt' \in [Agents -> Nat]
    BY <2>1 DEF TypeOK
  <2>3. TypeOK'
    BY <2>1, <2>7, <2>8, <1>2 DEF TypeOK, Claims, Rows
  <2>4. PICK l \in LeaseIds : held' = [held EXCEPT ![a] = l]
    BY <2>1 DEF Admit
  <2>5. pc' = [pc EXCEPT ![a] = "admitted"]
    BY <2>1 DEF Admit
  <2>6. \A b \in Agents : InCycle(b)'
    BY <2>1, <2>2, <2>4, <2>5, <1>2, BudgetAssumption DEF InCycle, TypeOK
  <2> QED BY <2>3, <2>6 DEF TInv
<1>7. ASSUME NEW a \in Agents, WakeRefused(a) PROVE TInv'
  <2>1. /\ now' = now /\ active' = active /\ held' = held
        /\ wake' = [wake EXCEPT ![a] = 0] /\ debt' = [debt EXCEPT ![a] = 0]
        /\ need' = need /\ deadline' = deadline /\ pc[a] = "sleeping"
        /\ pc' = [pc EXCEPT ![a] = "giving up"]
        /\ Deny(a, need[a]) \/ UNCHANGED bucketVars
    BY <1>7 DEF WakeRefused, Awake
  <2>2. need[a] \in Needs
    BY <2>1 DEF InCycle
  <2>3. /\ tokens' = tokens /\ refilledAt' = refilledAt /\ charged' = charged
        /\ claim' \in Claims \union {None} /\ leases' \in [LeaseIds -> Rows \union {None}]
    BY <2>1, <2>2, DenyTypes DEF TypeOK, Claims, Rows, bucketVars
  <2>4. TypeOK'
    BY <2>1, <2>3, <1>2, BudgetAssumption DEF TypeOK, Claims, Rows, Steps
  <2>5. \A b \in Agents : InCycle(b)'
    BY <2>1, <1>2, BudgetAssumption DEF InCycle, TypeOK
  <2> QED BY <2>4, <2>5 DEF TInv
<1>8. ASSUME NEW a \in Agents, Call(a) PROVE TInv'
  BY <1>8 DEF Call, TInv, TypeOK, InCycle, Steps, bucketVars
<1>9. ASSUME NEW a \in Agents, HandBack(a) PROVE TInv'
  <2>1. held[a] \in LeaseIds
    BY <1>9 DEF HandBack, InCycle, TypeOK
  <2>2. /\ Release(a, 0) /\ now' = now /\ refilledAt' = refilledAt /\ active' = active
        /\ need' = need /\ deadline' = deadline /\ wake' = wake /\ pc[a] = "admitted"
        /\ \/ pc' = [pc EXCEPT ![a] = "giving up"] /\ held' = [held EXCEPT ![a] = None]
           \/ pc' = [pc EXCEPT ![a] = "undoing"] /\ held' = held
    BY <1>9 DEF HandBack
  <2>3. TypeOK'
    BY <2>1, <2>2, ReleaseTypes DEF TypeOK, Claims, Rows, Steps
  <2>4. \A b \in Agents : InCycle(b)'
    BY <2>2 DEF InCycle, TypeOK
  <2> QED BY <2>3, <2>4 DEF TInv
<1>10. ASSUME NEW a \in Agents, NEW u \in Nat, pc[a] \in {"admitted", "calling", "undoing"},
              Release(a, u), Finish(a), UNCHANGED <<now, refilledAt, active>>
       PROVE  TInv'
  <2>1. held[a] \in LeaseIds
    BY <1>10 DEF InCycle, TypeOK
  <2>2. TypeOK'
    BY <1>10, <2>1, ReleaseTypes, FinishTypes DEF TypeOK, Claims, Rows
  <2>3. \A b \in Agents : InCycle(b)'
    BY <1>10, FinishKeepsCycles
  <2> QED BY <2>2, <2>3 DEF TInv
<1>11. ASSUME NEW a \in Agents, Undo(a) PROVE TInv'
  BY <1>10, <1>11 DEF Undo
<1>12. ASSUME NEW a \in Agents, NEW u \in Usages \union {0, need[a]}, Return(a, u) PROVE TInv'
  <2>1. u \in Nat
    BY BudgetAssumption DEF TypeOK
  <2> QED BY <1>10, <1>12, <2>1 DEF Return
<1>13. ASSUME NEW a \in Agents, Abandon(a) PROVE TInv'
  <2>1. claim' \in Claims \union {None}
    BY <1>13 DEF Abandon, TypeOK, Claims
  <2>2. TypeOK'
    BY <1>13, <2>1, FinishTypes DEF Abandon, TypeOK, Claims, Rows
  <2>3. \A b \in Agents : InCycle(b)'
    BY <1>13, FinishKeepsCycles DEF Abandon
  <2> QED BY <2>2, <2>3 DEF TInv
<1>14. ASSUME NEW a \in Agents, Crash(a) PROVE TInv'
  <2>1. TypeOK'
    BY <1>14, FinishTypes DEF Crash, TypeOK, bucketVars
  <2>2. \A b \in Agents : InCycle(b)'
    BY <1>14, FinishKeepsCycles DEF Crash
  <2> QED BY <2>1, <2>2 DEF TInv
<1>15. ASSUME NEW a \in Agents, SetActive(a) PROVE TInv'
  BY <1>15 DEF SetActive, TInv, TypeOK, InCycle, bucketVars, cycleVars
<1>16. CASE Tick
  BY <1>2, <1>16, BudgetAssumption DEF Tick, TInv, TypeOK, InCycle, bucketVars, cycleVars
<1>17. CASE UNCHANGED vars
  BY <1>17 DEF TInv, TypeOK, InCycle, vars, bucketVars, cycleVars
<1> QED
  BY <1>3, <1>4, <1>5, <1>6, <1>7, <1>8, <1>9, <1>11, <1>12, <1>13, <1>14, <1>15, <1>16, <1>17
  DEF Next, Cycle

\* Everything has its type.
THEOREM TypesAreKept == Spec => []TypeOK
<1>1. TInv => TypeOK
  BY DEF TInv
<1> QED BY InitTypes, StepTypes, <1>1, PTL DEF Spec

-----------------------------------------------------------------------------
(* Credit *)

LEMMA AdmitCredit ==
  ASSUME TypeOK, NoCreditFromNothing, NEW a \in Agents, NEW n \in Needs, Admit(a, n)
  PROVE  NoCreditFromNothing'
<1> DEFINE av == Available(n)
           r == Refill * (now - refilledAt)
           before == Refill * refilledAt
           after == Refill * now
<1>1. tokens' = av - n /\ charged' = charged + n /\ refilledAt' = now
  BY DEF Admit
<1>2. av \in Int /\ r \in Nat /\ av <= tokens + r
  BY AvailableIsBounded
<1>3. before \in Int /\ after \in Int /\ before + r = after
  BY RefillAddsUp, BudgetAssumption DEF TypeOK
<1>4. charged + tokens <= before /\ tokens \in Int /\ charged \in Int /\ n \in Int
  BY BudgetAssumption DEF NoCreditFromNothing, TypeOK
<1>5. NoCreditFromNothing' <=> charged' + tokens' <= Refill * refilledAt'
  BY DEF NoCreditFromNothing
<1>6. Refill * refilledAt' = after
  BY <1>1
<1> HIDE DEF av, r, before, after
<1>7. charged' + tokens' <= after
  BY <1>1, <1>2, <1>3, <1>4
<1> QED BY <1>5, <1>6, <1>7

LEMMA ReleaseCredit ==
  ASSUME TypeOK, NoCreditFromNothing, NEW a \in Agents, NEW u \in Nat, held[a] \in LeaseIds,
         Release(a, u), refilledAt' = refilledAt
  PROVE  NoCreditFromNothing'
<1> DEFINE n == leases[held[a]].reserved
           z == Refill * refilledAt
<1>1. NoCreditFromNothing' <=> charged' + tokens' <= z
  BY DEF NoCreditFromNothing
<1>2. charged + tokens <= z /\ tokens \in Int /\ charged \in Int /\ z \in Int
  BY RefillAddsUp, BudgetAssumption DEF NoCreditFromNothing, TypeOK
<1>3. CASE leases[held[a]] = None
  BY <1>1, <1>2, <1>3 DEF Release
<1>4. CASE leases[held[a]] # None
  <2>1. n \in Nat
    BY <1>4, BudgetAssumption DEF TypeOK
  <2>2. tokens' = LesserOf(Burst(n), tokens + n - u) /\ charged' = charged - n + u
    BY <1>4 DEF Release
  <2>3. Burst(n) \in Nat
    BY <2>1, BudgetAssumption DEF Burst
  <2> HIDE DEF n, z
  <2>4. charged' + tokens' <= z
    BY <1>2, <2>1, <2>2, <2>3 DEF LesserOf
  <2> QED BY <1>1, <2>4
<1> QED BY <1>3, <1>4

LEMMA StepCredit == TInv /\ NoCreditFromNothing /\ [Next]_vars => NoCreditFromNothing'
<1> SUFFICES ASSUME TInv, NoCreditFromNothing, [Next]_vars PROVE NoCreditFromNothing'
  OBVIOUS
<1>1. TypeOK /\ \A a \in Agents : InCycle(a)
  BY DEF TInv
<1>2. \A a \in Agents : pc[a] \in {"admitted", "calling", "undoing"} => held[a] \in LeaseIds
  BY <1>1 DEF InCycle, TypeOK
<1>3. ASSUME NEW a \in Agents, NEW n \in Needs, AskAdmitted(a, n) PROVE NoCreditFromNothing'
  BY <1>1, <1>3, AdmitCredit DEF AskAdmitted
<1>4. ASSUME NEW a \in Agents, WakeAdmitted(a) PROVE NoCreditFromNothing'
  <2>1. need[a] \in Needs
    BY <1>1, <1>4 DEF WakeAdmitted, Awake, InCycle
  <2> QED BY <1>1, <1>4, <2>1, AdmitCredit DEF WakeAdmitted
<1>5. ASSUME NEW a \in Agents, HandBack(a) \/ Undo(a) PROVE NoCreditFromNothing'
  BY <1>1, <1>2, <1>5, ReleaseCredit DEF HandBack, Undo
<1>6. ASSUME NEW a \in Agents, NEW u \in Usages \union {0, need[a]}, Return(a, u)
      PROVE  NoCreditFromNothing'
  <2>1. u \in Nat
    BY <1>1, BudgetAssumption DEF TypeOK
  <2> QED BY <1>1, <1>2, <1>6, <2>1, ReleaseCredit DEF Return
<1>7. ASSUME UNCHANGED <<tokens, charged, refilledAt>> PROVE NoCreditFromNothing'
  BY <1>7 DEF NoCreditFromNothing
<1>8. ASSUME NEW a \in Agents, NEW n \in Needs, AskSleeps(a, n) \/ AskRefused(a, n)
      PROVE  NoCreditFromNothing'
  BY <1>7, <1>8 DEF AskSleeps, AskRefused, Deny
<1>9. ASSUME NEW a \in Agents, \/ WakeRefused(a) \/ Call(a) \/ Abandon(a)
                               \/ Crash(a) \/ SetActive(a)
      PROVE  NoCreditFromNothing'
  BY <1>7, <1>9 DEF WakeRefused, Call, Abandon, Crash, SetActive, Deny, bucketVars
<1>10. CASE Tick
  BY <1>7, <1>10 DEF Tick, bucketVars
<1>11. CASE UNCHANGED vars
  BY <1>7, <1>11 DEF vars, bucketVars
<1> QED BY <1>3, <1>4, <1>5, <1>6, <1>8, <1>9, <1>10, <1>11 DEF Next, Cycle

\* What was charged and what is left never exceed the refill since the start.
THEOREM CreditComesFromRefill == Spec => []NoCreditFromNothing
<1>1. Init => NoCreditFromNothing
  BY BudgetAssumption DEF Init, NoCreditFromNothing
<1> QED BY InitTypes, StepTypes, StepCredit, <1>1, PTL DEF Spec

-----------------------------------------------------------------------------
(* Slots: a call's lease outlives its cycle's deadline *)

Covered(a) ==
  pc[a] \in {"admitted", "calling"} =>
    IF leases[held[a]] = None THEN now > deadline[a] ELSE leases[held[a]].until > deadline[a]
InTime(a) == pc[a] = "calling" => now <= deadline[a]
LeasesAreOwn == \A a, b \in Agents : held[a] = held[b] /\ held[a] # None => a = b
SlotsHold == Cardinality(Running) <= MaxConcurrent

SlotInv == (\A a \in Agents : Covered(a) /\ InTime(a)) /\ LeasesAreOwn /\ SlotsHold

LEMMA RunningIsFinite ==
  IsFiniteSet(Running) /\ Cardinality(Running) \in Nat /\ Running \subseteq LeaseIds
BY FS_Subset, FS_CardinalityType, BudgetAssumption DEF Running

LEMMA FewerRunning ==
  ASSUME SlotsHold, Running' \subseteq Running
  PROVE  SlotsHold'
<1>1. Cardinality(Running') <= Cardinality(Running) /\ Cardinality(Running') \in Nat
  BY RunningIsFinite, FS_Subset, FS_CardinalityType
<1> QED BY <1>1, RunningIsFinite, BudgetAssumption DEF SlotsHold

LEMMA OneMoreRunning ==
  ASSUME NEW l, Running' \subseteq Running \union {l}, ~SlotsFull
  PROVE  SlotsHold'
<1>1. IsFiniteSet(Running \union {l}) /\ Cardinality(Running \union {l}) <= Cardinality(Running) + 1
  <2>1. IsFiniteSet(Running \union {l})
        /\ (Cardinality(Running \union {l}) = Cardinality(Running)
            \/ Cardinality(Running \union {l}) = Cardinality(Running) + 1)
    BY RunningIsFinite, FS_AddElement, Zenon
  <2> QED BY <2>1, RunningIsFinite
<1>2. Cardinality(Running') <= Cardinality(Running \union {l})
      /\ Cardinality(Running') \in Nat /\ Cardinality(Running \union {l}) \in Nat
  BY <1>1, FS_Subset, FS_CardinalityType
<1>3. Cardinality(Running) < MaxConcurrent
  BY RunningIsFinite, BudgetAssumption DEF SlotsFull
<1> QED BY <1>1, <1>2, <1>3, RunningIsFinite, BudgetAssumption DEF SlotsHold

\* A purge takes expired rows only: those of calls that are over.
LEMMA PurgeKeepsCover ==
  ASSUME TypeOK, NEW b \in Agents, Covered(b), InCycle(b),
         leases' = Purged, now' = now, pc'[b] = pc[b], held'[b] = held[b],
         deadline'[b] = deadline[b]
  PROVE  Covered(b)'
<1> SUFFICES ASSUME pc[b] \in {"admitted", "calling"}
             PROVE  IF leases'[held[b]] = None THEN now > deadline[b]
                    ELSE leases'[held[b]].until > deadline[b]
  BY DEF Covered
<1> DEFINE l == held[b]
<1>1. l \in LeaseIds
  BY DEF InCycle, TypeOK
<1>2. IF leases[l] = None THEN now > deadline[b] ELSE leases[l].until > deadline[b]
  BY DEF Covered
<1>3. now \in Nat /\ deadline[b] \in Nat /\ leases[l] \in Rows \union {None}
  BY <1>1, BudgetAssumption DEF TypeOK, Rows
<1>4. leases'[l] = IF leases[l] # None /\ leases[l].until > now THEN leases[l] ELSE None
  BY <1>1 DEF Purged, Running
<1> HIDE DEF l
<1>5. leases[l] # None => leases[l].until \in Nat
  BY <1>3 DEF Rows
<1>6. IF leases'[l] = None THEN now > deadline[b] ELSE leases'[l].until > deadline[b]
  BY <1>2, <1>3, <1>4, <1>5
<1> QED BY <1>6 DEF l

LEMMA PurgeKeepsRunning ==
  ASSUME leases' = Purged, now' = now
  PROVE  Running' \subseteq Running
BY DEF Running, Purged

\* An admission takes a lease of its own that outlives the deadline.
LEMMA AdmitSlots ==
  ASSUME TInv, SlotInv, NEW a \in Agents, NEW n \in Needs, Admit(a, n), now' = now,
         deadline'[a] \in Nat, deadline'[a] <= now + Budget,
         \A b \in Agents : b # a => deadline'[b] = deadline[b]
  PROVE  SlotInv'
<1>1. TypeOK /\ \A b \in Agents : InCycle(b)
  BY DEF TInv
<1>2. PICK l \in LeaseIds :
        /\ Purged[l] = None /\ \A b \in Agents : held[b] # l
        /\ leases' = [Purged EXCEPT ![l] = [reserved |-> n, until |-> now + LeaseTtl]]
        /\ held' = [held EXCEPT ![a] = l]
  BY DEF Admit
<1>3. pc' = [pc EXCEPT ![a] = "admitted"] /\ ~SlotsFull
  BY DEF Admit
<1>4. now \in Nat
  BY <1>1, BudgetAssumption DEF TypeOK
<1>5. DOMAIN Purged = LeaseIds
  BY DEF Purged
<1>6. leases'[l].until = now + LeaseTtl /\ leases'[l] # None
  <2> DEFINE row == [reserved |-> n, until |-> now + LeaseTtl]
  <2>1. row \in Rows /\ row.until = now + LeaseTtl
    BY <1>4, BudgetAssumption DEF Rows
  <2> HIDE DEF row
  <2>2. leases'[l] = row
    BY <1>2, <1>5 DEF row
  <2> QED BY <2>1, <2>2, BudgetAssumption DEF Rows
<1>7. Covered(a)' /\ InTime(a)'
  <2>1. pc'[a] = "admitted" /\ held'[a] = l
    BY <1>1, <1>2, <1>3 DEF TypeOK
  <2>2. now + LeaseTtl > deadline'[a]
    BY <1>4, BudgetAssumption
  <2> QED BY <2>1, <2>2, <1>6 DEF Covered, InTime
<1>8. ASSUME NEW b \in Agents, b # a PROVE Covered(b)' /\ InTime(b)'
  <2>1. pc'[b] = pc[b] /\ held'[b] = held[b] /\ held[b] # l
    BY <1>1, <1>2, <1>3, <1>8 DEF TypeOK
  <2>2. pc[b] \in {"admitted", "calling"} => held[b] \in LeaseIds
    BY <1>1 DEF InCycle, TypeOK
  <2>3. pc[b] \in {"admitted", "calling"} => leases'[held[b]] = Purged[held[b]]
    BY <1>2, <1>5, <2>1, <2>2
  <2>4. Covered(b) /\ InTime(b)
    BY DEF SlotInv
  <2>5. Purged \in [LeaseIds -> Rows \union {None}]
    BY <1>1 DEF Purged, TypeOK, Rows
  <2>6. CASE pc[b] \notin {"admitted", "calling"}
    BY <2>1, <2>6 DEF Covered, InTime
  <2>7. CASE pc[b] \in {"admitted", "calling"}
    <3> DEFINE k == held[b]
    <3>1. k \in LeaseIds /\ leases'[k] = Purged[k]
      BY <2>2, <2>3, <2>7
    <3>2. Purged[k] = IF leases[k] # None /\ leases[k].until > now THEN leases[k] ELSE None
      BY <3>1 DEF Purged, Running
    <3>3. leases[k] # None => leases[k].until \in Nat
      BY <1>1, <3>1 DEF TypeOK
    <3>4. IF leases[k] = None THEN now > deadline[b] ELSE leases[k].until > deadline[b]
      BY <2>4, <2>7 DEF Covered
    <3>5. deadline[b] \in Nat /\ deadline'[b] = deadline[b]
      BY <1>1, <1>8 DEF TypeOK
    <3> HIDE DEF k
    <3>6. IF leases'[k] = None THEN now > deadline[b] ELSE leases'[k].until > deadline[b]
      BY <1>4, <3>1, <3>2, <3>3, <3>4, <3>5
    <3>7. Covered(b)'
      BY <2>1, <3>5, <3>6 DEF Covered, k
    <3>8. InTime(b)'
      BY <2>1, <2>4, <3>5 DEF InTime
    <3> QED BY <3>7, <3>8
  <2> QED BY <2>6, <2>7
<1>9. LeasesAreOwn'
  BY <1>1, <1>2 DEF SlotInv, LeasesAreOwn, TypeOK
<1>10. Running' \subseteq Running \union {l}
  BY <1>2, <1>5 DEF Running, Purged
<1>11. SlotsHold'
  BY <1>3, <1>10, OneMoreRunning
<1> QED BY <1>7, <1>8, <1>9, <1>11 DEF SlotInv

\* Agents that do not begin a call keep the invariant when no lease is added.
Steady(b) ==
  /\ pc'[b] = pc[b] /\ held'[b] = held[b] /\ deadline'[b] = deadline[b]
Ashore(b) == pc'[b] \notin {"admitted", "calling"}

LEMMA QuietSlots ==
  ASSUME SlotInv, now' = now, Running' \subseteq Running,
         \A b \in Agents : held'[b] \in {held[b], None},
         \A b \in Agents : Ashore(b) \/ (Steady(b) /\ Covered(b)')
  PROVE  SlotInv'
<1>1. \A b \in Agents : Covered(b)' /\ InTime(b)'
  BY DEF SlotInv, Ashore, Steady, Covered, InTime
<1>2. LeasesAreOwn'
  BY DEF SlotInv, LeasesAreOwn
<1> QED BY <1>1, <1>2, FewerRunning DEF SlotInv

LEMMA SameLeases ==
  ASSUME leases' = leases, now' = now
  PROVE  /\ Running' \subseteq Running
         /\ \A b \in Agents : Covered(b) /\ Steady(b) => Covered(b)'
BY DEF Running, Covered, Steady

LEMMA DenySlots ==
  ASSUME TInv, SlotInv, NEW a \in Agents, NEW n \in Needs, Deny(a, n), now' = now,
         \A b \in Agents : held'[b] \in {held[b], None},
         \A b \in Agents : Ashore(b) \/ Steady(b)
  PROVE  SlotInv'
<1>1. leases' = Purged
  BY DEF Deny
<1>2. \A b \in Agents : Steady(b) => Covered(b)'
  BY <1>1, PurgeKeepsCover DEF TInv, SlotInv, Steady
<1> QED BY <1>1, <1>2, QuietSlots, PurgeKeepsRunning

LEMMA ReleaseSlots ==
  ASSUME TInv, SlotInv, NEW a \in Agents, NEW u \in Nat, held[a] \in LeaseIds,
         Release(a, u), now' = now,
         held'[a] \in {held[a], None}, Ashore(a), \A b \in Agents : b # a => Steady(b)
  PROVE  SlotInv'
<1>1. TypeOK /\ \A b \in Agents : InCycle(b)
  BY DEF TInv
<1>2. leases' = leases \/ leases' = [leases EXCEPT ![held[a]] = None]
  BY DEF Release
<1>3. Running' \subseteq Running
  BY <1>1, <1>2 DEF Running, TypeOK
<1>4. ASSUME NEW b \in Agents, b # a PROVE Steady(b) /\ Covered(b)'
  <2>1. Steady(b) /\ Covered(b)
    BY <1>4 DEF SlotInv
  <2>2. CASE pc[b] \notin {"admitted", "calling"}
    BY <2>1, <2>2 DEF Steady, Covered
  <2>3. CASE pc[b] \in {"admitted", "calling"}
    <3>1. held[b] \in LeaseIds /\ held[b] # held[a]
      BY <1>1, <1>4, <2>3, BudgetAssumption DEF SlotInv, LeasesAreOwn, InCycle, TypeOK
    <3>2. leases'[held[b]] = leases[held[b]]
      BY <1>1, <1>2, <3>1 DEF TypeOK
    <3> QED BY <2>1, <3>2 DEF Steady, Covered
  <2> QED BY <2>1, <2>2, <2>3
<1>5. \A b \in Agents : Ashore(b) \/ (Steady(b) /\ Covered(b)')
  BY <1>4
<1>6. \A b \in Agents : held'[b] \in {held[b], None}
  BY <1>4 DEF Steady
<1> QED BY <1>3, <1>5, <1>6, QuietSlots

LEMMA FinishIsQuiet ==
  ASSUME TypeOK, NEW a \in Agents, Finish(a)
  PROVE  /\ Ashore(a) /\ held'[a] \in {held[a], None}
         /\ \A b \in Agents : b # a => Steady(b)
BY DEF TypeOK, Finish, Ashore, Steady

LEMMA StepSlots == TInv /\ TInv' /\ SlotInv /\ [Next]_vars => SlotInv'
<1> SUFFICES ASSUME TInv, TInv', SlotInv, [Next]_vars PROVE SlotInv'
  OBVIOUS
<1>1. TypeOK /\ \A a \in Agents : InCycle(a)
  BY DEF TInv
<1>2. \A a \in Agents : pc[a] \in {"admitted", "calling", "undoing"} => held[a] \in LeaseIds
  BY <1>1 DEF InCycle, TypeOK
<1>3. now \in Nat
  BY <1>1, BudgetAssumption DEF TypeOK
<1>4. ASSUME NEW a \in Agents, NEW n \in Needs, AskAdmitted(a, n) PROVE SlotInv'
  <2>1. Admit(a, n) /\ now' = now /\ deadline' = [deadline EXCEPT ![a] = now + Budget]
    BY <1>4 DEF AskAdmitted, Start
  <2>2. deadline'[a] = now + Budget /\ \A b \in Agents : b # a => deadline'[b] = deadline[b]
    BY <1>1, <2>1 DEF TypeOK
  <2>3. deadline'[a] \in Nat /\ deadline'[a] <= now + Budget
    BY <1>3, <2>2, BudgetAssumption
  <2> QED BY <2>1, <2>2, <2>3, AdmitSlots
<1>5. ASSUME NEW a \in Agents, WakeAdmitted(a) PROVE SlotInv'
  <2>1. Admit(a, need[a]) /\ now' = now /\ deadline' = deadline /\ pc[a] = "sleeping"
    BY <1>5 DEF WakeAdmitted, Awake
  <2>2. need[a] \in Needs /\ deadline[a] <= now + Budget /\ deadline[a] \in Nat
    BY <1>1, <2>1 DEF InCycle, TypeOK
  <2> QED BY <2>1, <2>2, AdmitSlots
<1>6. ASSUME NEW a \in Agents, NEW n \in Needs, AskSleeps(a, n) \/ AskRefused(a, n)
      PROVE  SlotInv'
  <2>1. /\ Deny(a, n) /\ now' = now /\ held' = held
        /\ deadline' = [deadline EXCEPT ![a] = now + Budget]
        /\ pc' = [pc EXCEPT ![a] = "sleeping"] \/ pc' = [pc EXCEPT ![a] = "giving up"]
    BY <1>6 DEF AskSleeps, AskRefused, Start
  <2>2. \A b \in Agents : Ashore(b) \/ Steady(b)
    BY <1>1, <2>1 DEF Ashore, Steady, TypeOK
  <2> QED BY <2>1, <2>2, DenySlots
<1>7. ASSUME NEW a \in Agents, WakeRefused(a) PROVE SlotInv'
  <2>1. /\ now' = now /\ held' = held /\ deadline' = deadline /\ pc[a] = "sleeping"
        /\ pc' = [pc EXCEPT ![a] = "giving up"]
        /\ Deny(a, need[a]) \/ leases' = leases
    BY <1>7 DEF WakeRefused, Awake, bucketVars
  <2>2. need[a] \in Needs
    BY <1>1, <2>1 DEF InCycle
  <2>3. \A b \in Agents : Ashore(b) \/ Steady(b)
    BY <1>1, <2>1 DEF Ashore, Steady, TypeOK
  <2>4. CASE Deny(a, need[a])
    BY <2>1, <2>2, <2>3, <2>4, DenySlots
  <2>5. CASE leases' = leases
    BY <2>1, <2>3, <2>5, SameLeases, QuietSlots DEF SlotInv
  <2> QED BY <2>1, <2>4, <2>5
<1>8. ASSUME NEW a \in Agents, Call(a) PROVE SlotInv'
  <2>1. /\ pc[a] = "admitted" /\ now < deadline[a] /\ pc' = [pc EXCEPT ![a] = "calling"]
        /\ now' = now /\ leases' = leases /\ deadline' = deadline /\ held' = held
    BY <1>8 DEF Call, bucketVars
  <2>2. Running' \subseteq Running
    BY <2>1, SameLeases
  <2>3. \A b \in Agents : Covered(b)'
    BY <1>1, <2>1 DEF SlotInv, Covered, TypeOK
  <2>4. \A b \in Agents : deadline[b] \in Nat
    BY <1>1 DEF TypeOK
  <2>5. \A b \in Agents : InTime(b)'
    BY <1>1, <1>3, <2>1, <2>4 DEF SlotInv, InTime, TypeOK
  <2>6. LeasesAreOwn'
    BY <2>1 DEF SlotInv, LeasesAreOwn
  <2> QED BY <2>2, <2>3, <2>5, <2>6, FewerRunning DEF SlotInv
<1>9. ASSUME NEW a \in Agents, HandBack(a) PROVE SlotInv'
  <2>1. /\ Release(a, 0) /\ now' = now /\ deadline' = deadline /\ held[a] \in LeaseIds
        /\ \/ pc' = [pc EXCEPT ![a] = "giving up"] /\ held' = [held EXCEPT ![a] = None]
           \/ pc' = [pc EXCEPT ![a] = "undoing"] /\ held' = held
    BY <1>2, <1>9 DEF HandBack
  <2>2. /\ Ashore(a) /\ held'[a] \in {held[a], None}
        /\ \A b \in Agents : b # a => Steady(b)
    BY <1>1, <2>1 DEF Ashore, Steady, TypeOK
  <2> QED BY <2>1, <2>2, ReleaseSlots
<1>10. ASSUME NEW a \in Agents, Undo(a) PROVE SlotInv'
  <2>1. Release(a, 0) /\ now' = now /\ held[a] \in LeaseIds /\ Finish(a)
    BY <1>2, <1>10 DEF Undo
  <2> QED BY <1>1, <2>1, FinishIsQuiet, ReleaseSlots
<1>11. ASSUME NEW a \in Agents, NEW u \in Usages \union {0, need[a]}, Return(a, u) PROVE SlotInv'
  <2>1. Release(a, u) /\ now' = now /\ held[a] \in LeaseIds /\ Finish(a) /\ u \in Nat
    BY <1>1, <1>2, <1>11, BudgetAssumption DEF Return, TypeOK
  <2> QED BY <1>1, <2>1, FinishIsQuiet, ReleaseSlots
<1>12. ASSUME NEW a \in Agents, Abandon(a) \/ Crash(a) PROVE SlotInv'
  <2>1. Finish(a) /\ now' = now /\ leases' = leases
    BY <1>12 DEF Abandon, Crash, bucketVars
  <2>2. /\ Ashore(a) /\ held'[a] \in {held[a], None}
        /\ \A b \in Agents : b # a => Steady(b)
    BY <1>1, <2>1, FinishIsQuiet
  <2>3. /\ \A b \in Agents : held'[b] \in {held[b], None}
        /\ \A b \in Agents : Ashore(b) \/ Steady(b)
    BY <2>2 DEF Steady
  <2> QED BY <2>1, <2>3, SameLeases, QuietSlots DEF SlotInv
<1>13. CASE Tick
  <2>1. /\ now' = now + 1 /\ leases' = leases /\ pc' = pc /\ held' = held /\ deadline' = deadline
        /\ \A a \in Agents : pc[a] = "calling" => now < deadline[a]
    BY <1>13 DEF Tick, bucketVars, cycleVars
  <2>2. \A b \in Agents : deadline[b] \in Nat
    BY <1>1 DEF TypeOK
  <2>3. \A b \in Agents : Covered(b)' /\ InTime(b)'
    BY <1>3, <2>1, <2>2 DEF SlotInv, Covered, InTime
  <2>4. \A l \in LeaseIds : leases[l] # None => leases[l].until \in Nat
    BY <1>1 DEF TypeOK
  <2>5. Running' \subseteq Running
    BY <1>3, <2>1, <2>4 DEF Running
  <2>6. LeasesAreOwn'
    BY <2>1 DEF SlotInv, LeasesAreOwn
  <2> QED BY <2>3, <2>5, <2>6, FewerRunning DEF SlotInv
<1>14. ASSUME now' = now, leases' = leases, pc' = pc, held' = held, deadline' = deadline
       PROVE  SlotInv'
  BY <1>14, SameLeases, QuietSlots DEF SlotInv, Steady
<1>15. ASSUME NEW a \in Agents, SetActive(a) PROVE SlotInv'
  BY <1>14, <1>15 DEF SetActive, bucketVars, cycleVars
<1>16. CASE UNCHANGED vars
  BY <1>14, <1>16 DEF vars, bucketVars, cycleVars
<1> QED
  BY <1>4, <1>5, <1>6, <1>7, <1>8, <1>9, <1>10, <1>11, <1>12, <1>13, <1>15, <1>16 DEF Next, Cycle

\* Each call in flight runs on a lease of its own.
LEMMA SlotsBoundCalls == TInv /\ SlotInv => CallsWithinLimit
<1> SUFFICES ASSUME TInv, SlotInv PROVE CallsWithinLimit
  OBVIOUS
<1>1. TypeOK /\ \A a \in Agents : InCycle(a)
  BY DEF TInv
<1> DEFINE f == [a \in Calling |-> held[a]]
<1>2. ASSUME NEW a \in Calling PROVE held[a] \in Running
  <2>1. a \in Agents /\ pc[a] = "calling" /\ held[a] \in LeaseIds
    BY <1>1, <1>2 DEF Calling, InCycle, TypeOK
  <2>2. now <= deadline[a] /\ now \in Nat /\ deadline[a] \in Nat
    BY <1>1, <2>1, BudgetAssumption DEF SlotInv, InTime, TypeOK
  <2>3. IF leases[held[a]] = None THEN now > deadline[a] ELSE leases[held[a]].until > deadline[a]
    BY <2>1 DEF SlotInv, Covered
  <2>4. leases[held[a]] # None => leases[held[a]].until \in Nat
    BY <1>1, <2>1 DEF TypeOK
  <2> QED BY <2>1, <2>2, <2>3, <2>4 DEF Running
<1>3. f \in Injection(Calling, Running)
  <2>1. f \in [Calling -> Running]
    BY <1>2
  <2>2. \A a, b \in Calling : f[a] = f[b] => a = b
    BY <1>1, <1>2, BudgetAssumption DEF SlotInv, LeasesAreOwn, Calling, Running
  <2> QED BY <2>1, <2>2 DEF Injection, IsInjective
<1> HIDE DEF f
<1>4. Cardinality(Calling) <= Cardinality(Running) /\ Cardinality(Calling) \in Nat
  BY <1>3, RunningIsFinite, FS_Injection, FS_CardinalityType
<1> QED BY <1>4, RunningIsFinite, BudgetAssumption DEF SlotInv, SlotsHold, CallsWithinLimit

\* No more calls of the owner are in flight than it has slots.
THEOREM CallsStayWithinSlots == Spec => []CallsWithinLimit
<1>1. Init => SlotInv
  <2> SUFFICES ASSUME Init PROVE SlotInv
    OBVIOUS
  <2>1. Running = {}
    BY DEF Init, Running
  <2>2. SlotsHold
    BY <2>1, FS_EmptySet, BudgetAssumption DEF SlotsHold
  <2> QED BY <2>2 DEF Init, SlotInv, Covered, InTime, LeasesAreOwn
<1> QED BY InitTypes, StepTypes, StepSlots, SlotsBoundCalls, <1>1, PTL DEF Spec

-----------------------------------------------------------------------------
(* The sleeper's refill, with the one slot that owners have *)

OneLease == \A l, m \in LeaseIds : leases[l] # None /\ leases[m] # None => l = m
RoomToRefund ==
  \A l \in LeaseIds :
    leases[l] # None => tokens + leases[l].reserved <= Burst(leases[l].reserved)
Provided(a) ==
  (pc[a] = "sleeping" /\ claim # None /\ claim.by = a) =>
    /\ claim.need = need[a]
    /\ now <= wake[a] => tokens + Refill * (wake[a] - refilledAt) + debt[a] >= need[a]

WaitInv == OneLease /\ RoomToRefund /\ \A a \in Agents : Provided(a)

\* What concerns a sleeper is not touched by the steps of others.
Asleep(b) == pc'[b] = pc[b] /\ wake'[b] = wake[b] /\ need'[b] = need[b]

LEMMA AdmitWait ==
  ASSUME TypeOK, WaitInv, MaxConcurrent = 1, NEW a \in Agents, NEW n \in Needs,
         Admit(a, n), now' = now,
         \A b \in Agents : b # a => Asleep(b) /\ debt'[b] = debt[b]
  PROVE  WaitInv'
<1>1. Running = {}
  <2>1. Cardinality(Running) = 0
    BY RunningIsFinite DEF Admit, SlotsFull
  <2> QED BY <2>1, RunningIsFinite, FS_EmptySet
<1>2. \A l \in LeaseIds : Purged[l] = None
  BY <1>1 DEF Purged
<1> DEFINE row == [reserved |-> n, until |-> now + LeaseTtl]
<1>3. row.reserved = n
  OBVIOUS
<1> HIDE DEF row
<1>4. PICK l \in LeaseIds : leases' = [Purged EXCEPT ![l] = row]
  BY DEF Admit, row
<1>5. \A m \in LeaseIds : leases'[m] = IF m = l THEN row ELSE None
  BY <1>2, <1>4 DEF Purged
<1>6. OneLease'
  BY <1>5 DEF OneLease
<1>7. /\ tokens' = Available(n) - n /\ refilledAt' = now /\ n \in Nat
      /\ Available(n) \in Int /\ Burst(n) \in Nat /\ Available(n) <= Burst(n)
  BY AvailableIsBounded, BudgetAssumption DEF Admit
<1>8. tokens' + n <= Burst(n)
  BY <1>7
<1>9. RoomToRefund'
  BY <1>3, <1>5, <1>8 DEF RoomToRefund, Burst
<1>10. ASSUME NEW b \in Agents PROVE Provided(b)'
  <2>1. CASE b = a
    <3>1. pc'[a] = "admitted"
      BY DEF Admit, TypeOK
    <3> QED BY <2>1, <3>1 DEF Provided
  <2>2. CASE b # a
    <3> SUFFICES ASSUME pc'[b] = "sleeping", claim' # None, claim'.by = b
                 PROVE  /\ claim'.need = need'[b]
                        /\ now' <= wake'[b] =>
                             tokens' + Refill * (wake'[b] - refilledAt') + debt'[b] >= need'[b]
      BY DEF Provided
    <3>1. ClaimLive /\ claim' = claim
      BY DEF Admit
    <3>2. claim.need = need[b] /\ Owed(a) = need[b]
      BY <2>2, <3>1 DEF WaitInv, Provided, Asleep, Owed, ClaimLive
    <3>3. claim'.need = need'[b]
      BY <2>2, <3>1, <3>2 DEF Asleep
    <3>4. need[b] \in Nat /\ wake[b] \in Nat /\ debt[b] \in Nat /\ now \in Nat
      BY BudgetAssumption DEF TypeOK
    <3>5. Available(n) - need[b] >= n
      BY <3>2 DEF Admit, Fits
    <3>6. tokens' >= need[b]
      BY <1>7, <3>4, <3>5
    <3>7. ASSUME now <= wake[b]
          PROVE  tokens' + Refill * (wake[b] - now) + debt[b] >= need[b]
      <4>1. wake[b] - now \in Nat
        BY <3>4, <3>7
      <4>2. Refill * (wake[b] - now) \in Nat
        BY <4>1, BudgetAssumption
      <4> DEFINE r == Refill * (wake[b] - now)
      <4>3. tokens' \in Int
        BY <1>7
      <4> HIDE DEF r
      <4>4. r \in Nat
        BY <4>2 DEF r
      <4>5. tokens' + r + debt[b] >= need[b]
        BY <3>4, <3>6, <4>3, <4>4
      <4> QED BY <4>5 DEF r
    <3> QED BY <1>7, <2>2, <3>3, <3>7 DEF Asleep
  <2> QED BY <2>1, <2>2
<1> QED BY <1>6, <1>9, <1>10 DEF WaitInv

LEMMA DenyLeases ==
  ASSUME WaitInv, NEW a \in Agents, NEW n \in Needs, Deny(a, n)
  PROVE  OneLease' /\ RoomToRefund'
<1>1. tokens' = tokens /\ leases' = Purged
  BY DEF Deny
<1>2. \A l \in LeaseIds : leases'[l] # None => leases[l] # None /\ leases'[l] = leases[l]
  BY <1>1 DEF Purged, Running
<1>3. OneLease'
  BY <1>2 DEF WaitInv, OneLease
<1>4. RoomToRefund'
  BY <1>1, <1>2 DEF WaitInv, RoomToRefund, Burst
<1> QED BY <1>3, <1>4

\* A denial leaves the claims of others alone.
LEMMA DenyWaits ==
  ASSUME WaitInv, NEW a \in Agents, NEW n \in Needs, Deny(a, n), now' = now,
         NEW b \in Agents, b # a, Asleep(b), debt'[b] = debt[b]
  PROVE  Provided(b)'
<1>1. claim' = claim \/ claim'.by = a
  BY DEF Deny, Queued
<1>2. tokens' = tokens /\ refilledAt' = refilledAt
  BY DEF Deny
<1> QED BY <1>1, <1>2 DEF WaitInv, Provided, Asleep

LEMMA ReleaseWait ==
  ASSUME TypeOK, WaitInv, NEW a \in Agents, NEW u \in Nat, held[a] \in LeaseIds,
         Release(a, u), now' = now, refilledAt' = refilledAt, pc'[a] # "sleeping",
         \A b \in Agents : b # a => Asleep(b)
  PROVE  WaitInv'
<1> DEFINE k == held[a]
<1>1. CASE leases[k] = None
  <2>1. /\ tokens' = tokens /\ leases' = leases /\ claim' = claim /\ debt' = debt
    BY <1>1 DEF Release
  <2>2. OneLease' /\ RoomToRefund'
    BY <2>1 DEF WaitInv, OneLease, RoomToRefund, Burst
  <2>3. ASSUME NEW b \in Agents PROVE Provided(b)'
    BY <2>1 DEF WaitInv, Provided, Asleep
  <2> QED BY <2>2, <2>3 DEF WaitInv
<1>2. CASE leases[k] # None
  <2> DEFINE n == leases[k].reserved
  <2>1. n \in Nat /\ tokens + n <= Burst(n) /\ Burst(n) \in Nat /\ tokens \in Int
    BY <1>2, BudgetAssumption DEF WaitInv, RoomToRefund, TypeOK, Burst
  <2>2. /\ tokens' = LesserOf(Burst(n), tokens + n - u)
        /\ leases' = [leases EXCEPT ![k] = None]
        /\ claim' = claim \/ claim' = None
    BY <1>2 DEF Release
  <2>3. debt' = [b \in Agents |-> IF pc[b] = "sleeping" /\ u > n
                                  THEN debt[b] + u - n ELSE debt[b]]
    BY <1>2 DEF Release
  <2>4. OneLease' /\ RoomToRefund'
    BY <1>2, <2>2 DEF WaitInv, OneLease, RoomToRefund, TypeOK
  <2> HIDE DEF n
  <2>5. tokens' = tokens + n - u
    BY <2>1, <2>2 DEF LesserOf
  <2>6. ASSUME NEW b \in Agents PROVE Provided(b)'
    <3> SUFFICES ASSUME pc'[b] = "sleeping", claim' # None, claim'.by = b
                 PROVE  /\ claim'.need = need'[b]
                        /\ now' <= wake'[b] =>
                             tokens' + Refill * (wake'[b] - refilledAt') + debt'[b] >= need'[b]
      BY DEF Provided
    <3>1. b # a /\ Asleep(b) /\ pc[b] = "sleeping" /\ claim' = claim
      BY <2>2 DEF Asleep
    <3>2. /\ claim.need = need[b]
          /\ now <= wake[b] => tokens + Refill * (wake[b] - refilledAt) + debt[b] >= need[b]
      BY <3>1 DEF WaitInv, Provided
    <3>3. debt'[b] = IF u > n THEN debt[b] + u - n ELSE debt[b]
      BY <2>3, <3>1
    <3>7. debt[b] \in Nat /\ need[b] \in Needs \union {0}
      BY DEF TypeOK
    <3>4. debt[b] \in Nat /\ need[b] \in Nat
      BY <3>7, PlainNumbers
    <3> DEFINE r == Refill * (wake[b] - refilledAt)
    <3>5. r \in Int
      BY RefillAddsUp, BudgetAssumption DEF TypeOK
    <3> HIDE DEF r
    <3>6. tokens + r + debt[b] >= need[b] => tokens' + r + debt'[b] >= need[b]
      BY <2>1, <2>5, <3>3, <3>4, <3>5
    <3> QED BY <3>1, <3>2, <3>6 DEF Asleep, r
  <2> QED BY <2>4, <2>6 DEF WaitInv
<1> QED BY <1>1, <1>2

LEMMA SameBucketWait ==
  ASSUME WaitInv, now' = now, tokens' = tokens, leases' = leases, refilledAt' = refilledAt,
         claim' = claim \/ claim' = None,
         \A b \in Agents : pc'[b] # "sleeping" \/ (Asleep(b) /\ debt'[b] = debt[b])
  PROVE  WaitInv'
<1>1. OneLease' /\ RoomToRefund'
  BY DEF WaitInv, OneLease, RoomToRefund, Burst
<1>2. ASSUME NEW b \in Agents PROVE Provided(b)'
  BY DEF WaitInv, Provided, Asleep
<1> QED BY <1>1, <1>2 DEF WaitInv

\* A cycle falls asleep for as long as what it lacks takes to refill.
LEMMA SleepWait ==
  ASSUME TInv, WaitInv, NEW a \in Agents, NEW n \in Needs, AskSleeps(a, n)
  PROVE  Provided(a)'
<1>0. PICK h : h = Lack(n - Available(n))
  OBVIOUS
<1>1. TypeOK
  BY DEF TInv
<1>2. /\ Deny(a, n) /\ now' = now /\ debt' = debt /\ ~Fits(a, n) /\ Owed(a) = 0
      /\ need' = [need EXCEPT ![a] = n] /\ wake' = [wake EXCEPT ![a] = now + h]
  BY <1>0 DEF AskSleeps, Start
<1>3. claim'.need = n
  <2>1. ASSUME ClaimLive PROVE claim.by = a
    <3>1. claim.need \in Needs
      BY <1>1, <2>1 DEF ClaimLive, TypeOK
    <3>2. 0 \notin Needs
      BY BudgetAssumption
    <3> QED BY <1>2, <2>1, <3>1, <3>2 DEF Owed
  <2> QED BY <1>2, <2>1 DEF Deny, Queued
<1>4. need'[a] = n /\ wake'[a] = now + h /\ debt'[a] = debt[a]
  BY <1>1, <1>2 DEF TypeOK
<1>5. /\ now \in Nat /\ refilledAt \in Nat /\ tokens \in Int /\ debt[a] \in Nat /\ n \in Nat
  BY <1>1, BudgetAssumption DEF TypeOK
<1>6. Available(n) \in Int /\ Available(n) <= tokens + Refill * (now - refilledAt)
  BY <1>1, AvailableIsBounded
<1>7. h \in Nat /\ Refill * h >= n - Available(n)
  BY <1>0, <1>5, <1>6, LackCovers
<1>8. Refill * (now - refilledAt) + Refill * h = Refill * (wake'[a] - refilledAt)
      /\ Refill * h \in Int /\ Refill * (now - refilledAt) \in Int
  <2>1. Refill \in Nat /\ now \in Int /\ refilledAt \in Int /\ h \in Int
    BY <1>5, <1>7, PlainNumbers
  <2>2. /\ Refill * (now - refilledAt) + Refill * h = Refill * (now + h - refilledAt)
        /\ Refill * h \in Int /\ Refill * (now - refilledAt) \in Int
    BY <2>1, RefillSplits
  <2>3. now + h - refilledAt = wake'[a] - refilledAt
    BY <1>4, <2>1
  <2> QED BY <2>2, <2>3
<1>11. tokens' = tokens /\ refilledAt' = refilledAt
  BY <1>2 DEF Deny
<1> DEFINE r == Refill * (wake'[a] - refilledAt')
           r1 == Refill * (now - refilledAt)
           r2 == Refill * h
<1>9. r1 + r2 = r /\ r1 \in Int /\ r2 \in Int /\ r2 >= n - Available(n)
      /\ Available(n) <= tokens + r1
  BY <1>6, <1>7, <1>8, <1>11
<1> HIDE DEF r, r1, r2
<1>10. tokens + r + debt[a] >= n
  BY <1>5, <1>6, <1>9
<1>13. tokens' + r + debt'[a] >= need'[a]
  BY <1>4, <1>10, <1>11
<1> QED BY <1>3, <1>4, <1>13 DEF Provided, r

LEMMA StepWait == MaxConcurrent = 1 /\ TInv /\ TInv' /\ WaitInv /\ [Next]_vars => WaitInv'
<1> SUFFICES ASSUME MaxConcurrent = 1, TInv, TInv', WaitInv, [Next]_vars PROVE WaitInv'
  OBVIOUS
<1>1. TypeOK /\ \A a \in Agents : InCycle(a)
  BY DEF TInv
<1>2. \A a \in Agents : pc[a] \in {"admitted", "calling", "undoing"} => held[a] \in LeaseIds
  BY <1>1 DEF InCycle, TypeOK
<1>3. ASSUME NEW a \in Agents, Finish(a)
      PROVE  pc'[a] # "sleeping" /\ \A b \in Agents : b # a => Asleep(b)
  BY <1>1, <1>3 DEF Finish, Asleep, TypeOK
<1>4. ASSUME NEW a \in Agents, NEW n \in Needs, AskAdmitted(a, n) PROVE WaitInv'
  <2>1. /\ Admit(a, n) /\ now' = now /\ wake' = wake /\ debt' = debt
        /\ need' = [need EXCEPT ![a] = n] /\ pc' = [pc EXCEPT ![a] = "admitted"]
    BY <1>4 DEF AskAdmitted, Start, Admit
  <2>2. \A b \in Agents : b # a => Asleep(b) /\ debt'[b] = debt[b]
    BY <1>1, <2>1 DEF Asleep, TypeOK
  <2> QED BY <1>1, <2>1, <2>2, AdmitWait
<1>5. ASSUME NEW a \in Agents, WakeAdmitted(a) PROVE WaitInv'
  <2>1. /\ Admit(a, need[a]) /\ now' = now /\ wake' = [wake EXCEPT ![a] = 0]
        /\ debt' = [debt EXCEPT ![a] = 0] /\ need' = need /\ pc[a] = "sleeping"
        /\ pc' = [pc EXCEPT ![a] = "admitted"]
    BY <1>5 DEF WakeAdmitted, Awake, Admit
  <2>2. \A b \in Agents : b # a => Asleep(b) /\ debt'[b] = debt[b]
    BY <1>1, <2>1 DEF Asleep, TypeOK
  <2>3. need[a] \in Needs
    BY <1>1, <2>1 DEF InCycle
  <2> QED BY <1>1, <2>1, <2>2, <2>3, AdmitWait
<1>6. ASSUME NEW a \in Agents, NEW n \in Needs, AskSleeps(a, n) PROVE WaitInv'
  <2>1. /\ Deny(a, n) /\ now' = now /\ debt' = debt /\ need' = [need EXCEPT ![a] = n]
        /\ pc' = [pc EXCEPT ![a] = "sleeping"]
    BY <1>6 DEF AskSleeps, Start
  <2>2. \A b \in Agents : b # a => wake'[b] = wake[b]
    BY <1>1, <1>6 DEF AskSleeps, TypeOK
  <2>3. \A b \in Agents : b # a => Asleep(b) /\ debt'[b] = debt[b]
    BY <1>1, <2>1, <2>2 DEF Asleep, TypeOK
  <2>4. \A b \in Agents : b # a => Provided(b)'
    BY <2>1, <2>3, DenyWaits
  <2>5. Provided(a)'
    BY <1>6, SleepWait
  <2> QED BY <2>1, <2>4, <2>5, DenyLeases DEF WaitInv
<1>7. ASSUME NEW a \in Agents, NEW n \in Needs, AskRefused(a, n) PROVE WaitInv'
  <2>1. /\ Deny(a, n) /\ now' = now /\ debt' = debt /\ wake' = wake
        /\ need' = [need EXCEPT ![a] = n] /\ pc' = [pc EXCEPT ![a] = "giving up"]
    BY <1>7 DEF AskRefused, Start
  <2>2. \A b \in Agents : b # a => Asleep(b) /\ debt'[b] = debt[b]
    BY <1>1, <2>1 DEF Asleep, TypeOK
  <2>3. \A b \in Agents : b # a => Provided(b)'
    BY <2>1, <2>2, DenyWaits
  <2>4. Provided(a)'
    BY <1>1, <2>1 DEF Provided, TypeOK
  <2> QED BY <2>1, <2>3, <2>4, DenyLeases DEF WaitInv
<1>8. ASSUME NEW a \in Agents, WakeRefused(a) PROVE WaitInv'
  <2>1. /\ now' = now /\ wake' = [wake EXCEPT ![a] = 0] /\ debt' = [debt EXCEPT ![a] = 0]
        /\ need' = need /\ pc' = [pc EXCEPT ![a] = "giving up"] /\ pc[a] = "sleeping"
        /\ Deny(a, need[a]) \/ UNCHANGED bucketVars
    BY <1>8 DEF WakeRefused, Awake
  <2>2. /\ pc'[a] = "giving up"
        /\ \A b \in Agents : b # a => Asleep(b) /\ debt'[b] = debt[b]
    BY <1>1, <2>1 DEF Asleep, TypeOK
  <2>3. CASE Deny(a, need[a])
    <3>1. need[a] \in Needs
      BY <1>1, <2>1 DEF InCycle
    <3>2. \A b \in Agents : b # a => Provided(b)'
      BY <2>1, <2>2, <2>3, <3>1, DenyWaits
    <3>3. Provided(a)'
      BY <2>2 DEF Provided
    <3> QED BY <2>3, <3>1, <3>2, <3>3, DenyLeases DEF WaitInv
  <2>4. CASE UNCHANGED bucketVars
    BY <2>1, <2>2, <2>4, SameBucketWait DEF bucketVars
  <2> QED BY <2>1, <2>3, <2>4
<1>9. ASSUME NEW a \in Agents, Call(a) PROVE WaitInv'
  <2>1. /\ now' = now /\ UNCHANGED bucketVars /\ wake' = wake /\ need' = need /\ debt' = debt
        /\ pc' = [pc EXCEPT ![a] = "calling"]
    BY <1>9 DEF Call
  <2>2. \A b \in Agents : pc'[b] # "sleeping" \/ (Asleep(b) /\ debt'[b] = debt[b])
    BY <1>1, <2>1 DEF Asleep, TypeOK
  <2> QED BY <2>1, <2>2, SameBucketWait DEF bucketVars
<1>10. ASSUME NEW a \in Agents, HandBack(a) PROVE WaitInv'
  <2>1. /\ Release(a, 0) /\ now' = now /\ refilledAt' = refilledAt /\ wake' = wake /\ need' = need
        /\ held[a] \in LeaseIds
        /\ pc' = [pc EXCEPT ![a] = "giving up"] \/ pc' = [pc EXCEPT ![a] = "undoing"]
    BY <1>2, <1>10 DEF HandBack
  <2>2. pc'[a] # "sleeping" /\ \A b \in Agents : b # a => Asleep(b)
    BY <1>1, <2>1 DEF Asleep, TypeOK
  <2> QED BY <1>1, <2>1, <2>2, ReleaseWait
<1>11. ASSUME NEW a \in Agents, Undo(a) PROVE WaitInv'
  BY <1>1, <1>2, <1>3, <1>11, ReleaseWait DEF Undo
<1>12. ASSUME NEW a \in Agents, NEW u \in Usages \union {0, need[a]}, Return(a, u) PROVE WaitInv'
  <2>1. u \in Nat
    BY <1>1, BudgetAssumption DEF TypeOK
  <2> QED BY <1>1, <1>2, <1>3, <1>12, <2>1, ReleaseWait DEF Return
<1>13. ASSUME NEW a \in Agents, Abandon(a) \/ Crash(a) PROVE WaitInv'
  <2>1. /\ Finish(a) /\ now' = now /\ tokens' = tokens /\ leases' = leases
        /\ refilledAt' = refilledAt /\ (claim' = claim \/ claim' = None)
        /\ debt' = debt \/ debt' = [debt EXCEPT ![a] = 0]
    BY <1>13 DEF Abandon, Crash, bucketVars
  <2>2. \A b \in Agents : pc'[b] # "sleeping" \/ (Asleep(b) /\ debt'[b] = debt[b])
    BY <1>1, <1>3, <2>1 DEF TypeOK
  <2> QED BY <2>1, <2>2, SameBucketWait
<1>14. ASSUME NEW a \in Agents, SetActive(a) PROVE WaitInv'
  BY <1>14, SameBucketWait DEF SetActive, bucketVars, cycleVars, Asleep
<1>15. CASE Tick
  <2>1. /\ now' = now + 1 /\ UNCHANGED <<bucketVars, cycleVars, debt>>
    BY <1>15 DEF Tick
  <2>2. OneLease' /\ RoomToRefund'
    BY <2>1 DEF WaitInv, OneLease, RoomToRefund, Burst, bucketVars
  <2>3. ASSUME NEW b \in Agents PROVE Provided(b)'
    <3>1. wake[b] \in Nat /\ now \in Nat
      BY <1>1, BudgetAssumption DEF TypeOK
    <3>2. now' <= wake[b] => now <= wake[b]
      BY <2>1, <3>1
    <3> QED BY <2>1, <3>2 DEF WaitInv, Provided, bucketVars, cycleVars
  <2> QED BY <2>2, <2>3 DEF WaitInv
<1>16. CASE UNCHANGED vars
  BY <1>16, SameBucketWait DEF vars, bucketVars, cycleVars, Asleep
<1> QED
  BY <1>4, <1>5, <1>6, <1>7, <1>8, <1>9, <1>10, <1>11, <1>12, <1>13, <1>14, <1>15, <1>16
  DEF Next, Cycle

\* With one call at a time, the claim of a sleeping cycle keeps its tokens.
THEOREM ClaimKeepsRefill ==
  ASSUME MaxConcurrent = 1
  PROVE  Spec => []SleeperFindsItsRefill
<1>1. Init => WaitInv
  BY DEF Init, WaitInv, OneLease, RoomToRefund, Provided
<1>2. WaitInv => SleeperFindsItsRefill
  BY DEF WaitInv, Provided, SleeperFindsItsRefill, ClaimLive
<1>3. WaitInv /\ TInv /\ TInv' /\ [Next]_vars => WaitInv'
  BY StepWait
<1> QED BY InitTypes, StepTypes, <1>1, <1>2, <1>3, PTL DEF Spec
=============================================================================
