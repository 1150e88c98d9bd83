--------------------------- MODULE PaidCallsProofs ---------------------------
(***************************************************************************)
(* Proofs about PaidCalls for any sets of calls, agents, owners, replicas, *)
(* prices and worst cases: the ledger records every call's money exactly   *)
(* once, recorded usage decides the charge, a request is always on record, *)
(* no month exceeds its cap, no owner is overdrawn, the ledger's balance   *)
(* and the calls' charges are the same money, and the protocol implements  *)
(* the abstract credit hold.                                               *)
(***************************************************************************)
EXTENDS PaidCalls, FiniteSetTheorems, TLAPS

(* The strengthening: how the step of a cycle, its exchange with the model *)
(* and the row in the database fit together.                               *)

(* A key is unused exactly as long as no row has been written for it.      *)
UnusedIsBlank ==
  \A c \in Calls :
    /\ status[c] = "none" <=> pc[c] = "unused"
    /\ status[c] = "none" => /\ provider[c] = "untouched"
                             /\ usage[c] = Unpriceable
    /\ status[c] # "none" => terms[c] \in Terms

(* What the cycle may find in its row, and has exchanged, at each step.     *)
CycleFitsRow ==
  \A c \in Calls :
    /\ pc[c] = "admitted" => provider[c] = "untouched"
    /\ pc[c] \in {"sending", "waiting", "recording"} =>
         status[c] \in {"dispatched", "uncertain"}
    /\ pc[c] = "sending" => provider[c] = "untouched"
    /\ pc[c] = "waiting" => provider[c] = "asked"
    /\ pc[c] = "recording" =>
         provider[c] \in {"deferred", "usage", "rejected", "uncertain"}

(* What the row says of the exchange is true.                               *)
RowFitsExchange ==
  \A c \in Calls :
    /\ status[c] = "reserved" => provider[c] \in {"untouched", "deferred"}
    /\ status[c] = "rejected" => provider[c] = "rejected"
    /\ status[c] = "answered" => provider[c] = "usage"

(* A debit is never above the reserve, and only ever on a settled call or   *)
(* on one whose usage was above its reserve.                                *)
DebitFitsStatus ==
  \A c \in Calls :
    /\ debit[c] > 0 => /\ status[c] \in {"uncertain", "finalized"}
                       /\ debit[c] <= terms[c].worst
    /\ status[c] = "uncertain" /\ debit[c] > 0 => debit[c] = terms[c].worst

IInv ==
  /\ TypeOK
  /\ UnusedIsBlank
  /\ CycleFitsRow
  /\ RowFitsExchange
  /\ DebitFitsStatus
  /\ ChargedAsReported
  /\ LedgerMatchesCalls

-----------------------------------------------------------------------------
(* The ledger operators, on a call whose only row is its reserve row        *)

(* Rows of one call are untouched by a row of another.                      *)
LEMMA OtherRowsKept ==
  ASSUME NEW c, NEW d, c # d, NEW kind, NEW amount, NEW rows
  PROVE  RowsIn(rows \cup {Row(kind, c, amount)}, d) = RowsIn(rows, d)
<1> DEFINE new == Row(kind, c, amount)
<1>1. new.key[2] = c
  BY DEF Row
<1> HIDE DEF new
<1> QED BY <1>1 DEF new, RowsIn

(* The row of a call joins the rows of that call.                           *)
LEMMA OwnRowAdded ==
  ASSUME NEW c, NEW kind, NEW amount, NEW rows
  PROVE  RowsIn(rows \cup {Row(kind, c, amount)}, c)
           = RowsIn(rows, c) \cup {Row(kind, c, amount)}
<1> DEFINE new == Row(kind, c, amount)
<1>1. new.key[2] = c
  BY DEF Row
<1> HIDE DEF new
<1> QED BY <1>1 DEF new, RowsIn

(* An insert of a key that is not there adds the row.                       *)
LEMMA FreshInsert ==
  ASSUME NEW rows, NEW row, row.key \notin Keys(rows)
  PROVE  InsertOnce(rows, row) = rows \cup {row}
BY DEF InsertOnce

(* With only the reserve row there, a release adds one row giving it back.  *)
LEMMA ReleaseAdded ==
  ASSUME NEW c \in Calls, RowsOf(c) = HeldRows(c)
  PROVE  WithRelease(ledger, c) = ledger \cup {Row("release", c, terms[c].worst)}
<1> DEFINE held == Row("reserve", c, -terms[c].worst)
           new  == Row("release", c, terms[c].worst)
<1>1. held.key = <<"reserve", c>> /\ new.key = <<"release", c>>
  BY DEF Row
<1>2. held \in ledger
  BY DEF RowsOf, RowsIn, HeldRows
<1>3. \A r \in ledger : r.key[2] = c => r = held
  BY DEF RowsOf, RowsIn, HeldRows
<1>4. new.key \notin Keys(ledger)
  <2> SUFFICES ASSUME NEW r \in ledger, r.key = new.key
               PROVE  FALSE
    BY DEF Keys
  <2>1. r.key[2] = c
    BY <1>1
  <2>2. r = held
    BY <2>1, <1>3
  <2> QED BY <2>2, <1>1
<1>5. {r \in ledger : r.key = <<"reserve", c>>} # {}
  BY <1>1, <1>2
<1> QED BY <1>4, <1>5, FreshInsert DEF WithRelease

(* A charge on a call without a debit row adds one row, none if it is zero. *)
LEMMA DebitAdded ==
  ASSUME NEW c \in Calls, NEW amount \in Nat, amount # 0, RowsOf(c) = HeldRows(c)
  PROVE  WithDebit(WithRelease(ledger, c), c, amount)
           = WithRelease(ledger, c) \cup {Row("debit", c, -amount)}
<1> DEFINE held == Row("reserve", c, -terms[c].worst)
           back == Row("release", c, terms[c].worst)
           new  == Row("debit", c, -amount)
<1>1. /\ held.key = <<"reserve", c>>
      /\ back.key = <<"release", c>>
      /\ new.key = <<"debit", c>>
  BY DEF Row
<1>2. \A r \in ledger : r.key[2] = c => r = held
  BY DEF RowsOf, RowsIn, HeldRows
<1>3. WithRelease(ledger, c) = ledger \cup {back}
  BY ReleaseAdded
<1>4. new.key \notin Keys(ledger \cup {back})
  <2> SUFFICES ASSUME NEW r \in ledger \cup {back}, r.key = new.key
               PROVE  FALSE
    BY DEF Keys
  <2>1. r.key[2] = c
    BY <1>1
  <2>2. r = held \/ r = back
    BY <2>1, <1>2
  <2> QED BY <2>2, <1>1
<1> QED BY <1>3, <1>4, FreshInsert DEF WithDebit

-----------------------------------------------------------------------------
(* The invariant is inductive: one lemma per kind of step                   *)

(* The invariant holds before anything is reserved.                         *)
LEMMA InitInvariant == Init => IInv
<1> SUFFICES ASSUME Init PROVE IInv
  OBVIOUS
<1> USE ConstantsAssumption DEF Init
<1>1. TypeOK
  BY DEF TypeOK, Steps, Exchanges, Statuses, Unpriceable
<1>2. UnusedIsBlank
  BY DEF UnusedIsBlank
<1>3. CycleFitsRow /\ RowFitsExchange
  BY DEF CycleFitsRow, RowFitsExchange
<1>4. DebitFitsStatus
  BY DEF DebitFitsStatus
<1>5. ChargedAsReported
  BY DEF ChargedAsReported
<1>6. LedgerMatchesCalls
  BY DEF LedgerMatchesCalls, RowsOf, RowsIn
<1> QED BY <1>1, <1>2, <1>3, <1>4, <1>5, <1>6 DEF IInv

(* Steps of a cycle, or of its exchange with the model, that leave the      *)
(* database alone.                                                          *)
LEMMA CycleOnlyInvariant ==
  ASSUME IInv, NEW c \in Calls,
         EndWithoutCall(c) \/ Send(c) \/ Receive(c) \/ ResultUnrecorded(c)
           \/ FinishFails(c) \/ Crash(c)
  PROVE  IInv'
<1> USE DEF EndWithoutCall, Send, Receive, ResultUnrecorded, FinishFails, Crash,
            GoTo, callVars, moneyVars
<1>1. TypeOK'
  BY DEF IInv, TypeOK, Steps, Exchanges
<1>2. UnusedIsBlank'
  BY DEF IInv, TypeOK, UnusedIsBlank, CycleFitsRow
<1>3. CycleFitsRow'
  BY DEF IInv, TypeOK, CycleFitsRow
<1>4. RowFitsExchange'
  BY DEF IInv, TypeOK, CycleFitsRow, RowFitsExchange
<1>5. DebitFitsStatus' /\ ChargedAsReported'
  BY DEF IInv, DebitFitsStatus, ChargedAsReported
<1>6. LedgerMatchesCalls'
  BY DEF IInv, LedgerMatchesCalls, RowsOf, HeldRows, SettledRows
<1> QED BY <1>1, <1>2, <1>3, <1>4, <1>5, <1>6 DEF IInv

(* A row of a call is a well-formed ledger row.                             *)
LEMMA RowType ==
  ASSUME NEW kind \in {"reserve", "release", "debit"}, NEW c \in Calls,
         NEW amount \in Int
  PROVE  Row(kind, c, amount)
           \in Rows
BY DEF Row, Rows

(* Worst cases are positive.                                                *)
LEMMA WorstType ==
  ASSUME NEW t \in Terms
  PROVE  t.worst \in Nat /\ t.worst > 0 /\ -t.worst \in Int
<1> DEFINE n == t.worst
<1>1. n \in WorstCases
  BY DEF Terms
<1>2. n \in Nat /\ n # 0
  BY <1>1, ConstantsAssumption
<1> HIDE DEF n
<1>3. n > 0 /\ -n \in Int
  BY <1>2
<1> QED BY <1>2, <1>3 DEF n

(* A reservation, known to be held or with its acknowledgement lost.        *)
LEMMA ReserveInvariant ==
  ASSUME IInv, NEW c \in Calls, NEW t \in Terms, Reserve(c, t)
  PROVE  IInv'
<1> USE DEF Reserve, GoTo, Advance, moneyVars
<1>0. Row("reserve", c, -t.worst)
        \in Rows
  BY WorstType, RowType
<1>1. TypeOK'
  BY <1>0 DEF IInv, TypeOK, Steps, Statuses
<1>2. UnusedIsBlank'
  BY DEF IInv, TypeOK, UnusedIsBlank
<1>3. CycleFitsRow' /\ RowFitsExchange'
  BY DEF IInv, TypeOK, UnusedIsBlank, CycleFitsRow, RowFitsExchange
<1>4. DebitFitsStatus'
  BY DEF IInv, TypeOK, DebitFitsStatus
<1>5. ChargedAsReported'
  BY DEF IInv, TypeOK, UnusedIsBlank, ChargedAsReported
<1>6. LedgerMatchesCalls'
  <2> SUFFICES ASSUME NEW d \in Calls
               PROVE  RowsOf(d)' = (IF status[d] = "none" THEN {}
                        ELSE IF status[d] \in Closed \/ debit[d] > 0
                             THEN SettledRows(d) ELSE HeldRows(d))'
    BY DEF LedgerMatchesCalls
  <2>1. CASE d # c
    <3>1. RowsOf(d)' = RowsOf(d)
      BY <2>1, OtherRowsKept DEF RowsOf
    <3> QED BY <2>1, <3>1
        DEF IInv, TypeOK, LedgerMatchesCalls, SettledRows, HeldRows
  <2>2. CASE d = c
    <3>1. RowsOf(c) = {}
      BY DEF IInv, LedgerMatchesCalls
    <3>2. RowsOf(c)' = {Row("reserve", c, -t.worst)}
      BY <3>1, OwnRowAdded DEF RowsOf
    <3>3. debit[c] = 0
      BY DEF IInv, TypeOK, DebitFitsStatus
    <3> QED BY <2>2, <3>2, <3>3 DEF IInv, TypeOK, HeldRows, Closed
  <2> QED BY <2>1, <2>2
<1> QED BY <1>1, <1>2, <1>3, <1>4, <1>5, <1>6 DEF IInv

(* The two guarded updates of a call's own row, and the passage of time.    *)
LEMMA DispatchInvariant ==
  ASSUME IInv, NEW c \in Calls, MarkDispatched(c)
  PROVE  IInv'
<1> USE DEF MarkDispatched, GoTo, Advance, moneyVars
<1>1. TypeOK'
  BY DEF IInv, TypeOK, Steps, Statuses
<1>2. UnusedIsBlank' /\ CycleFitsRow' /\ RowFitsExchange'
  BY DEF IInv, TypeOK, UnusedIsBlank, CycleFitsRow, RowFitsExchange
<1>3. DebitFitsStatus' /\ ChargedAsReported'
  BY DEF IInv, TypeOK, DebitFitsStatus, ChargedAsReported
<1>4. LedgerMatchesCalls'
  BY DEF IInv, TypeOK, LedgerMatchesCalls, RowsOf, HeldRows, SettledRows, Closed
<1> QED BY <1>1, <1>2, <1>3, <1>4 DEF IInv

(* An answer is only recorded on a call that is dispatched.                 *)
LEMMA RecordInvariant ==
  ASSUME IInv, NEW c \in Calls, RecordResult(c)
  PROVE  IInv'
<1> USE DEF RecordResult, GoTo, Advance, moneyVars, ResultStatus
<1>0. provider[c] \in {"deferred", "usage", "rejected", "uncertain"}
  BY DEF IInv, CycleFitsRow
<1>1. TypeOK'
  BY <1>0 DEF IInv, TypeOK, Steps, Statuses
<1>2. UnusedIsBlank' /\ CycleFitsRow' /\ RowFitsExchange'
  BY <1>0 DEF IInv, TypeOK, UnusedIsBlank, CycleFitsRow, RowFitsExchange
<1>3. usage[c] = Unpriceable /\ debit[c] = 0
  BY DEF IInv, TypeOK, ChargedAsReported, DebitFitsStatus
<1>4. DebitFitsStatus' /\ ChargedAsReported'
  BY <1>0, <1>3 DEF IInv, TypeOK, DebitFitsStatus, ChargedAsReported
<1>5. LedgerMatchesCalls'
  BY <1>0, <1>3
  DEF IInv, TypeOK, LedgerMatchesCalls, RowsOf, HeldRows, SettledRows, Closed
<1> QED BY <1>1, <1>2, <1>4, <1>5 DEF IInv

(* Time, listings and the backend touch no call's money.                    *)
LEMMA SurroundingsInvariant ==
  ASSUME IInv,
         \/ \E c \in Calls : Age(c)
         \/ \E r \in Replicas : ListStale(r)
         \/ \E r \in Replicas, c \in Calls : RecoverFails(r, c)
         \/ \E o \in Owners : Credit(o) \/ Reverse(o)
  PROVE  IInv'
<1> USE DEF Age, ListStale, RecoverFails, Visit, Credit, Reverse, callVars, moneyVars
<1>1. TypeOK'
  <2> USE ConstantsAssumption DEF IInv, TypeOK
  <2>1. CASE \E c \in Calls : Age(c)
    BY <2>1
  <2>2. CASE \E r \in Replicas : ListStale(r)
    BY <2>2
  <2>3. CASE \E r \in Replicas, c \in Calls : RecoverFails(r, c)
    BY <2>3
  <2>4. CASE \E o \in Owners : Credit(o)
    BY <2>4
  <2>5. CASE \E o \in Owners : Reverse(o)
    BY <2>5
  <2> QED BY <2>1, <2>2, <2>3, <2>4, <2>5
<1>2. UNCHANGED <<pc, provider, status, terms, usage, debit, ledger>>
  OBVIOUS
<1>3. UnusedIsBlank' /\ CycleFitsRow' /\ RowFitsExchange'
  BY <1>2 DEF IInv, UnusedIsBlank, CycleFitsRow, RowFitsExchange
<1>4. DebitFitsStatus' /\ ChargedAsReported'
  BY <1>2 DEF IInv, DebitFitsStatus, ChargedAsReported
<1>5. LedgerMatchesCalls'
  BY <1>2 DEF IInv, LedgerMatchesCalls, RowsOf, HeldRows, SettledRows
<1> QED BY <1>1, <1>3, <1>4, <1>5 DEF IInv

(* What settling a call that holds its reserve adds to the ledger: exactly  *)
(* the release and the debit, and nothing to other calls.                   *)
LEMMA SettleLedger ==
  ASSUME NEW c \in Calls, NEW n \in Nat, terms[c] \in Terms,
         RowsOf(c) = HeldRows(c),
         ledger \subseteq Rows,
         ledger' = WithDebit(WithRelease(ledger, c), c, n)
  PROVE  /\ RowsIn(ledger', c)
              = HeldRows(c) \cup {Row("release", c, terms[c].worst)}
                  \cup {Row("debit", c, -k) : k \in {n} \ {0}}
         /\ \A d \in Calls : d # c => RowsOf(d)' = RowsOf(d)
         /\ ledger' \subseteq Rows
<1> DEFINE back == Row("release", c, terms[c].worst)
           taken == Row("debit", c, -n)
           released == ledger \cup {back}
<1>1. WithRelease(ledger, c) = released
  BY ReleaseAdded
<1>2. RowsIn(released, c) = HeldRows(c) \cup {back}
  BY OwnRowAdded DEF RowsOf
<1>3. ASSUME NEW d \in Calls, d # c
      PROVE  RowsIn(released, d) = RowsOf(d)
  BY <1>3, OtherRowsKept DEF RowsOf
<1>4. released \subseteq Rows
  <2>1. terms[c].worst \in Int
    BY WorstType
  <2>2. back \in Rows
    BY <2>1, RowType
  <2> QED BY <2>2
<1> HIDE DEF back, released
<1>5. CASE n = 0
  <2>1. ledger' = released
    BY <1>1, <1>5 DEF WithDebit
  <2>2. {Row("debit", c, -k) : k \in {n} \ {0}} = {}
    BY <1>5
  <2> QED BY <2>1, <2>2, <1>2, <1>3, <1>4 DEF RowsOf, back
<1>6. CASE n # 0
  <2>1. ledger' = released \cup {taken}
    BY <1>1, <1>6, DebitAdded
  <2>2. {Row("debit", c, -k) : k \in {n} \ {0}} = {taken}
    BY <1>6
  <2>3. RowsIn(ledger', c) = HeldRows(c) \cup {back} \cup {taken}
    BY <2>1, <1>2, OwnRowAdded
  <2>4. ASSUME NEW d \in Calls, d # c
        PROVE  RowsOf(d)' = RowsOf(d)
    BY <2>1, <2>4, <1>3, OtherRowsKept DEF RowsOf
  <2>5. -n \in Int
    OBVIOUS
  <2>6. taken \in Rows
    BY <2>5, RowType
  <2> QED BY <2>1, <2>2, <2>3, <2>4, <2>6, <1>4 DEF back
<1> QED BY <1>5, <1>6

(* A call that moves from an open, undebited status to a closed one, or is  *)
(* flagged with its whole reserve debited, keeps the ledger in step.        *)
LEMMA SettleMatches ==
  ASSUME IInv, NEW c \in Calls, NEW n \in Nat, NEW to \in {"released", "finalized", "uncertain"},
         status[c] \notin {"none", "released", "finalized"}, debit[c] = 0,
         ledger' = WithDebit(WithRelease(ledger, c), c, n),
         Close(c, to, n), to = "uncertain" => n > 0, UNCHANGED terms
  PROVE  /\ LedgerMatchesCalls'
         /\ ledger' \subseteq Rows
<1>1. terms[c] \in Terms /\ RowsOf(c) = HeldRows(c)
  BY DEF IInv, UnusedIsBlank, LedgerMatchesCalls, Closed
<1>2. /\ RowsIn(ledger', c)
           = HeldRows(c) \cup {Row("release", c, terms[c].worst)}
               \cup {Row("debit", c, -k) : k \in {n} \ {0}}
      /\ \A d \in Calls : d # c => RowsOf(d)' = RowsOf(d)
      /\ ledger' \subseteq Rows
  BY <1>1, SettleLedger DEF IInv, TypeOK
<1>3. status'[c] = to /\ debit'[c] = n
  BY DEF Close, Advance, IInv, TypeOK
<1>4. \A d \in Calls : d # c => status'[d] = status[d] /\ debit'[d] = debit[d]
  BY DEF Close, Advance, IInv, TypeOK
<1>5. RowsOf(c)' = SettledRows(c)'
  BY <1>2, <1>3 DEF RowsOf, SettledRows, HeldRows
<1>6. LedgerMatchesCalls'
  <2> SUFFICES ASSUME NEW d \in Calls
               PROVE  RowsOf(d)' = (IF status[d] = "none" THEN {}
                        ELSE IF status[d] \in Closed \/ debit[d] > 0
                             THEN SettledRows(d) ELSE HeldRows(d))'
    BY DEF LedgerMatchesCalls
  <2>1. CASE d = c
    BY <2>1, <1>3, <1>5 DEF Closed
  <2>2. CASE d # c
    BY <2>2, <1>2, <1>4 DEF IInv, LedgerMatchesCalls, SettledRows, HeldRows
  <2> QED BY <2>1, <2>2
<1> QED BY <1>2, <1>6

(* Finalisation, by the cycle or by recovery, with what their steps have in *)
(* common.                                                                  *)
LEMMA FinalizeInvariant ==
  ASSUME IInv, NEW c \in Calls, NEW recovering \in BOOLEAN, Finalize(c, recovering),
         UNCHANGED <<provider, moneyVars>>,
         candidates' \in [Replicas -> SUBSET Calls],
         pc' = pc \/ GoTo(c, "ending", "over")
  PROVE  IInv'
<1> USE DEF GoTo, moneyVars
<1>a. /\ UNCHANGED <<terms, usage, provider, credited, reversed>>
      /\ pc' \in [Calls -> Steps]
      /\ \A d \in Calls : pc'[d] = pc[d] \/ (pc'[d] = "over" /\ pc[d] = "ending")
  BY DEF Finalize, IInv, TypeOK, Steps
<1>1. CASE LeaveAlone(c, recovering)
  <2>1. UNCHANGED <<status, idle, debit, ledger>>
    BY <1>1 DEF LeaveAlone
  <2>2. TypeOK'
    BY <1>a, <2>1 DEF IInv, TypeOK
  <2>3. UnusedIsBlank' /\ CycleFitsRow' /\ RowFitsExchange'
    BY <1>a, <2>1 DEF IInv, UnusedIsBlank, CycleFitsRow, RowFitsExchange
  <2>4. DebitFitsStatus' /\ ChargedAsReported'
    BY <1>a, <2>1 DEF IInv, DebitFitsStatus, ChargedAsReported
  <2>5. LedgerMatchesCalls'
    BY <1>a, <2>1 DEF IInv, LedgerMatchesCalls, RowsOf, HeldRows, SettledRows
  <2> QED BY <2>2, <2>3, <2>4, <2>5 DEF IInv
<1>2. CASE Release(c)
  <2>1. /\ status[c] \in {"reserved", "rejected"}
        /\ debit[c] = 0
        /\ usage[c] = Unpriceable
    BY <1>2 DEF Release, IInv, TypeOK, DebitFitsStatus, ChargedAsReported
  <2>2. /\ Close(c, "released", 0)
        /\ ledger' = WithDebit(WithRelease(ledger, c), c, 0)
    BY <1>2 DEF Release, WithDebit
  <2>3. LedgerMatchesCalls' /\ ledger' \subseteq Rows
    BY <1>a, <2>1, <2>2, SettleMatches
  <2>4. TypeOK'
    BY <1>a, <2>2, <2>3 DEF IInv, TypeOK, Statuses, Close, Advance
  <2>5. UnusedIsBlank' /\ CycleFitsRow' /\ RowFitsExchange'
    BY <1>a, <2>1, <2>2
    DEF IInv, TypeOK, UnusedIsBlank, CycleFitsRow, RowFitsExchange, Close, Advance
  <2>6. DebitFitsStatus' /\ ChargedAsReported'
    BY <1>a, <2>1, <2>2
    DEF IInv, TypeOK, DebitFitsStatus, ChargedAsReported, Close, Advance
  <2> QED BY <2>3, <2>4, <2>5, <2>6 DEF IInv
<1>3. CASE MarkUncertain(c)
  <2>1. /\ status[c] \in {"dispatched", "answered"}
        /\ debit[c] = 0
        /\ usage[c] = Unpriceable
    BY <1>3 DEF MarkUncertain, IInv, TypeOK, DebitFitsStatus, ChargedAsReported
  <2>2. /\ status' = [status EXCEPT ![c] = "uncertain"]
        /\ idle' = [idle EXCEPT ![c] = FALSE]
        /\ UNCHANGED <<debit, ledger>>
    BY <1>3 DEF MarkUncertain, Advance
  <2>3. TypeOK'
    BY <1>a, <2>2 DEF IInv, TypeOK, Statuses
  <2>4. UnusedIsBlank' /\ CycleFitsRow' /\ RowFitsExchange'
    BY <1>a, <2>1, <2>2
    DEF IInv, TypeOK, UnusedIsBlank, CycleFitsRow, RowFitsExchange
  <2>5. DebitFitsStatus' /\ ChargedAsReported'
    BY <1>a, <2>1, <2>2 DEF IInv, TypeOK, DebitFitsStatus, ChargedAsReported
  <2>6. LedgerMatchesCalls'
    BY <1>a, <2>1, <2>2
    DEF IInv, TypeOK, LedgerMatchesCalls, RowsOf, HeldRows, SettledRows, Closed
  <2> QED BY <2>3, <2>4, <2>5, <2>6 DEF IInv
<1>4. CASE ChargeUsage(c)
  <2> DEFINE worst == terms[c].worst
             charged == IF usage[c] > worst THEN worst ELSE usage[c]
             to == IF usage[c] > worst THEN "uncertain" ELSE "finalized"
  <2>1. /\ status[c] = "answered"
        /\ usage[c] # Unpriceable
        /\ debit[c] = 0
    BY <1>4 DEF ChargeUsage, IInv, TypeOK, DebitFitsStatus
  <2>2. worst \in Nat /\ worst > 0 /\ usage[c] \in Nat
    BY <2>1, WorstType, ConstantsAssumption DEF IInv, TypeOK, UnusedIsBlank
  <2>3. /\ charged \in Nat /\ charged <= worst
        /\ to \in {"released", "finalized", "uncertain"}
        /\ to = "uncertain" => charged > 0 /\ charged = worst /\ usage[c] > worst
        /\ charged = IF usage[c] < worst THEN usage[c] ELSE worst
    BY <2>2
  <2>4. Close(c, to, charged) /\ ledger' = WithDebit(WithRelease(ledger, c), c, charged)
    BY <1>4 DEF ChargeUsage
  <2> HIDE DEF charged, to
  <2>5. LedgerMatchesCalls' /\ ledger' \subseteq Rows
    BY <1>a, <2>1, <2>3, <2>4, SettleMatches
  <2>6. TypeOK'
    BY <1>a, <2>3, <2>4, <2>5 DEF IInv, TypeOK, Statuses, Close, Advance
  <2>7. UnusedIsBlank' /\ CycleFitsRow' /\ RowFitsExchange'
    BY <1>a, <2>1, <2>3, <2>4
    DEF IInv, TypeOK, UnusedIsBlank, CycleFitsRow, RowFitsExchange, Close, Advance
  <2>8. DebitFitsStatus' /\ ChargedAsReported'
    BY <1>a, <2>1, <2>2, <2>3, <2>4, to \in {"finalized", "uncertain"}
    DEF IInv, TypeOK, DebitFitsStatus, ChargedAsReported, Close, Advance, to
  <2> QED BY <2>5, <2>6, <2>7, <2>8 DEF IInv
<1> QED BY <1>1, <1>2, <1>3, <1>4 DEF Finalize

(* Root settles an uncertain call.                                          *)
LEMMA ReconcileInvariant ==
  ASSUME IInv, NEW c \in Calls, RootReconciles(c)
  PROVE  IInv'
<1> USE DEF moneyVars
<1>1. /\ UNCHANGED <<pc, provider, terms, usage, credited, reversed, candidates>>
      /\ status[c] = "uncertain"
      /\ pc[c] \in {"over", "gone"}
      /\ debit[c] \in Nat
  BY DEF RootReconciles, IInv, TypeOK
<1>2. ASSUME NEW to \in {"released", "finalized"}, NEW n \in Nat,
             n <= terms[c].worst, to = "released" => n = 0, debit[c] = 0,
             Close(c, to, n), ledger' = WithDebit(WithRelease(ledger, c), c, n)
      PROVE  IInv'
  <2>1. usage[c] = Unpriceable
    <3>1. terms[c].worst \in Nat /\ terms[c].worst > 0
      BY <1>1, WorstType DEF IInv, UnusedIsBlank
    <3>2. usage[c] # Unpriceable => /\ usage[c] > terms[c].worst
                                    /\ debit[c] = IF usage[c] < terms[c].worst
                                                  THEN usage[c] ELSE terms[c].worst
      BY <1>1 DEF IInv, ChargedAsReported
    <3>3. usage[c] # Unpriceable => usage[c] \in Nat
      BY ConstantsAssumption DEF IInv, TypeOK
    <3> QED BY <1>2, <3>1, <3>2, <3>3
  <2>2. LedgerMatchesCalls' /\ ledger' \subseteq Rows
    BY <1>1, <1>2, SettleMatches
  <2>3. TypeOK'
    BY <1>1, <1>2, <2>2 DEF IInv, TypeOK, Statuses, Close, Advance
  <2>4. UnusedIsBlank' /\ CycleFitsRow' /\ RowFitsExchange'
    BY <1>1, <1>2
    DEF IInv, TypeOK, UnusedIsBlank, CycleFitsRow, RowFitsExchange, Close, Advance
  <2>5. DebitFitsStatus' /\ ChargedAsReported'
    BY <1>1, <1>2, <2>1
    DEF IInv, TypeOK, DebitFitsStatus, ChargedAsReported, Close, Advance
  <2> QED BY <2>2, <2>3, <2>4, <2>5 DEF IInv
<1>3. CASE debit[c] = 0 /\ ledger' = WithRelease(ledger, c) /\ Close(c, "released", 0)
  <2>1. ledger' = WithDebit(WithRelease(ledger, c), c, 0)
    BY <1>3 DEF WithDebit
  <2>2. 0 <= terms[c].worst
    BY <1>1, WorstType DEF IInv, UnusedIsBlank
  <2> QED BY <1>3, <2>1, <2>2, <1>2
<1>4. CASE /\ debit[c] = 0
           /\ \E n \in Prices \ {0} :
                /\ n <= terms[c].worst
                /\ ledger' = WithDebit(WithRelease(ledger, c), c, n)
                /\ Close(c, "finalized", n)
  BY <1>4, <1>2, ConstantsAssumption
<1>5. CASE debit[c] # 0 /\ Close(c, "finalized", debit[c]) /\ UNCHANGED ledger
  <2>1. /\ status' = [status EXCEPT ![c] = "finalized"]
        /\ idle' = [idle EXCEPT ![c] = FALSE]
        /\ debit' = debit
    BY <1>5 DEF Close, Advance, IInv, TypeOK
  <2>2. TypeOK'
    BY <1>1, <1>5, <2>1 DEF IInv, TypeOK, Statuses
  <2>3. UnusedIsBlank' /\ CycleFitsRow' /\ RowFitsExchange'
    BY <1>1, <2>1 DEF IInv, TypeOK, UnusedIsBlank, CycleFitsRow, RowFitsExchange
  <2>4. DebitFitsStatus' /\ ChargedAsReported'
    BY <1>1, <2>1 DEF IInv, TypeOK, DebitFitsStatus, ChargedAsReported
  <2>5. LedgerMatchesCalls'
    BY <1>1, <1>5, <2>1
    DEF IInv, TypeOK, LedgerMatchesCalls, RowsOf, HeldRows, SettledRows, Closed
  <2> QED BY <2>2, <2>3, <2>4, <2>5 DEF IInv
<1> QED BY <1>3, <1>4, <1>5 DEF RootReconciles

(* A step that changes nothing.                                             *)
LEMMA StutterInvariant ==
  ASSUME IInv, UNCHANGED vars
  PROVE  IInv'
<1> USE DEF vars, callVars, moneyVars
<1>1. TypeOK'
  BY DEF IInv, TypeOK
<1>2. UnusedIsBlank' /\ CycleFitsRow' /\ RowFitsExchange'
  BY DEF IInv, UnusedIsBlank, CycleFitsRow, RowFitsExchange
<1>3. DebitFitsStatus' /\ ChargedAsReported'
  BY DEF IInv, DebitFitsStatus, ChargedAsReported
<1>4. LedgerMatchesCalls'
  BY DEF IInv, LedgerMatchesCalls, RowsOf, HeldRows, SettledRows
<1> QED BY <1>1, <1>2, <1>3, <1>4 DEF IInv

(* Every step of the protocol keeps the invariant.                          *)
LEMMA NextInvariant == IInv /\ [Next]_vars => IInv'
<1> SUFFICES ASSUME IInv, [Next]_vars
             PROVE  IInv'
  OBVIOUS
<1>1. ASSUME NEW c \in Calls, CycleStep(c)
      PROVE  IInv'
  <2>1. ASSUME NEW t \in Terms, Reserve(c, t)
        PROVE  IInv'
    BY <2>1, ReserveInvariant
  <2>2. CASE MarkDispatched(c)
    BY <2>2, DispatchInvariant
  <2>3. CASE RecordResult(c)
    BY <2>3, RecordInvariant
  <2>4. CASE FinishCycle(c)
    <3>1. candidates' \in [Replicas -> SUBSET Calls]
      BY <2>4 DEF FinishCycle, IInv, TypeOK
    <3> QED BY <2>4, <3>1, FinalizeInvariant DEF FinishCycle
  <2>5. CASE EndWithoutCall(c) \/ Send(c) \/ Receive(c) \/ ResultUnrecorded(c)
               \/ FinishFails(c) \/ Crash(c)
    BY <2>5, CycleOnlyInvariant
  <2> QED BY <1>1, <2>1, <2>2, <2>3, <2>4, <2>5 DEF CycleStep
<1>2. ASSUME NEW r \in Replicas, NEW c \in Calls, RecoverCall(r, c)
      PROVE  IInv'
  <2>1. candidates' \in [Replicas -> SUBSET Calls]
    BY <1>2 DEF RecoverCall, Visit, IInv, TypeOK
  <2> QED BY <1>2, <2>1, FinalizeInvariant DEF RecoverCall
<1>3. ASSUME NEW c \in Calls, RootReconciles(c)
      PROVE  IInv'
  BY <1>3, ReconcileInvariant
<1>4. CASE \/ \E c \in Calls : Age(c)
           \/ \E r \in Replicas : ListStale(r)
           \/ \E r \in Replicas, c \in Calls : RecoverFails(r, c)
           \/ \E o \in Owners : Credit(o) \/ Reverse(o)
  BY <1>4, SurroundingsInvariant
<1>5. CASE UNCHANGED vars
  BY <1>5, StutterInvariant
<1> QED BY <1>1, <1>2, <1>3, <1>4, <1>5 DEF Next, RecoveryStep

(* The inductive invariant holds of every behaviour of the protocol.        *)
THEOREM InductiveInvariant == Spec => []IInv
<1> QED BY InitInvariant, NextInvariant, PTL DEF Spec

-----------------------------------------------------------------------------
(* What the invariant gives                                                 *)

(* Every variable keeps its type.                                           *)
THEOREM TypeCorrect == Spec => []TypeOK
<1>1. IInv => TypeOK
  BY DEF IInv
<1> QED BY <1>1, InductiveInvariant, PTL

(* Whatever crashes, is retried or is finalised twice, the ledger holds     *)
(* exactly the rows each call's status stands for: money moves once.        *)
THEOREM MoneyMovesOnce == Spec => []LedgerMatchesCalls
<1>1. IInv => LedgerMatchesCalls
  BY DEF IInv
<1> QED BY <1>1, InductiveInvariant, PTL

(* A recorded usage is what the owner is charged, up to the reserve.        *)
THEOREM ChargesFollowUsage == Spec => []ChargedAsReported
<1>1. IInv => ChargedAsReported
  BY DEF IInv
<1> QED BY <1>1, InductiveInvariant, PTL

(* No request is ever out that the database does not know of.               *)
THEOREM RequestsAreOnRecord == Spec => []AskedIsOnRecord
<1>1. IInv => AskedIsOnRecord
  BY DEF IInv, UnusedIsBlank, RowFitsExchange, CycleFitsRow, AskedIsOnRecord, Billable
<1> QED BY <1>1, InductiveInvariant, PTL

-----------------------------------------------------------------------------
(* How one step may change one row                                          *)

RowKept(c) == status'[c] = status[c] /\ debit'[c] = debit[c]

RowMoves(c, from, to) ==
  status[c] \in from /\ status'[c] \in to /\ debit'[c] = debit[c]

RowStep(c) ==
  \/ RowKept(c)
  \/ RowMoves(c, {"none"}, {"reserved"})
  \/ RowMoves(c, {"reserved"}, {"dispatched"})
  \/ RowMoves(c, {"dispatched"}, {"answered", "rejected", "uncertain", "reserved"})
  \/ RowMoves(c, {"reserved", "rejected"}, {"released"})
  \/ RowMoves(c, {"answered"}, {"uncertain"})
  \/ status[c] = "answered" /\ status'[c] \in {"finalized", "uncertain"}
  \/ RootReconciles(c)

(* Finalisation moves a row along one of the listed status changes.         *)
LEMMA FinalizeRowStep ==
  ASSUME IInv, NEW d \in Calls, NEW recovering \in BOOLEAN, Finalize(d, recovering),
         NEW c \in Calls
  PROVE  RowStep(c)
<1> USE DEF IInv, TypeOK, Advance, Close, RowStep, RowKept, RowMoves
<1>1. CASE c # d
  BY <1>1 DEF Finalize, Release, MarkUncertain, ChargeUsage, LeaveAlone
<1>2. CASE c = d
  <2>1. CASE Release(c)
    BY <2>1 DEF Release, DebitFitsStatus
  <2>2. CASE MarkUncertain(c)
    BY <2>2 DEF MarkUncertain
  <2>3. CASE ChargeUsage(c)
    BY <2>3 DEF ChargeUsage
  <2>4. CASE LeaveAlone(c, recovering)
    BY <2>4 DEF LeaveAlone
  <2> QED BY <1>2, <2>1, <2>2, <2>3, <2>4 DEF Finalize
<1> QED BY <1>1, <1>2

(* So does every step of the protocol, for every call.                      *)
LEMMA NextRowStep ==
  ASSUME IInv, [Next]_vars, NEW c \in Calls
  PROVE  RowStep(c)
<1> USE DEF IInv, TypeOK, Advance, RowStep, RowKept, RowMoves, callVars, moneyVars
<1>1. ASSUME NEW d \in Calls, CycleStep(d)
      PROVE  RowStep(c)
  <2>1. ASSUME NEW t \in Terms, Reserve(d, t)
        PROVE  RowStep(c)
    BY <2>1 DEF Reserve
  <2>2. CASE MarkDispatched(d)
    BY <2>2 DEF MarkDispatched
  <2>3. CASE RecordResult(d)
    <3>1. provider[d] \in {"deferred", "usage", "rejected", "uncertain"}
      BY <2>3 DEF RecordResult, GoTo, CycleFitsRow
    <3>2. ResultStatus(provider[d]) \in {"answered", "rejected", "uncertain", "reserved"}
      BY <3>1 DEF ResultStatus
    <3> QED BY <2>3, <3>2 DEF RecordResult
  <2>4. CASE FinishCycle(d)
    BY <2>4, FinalizeRowStep DEF FinishCycle
  <2>5. CASE EndWithoutCall(d) \/ Send(d) \/ Receive(d) \/ ResultUnrecorded(d)
               \/ FinishFails(d) \/ Crash(d)
    BY <2>5 DEF EndWithoutCall, Send, Receive, ResultUnrecorded, FinishFails, Crash
  <2> QED BY <1>1, <2>1, <2>2, <2>3, <2>4, <2>5 DEF CycleStep
<1>2. ASSUME NEW r \in Replicas, NEW d \in Calls, RecoverCall(r, d)
      PROVE  RowStep(c)
  BY <1>2, FinalizeRowStep DEF RecoverCall
<1>3. ASSUME NEW d \in Calls, RootReconciles(d)
      PROVE  RowStep(c)
  BY <1>3 DEF RootReconciles, Close
<1>4. ASSUME NEW d \in Calls, Age(d)
      PROVE  RowStep(c)
  BY <1>4 DEF Age
<1>5. CASE \/ \E r \in Replicas : ListStale(r)
           \/ \E r \in Replicas, d \in Calls : RecoverFails(r, d)
           \/ \E o \in Owners : Credit(o) \/ Reverse(o)
           \/ UNCHANGED vars
  BY <1>5 DEF ListStale, RecoverFails, Credit, Reverse, vars
<1> QED BY <1>1, <1>2, <1>3, <1>4, <1>5 DEF Next, RecoveryStep

(* The scheduler never refunds a call the provider may have billed.         *)
THEOREM BilledNeverRefunded == Spec => OnlyUnbilledReleased
<1>1. ASSUME IInv, [Next]_vars, NEW c \in Calls,
             status[c] \notin {"released", "uncertain"}, status'[c] = "released"
      PROVE  ~Billable(c)
  <2>1. status[c] \in {"reserved", "rejected"}
    BY <1>1, NextRowStep DEF RowStep, RowKept, RowMoves, RootReconciles
  <2> QED BY <1>1, <2>1 DEF IInv, RowFitsExchange, Billable
<1>2. IInv /\ [Next]_vars
        => [\A c \in Calls :
              status[c] \notin {"released", "uncertain"} /\ status'[c] = "released"
                => ~Billable(c)]_vars
  BY <1>1
<1> QED BY <1>2, InductiveInvariant, PTL DEF Spec, OnlyUnbilledReleased

(* Only root moves an uncertain call.                                       *)
THEOREM OnlyRootReconciles == Spec => UncertainWaitsForRoot
<1>1. ASSUME IInv, [Next]_vars, NEW c \in Calls,
             status[c] = "uncertain", ~RootReconciles(c)
      PROVE  status'[c] = "uncertain" /\ debit'[c] = debit[c]
  BY <1>1, NextRowStep DEF RowStep, RowKept, RowMoves
<1>2. IInv /\ [Next]_vars
        => [\A c \in Calls :
              status[c] = "uncertain" /\ ~RootReconciles(c) =>
                /\ status'[c] = "uncertain"
                /\ debit'[c] = debit[c]]_vars
  BY <1>1
<1> QED BY <1>2, InductiveInvariant, PTL DEF Spec, UncertainWaitsForRoot

-----------------------------------------------------------------------------
(* Sums over finite sets                                                   *)

(* The library's induction theorems take an operator as a parameter, which  *)
(* the provers cannot instantiate.  This one takes the set of the subsets   *)
(* for which a claim holds.                                                 *)
LEMMA SubsetInduction ==
  ASSUME NEW S, IsFiniteSet(S), NEW Good,
         \A U \in SUBSET S :
           (\A V \in SUBSET U : V # U => V \in Good) => U \in Good
  PROVE  \A U \in SUBSET S : U \in Good
<1> SUFFICES ASSUME NEW W \in SUBSET S, W \notin Good PROVE FALSE
  OBVIOUS
<1> DEFINE Bad == {U \in SUBSET S : U \notin Good}
           R == StrictSubsetOrdering(S)
<1>1. IsWellFoundedOn(R, SUBSET S)
  <2>1. FiniteSubsetsOf(S) = SUBSET S
    BY FS_FiniteSubsetsOfFinite
  <2>2. IsWellFoundedOn(StrictSubsetOrdering(S), FiniteSubsetsOf(S))
    BY FS_StrictSubsetOrderingWellFounded
  <2> QED BY <2>1, <2>2
<1>2. Bad \subseteq SUBSET S /\ Bad # {}
  OBVIOUS
<1>3. PICK U \in Bad : \A V \in Bad : <<V, U>> \notin R
  <2> HIDE DEF Bad, R
  <2> QED BY <1>1, <1>2, WFMin
<1>4. \A V \in SUBSET U : V # U => V \in Good
  <2> SUFFICES ASSUME NEW V \in SUBSET U, V # U, V \notin Good PROVE FALSE
    OBVIOUS
  <2>1. V \in Bad
    OBVIOUS
  <2>2. <<V, U>> \in R
    BY DEF StrictSubsetOrdering
  <2> QED BY <1>3, <2>1, <2>2
<1> QED BY <1>4

Pick(s) == CHOOSE x \in s : TRUE

(* g adds up f on every subset of S, as the fold of Folds.tla goes.         *)
AddsUp(f, S, g) ==
  g = [s \in SUBSET S |-> IF s = {} THEN 0 ELSE f[Pick(s)] + g[s \ {Pick(s)}]]

(* SumFunctionOnSet is that function at the whole set, if there is one.     *)
LEMMA SumIsFold ==
  ASSUME NEW f, NEW S
  PROVE  SumFunctionOnSet(f, S) = (CHOOSE g : AddsUp(f, S, g))[S]
BY DEF SumFunctionOnSet, FoldFunctionOnSet, MapThenFoldSet, AddsUp, Pick

(* What is picked of a set that is not empty is one of its elements.        *)
LEMMA PickIn == ASSUME NEW s, s # {} PROVE Pick(s) \in s
BY DEF Pick

(* One step of the recursion.                                               *)
LEMMA AddsUpAt ==
  ASSUME NEW f, NEW S, NEW g, AddsUp(f, S, g), NEW s \in SUBSET S
  PROVE  g[s] = IF s = {} THEN 0 ELSE f[Pick(s)] + g[s \ {Pick(s)}]
BY DEF AddsUp

(* What adds up the subsets of S adds up the subsets of each part of S.     *)
LEMMA AddsUpOnPart ==
  ASSUME NEW f, NEW S, NEW g, AddsUp(f, S, g), NEW W \in SUBSET S
  PROVE  AddsUp(f, W, [s \in SUBSET W |-> g[s]])
<1> DEFINE h == [s \in SUBSET W |-> g[s]]
<1>1. \A s \in SUBSET W : h[s] = IF s = {} THEN 0 ELSE f[Pick(s)] + h[s \ {Pick(s)}]
  <2> SUFFICES ASSUME NEW s \in SUBSET W
               PROVE  h[s] = IF s = {} THEN 0 ELSE f[Pick(s)] + h[s \ {Pick(s)}]
    OBVIOUS
  <2>1. g[s] = IF s = {} THEN 0 ELSE f[Pick(s)] + g[s \ {Pick(s)}]
    BY AddsUpAt
  <2>2. h[s] = g[s] /\ h[s \ {Pick(s)}] = g[s \ {Pick(s)}]
    OBVIOUS
  <2> HIDE DEF h
  <2> QED BY <2>1, <2>2
<1>2. h = [s \in SUBSET W |-> h[s]]
  OBVIOUS
<1> HIDE DEF h
<1> QED BY <1>1, <1>2 DEF AddsUp, h

(* There is at most one such function on a finite set.                      *)
LEMMA AddsUpOnce ==
  ASSUME NEW f, NEW S, IsFiniteSet(S), NEW g, AddsUp(f, S, g), NEW h, AddsUp(f, S, h)
  PROVE  g = h
<1> DEFINE Good == {s \in SUBSET S : g[s] = h[s]}
<1>1. ASSUME NEW U \in SUBSET S, \A V \in SUBSET U : V # U => V \in Good
      PROVE  U \in Good
  <2>1. g[U] = (IF U = {} THEN 0 ELSE f[Pick(U)] + g[U \ {Pick(U)}])
        /\ h[U] = (IF U = {} THEN 0 ELSE f[Pick(U)] + h[U \ {Pick(U)}])
    BY AddsUpAt
  <2>2. CASE U = {}
    BY <2>1, <2>2
  <2>3. CASE U # {}
    <3>1. U \ {Pick(U)} \in Good
      BY <1>1, <2>3, PickIn
    <3> QED BY <2>1, <2>3, <3>1
  <2> QED BY <2>2, <2>3
<1> HIDE DEF Good
<1>2. \A U \in SUBSET S : U \in Good
  BY <1>1, SubsetInduction
<1>3. \A U \in SUBSET S : g[U] = h[U]
  BY <1>2 DEF Good
<1>4. g = [s \in SUBSET S |-> g[s]] /\ h = [s \in SUBSET S |-> h[s]]
  BY DEF AddsUp
<1> QED BY <1>3, <1>4

(* If it exists at all, it is the sum of each subset.                       *)
LEMMA AddsUpSums ==
  ASSUME NEW f, NEW S, IsFiniteSet(S), NEW g, AddsUp(f, S, g), NEW W \in SUBSET S
  PROVE  g[W] = SumFunctionOnSet(f, W)
<1> DEFINE h == [s \in SUBSET W |-> g[s]]
<1>1. AddsUp(f, W, h) /\ IsFiniteSet(W)
  BY AddsUpOnPart, FS_Subset
<1>2. h[W] = g[W]
  OBVIOUS
<1> HIDE DEF h
<1>3. PICK c : c = (CHOOSE q : AddsUp(f, W, q))
  OBVIOUS
<1>4. AddsUp(f, W, c)
  BY <1>1, <1>3
<1>5. c = h
  BY <1>1, <1>4, AddsUpOnce
<1> QED BY <1>2, <1>3, <1>5, SumIsFold

(* On a finite set there is one: each subset goes on from smaller ones.     *)
LEMMA AddsUpExists ==
  ASSUME NEW f, NEW S, IsFiniteSet(S)
  PROVE  \E g : AddsUp(f, S, g)
<1> DEFINE Good == {s \in SUBSET S : \E g : AddsUp(f, s, g)}
           Sum(s) == SumFunctionOnSet(f, s)
<1>1. ASSUME NEW U \in SUBSET S, \A V \in SUBSET U : V # U => V \in Good
      PROVE  U \in Good
  <2> DEFINE h == [s \in SUBSET U |->
                     IF s = {} THEN 0 ELSE f[Pick(s)] + Sum(s \ {Pick(s)})]
  <2>1. ASSUME NEW s \in SUBSET U, s # U PROVE h[s] = Sum(s)
    <3>1. PICK g : AddsUp(f, s, g)
      BY <1>1, <2>1
    <3>2. IsFiniteSet(s)
      BY FS_Subset
    <3>3. g[s] = IF s = {} THEN 0 ELSE f[Pick(s)] + g[s \ {Pick(s)}]
      BY <3>1, AddsUpAt
    <3>4. g[s] = Sum(s) /\ g[s \ {Pick(s)}] = Sum(s \ {Pick(s)})
      BY <3>1, <3>2, AddsUpSums
    <3> HIDE DEF Sum
    <3> QED BY <3>3, <3>4
  <2>2. ASSUME NEW s \in SUBSET U, s # {} PROVE h[s \ {Pick(s)}] = Sum(s \ {Pick(s)})
    <3>1. s \ {Pick(s)} \in SUBSET U /\ s \ {Pick(s)} # U
      BY <2>2, PickIn
    <3> HIDE DEF h, Sum
    <3> QED BY <2>1, <3>1
  <2>3. \A s \in SUBSET U :
          h[s] = IF s = {} THEN 0 ELSE f[Pick(s)] + h[s \ {Pick(s)}]
    <3> HIDE DEF Sum
    <3> SUFFICES ASSUME NEW s \in SUBSET U
                 PROVE h[s] = IF s = {} THEN 0 ELSE f[Pick(s)] + h[s \ {Pick(s)}]
      OBVIOUS
    <3>1. h[s] = IF s = {} THEN 0 ELSE f[Pick(s)] + Sum(s \ {Pick(s)})
      OBVIOUS
    <3> HIDE DEF h
    <3> QED BY <2>2, <3>1
  <2>4. h = [s \in SUBSET U |-> h[s]]
    OBVIOUS
  <2> HIDE DEF h
  <2>5. AddsUp(f, U, h)
    BY <2>3, <2>4 DEF AddsUp
  <2> QED BY <2>5
<1> HIDE DEF Good
<1>2. \A U \in SUBSET S : U \in Good
  BY <1>1, SubsetInduction
<1> QED BY <1>2 DEF Good

(* What the sum is, one element at a time.                                  *)
LEMMA SumEmpty == ASSUME NEW f PROVE SumFunctionOnSet(f, {}) = 0
<1>1. PICK g : AddsUp(f, {}, g)
  BY AddsUpExists, FS_EmptySet
<1>2. g[{}] = 0
  BY <1>1, AddsUpAt
<1>3. g[{}] = SumFunctionOnSet(f, {})
  BY <1>1, AddsUpSums, FS_EmptySet
<1> QED BY <1>2, <1>3

(* The sum takes the picked element first.                                  *)
LEMMA SumPicks ==
  ASSUME NEW f, NEW S, IsFiniteSet(S), S # {}
  PROVE  SumFunctionOnSet(f, S) = f[Pick(S)] + SumFunctionOnSet(f, S \ {Pick(S)})
<1>1. PICK g : AddsUp(f, S, g)
  BY AddsUpExists
<1>2. g[S] = f[Pick(S)] + g[S \ {Pick(S)}]
  BY <1>1, AddsUpAt
<1>3. g[S] = SumFunctionOnSet(f, S)
  BY <1>1, AddsUpSums
<1>4. g[S \ {Pick(S)}] = SumFunctionOnSet(f, S \ {Pick(S)})
  <2> DEFINE W == S \ {Pick(S)}
  <2>1. W \in SUBSET S
    OBVIOUS
  <2> HIDE DEF W
  <2>2. g[W] = SumFunctionOnSet(f, W)
    BY <1>1, <2>1, AddsUpSums
  <2> QED BY <2>2 DEF W
<1> QED BY <1>2, <1>3, <1>4

(* Integers add up to an integer.                                           *)
LEMMA SumIsInt ==
  ASSUME NEW f, NEW S, IsFiniteSet(S), \A x \in S : f[x] \in Int
  PROVE  SumFunctionOnSet(f, S) \in Int
<1> DEFINE Good == {s \in SUBSET S : SumFunctionOnSet(f, s) \in Int}
<1>1. ASSUME NEW U \in SUBSET S, \A V \in SUBSET U : V # U => V \in Good
      PROVE  U \in Good
  <2>1. CASE U = {}
    BY <2>1, SumEmpty
  <2>2. CASE U # {}
    <3>1. SumFunctionOnSet(f, U \ {Pick(U)}) \in Int /\ f[Pick(U)] \in Int
      BY <1>1, <2>2, PickIn
    <3>2. SumFunctionOnSet(f, U) = f[Pick(U)] + SumFunctionOnSet(f, U \ {Pick(U)})
      BY <2>2, SumPicks, FS_Subset
    <3> QED BY <3>1, <3>2
  <2> QED BY <2>1, <2>2
<1> HIDE DEF Good
<1>2. \A U \in SUBSET S : U \in Good
  BY <1>1, SubsetInduction
<1> QED BY <1>2 DEF Good

(* The order of the elements does not matter.                               *)
LEMMA SumTakes ==
  ASSUME NEW f, NEW S, IsFiniteSet(S), \A x \in S : f[x] \in Int, NEW x \in S
  PROVE  SumFunctionOnSet(f, S) = f[x] + SumFunctionOnSet(f, S \ {x})
<1> DEFINE Sum(s) == SumFunctionOnSet(f, s)
           Good == {s \in SUBSET S : \A y \in s : Sum(s) = f[y] + Sum(s \ {y})}
<1>1. ASSUME NEW U \in SUBSET S, \A V \in SUBSET U : V # U => V \in Good
      PROVE  U \in Good
  <2> SUFFICES ASSUME NEW y \in U PROVE Sum(U) = f[y] + Sum(U \ {y})
    OBVIOUS
  <2> DEFINE p == Pick(U)
             W == (U \ {p}) \ {y}
  <2>1. p \in U
    BY PickIn
  <2>2. Sum(U) = f[p] + Sum(U \ {p})
    BY SumPicks, FS_Subset
  <2>3. CASE y = p
    BY <2>2, <2>3
  <2>4. CASE y # p
    <3>1. U \ {p} \in Good /\ U \ {y} \in Good
      BY <1>1, <2>1
    <3>2. Sum(U \ {p}) = f[y] + Sum(W)
      BY <2>4, <3>1
    <3>3. (U \ {y}) \ {p} = W
      OBVIOUS
    <3>4. Sum(U \ {y}) = f[p] + Sum(W)
      BY <2>1, <2>4, <3>1, <3>3
    <3>5. IsFiniteSet(W) /\ W \subseteq S
      BY FS_Subset
    <3>6. Sum(W) \in Int /\ f[p] \in Int /\ f[y] \in Int
      BY <2>1, <3>5, SumIsInt
    <3> HIDE DEF Sum, p, W
    <3> QED BY <2>2, <3>2, <3>4, <3>6
  <2> QED BY <2>3, <2>4
<1> HIDE DEF Good
<1>2. \A U \in SUBSET S : U \in Good
  BY <1>1, SubsetInduction
<1> QED BY <1>2 DEF Good

(* A new element adds its term.                                             *)
LEMMA SumAdds ==
  ASSUME NEW f, NEW S, IsFiniteSet(S), \A y \in S : f[y] \in Int,
         NEW x, x \notin S, f[x] \in Int
  PROVE  SumFunctionOnSet(f, S \cup {x}) = f[x] + SumFunctionOnSet(f, S)
<1>1. IsFiniteSet(S \cup {x})
  BY FS_AddElement
<1>2. (S \cup {x}) \ {x} = S
  OBVIOUS
<1>3. \A y \in S \cup {x} : f[y] \in Int
  OBVIOUS
<1> QED BY <1>1, <1>2, <1>3, SumTakes

(* Terms that do not grow make a sum that does not grow.                    *)
LEMMA SumGrowsWithTerms ==
  ASSUME NEW S, IsFiniteSet(S), NEW f, NEW g,
         \A x \in S : f[x] \in Int /\ g[x] \in Int /\ f[x] <= g[x]
  PROVE  SumFunctionOnSet(f, S) <= SumFunctionOnSet(g, S)
<1> DEFINE F(s) == SumFunctionOnSet(f, s)
           G(s) == SumFunctionOnSet(g, s)
           Good == {s \in SUBSET S : F(s) <= G(s)}
<1>1. ASSUME NEW U \in SUBSET S, \A V \in SUBSET U : V # U => V \in Good
      PROVE  U \in Good
  <2>1. CASE U = {}
    BY <2>1, SumEmpty
  <2>2. CASE U # {}
    <3> DEFINE p == Pick(U)
               W == U \ {p}
    <3>1. p \in U /\ W \in Good
      BY <1>1, <2>2, PickIn
    <3>2. IsFiniteSet(U) /\ IsFiniteSet(W) /\ W \subseteq S
      BY FS_Subset
    <3>3. F(U) = f[p] + F(W) /\ G(U) = g[p] + G(W)
      BY <2>2, <3>2, SumPicks
    <3>4. F(W) \in Int /\ G(W) \in Int
      BY <3>2, SumIsInt
    <3>5. F(W) <= G(W) /\ f[p] \in Int /\ g[p] \in Int /\ f[p] <= g[p]
      BY <3>1
    <3> HIDE DEF F, G, p, W
    <3>6. F(U) <= G(U)
      BY <3>3, <3>4, <3>5
    <3> QED BY <3>6
  <2> QED BY <2>1, <2>2
<1> HIDE DEF Good
<1>2. \A U \in SUBSET S : U \in Good
  BY <1>1, SubsetInduction
<1> QED BY <1>2 DEF Good

(* The sum depends on the terms of its set alone.                           *)
LEMMA SumOfSameTerms ==
  ASSUME NEW S, IsFiniteSet(S), NEW f, NEW g,
         \A x \in S : f[x] \in Int /\ g[x] = f[x]
  PROVE  SumFunctionOnSet(g, S) = SumFunctionOnSet(f, S)
<1>1. SumFunctionOnSet(f, S) \in Int /\ SumFunctionOnSet(g, S) \in Int
  BY SumIsInt
<1>2. SumFunctionOnSet(f, S) <= SumFunctionOnSet(g, S)
  BY SumGrowsWithTerms
<1>3. SumFunctionOnSet(g, S) <= SumFunctionOnSet(f, S)
  BY SumGrowsWithTerms
<1> QED BY <1>1, <1>2, <1>3

(* A sum changes with the term of one element.                              *)
LEMMA SumChangesAt ==
  ASSUME NEW S, IsFiniteSet(S), NEW f, NEW g, NEW x \in S,
         \A y \in S : f[y] \in Int /\ g[y] \in Int,
         \A y \in S : y # x => g[y] = f[y]
  PROVE  SumFunctionOnSet(g, S) = SumFunctionOnSet(f, S) - f[x] + g[x]
<1> DEFINE W == S \ {x}
<1>1. IsFiniteSet(W) /\ \A y \in W : f[y] \in Int /\ g[y] = f[y]
  BY FS_Subset
<1>2. SumFunctionOnSet(f, S) = f[x] + SumFunctionOnSet(f, W)
  BY SumTakes
<1>3. SumFunctionOnSet(g, S) = g[x] + SumFunctionOnSet(g, W)
  BY SumTakes
<1> HIDE DEF W
<1>4. SumFunctionOnSet(g, W) = SumFunctionOnSet(f, W) /\ SumFunctionOnSet(f, W) \in Int
  BY <1>1, SumOfSameTerms, SumIsInt
<1> QED BY <1>2, <1>3, <1>4

-----------------------------------------------------------------------------
(* The monthly cap                                                          *)

Reserving == \E c \in Calls, t \in Terms : Reserve(c, t)

(* Everything but a reservation leaves the terms of all calls alone, and    *)
(* whether their keys are used.                                             *)
LEMMA TermsStay ==
  ASSUME IInv, [Next]_vars, ~Reserving
  PROVE  /\ terms' = terms
         /\ \A c \in Calls : status'[c] = "none" <=> status[c] = "none"
<1>1. terms' = terms
  BY DEF Next, vars, CycleStep, RecoveryStep, Reserving, callVars, moneyVars,
         EndWithoutCall, MarkDispatched, Send, Receive, RecordResult,
         ResultUnrecorded, FinishCycle, FinishFails, Crash, Age, RootReconciles,
         ListStale, RecoverCall, RecoverFails, Finalize, Credit, Reverse
<1>2. ASSUME NEW c \in Calls PROVE pc'[c] = "unused" <=> pc[c] = "unused"
  BY DEF Next, vars, CycleStep, RecoveryStep, Reserving, callVars, moneyVars, GoTo,
         EndWithoutCall, MarkDispatched, Send, Receive, RecordResult,
         ResultUnrecorded, FinishCycle, FinishFails, Crash, Age, RootReconciles,
         ListStale, RecoverCall, RecoverFails, Credit, Reverse, IInv, TypeOK
<1>3. IInv'
  BY NextInvariant
<1> QED BY <1>1, <1>2, <1>3 DEF IInv, UnusedIsBlank

(* A call counts for its worst case until it is closed, and then for no more. *)
CountsAtMost(c) ==
  /\ Counted(c) \in Nat
  /\ status[c] # "none" => /\ terms[c].worst \in Nat
                           /\ Counted(c) <= terms[c].worst
  /\ status[c] \notin Closed \cup {"none"} => Counted(c) = terms[c].worst

LEMMA CountedBounds == IInv => \A c \in Calls : CountsAtMost(c)
<1> SUFFICES ASSUME IInv, NEW c \in Calls PROVE CountsAtMost(c)
  OBVIOUS
<1> USE DEF CountsAtMost
<1>1. status[c] # "none" => terms[c].worst \in Nat
  BY WorstType DEF IInv, UnusedIsBlank
<1>2. debit[c] \in Nat /\ status[c] \in Statuses
  BY DEF IInv, TypeOK
<1>3. debit[c] > 0 => debit[c] <= terms[c].worst
  BY DEF IInv, DebitFitsStatus
<1>4. CASE status[c] \in {"none", "released"}
  BY <1>1, <1>4 DEF Counted, Closed
<1>5. CASE status[c] = "finalized"
  <2>1. Counted(c) = debit[c]
    BY <1>5 DEF Counted
  <2> QED BY <1>1, <1>2, <1>3, <1>5, <2>1 DEF Closed
<1>6. CASE status[c] \notin {"none", "released", "finalized"}
  <2>1. Counted(c) = terms[c].worst
    BY <1>6 DEF Counted
  <2> QED BY <1>1, <1>6, <2>1 DEF Closed
<1> QED BY <1>4, <1>5, <1>6

(* The same after a step.                                                   *)
LEMMA CountedBoundsNext == IInv' => \A c \in Calls : CountsAtMost(c)'
<1>1. (IInv => \A c \in Calls : CountsAtMost(c))'
  BY CountedBounds, PTL
<1> QED BY <1>1

(* Nothing but a reservation makes a call count for more.                   *)
LEMMA CountedFalls ==
  ASSUME IInv, [Next]_vars, ~Reserving, NEW c \in Calls
  PROVE  Counted(c)' <= Counted(c)
<1>1. IInv' /\ terms' = terms /\ (status'[c] = "none" <=> status[c] = "none")
  BY NextInvariant, TermsStay
<1>2. /\ Counted(c)' \in Nat
      /\ status'[c] # "none" => Counted(c)' <= terms[c].worst
  BY <1>1, CountedBoundsNext DEF CountsAtMost
<1>3. CASE status[c] = "none"
  BY <1>1, <1>3 DEF Counted
<1>4. CASE status[c] \notin Closed \cup {"none"}
  BY <1>1, <1>2, <1>4, CountedBounds DEF CountsAtMost
<1>5. CASE status[c] \in Closed
  <2>1. status'[c] = status[c] /\ debit'[c] = debit[c]
    BY <1>5, NextRowStep DEF RowStep, RowKept, RowMoves, Closed, RootReconciles
  <2>2. debit[c] \in Nat
    BY DEF IInv, TypeOK
  <2> QED BY <1>5, <2>1, <2>2 DEF Closed, Counted
<1> QED BY <1>3, <1>4, <1>5

(* Calls may be infinite, those used so far are not.                        *)
UsedCalls == {c \in Calls : status[c] # "none"}

MonthInv == IsFiniteSet(UsedCalls) /\ MonthWithinCap

(* A month of an agent is a sum of finitely many integers.                  *)
LEMMA MonthTerms ==
  ASSUME IInv, IsFiniteSet(UsedCalls), NEW a, NEW m
  PROVE  /\ IsFiniteSet(CallsOf(a, m)) /\ CallsOf(a, m) \subseteq Calls
         /\ \A c \in CallsOf(a, m) : [d \in Calls |-> Counted(d)][c] \in Int
         /\ MonthSpend(a, m) \in Int
<1>1. CallsOf(a, m) \subseteq UsedCalls /\ CallsOf(a, m) \subseteq Calls
  BY DEF CallsOf, UsedCalls
<1>2. IsFiniteSet(CallsOf(a, m))
  BY <1>1, FS_Subset
<1>3. \A c \in CallsOf(a, m) : [d \in Calls |-> Counted(d)][c] \in Int
  BY <1>1, CountedBounds DEF CountsAtMost
<1> QED BY <1>1, <1>2, <1>3, SumIsInt DEF MonthSpend

(* A reservation joins the month it was checked against, and no other.      *)
LEMMA ReserveMonth ==
  ASSUME IInv, MonthInv, NEW c \in Calls, NEW t \in Terms, Reserve(c, t), IInv'
  PROVE  MonthInv'
<1>1. /\ status[c] = "none" /\ status' = [status EXCEPT ![c] = "reserved"]
      /\ terms' = [terms EXCEPT ![c] = t] /\ debit' = debit /\ Admissible(t)
  BY DEF Reserve, Advance
<1>2. UsedCalls' = UsedCalls \cup {c}
  BY <1>1 DEF UsedCalls, IInv, TypeOK
<1>3. IsFiniteSet(UsedCalls')
  BY <1>2, FS_AddElement DEF MonthInv
<1>4. ASSUME NEW d \in Calls, d # c PROVE Counted(d)' = Counted(d)
  BY <1>1, <1>4 DEF Counted, IInv, TypeOK
<1>5. Counted(c)' = t.worst
  BY <1>1 DEF Counted, IInv, TypeOK
<1>6. ASSUME NEW a \in Agents, NEW m \in Months PROVE MonthSpend(a, m)' <= Cap[a]
  <2> DEFINE f == [d \in Calls |-> Counted(d)]
             g == [d \in Calls |-> Counted(d)']
             S == CallsOf(a, m)
  <2>1. IsFiniteSet(S) /\ S \subseteq Calls /\ (\A d \in S : f[d] \in Int)
        /\ MonthSpend(a, m) \in Int
    BY MonthTerms DEF MonthInv
  <2>2. c \notin S
    BY <1>1 DEF CallsOf
  <2>3. \A d \in S : g[d] = f[d]
    BY <1>4, <2>1, <2>2
  <2>4. SumFunctionOnSet(g, S) = SumFunctionOnSet(f, S)
    <3> HIDE DEF f, g, S
    <3> QED BY <2>1, <2>3, SumOfSameTerms
  <2>5. MonthSpend(a, m) = SumFunctionOnSet(f, S)
    BY DEF MonthSpend
  <2>6. MonthSpend(a, m)' = SumFunctionOnSet(g, CallsOf(a, m)')
    BY DEF MonthSpend
  <2>7. CASE t.agent = a /\ t.month = m
    <3>1. CallsOf(a, m)' = S \cup {c}
      BY <1>1, <2>7 DEF CallsOf, IInv, TypeOK
    <3>2. g[c] = t.worst /\ t.worst \in Int
      BY <1>5, WorstType
    <3>3. \A d \in S : g[d] \in Int
      BY <2>1, <2>3
    <3> HIDE DEF f, g, S
    <3>4. SumFunctionOnSet(g, S \cup {c}) = g[c] + SumFunctionOnSet(g, S)
      BY <2>1, <2>2, <3>2, <3>3, SumAdds
    <3>5. MonthSpend(a, m) + t.worst <= Cap[a]
      BY <1>1, <2>7 DEF Admissible
    <3> QED BY <2>1, <2>4, <2>5, <2>6, <3>1, <3>2, <3>4, <3>5
  <2>8. CASE ~(t.agent = a /\ t.month = m)
    <3>1. CallsOf(a, m)' = S
      BY <1>1, <2>8 DEF CallsOf, IInv, TypeOK
    <3> HIDE DEF f, g, S
    <3> QED BY <2>4, <2>5, <2>6, <3>1 DEF MonthInv, MonthWithinCap
  <2> QED BY <2>7, <2>8
<1> QED BY <1>3, <1>6 DEF MonthInv, MonthWithinCap

(* Every step keeps every month within its cap.                             *)
LEMMA NextMonth == IInv /\ MonthInv /\ [Next]_vars => MonthInv'
<1> SUFFICES ASSUME IInv, MonthInv, [Next]_vars PROVE MonthInv'
  OBVIOUS
<1>1. IInv'
  BY NextInvariant
<1>2. CASE Reserving
  BY <1>1, <1>2, ReserveMonth DEF Reserving
<1>3. CASE ~Reserving
  <2>1. terms' = terms /\ \A c \in Calls : status'[c] = "none" <=> status[c] = "none"
    BY <1>3, TermsStay
  <2>2. IsFiniteSet(UsedCalls')
    BY <2>1 DEF MonthInv, UsedCalls
  <2>3. ASSUME NEW a \in Agents, NEW m \in Months PROVE MonthSpend(a, m)' <= Cap[a]
    <3> DEFINE f == [d \in Calls |-> Counted(d)]
               g == [d \in Calls |-> Counted(d)']
               S == CallsOf(a, m)
    <3>1. CallsOf(a, m)' = S
      BY <2>1 DEF CallsOf
    <3>2. IsFiniteSet(S) /\ S \subseteq Calls /\ (\A d \in S : f[d] \in Int)
          /\ MonthSpend(a, m) \in Int
      BY MonthTerms DEF MonthInv
    <3>3. \A d \in Calls : Counted(d)' \in Int
      BY <1>1, CountedBoundsNext DEF CountsAtMost
    <3>4. \A d \in S : f[d] \in Int /\ g[d] \in Int /\ g[d] <= f[d]
      BY <1>3, <3>2, <3>3, CountedFalls
    <3>5. MonthSpend(a, m) = SumFunctionOnSet(f, S) /\ MonthSpend(a, m)' = SumFunctionOnSet(g, S)
      BY <3>1 DEF MonthSpend
    <3>6. MonthSpend(a, m) <= Cap[a] /\ Cap[a] \in Int
      BY ConstantsAssumption DEF MonthInv, MonthWithinCap
    <3> HIDE DEF f, g, S
    <3>7. SumFunctionOnSet(g, S) <= SumFunctionOnSet(f, S)
      BY <3>2, <3>4, SumGrowsWithTerms
    <3>8. SumFunctionOnSet(g, S) \in Int
      BY <3>2, <3>4, SumIsInt
    <3> QED BY <3>2, <3>5, <3>6, <3>7, <3>8
  <2> QED BY <2>2, <2>3 DEF MonthInv, MonthWithinCap
<1> QED BY <1>2, <1>3

(* Nothing is spent before anything is reserved.                            *)
LEMMA InitMonth == Init => MonthInv
<1> SUFFICES ASSUME Init PROVE MonthInv
  OBVIOUS
<1>1. UsedCalls = {}
  BY DEF Init, UsedCalls
<1>2. ASSUME NEW a \in Agents, NEW m \in Months PROVE MonthSpend(a, m) <= Cap[a]
  <2>1. CallsOf(a, m) = {}
    BY DEF Init, CallsOf
  <2>2. MonthSpend(a, m) = 0
    BY <2>1, SumEmpty DEF MonthSpend
  <2> QED BY <2>2, ConstantsAssumption
<1> QED BY <1>1, <1>2, FS_EmptySet DEF MonthInv, MonthWithinCap

(* However many cycles of an agent run at once, crash and are settled late, *)
(* no month of the agent ever counts for more than its cap.                 *)
THEOREM CapHolds == Spec => []MonthWithinCap
<1>1. MonthInv => MonthWithinCap
  BY DEF MonthInv
<1> QED BY <1>1, InitMonth, NextMonth, InductiveInvariant, PTL DEF Spec

-----------------------------------------------------------------------------
(* The balance                                                              *)

(* The sum of the rows of one owner, as the calls in tms say who owns them. *)
OwnedIn(rows, tms, o) == {r \in rows : OwnerOf[tms[r.key[2]].agent] = o}

RowSum(rows, tms, o) ==
  SumFunctionOnSet([r \in rows |-> r.amount], OwnedIn(rows, tms, o))

(* The balance is what the backend paid in and out, and the rows.           *)
LEMMA BalanceIsRowSum ==
  ASSUME NEW o
  PROVE  Balance(o) = credited[o] - reversed[o] + RowSum(ledger, terms, o)
BY DEF Balance, RowSum, OwnedIn, LedgerRowsOf, OwnerOfCall

(* Well-formed rows sum up to an integer.                                   *)
LEMMA RowSumIsInt ==
  ASSUME NEW rows, IsFiniteSet(rows), rows \subseteq Rows, NEW tms, NEW o
  PROVE  RowSum(rows, tms, o) \in Int
<1> DEFINE f == [r \in rows |-> r.amount]
           S == OwnedIn(rows, tms, o)
<1>1. S \subseteq rows
  BY DEF OwnedIn
<1>2. IsFiniteSet(S) /\ \A r \in S : f[r] \in Int
  BY <1>1, FS_Subset DEF Rows
<1> HIDE DEF f, S
<1>3. SumFunctionOnSet(f, S) \in Int
  BY <1>2, SumIsInt
<1> QED BY <1>3 DEF RowSum, f, S

(* A new row counts for the owner of its call and for nobody else.          *)
LEMMA RowCounts ==
  ASSUME NEW rows, IsFiniteSet(rows), rows \subseteq Rows, NEW tms, NEW o,
         NEW x \in Rows, x \notin rows
  PROVE  RowSum(rows \cup {x}, tms, o)
           = IF OwnerOf[tms[x.key[2]].agent] = o
             THEN RowSum(rows, tms, o) + x.amount ELSE RowSum(rows, tms, o)
<1> DEFINE f == [r \in rows |-> r.amount]
           g == [r \in rows \cup {x} |-> r.amount]
           S == OwnedIn(rows, tms, o)
<1>1. S \subseteq rows /\ x \notin S
  BY DEF OwnedIn
<1>2. IsFiniteSet(S) /\ \A r \in S : f[r] \in Int /\ g[r] = f[r]
  BY <1>1, FS_Subset DEF Rows
<1>3. g[x] = x.amount /\ x.amount \in Int
  BY DEF Rows
<1>4. OwnedIn(rows \cup {x}, tms, o)
        = IF OwnerOf[tms[x.key[2]].agent] = o THEN S \cup {x} ELSE S
  BY DEF OwnedIn
<1>5. RowSum(rows, tms, o) = SumFunctionOnSet(f, S)
  BY DEF RowSum
<1>6. RowSum(rows \cup {x}, tms, o)
        = SumFunctionOnSet(g, OwnedIn(rows \cup {x}, tms, o))
  BY DEF RowSum
<1> HIDE DEF f, g, S
<1>7. SumFunctionOnSet(g, S) = SumFunctionOnSet(f, S)
  BY <1>2, SumOfSameTerms
<1>8. SumFunctionOnSet(f, S) \in Int
  BY <1>2, SumIsInt
<1>9. SumFunctionOnSet(g, S \cup {x}) = g[x] + SumFunctionOnSet(g, S)
  BY <1>1, <1>2, <1>3, SumAdds
<1> QED BY <1>3, <1>4, <1>5, <1>6, <1>7, <1>8, <1>9

(* Only the terms of calls that have rows matter.                           *)
LEMMA RowsKeepOwners ==
  ASSUME NEW rows, NEW old, NEW new, NEW o,
         \A r \in rows : new[r.key[2]] = old[r.key[2]]
  PROVE  RowSum(rows, new, o) = RowSum(rows, old, o)
<1>1. OwnedIn(rows, new, o) = OwnedIn(rows, old, o)
  BY DEF OwnedIn
<1> QED BY <1>1 DEF RowSum

MoneyInv == IsFiniteSet(ledger) /\ NeverOverdrawn

(* Never overdrawn means: what was paid in covers the rows.                 *)
LEMMA OwnerMoney ==
  ASSUME IInv, IsFiniteSet(ledger), NEW o \in Owners
  PROVE  /\ credited[o] \in Nat /\ reversed[o] \in Nat
         /\ RowSum(ledger, terms, o) \in Int
         /\ Balance(o) + reversed[o] >= 0
              <=> credited[o] + RowSum(ledger, terms, o) >= 0
<1>1. credited[o] \in Nat /\ reversed[o] \in Nat
  BY ConstantsAssumption DEF IInv, TypeOK
<1>2. RowSum(ledger, terms, o) \in Int
  BY RowSumIsInt DEF IInv, TypeOK
<1>3. Balance(o) = credited[o] - reversed[o] + RowSum(ledger, terms, o)
  BY BalanceIsRowSum
<1> QED BY <1>1, <1>2, <1>3

(* What a reservation adds to the ledger, and to whom.                      *)
LEMMA ReserveRows ==
  ASSUME IInv, IsFiniteSet(ledger), NEW c \in Calls, NEW t \in Terms, Reserve(c, t)
  PROVE  /\ IsFiniteSet(ledger')
         /\ \A o \in Owners :
              RowSum(ledger', terms', o)
                = IF OwnerOf[t.agent] = o THEN RowSum(ledger, terms, o) - t.worst
                                          ELSE RowSum(ledger, terms, o)
<1> DEFINE x == Row("reserve", c, -t.worst)
<1>1. /\ status[c] = "none" /\ terms' = [terms EXCEPT ![c] = t]
      /\ ledger' = ledger \cup {x} /\ <<"reserve", c>> \notin Keys(ledger)
  BY DEF Reserve
<1>2. x \in Rows /\ x.key[2] = c /\ x.amount = -t.worst /\ x.key = <<"reserve", c>>
  BY WorstType, RowType DEF Row
<1> HIDE DEF x
<1>3. x \notin ledger /\ ledger \subseteq Rows
  BY <1>1, <1>2 DEF Keys, IInv, TypeOK
<1>4. IsFiniteSet(ledger')
  BY <1>1, FS_AddElement
<1>5. \A r \in ledger : terms'[r.key[2]] = terms[r.key[2]]
  <2>1. RowsOf(c) = {}
    BY <1>1 DEF IInv, LedgerMatchesCalls
  <2>2. \A r \in ledger : r.key[2] # c
    BY <2>1 DEF RowsOf, RowsIn
  <2>3. \A r \in ledger : r.key[2] \in Calls
    BY DEF IInv, TypeOK, Rows
  <2> QED BY <1>1, <2>2, <2>3 DEF IInv, TypeOK
<1>6. terms'[c] = t
  BY <1>1 DEF IInv, TypeOK
<1>7. ASSUME NEW o \in Owners
      PROVE  RowSum(ledger', terms', o)
               = IF OwnerOf[t.agent] = o THEN RowSum(ledger, terms, o) - t.worst
                                         ELSE RowSum(ledger, terms, o)
  <2>1. RowSum(ledger, terms', o) = RowSum(ledger, terms, o)
    BY <1>5, RowsKeepOwners
  <2>2. RowSum(ledger \cup {x}, terms', o)
          = IF OwnerOf[terms'[x.key[2]].agent] = o
            THEN RowSum(ledger, terms', o) + x.amount ELSE RowSum(ledger, terms', o)
    BY <1>2, <1>3, RowCounts
  <2>3. t.worst \in Nat
    BY WorstType
  <2>4. RowSum(ledger, terms, o) \in Int
    BY OwnerMoney
  <2> QED BY <1>1, <1>2, <1>6, <2>1, <2>2, <2>3, <2>4
<1> QED BY <1>4, <1>7

(* What settling a call that holds its reserve adds, and to whom.           *)
LEMMA SettleRows ==
  ASSUME IInv, IsFiniteSet(ledger), NEW c \in Calls, NEW n \in Nat,
         status[c] \notin {"none"} \cup Closed, debit[c] = 0,
         ledger' = WithDebit(WithRelease(ledger, c), c, n)
  PROVE  /\ IsFiniteSet(ledger')
         /\ \A o \in Owners :
              RowSum(ledger', terms, o)
                = IF OwnerOfCall(c) = o
                  THEN RowSum(ledger, terms, o) + terms[c].worst - n
                  ELSE RowSum(ledger, terms, o)
<1> DEFINE back == Row("release", c, terms[c].worst)
           taken == Row("debit", c, -n)
           given == ledger \cup {back}
<1>1. terms[c] \in Terms /\ RowsOf(c) = HeldRows(c)
  BY DEF IInv, UnusedIsBlank, LedgerMatchesCalls
<1>2. terms[c].worst \in Nat /\ ledger \subseteq Rows
  BY <1>1, WorstType DEF IInv, TypeOK
<1>3. /\ back \in Rows /\ back.key = <<"release", c>> /\ back.key[2] = c
      /\ back.amount = terms[c].worst
  BY <1>2, RowType DEF Row
<1>4. /\ taken \in Rows /\ taken.key = <<"debit", c>> /\ taken.key[2] = c
      /\ taken.amount = -n
  BY RowType DEF Row
<1>5. \A r \in ledger : r.key[2] = c => r.key = <<"reserve", c>>
  BY <1>1 DEF RowsOf, RowsIn, HeldRows, Row
<1>6. WithRelease(ledger, c) = given
  BY <1>1, ReleaseAdded
<1>7. n # 0 => ledger' = given \cup {taken}
  BY <1>1, <1>6, DebitAdded
<1>8. n = 0 => ledger' = given
  BY <1>6 DEF WithDebit
<1> HIDE DEF back, taken
<1>9. back \notin ledger /\ taken \notin given
  BY <1>3, <1>4, <1>5
<1>10. IsFiniteSet(given) /\ given \subseteq Rows
  BY <1>2, <1>3, FS_AddElement
<1>11. IsFiniteSet(ledger')
  <2> HIDE DEF given
  <2>1. IsFiniteSet(given \cup {taken})
    BY <1>10, FS_AddElement
  <2> QED BY <1>7, <1>8, <1>10, <2>1
<1>12. ASSUME NEW o \in Owners
       PROVE  RowSum(ledger', terms, o)
                = IF OwnerOfCall(c) = o
                  THEN RowSum(ledger, terms, o) + terms[c].worst - n
                  ELSE RowSum(ledger, terms, o)
  <2> DEFINE owns == OwnerOf[terms[c].agent] = o
             s == RowSum(ledger, terms, o)
             sg == RowSum(given, terms, o)
             sn == RowSum(ledger', terms, o)
  <2>1. s \in Int
    BY OwnerMoney
  <2>2. sg = IF owns THEN s + terms[c].worst ELSE s
    BY <1>2, <1>3, <1>9, RowCounts
  <2>3. n # 0 => sn = IF owns THEN sg - n ELSE sg
    <3>1. RowSum(given \cup {taken}, terms, o) = IF owns THEN sg + taken.amount ELSE sg
      <4> HIDE DEF given
      <4> QED BY <1>4, <1>9, <1>10, RowCounts
    <3>2. sg \in Int
      BY <1>2, <2>1, <2>2
    <3> QED BY <1>4, <1>7, <3>1, <3>2
  <2>4. n = 0 => sn = sg
    BY <1>8
  <2>5. OwnerOfCall(c) = o <=> owns
    BY DEF OwnerOfCall
  <2> HIDE DEF owns, s, sg, sn
  <2>6. sn = IF owns THEN s + terms[c].worst - n ELSE s
    BY <1>2, <2>1, <2>2, <2>3, <2>4
  <2> QED BY <2>5, <2>6 DEF s, sn
<1> QED BY <1>11, <1>12

(* A reservation only takes what is there.                                  *)
LEMMA ReserveMoney ==
  ASSUME IInv, MoneyInv, NEW c \in Calls, NEW t \in Terms, Reserve(c, t)
  PROVE  MoneyInv'
<1>1. Admissible(t) /\ UNCHANGED moneyVars
  BY DEF Reserve
<1>2. ASSUME NEW o \in Owners PROVE Balance(o)' + reversed'[o] >= 0
  <2>1. RowSum(ledger', terms', o)
          = IF OwnerOf[t.agent] = o THEN RowSum(ledger, terms, o) - t.worst
                                    ELSE RowSum(ledger, terms, o)
    BY ReserveRows DEF MoneyInv
  <2>2. Balance(o)' = credited[o] - reversed[o] + RowSum(ledger', terms', o)
        /\ reversed'[o] = reversed[o]
    BY <1>1 DEF Balance, RowSum, OwnedIn, LedgerRowsOf, OwnerOfCall, moneyVars
  <2>3. Balance(o) = credited[o] - reversed[o] + RowSum(ledger, terms, o)
    BY BalanceIsRowSum
  <2>4. /\ credited[o] \in Nat /\ reversed[o] \in Nat /\ t.worst \in Nat
        /\ RowSum(ledger, terms, o) \in Int
    BY OwnerMoney, WorstType DEF MoneyInv
  <2>5. OwnerOf[t.agent] = o => Balance(o) >= t.worst
    BY <1>1 DEF Admissible
  <2>6. Balance(o) + reversed[o] >= 0
    BY DEF MoneyInv, NeverOverdrawn
  <2> QED BY <2>1, <2>2, <2>3, <2>4, <2>5, <2>6
<1> QED BY <1>2, ReserveRows DEF MoneyInv, NeverOverdrawn

(* Settling a call that holds its reserve gives back at least what it takes. *)
LEMMA SettleMoney ==
  ASSUME IInv, MoneyInv, NEW c \in Calls, NEW n \in Nat, n <= terms[c].worst,
         status[c] \notin {"none"} \cup Closed, debit[c] = 0,
         ledger' = WithDebit(WithRelease(ledger, c), c, n),
         UNCHANGED <<terms, moneyVars>>
  PROVE  MoneyInv'
<1>1. terms[c].worst \in Nat
  BY WorstType DEF IInv, UnusedIsBlank
<1>2. ASSUME NEW o \in Owners PROVE Balance(o)' + reversed'[o] >= 0
  <2>1. /\ credited[o] \in Nat /\ reversed[o] \in Nat
        /\ RowSum(ledger, terms, o) \in Int
        /\ credited[o] + RowSum(ledger, terms, o) >= 0
    BY OwnerMoney DEF MoneyInv, NeverOverdrawn
  <2>2. RowSum(ledger', terms, o)
          = IF OwnerOfCall(c) = o THEN RowSum(ledger, terms, o) + terms[c].worst - n
                                  ELSE RowSum(ledger, terms, o)
    BY SettleRows DEF MoneyInv
  <2>3. Balance(o)' = credited[o] - reversed[o] + RowSum(ledger', terms, o)
        /\ reversed'[o] = reversed[o]
    BY DEF Balance, RowSum, OwnedIn, LedgerRowsOf, OwnerOfCall, moneyVars
  <2> QED BY <1>1, <2>1, <2>2, <2>3
<1> QED BY <1>2, SettleRows DEF MoneyInv, NeverOverdrawn

(* A step that touches no row takes nothing from what the owner paid in.    *)
LEMMA SameRowsMoney ==
  ASSUME IInv, MoneyInv, UNCHANGED <<ledger, terms>>,
         \A o \in Owners : credited'[o] \in Nat /\ reversed'[o] \in Nat
                           /\ credited'[o] >= credited[o]
  PROVE  MoneyInv'
<1>1. ASSUME NEW o \in Owners PROVE Balance(o)' + reversed'[o] >= 0
  <2>1. /\ credited[o] \in Nat /\ reversed[o] \in Nat
        /\ RowSum(ledger, terms, o) \in Int
        /\ credited[o] + RowSum(ledger, terms, o) >= 0
    BY OwnerMoney DEF MoneyInv, NeverOverdrawn
  <2>2. Balance(o)' = credited'[o] - reversed'[o] + RowSum(ledger, terms, o)
    BY DEF Balance, RowSum, OwnedIn, LedgerRowsOf, OwnerOfCall
  <2> QED BY <2>1, <2>2
<1> QED BY <1>1 DEF MoneyInv, NeverOverdrawn

(* Finalisation settles a call that holds its reserve, or moves no money.   *)
LEMMA FinalizeMoney ==
  ASSUME IInv, MoneyInv, NEW c \in Calls, NEW recovering, Finalize(c, recovering),
         UNCHANGED moneyVars
  PROVE  MoneyInv'
<1>1. UNCHANGED terms
  BY DEF Finalize
<1>2. UNCHANGED ledger => MoneyInv'
  BY <1>1, SameRowsMoney, ConstantsAssumption DEF moneyVars, IInv, TypeOK
<1>3. CASE Release(c)
  <2>1. ledger' = WithDebit(WithRelease(ledger, c), c, 0)
    BY <1>3 DEF Release, WithDebit
  <2>2. /\ status[c] \notin {"none"} \cup Closed /\ debit[c] = 0
        /\ terms[c].worst >= 0
    BY <1>3, WorstType DEF Release, Closed, IInv, TypeOK, DebitFitsStatus, UnusedIsBlank
  <2> QED BY <1>1, <2>1, <2>2, SettleMoney
<1>4. CASE ChargeUsage(c)
  <2> DEFINE n == IF usage[c] > terms[c].worst THEN terms[c].worst ELSE usage[c]
  <2>1. /\ status[c] = "answered" /\ usage[c] # Unpriceable
        /\ ledger' = WithDebit(WithRelease(ledger, c), c, n)
    BY <1>4 DEF ChargeUsage
  <2>2. status[c] \notin {"none"} \cup Closed /\ debit[c] = 0
    BY <2>1 DEF Closed, IInv, TypeOK, DebitFitsStatus
  <2>3. terms[c].worst \in Nat /\ usage[c] \in Nat
    BY <2>1, WorstType, ConstantsAssumption DEF IInv, TypeOK, UnusedIsBlank
  <2>4. n \in Nat /\ n <= terms[c].worst
    BY <2>3
  <2> HIDE DEF n
  <2> QED BY <1>1, <2>1, <2>2, <2>4, SettleMoney
<1> QED BY <1>2, <1>3, <1>4 DEF Finalize, MarkUncertain, LeaveAlone

(* Root settles a call that holds its reserve, or accepts a debit made.     *)
LEMMA ReconcileMoney ==
  ASSUME IInv, MoneyInv, NEW c \in Calls, RootReconciles(c)
  PROVE  MoneyInv'
<1>1. UNCHANGED <<terms, moneyVars>> /\ status[c] = "uncertain"
  BY DEF RootReconciles
<1>2. /\ status[c] \notin {"none"} \cup Closed
      /\ terms[c].worst \in Nat
  BY <1>1, WorstType DEF Closed, IInv, UnusedIsBlank
<1>3. CASE debit[c] = 0 /\ ledger' = WithRelease(ledger, c)
  <2>1. ledger' = WithDebit(WithRelease(ledger, c), c, 0)
    BY <1>3 DEF WithDebit
  <2> QED BY <1>1, <1>2, <1>3, <2>1, SettleMoney
<1>4. ASSUME NEW n \in Prices \ {0}, n <= terms[c].worst, debit[c] = 0,
             ledger' = WithDebit(WithRelease(ledger, c), c, n)
      PROVE  MoneyInv'
  <2>1. n \in Nat
    BY ConstantsAssumption
  <2> QED BY <1>1, <1>2, <1>4, <2>1, SettleMoney
<1>5. CASE UNCHANGED ledger
  BY <1>1, <1>5, SameRowsMoney, ConstantsAssumption DEF moneyVars, IInv, TypeOK
<1> QED BY <1>3, <1>4, <1>5 DEF RootReconciles

(* Every step keeps every owner covered.                                    *)
LEMMA NextMoney == IInv /\ MoneyInv /\ [Next]_vars => MoneyInv'
<1> SUFFICES ASSUME IInv, MoneyInv, [Next]_vars PROVE MoneyInv'
  OBVIOUS
<1>1. IInv'
  BY NextInvariant
<1>2. CASE Reserving
  BY <1>2, ReserveMoney DEF Reserving
<1>3. CASE \E c \in Calls : FinishCycle(c)
  BY <1>3, FinalizeMoney DEF FinishCycle
<1>4. CASE \E r \in Replicas, c \in Calls : RecoverCall(r, c)
  BY <1>4, FinalizeMoney DEF RecoverCall
<1>5. CASE \E c \in Calls : RootReconciles(c)
  BY <1>5, ReconcileMoney
<1>6. CASE UNCHANGED <<ledger, terms, moneyVars>>
  BY <1>6, SameRowsMoney, ConstantsAssumption DEF moneyVars, IInv, TypeOK
<1>7. CASE \E o \in Owners : Credit(o) \/ Reverse(o)
  <2>1. UNCHANGED <<ledger, terms>>
    BY <1>7 DEF Credit, Reverse, callVars
  <2>2. \A o \in Owners : credited'[o] \in Nat /\ reversed'[o] \in Nat
    BY <1>1, ConstantsAssumption DEF IInv, TypeOK
  <2>3. \A o \in Owners : credited'[o] >= credited[o]
    BY <1>7, ConstantsAssumption DEF Credit, Reverse, IInv, TypeOK
  <2> QED BY <2>1, <2>2, <2>3, SameRowsMoney
<1>8. CASE \/ \E c \in Calls : \/ EndWithoutCall(c) \/ MarkDispatched(c) \/ Send(c)
                               \/ Receive(c) \/ RecordResult(c) \/ ResultUnrecorded(c)
                               \/ FinishFails(c) \/ Crash(c) \/ Age(c)
           \/ \E r \in Replicas : ListStale(r)
           \/ \E r \in Replicas, c \in Calls : RecoverFails(r, c)
           \/ UNCHANGED vars
  <2>1. UNCHANGED <<ledger, terms, moneyVars>>
    BY <1>8 DEF vars, EndWithoutCall, MarkDispatched, Send, Receive, RecordResult,
                ResultUnrecorded, FinishFails, Crash, Age, ListStale, RecoverFails,
                callVars
  <2> QED BY <1>6, <2>1
<1> QED BY <1>2, <1>3, <1>4, <1>5, <1>7, <1>8
        DEF Next, CycleStep, RecoveryStep, Reserving

(* There is nothing to cover before anything is reserved.                   *)
LEMMA InitMoney == Init => MoneyInv
<1> SUFFICES ASSUME Init PROVE MoneyInv
  OBVIOUS
<1>1. ledger = {}
  BY DEF Init
<1>2. ASSUME NEW o \in Owners PROVE Balance(o) + reversed[o] >= 0
  <2>1. RowSum(ledger, terms, o) = 0
    <3>1. OwnedIn(ledger, terms, o) = {}
      BY <1>1 DEF OwnedIn
    <3> QED BY <3>1, SumEmpty DEF RowSum
  <2> QED BY <2>1, BalanceIsRowSum DEF Init
<1> QED BY <1>1, <1>2, FS_EmptySet DEF MoneyInv, NeverOverdrawn

(* Charges and open holds never exceed what the owner paid in: a row that   *)
(* takes money was covered when it was written, or is covered by its hold.  *)
THEOREM OwnersPayFirst == Spec => []NeverOverdrawn
<1>1. MoneyInv => NeverOverdrawn
  BY DEF MoneyInv
<1> QED BY <1>1, InitMoney, NextMoney, InductiveInvariant, PTL DEF Spec

-----------------------------------------------------------------------------
(* The two books                                                            *)

(* Only finitely many rows are ever written.                                *)
Finite == IsFiniteSet(ledger) /\ IsFiniteSet(UsedCalls)

(* What the calls of an owner count for is a sum of finitely many integers. *)
LEMMA OwnerTerms ==
  ASSUME IInv, Finite, NEW o
  PROVE  /\ IsFiniteSet(CallsOfOwner(o)) /\ CallsOfOwner(o) \subseteq Calls
         /\ \A c \in Calls : status[c] # "none" => Counted(c) \in Int
         /\ SpendOf(o) \in Int
<1>1. CallsOfOwner(o) \subseteq UsedCalls /\ CallsOfOwner(o) \subseteq Calls
  BY DEF CallsOfOwner, UsedCalls
<1>2. IsFiniteSet(CallsOfOwner(o))
  BY <1>1, FS_Subset DEF Finite
<1>3. \A c \in Calls : Counted(c) \in Int
  BY CountedBounds DEF CountsAtMost
<1>4. \A c \in CallsOfOwner(o) : [d \in Calls |-> Counted(d)][c] \in Int
  BY <1>1, <1>3
<1> QED BY <1>1, <1>2, <1>3, <1>4, SumIsInt DEF SpendOf

(* The books agree when the rows of an owner cancel what the calls count for. *)
Cancel(o) == RowSum(ledger, terms, o) = -SpendOf(o)

LEMMA BooksCancel ==
  IInv /\ Finite => (BooksAgree <=> \A o \in Owners : Cancel(o))
<1> SUFFICES ASSUME IInv, Finite, NEW o \in Owners
             PROVE  Balance(o) = credited[o] - reversed[o] - SpendOf(o) <=> Cancel(o)
  BY DEF BooksAgree
<1>1. /\ credited[o] \in Nat /\ reversed[o] \in Nat
      /\ RowSum(ledger, terms, o) \in Int /\ SpendOf(o) \in Int
  BY OwnerMoney, OwnerTerms DEF Finite
<1>2. Balance(o) = credited[o] - reversed[o] + RowSum(ledger, terms, o)
  BY BalanceIsRowSum
<1> QED BY <1>1, <1>2 DEF Cancel

(* A reservation takes from the ledger what the new call counts for.        *)
LEMMA ReserveCancels ==
  ASSUME IInv, Finite, NEW c \in Calls, NEW t \in Terms, Reserve(c, t), IInv',
         NEW o \in Owners, Cancel(o)
  PROVE  Cancel(o)'
<1> DEFINE f == [d \in Calls |-> Counted(d)]
           g == [d \in Calls |-> Counted(d)']
           S == CallsOfOwner(o)
<1>1. /\ status[c] = "none" /\ status' = [status EXCEPT ![c] = "reserved"]
      /\ terms' = [terms EXCEPT ![c] = t] /\ debit' = debit
  BY DEF Reserve, Advance
<1>2. IsFiniteSet(S) /\ S \subseteq Calls /\ (\A d \in S : f[d] \in Int)
      /\ SpendOf(o) \in Int
  BY OwnerTerms DEF CallsOfOwner
<1>3. c \notin S
  BY <1>1 DEF CallsOfOwner
<1>4. \A d \in S : g[d] = f[d]
  BY <1>1, <1>2, <1>3 DEF Counted, IInv, TypeOK
<1>5. g[c] = t.worst /\ t.worst \in Int
  BY <1>1, WorstType DEF Counted, IInv, TypeOK
<1>6. CallsOfOwner(o)' = IF OwnerOf[t.agent] = o THEN S \cup {c} ELSE S
  BY <1>1 DEF CallsOfOwner, OwnerOfCall, IInv, TypeOK
<1>7. RowSum(ledger', terms', o)
        = IF OwnerOf[t.agent] = o THEN RowSum(ledger, terms, o) - t.worst
                                  ELSE RowSum(ledger, terms, o)
  BY ReserveRows DEF Finite
<1>8. SpendOf(o) = SumFunctionOnSet(f, S)
      /\ SpendOf(o)' = SumFunctionOnSet(g, CallsOfOwner(o)')
  BY DEF SpendOf
<1>9. RowSum(ledger, terms, o) \in Int
  BY OwnerMoney DEF Finite
<1> HIDE DEF f, g, S
<1>10. SumFunctionOnSet(g, S) = SumFunctionOnSet(f, S)
  BY <1>2, <1>4, SumOfSameTerms
<1>11. SumFunctionOnSet(g, S \cup {c}) = g[c] + SumFunctionOnSet(g, S)
  BY <1>2, <1>3, <1>4, <1>5, SumAdds
<1> QED BY <1>2, <1>5, <1>6, <1>7, <1>8, <1>9, <1>10, <1>11 DEF Cancel

(* Settling a call makes it count for its debit, in both books.             *)
LEMMA SettleCancels ==
  ASSUME IInv, Finite, NEW c \in Calls, NEW n \in Nat,
         status[c] \notin {"none"} \cup Closed, debit[c] = 0,
         ledger' = WithDebit(WithRelease(ledger, c), c, n),
         NEW to \in {"released", "finalized", "uncertain"}, Close(c, to, n),
         to = "released" => n = 0, to = "uncertain" => n = terms[c].worst,
         UNCHANGED terms, NEW o \in Owners, Cancel(o)
  PROVE  Cancel(o)'
<1> DEFINE f == [d \in Calls |-> Counted(d)]
           g == [d \in Calls |-> Counted(d)']
           S == CallsOfOwner(o)
<1>1. /\ status' = [status EXCEPT ![c] = to] /\ debit' = [debit EXCEPT ![c] = n]
  BY DEF Close, Advance
<1>2. IsFiniteSet(S) /\ S \subseteq Calls /\ (\A d \in S : f[d] \in Int)
      /\ SpendOf(o) \in Int
  BY OwnerTerms DEF CallsOfOwner
<1>3. g[c] = n
  BY <1>1 DEF Counted, IInv, TypeOK
<1>4. f[c] = terms[c].worst /\ terms[c].worst \in Int
  BY CountedBounds, WorstType DEF CountsAtMost, Closed, IInv, UnusedIsBlank
<1>5. \A d \in S : d # c => g[d] = f[d]
  BY <1>1, <1>2 DEF Counted, IInv, TypeOK
<1>6. CallsOfOwner(o)' = S
  BY <1>1 DEF CallsOfOwner, OwnerOfCall, IInv, TypeOK
<1>7. c \in S <=> OwnerOfCall(c) = o
  BY DEF CallsOfOwner
<1>8. RowSum(ledger', terms', o)
        = IF OwnerOfCall(c) = o THEN RowSum(ledger, terms, o) + terms[c].worst - n
                                ELSE RowSum(ledger, terms, o)
  BY SettleRows DEF Finite
<1>9. SpendOf(o) = SumFunctionOnSet(f, S) /\ SpendOf(o)' = SumFunctionOnSet(g, S)
  BY <1>6 DEF SpendOf
<1>10. RowSum(ledger, terms, o) \in Int
  BY OwnerMoney DEF Finite
<1> HIDE DEF f, g, S
<1>11. CASE c \in S
  <2>1. \A d \in S : f[d] \in Int /\ g[d] \in Int
    BY <1>2, <1>3, <1>5
  <2>2. SumFunctionOnSet(g, S) = SumFunctionOnSet(f, S) - f[c] + g[c]
    BY <1>2, <1>5, <1>11, <2>1, SumChangesAt
  <2> QED BY <1>2, <1>3, <1>4, <1>7, <1>8, <1>9, <1>10, <1>11, <2>2 DEF Cancel
<1>12. CASE c \notin S
  <2>1. SumFunctionOnSet(g, S) = SumFunctionOnSet(f, S)
    BY <1>2, <1>5, <1>12, SumOfSameTerms
  <2> QED BY <1>7, <1>8, <1>9, <1>12, <2>1 DEF Cancel
<1> QED BY <1>11, <1>12

(* A call counts the same in every status in which its hold is open.        *)
Open(s) == s \notin {"none"} \cup Closed

(* A step that touches no row, and closes and opens no call.                *)
LEMMA SameBooks ==
  ASSUME IInv, Finite, UNCHANGED <<ledger, terms>>,
         \A d \in Calls : \/ status'[d] = status[d] /\ debit'[d] = debit[d]
                          \/ Open(status[d]) /\ Open(status'[d]),
         NEW o \in Owners, Cancel(o)
  PROVE  Cancel(o)'
<1>1. \A d \in Calls : Counted(d)' = Counted(d)
  BY DEF Counted, Open, Closed
<1>2. CallsOfOwner(o)' = CallsOfOwner(o)
  BY DEF CallsOfOwner, OwnerOfCall, Open
<1>3. [d \in Calls |-> Counted(d)]' = [d \in Calls |-> Counted(d)]
  BY <1>1
<1>4. SpendOf(o)' = SpendOf(o)
  BY <1>2, <1>3 DEF SpendOf
<1> QED BY <1>4 DEF Cancel

(* Finalisation, by the cycle or by recovery.                               *)
LEMMA FinalizeCancels ==
  ASSUME IInv, Finite, NEW c \in Calls, NEW recovering, Finalize(c, recovering),
         NEW o \in Owners, Cancel(o)
  PROVE  Cancel(o)'
<1>1. UNCHANGED terms
  BY DEF Finalize
<1>2. CASE Release(c)
  <2>1. ledger' = WithDebit(WithRelease(ledger, c), c, 0) /\ Close(c, "released", 0)
    BY <1>2 DEF Release, WithDebit
  <2>2. status[c] \notin {"none"} \cup Closed /\ debit[c] = 0
    BY <1>2 DEF Release, Closed, IInv, TypeOK, DebitFitsStatus
  <2> QED BY <1>1, <2>1, <2>2, SettleCancels
<1>3. CASE ChargeUsage(c)
  <2> DEFINE n == IF usage[c] > terms[c].worst THEN terms[c].worst ELSE usage[c]
             to == IF usage[c] > terms[c].worst THEN "uncertain" ELSE "finalized"
  <2>1. /\ status[c] = "answered" /\ usage[c] # Unpriceable
        /\ ledger' = WithDebit(WithRelease(ledger, c), c, n) /\ Close(c, to, n)
    BY <1>3 DEF ChargeUsage
  <2>2. status[c] \notin {"none"} \cup Closed /\ debit[c] = 0
    BY <2>1 DEF Closed, IInv, TypeOK, DebitFitsStatus
  <2>3. terms[c].worst \in Nat /\ usage[c] \in Nat
    BY <2>1, WorstType, ConstantsAssumption DEF IInv, TypeOK, UnusedIsBlank
  <2>4. /\ n \in Nat /\ to \in {"finalized", "uncertain"}
        /\ to = "uncertain" => n = terms[c].worst
    BY <2>3
  <2> HIDE DEF n, to
  <2> QED BY <1>1, <2>1, <2>2, <2>4, SettleCancels
<1>4. CASE MarkUncertain(c) \/ LeaveAlone(c, recovering)
  <2>1. /\ UNCHANGED <<ledger, debit>>
        /\ \/ UNCHANGED status
           \/ /\ status[c] \in {"dispatched", "answered"}
              /\ status' = [status EXCEPT ![c] = "uncertain"]
    BY <1>4 DEF MarkUncertain, LeaveAlone, Advance
  <2>2. \A d \in Calls : \/ status'[d] = status[d] /\ debit'[d] = debit[d]
                         \/ Open(status[d]) /\ Open(status'[d])
    BY <2>1 DEF Open, Closed, IInv, TypeOK
  <2> QED BY <1>1, <2>1, <2>2, SameBooks
<1> QED BY <1>2, <1>3, <1>4 DEF Finalize

(* Root gives back, charges, or accepts the charge of the whole hold.       *)
LEMMA ReconcileCancels ==
  ASSUME IInv, Finite, NEW c \in Calls, RootReconciles(c), NEW o \in Owners, Cancel(o)
  PROVE  Cancel(o)'
<1>1. UNCHANGED terms /\ status[c] = "uncertain"
  BY DEF RootReconciles
<1>2. status[c] \notin {"none"} \cup Closed
  BY <1>1 DEF Closed
<1>3. CASE debit[c] = 0 /\ ledger' = WithRelease(ledger, c) /\ Close(c, "released", 0)
  <2>1. ledger' = WithDebit(WithRelease(ledger, c), c, 0)
    BY <1>3 DEF WithDebit
  <2> QED BY <1>1, <1>2, <1>3, <2>1, SettleCancels
<1>4. ASSUME NEW n \in Prices \ {0}, n <= terms[c].worst, debit[c] = 0,
             ledger' = WithDebit(WithRelease(ledger, c), c, n),
             Close(c, "finalized", n)
      PROVE  Cancel(o)'
  <2>1. n \in Nat
    BY ConstantsAssumption
  <2> QED BY <1>1, <1>2, <1>4, <2>1, SettleCancels
<1>5. CASE debit[c] # 0 /\ Close(c, "finalized", debit[c]) /\ UNCHANGED ledger
  <2>1. /\ status' = [status EXCEPT ![c] = "finalized"] /\ debit' = debit
        /\ debit[c] = terms[c].worst
    BY <1>1, <1>5 DEF Close, Advance, IInv, TypeOK, DebitFitsStatus
  <2>2. \A d \in Calls : Counted(d)' = Counted(d)
    BY <1>1, <2>1 DEF Counted, IInv, TypeOK
  <2>3. CallsOfOwner(o)' = CallsOfOwner(o)
    BY <1>1, <2>1 DEF CallsOfOwner, OwnerOfCall, IInv, TypeOK
  <2>4. SpendOf(o)' = SpendOf(o)
    <3>1. [d \in Calls |-> Counted(d)]' = [d \in Calls |-> Counted(d)]
      BY <2>2
    <3> QED BY <2>3, <3>1 DEF SpendOf
  <2> QED BY <1>1, <1>5, <2>4 DEF Cancel
<1> QED BY <1>3, <1>4, <1>5 DEF RootReconciles

(* No step lets an owner's rows and calls differ.                           *)
LEMMA NextCancels ==
  ASSUME IInv, Finite, [Next]_vars, NEW o \in Owners, Cancel(o)
  PROVE  Cancel(o)'
<1>1. IInv'
  BY NextInvariant
<1>2. CASE Reserving
  BY <1>1, <1>2, ReserveCancels DEF Reserving
<1>3. CASE \E c \in Calls : FinishCycle(c)
  BY <1>3, FinalizeCancels DEF FinishCycle
<1>4. CASE \E r \in Replicas, c \in Calls : RecoverCall(r, c)
  BY <1>4, FinalizeCancels DEF RecoverCall
<1>5. CASE \E c \in Calls : RootReconciles(c)
  BY <1>5, ReconcileCancels
<1>6. CASE \/ \E c \in Calls : \/ EndWithoutCall(c) \/ Send(c) \/ Receive(c)
                               \/ ResultUnrecorded(c) \/ FinishFails(c) \/ Crash(c)
                               \/ Age(c)
           \/ \E r \in Replicas : ListStale(r)
           \/ \E r \in Replicas, c \in Calls : RecoverFails(r, c)
           \/ \E p \in Owners : Credit(p) \/ Reverse(p)
           \/ UNCHANGED vars
  <2>1. UNCHANGED <<ledger, terms, status, debit>>
    BY <1>6 DEF vars, EndWithoutCall, Send, Receive, ResultUnrecorded, FinishFails,
                Crash, Age, ListStale, RecoverFails, Credit, Reverse, callVars
  <2> QED BY <2>1, SameBooks
<1>7. CASE \E c \in Calls : MarkDispatched(c) \/ RecordResult(c)
  <2>1. PICK c \in Calls : MarkDispatched(c) \/ RecordResult(c)
    BY <1>7
  <2>2. /\ UNCHANGED <<ledger, terms, debit>>
        /\ \E to \in {"dispatched", "answered", "rejected", "uncertain", "reserved"} :
             status' = [status EXCEPT ![c] = to]
        /\ status[c] \in {"reserved", "dispatched"}
    BY <2>1 DEF MarkDispatched, RecordResult, Advance, ResultStatus, GoTo, IInv,
                CycleFitsRow
  <2>3. \A d \in Calls : \/ status'[d] = status[d] /\ debit'[d] = debit[d]
                         \/ Open(status[d]) /\ Open(status'[d])
    BY <2>2 DEF Open, Closed, IInv, TypeOK
  <2> QED BY <2>2, <2>3, SameBooks
<1> QED BY <1>2, <1>3, <1>4, <1>5, <1>6, <1>7
        DEF Next, CycleStep, RecoveryStep, Reserving

(* At first there are neither rows nor calls.                               *)
LEMMA InitBooks == Init => BooksAgree
<1> SUFFICES ASSUME Init, NEW o \in Owners
             PROVE  Balance(o) = credited[o] - reversed[o] - SpendOf(o)
  BY DEF BooksAgree
<1>1. OwnedIn(ledger, terms, o) = {} /\ CallsOfOwner(o) = {}
  BY DEF Init, OwnedIn, CallsOfOwner
<1>2. RowSum(ledger, terms, o) = 0 /\ SpendOf(o) = 0
  BY <1>1, SumEmpty DEF RowSum, SpendOf
<1> QED BY <1>2, BalanceIsRowSum DEF Init

(* What the ledger has taken from an owner is what the monthly check counts *)
(* for the owner's calls, at every moment: the balance and the caps judge   *)
(* by the same money.                                                       *)
THEOREM TwoBooksAgree == Spec => []BooksAgree
<1>1. IInv /\ MonthInv /\ MoneyInv => Finite
  BY DEF MonthInv, MoneyInv, Finite
<1>2. IInv /\ Finite /\ BooksAgree /\ [Next]_vars => (Finite' => BooksAgree')
  <2> SUFFICES ASSUME IInv, Finite, BooksAgree, [Next]_vars, Finite' PROVE BooksAgree'
    OBVIOUS
  <2>1. \A o \in Owners : Cancel(o)'
    BY BooksCancel, NextCancels
  <2>2. (IInv /\ Finite => (BooksAgree <=> \A o \in Owners : Cancel(o)))'
    BY BooksCancel, PTL
  <2>3. IInv'
    BY NextInvariant
  <2> QED BY <2>1, <2>2, <2>3
<1> QED BY <1>1, <1>2, InitBooks, InitMonth, NextMonth, InitMoney, NextMoney,
           InductiveInvariant, PTL DEF Spec

-----------------------------------------------------------------------------
(* The protocol implements the abstract credit hold.  The hold's state is   *)
(* a function of the calls, so a step is compared call by call.             *)

HoldOf == [c \in Calls |-> HoldStateOf[status[c]]]

LimitOf == [c \in Calls |-> IF status[c] = "none" THEN 0 ELSE terms[c].worst]

UsedOf == [c \in Calls |-> Billable(c)]

(* The hold state each call status stands for.                              *)
LEMMA HoldStateValues ==
  /\ HoldStateOf["none"] = "none"
  /\ \A s \in {"reserved", "dispatched", "answered", "rejected"} :
       HoldStateOf[s] = "held"
  /\ HoldStateOf["uncertain"] = "disputed"
  /\ HoldStateOf["released"] = "returned"
  /\ HoldStateOf["finalized"] = "charged"
BY DEF HoldStateOf

(* Steps that show the hold nothing.                                        *)
LEMMA HoldUnchanged ==
  ASSUME UNCHANGED <<HoldOf, LimitOf, debit, UsedOf>>
  PROVE  UNCHANGED Hold!vars
BY DEF Hold!vars, HoldOf, LimitOf, UsedOf

(* Before anything is reserved no hold is placed.                           *)
LEMMA InitHold == Init => Hold!Init
<1> SUFFICES ASSUME Init PROVE Hold!Init
  OBVIOUS
<1>1. [c \in Calls |-> HoldStateOf[status[c]]] = [c \in Calls |-> "none"]
  BY HoldStateValues DEF Init
<1>2. [c \in Calls |-> IF status[c] = "none" THEN 0 ELSE terms[c].worst]
        = [c \in Calls |-> 0]
  BY DEF Init
<1>3. [c \in Calls |-> Billable(c)] = [c \in Calls |-> FALSE]
  <2>1. \A c \in Calls : Billable(c) = FALSE
    BY DEF Init, Billable
  <2> QED BY <2>1, Zenon
<1> QED BY <1>1, <1>2, <1>3 DEF Init, Hold!Init

(* A reservation places the hold.                                           *)
LEMMA ReserveHold ==
  ASSUME IInv, NEW c \in Calls, NEW t \in Terms, Reserve(c, t)
  PROVE  Hold!Place(c)
<1> USE DEF IInv, TypeOK, Reserve, Advance
<1>1. HoldOf[c] = "none"
  BY HoldStateValues DEF HoldOf
<1>2. HoldOf' = [HoldOf EXCEPT ![c] = "held"]
  BY HoldStateValues DEF HoldOf
<1>3. LimitOf' = [LimitOf EXCEPT ![c] = t.worst] /\ t.worst \in WorstCases
  BY DEF LimitOf, Terms
<1>4. UNCHANGED <<debit, UsedOf>>
  BY DEF UsedOf, Billable
<1> QED BY <1>1, <1>2, <1>3, <1>4 DEF Hold!Place, HoldOf, LimitOf, UsedOf

(* A status change of one call is a change of one hold; its limit stays.    *)
LEMMA HoldMoves ==
  ASSUME IInv, NEW c \in Calls, NEW to \in Statuses \ {"none"}, status[c] # "none",
         status' = [status EXCEPT ![c] = to], UNCHANGED <<terms, provider>>
  PROVE  /\ HoldOf' = [HoldOf EXCEPT ![c] = HoldStateOf[to]]
         /\ UNCHANGED <<LimitOf, UsedOf>>
<1> USE DEF IInv, TypeOK
<1>1. HoldOf' = [HoldOf EXCEPT ![c] = HoldStateOf[to]]
  BY DEF HoldOf
<1>2. UNCHANGED LimitOf
  BY DEF LimitOf
<1>3. UNCHANGED UsedOf
  BY DEF UsedOf, Billable
<1> QED BY <1>1, <1>2, <1>3

(* A row that keeps its status and an exchange that stays as billable as it *)
(* was show the hold nothing.                                               *)
LEMMA HoldStays ==
  ASSUME UNCHANGED <<status, terms, debit>>,
         \A d \in Calls : Billable(d)' = Billable(d)
  PROVE  UNCHANGED Hold!vars
<1>1. UNCHANGED <<HoldOf, LimitOf>>
  BY DEF HoldOf, LimitOf
<1>2. UsedOf' = UsedOf
  BY Zenon DEF UsedOf
<1> QED BY <1>1, <1>2, HoldUnchanged

(* The exchange of a cycle: a request uses the hold, a rejection absolves it. *)
LEMMA ExchangeHold ==
  ASSUME IInv, NEW c \in Calls, Send(c) \/ Receive(c)
  PROVE  Hold!Use(c) \/ Hold!Absolve(c) \/ UNCHANGED Hold!vars
<1> USE DEF Send, Receive, GoTo, callVars
<1>0. /\ UNCHANGED <<status, terms, debit>>
      /\ UNCHANGED <<HoldOf, LimitOf, debit>>
  BY DEF HoldOf, LimitOf
<1>1. CASE Send(c) /\ provider' = [provider EXCEPT ![c] = "asked"]
  <2>1. HoldOf[c] \in {"held", "disputed"}
    BY <1>1, HoldStateValues DEF HoldOf, IInv, CycleFitsRow
  <2>2. \A d \in Calls : Billable(d)' = IF d = c THEN TRUE ELSE Billable(d)
    BY <1>1 DEF Billable, IInv, TypeOK
  <2>3. UsedOf' = [UsedOf EXCEPT ![c] = TRUE]
    BY <2>2, Zenon DEF UsedOf
  <2> QED BY <1>0, <2>1, <2>3 DEF Hold!Use, HoldOf, LimitOf, UsedOf
<1>2. CASE Send(c) /\ provider' = [provider EXCEPT ![c] = "deferred"]
  <2>1. provider[c] = "untouched"
    BY <1>2 DEF IInv, CycleFitsRow
  <2>2. \A d \in Calls : Billable(d)' = Billable(d)
    BY <1>2, <2>1 DEF Billable, IInv, TypeOK
  <2> QED BY <1>0, <2>2, HoldStays
<1>3. CASE Receive(c) /\ provider' = [provider EXCEPT ![c] = "rejected"]
  <2>1. provider[c] = "asked"
    BY <1>3 DEF IInv, CycleFitsRow
  <2>2. \A d \in Calls \ {c} : Billable(d)' = Billable(d)
    BY <1>3 DEF Billable, IInv, TypeOK
  <2>3. ~Billable(c)'
    BY <1>3 DEF Billable, IInv, TypeOK
  <2>4. ASSUME NEW d \in Calls
        PROVE  Billable(d)' = IF d = c THEN FALSE ELSE Billable(d)
    <3>1. CASE d = c
      <4>1. Billable(d)' <=> FALSE
        BY <2>3, <3>1
      <4>2. Billable(d)' = FALSE
        BY <4>1 DEF Billable
      <4> QED BY <3>1, <4>2
    <3>2. CASE d # c
      BY <2>2, <3>2, Zenon
    <3> QED BY <3>1, <3>2
  <2>5. UsedOf' = [UsedOf EXCEPT ![c] = FALSE]
    BY <2>4, Zenon DEF UsedOf
  <2>6. UsedOf[c]
    BY <2>1 DEF UsedOf, Billable
  <2> QED BY <1>0, <2>5, <2>6 DEF Hold!Absolve, HoldOf, LimitOf, UsedOf
<1>4. CASE Receive(c) /\ \E answer \in {"usage", "uncertain"} :
                           provider' = [provider EXCEPT ![c] = answer]
  <2>1. provider[c] = "asked"
    BY <1>4 DEF IInv, CycleFitsRow
  <2>2. \A d \in Calls : Billable(d)' = Billable(d)
    BY <1>4, <2>1 DEF Billable, IInv, TypeOK
  <2> QED BY <1>0, <2>2, HoldStays
<1> QED BY <1>1, <1>2, <1>3, <1>4

(* A recorded answer leaves the hold alone, or disputes it.                 *)
LEMMA RecordHold ==
  ASSUME IInv, NEW c \in Calls, RecordResult(c)
  PROVE  Hold!Dispute(c) \/ UNCHANGED Hold!vars
<1> DEFINE to == ResultStatus(provider[c])
<1>1. provider[c] \in {"deferred", "usage", "rejected", "uncertain"}
  BY DEF IInv, CycleFitsRow, RecordResult, GoTo
<1>2. to \in {"answered", "rejected", "uncertain", "reserved"}
  BY <1>1 DEF ResultStatus
<1> HIDE DEF to
<1>3. /\ status[c] = "dispatched"
      /\ status' = [status EXCEPT ![c] = to]
      /\ UNCHANGED <<provider, terms, debit>>
  BY DEF RecordResult, Advance, to
<1>4. HoldOf' = [HoldOf EXCEPT ![c] = HoldStateOf[to]] /\ UNCHANGED <<LimitOf, UsedOf>>
  BY <1>2, <1>3, HoldMoves DEF Statuses
<1>5. HoldOf[c] = "held" /\ HoldOf \in [Calls -> {HoldStateOf[s] : s \in Statuses}]
  BY <1>3, HoldStateValues DEF HoldOf, IInv, TypeOK
<1>6. CASE to = "uncertain"
  <2>1. debit[c] = 0 /\ debit' = [debit EXCEPT ![c] = 0]
    BY <1>3 DEF IInv, TypeOK, DebitFitsStatus
  <2> QED BY <1>4, <1>5, <1>6, <2>1, HoldStateValues
          DEF Hold!Dispute, HoldOf, LimitOf, UsedOf
<1>7. CASE to # "uncertain"
  <2>1. HoldOf' = HoldOf
    BY <1>2, <1>4, <1>5, <1>7, HoldStateValues DEF HoldOf
  <2> QED BY <1>3, <1>4, <2>1, HoldUnchanged
<1> QED BY <1>6, <1>7

(* Finalisation returns, charges or disputes the hold, or leaves it alone.  *)
LEMMA FinalizeHold ==
  ASSUME IInv, NEW c \in Calls, NEW recovering \in BOOLEAN, Finalize(c, recovering),
         UNCHANGED provider
  PROVE  Hold!Return(c) \/ Hold!Charge(c) \/ Hold!Dispute(c) \/ UNCHANGED Hold!vars
<1>0. UNCHANGED terms
  BY DEF Finalize
<1>1. CASE LeaveAlone(c, recovering)
  <2>1. \A d \in Calls : Billable(d)' = Billable(d)
    BY DEF Billable
  <2> QED BY <1>0, <1>1, <2>1, HoldStays DEF LeaveAlone
<1>2. CASE Release(c)
  <2>1. /\ status[c] \in {"reserved", "rejected"}
        /\ status' = [status EXCEPT ![c] = "released"]
        /\ debit' = [debit EXCEPT ![c] = 0]
    BY <1>2 DEF Release, Close, Advance
  <2>2. /\ HoldOf' = [HoldOf EXCEPT ![c] = "returned"]
        /\ UNCHANGED <<LimitOf, UsedOf>>
    <3>1. /\ HoldOf' = [HoldOf EXCEPT ![c] = HoldStateOf["released"]]
          /\ UNCHANGED <<LimitOf, UsedOf>>
      BY <1>0, <2>1, HoldMoves, "released" \in Statuses DEF Statuses
    <3> QED BY <3>1, HoldStateValues
  <2>3. HoldOf[c] = "held"
    BY <2>1, HoldStateValues DEF HoldOf
  <2>4. debit' = debit
    BY <2>1 DEF IInv, TypeOK, DebitFitsStatus
  <2>5. ~UsedOf[c]
    BY <2>1 DEF IInv, RowFitsExchange, UsedOf, Billable
  <2> QED BY <2>2, <2>3, <2>4, <2>5 DEF Hold!Return, HoldOf, LimitOf, UsedOf
<1>3. CASE MarkUncertain(c)
  <2>1. /\ status[c] \in {"dispatched", "answered"}
        /\ status' = [status EXCEPT ![c] = "uncertain"]
        /\ debit' = debit
    BY <1>3 DEF MarkUncertain, Advance
  <2>2. /\ HoldOf' = [HoldOf EXCEPT ![c] = "disputed"]
        /\ UNCHANGED <<LimitOf, UsedOf>>
    <3>1. /\ HoldOf' = [HoldOf EXCEPT ![c] = HoldStateOf["uncertain"]]
          /\ UNCHANGED <<LimitOf, UsedOf>>
      BY <1>0, <2>1, HoldMoves, "uncertain" \in Statuses DEF Statuses
    <3> QED BY <3>1, HoldStateValues
  <2>3. HoldOf[c] = "held"
    BY <2>1, HoldStateValues DEF HoldOf
  <2>4. debit' = [debit EXCEPT ![c] = 0]
    BY <2>1 DEF IInv, TypeOK, DebitFitsStatus
  <2> QED BY <2>2, <2>3, <2>4 DEF Hold!Dispute, HoldOf, LimitOf, UsedOf
<1>4. CASE ChargeUsage(c)
  <2> DEFINE worst == terms[c].worst
             charged == IF usage[c] > worst THEN worst ELSE usage[c]
             to == IF usage[c] > worst THEN "uncertain" ELSE "finalized"
  <2>1. /\ status[c] = "answered"
        /\ usage[c] # Unpriceable
        /\ status' = [status EXCEPT ![c] = to]
        /\ debit' = [debit EXCEPT ![c] = charged]
    BY <1>4 DEF ChargeUsage, Close, Advance
  <2>2. worst \in Nat /\ usage[c] \in Nat
    BY <2>1, WorstType, ConstantsAssumption DEF IInv, TypeOK, UnusedIsBlank
  <2>3. /\ charged \in 0 .. worst
        /\ to \in {"finalized", "uncertain"}
        /\ to = "uncertain" => charged = worst
    BY <2>2
  <2>4. UsedOf[c] /\ HoldOf[c] = "held" /\ LimitOf[c] = worst
    BY <2>1, HoldStateValues
    DEF IInv, RowFitsExchange, UsedOf, Billable, HoldOf, LimitOf
  <2> HIDE DEF charged, to
  <2>5. /\ HoldOf' = [HoldOf EXCEPT ![c] = HoldStateOf[to]]
        /\ UNCHANGED <<LimitOf, UsedOf>>
    BY <1>0, <2>1, <2>3, HoldMoves DEF Statuses
  <2>6. CASE to = "finalized"
    BY <2>1, <2>3, <2>4, <2>5, <2>6, HoldStateValues
    DEF Hold!Charge, HoldOf, LimitOf, UsedOf
  <2>7. CASE to = "uncertain"
    BY <2>1, <2>3, <2>4, <2>5, <2>7, HoldStateValues
    DEF Hold!Dispute, HoldOf, LimitOf, UsedOf
  <2> QED BY <2>3, <2>6, <2>7
<1> QED BY <1>1, <1>2, <1>3, <1>4 DEF Finalize

(* Root settles a disputed hold.                                            *)
LEMMA ReconcileHold ==
  ASSUME IInv, NEW c \in Calls, RootReconciles(c)
  PROVE  Hold!Settle(c)
<1>1. /\ status[c] = "uncertain" /\ terms[c] \in Terms
      /\ UNCHANGED <<terms, provider>>
  BY DEF RootReconciles, IInv, UnusedIsBlank
<1>2. terms[c].worst \in Nat /\ debit[c] \in Nat
  BY <1>1, WorstType DEF IInv, TypeOK
<1>3. HoldOf[c] = "disputed" /\ LimitOf[c] = terms[c].worst
  BY <1>1, HoldStateValues DEF HoldOf, LimitOf
<1>4. CASE debit[c] = 0 /\ Close(c, "released", 0)
  <2>1. /\ HoldOf' = [HoldOf EXCEPT ![c] = "returned"]
        /\ UNCHANGED <<LimitOf, UsedOf>>
    <3>1. /\ HoldOf' = [HoldOf EXCEPT ![c] = HoldStateOf["released"]]
          /\ UNCHANGED <<LimitOf, UsedOf>>
      BY <1>1, <1>4, HoldMoves, "released" \in Statuses DEF Statuses, Close, Advance
    <3> QED BY <3>1, HoldStateValues
  <2>2. debit' = debit
    BY <1>4 DEF Close, IInv, TypeOK
  <2> QED BY <1>3, <1>4, <2>1, <2>2 DEF Hold!Settle, HoldOf, LimitOf, UsedOf
<1>5. ASSUME NEW n \in debit[c] .. terms[c].worst, Close(c, "finalized", n)
      PROVE  Hold!Settle(c)
  <2>1. /\ HoldOf' = [HoldOf EXCEPT ![c] = "charged"]
        /\ UNCHANGED <<LimitOf, UsedOf>>
    <3>1. /\ HoldOf' = [HoldOf EXCEPT ![c] = HoldStateOf["finalized"]]
          /\ UNCHANGED <<LimitOf, UsedOf>>
      BY <1>1, <1>5, HoldMoves, "finalized" \in Statuses DEF Statuses, Close, Advance
    <3> QED BY <3>1, HoldStateValues
  <2> QED BY <1>3, <1>5, <2>1 DEF Hold!Settle, HoldOf, LimitOf, UsedOf, Close
<1>6. CASE debit[c] = 0 /\ \E n \in Prices \ {0} :
             n <= terms[c].worst /\ Close(c, "finalized", n)
  BY <1>2, <1>5, <1>6, ConstantsAssumption
<1>7. CASE debit[c] # 0 /\ Close(c, "finalized", debit[c])
  <2>1. debit[c] \in debit[c] .. terms[c].worst
    BY <1>2, <1>7 DEF IInv, DebitFitsStatus
  <2> QED BY <1>5, <1>7, <2>1
<1> QED BY <1>4, <1>6, <1>7 DEF RootReconciles

(* Every step of the protocol is a step of the hold, or shows it nothing.   *)
LEMMA NextHold == IInv /\ [Next]_vars => [Hold!Next]_(Hold!vars)
<1> SUFFICES ASSUME IInv, [Next]_vars
             PROVE  Hold!Next \/ UNCHANGED Hold!vars
  OBVIOUS
<1>1. ASSUME NEW c \in Calls, CycleStep(c)
      PROVE  Hold!Next \/ UNCHANGED Hold!vars
  <2>1. ASSUME NEW t \in Terms, Reserve(c, t)
        PROVE  Hold!Place(c)
    BY <2>1, ReserveHold
  <2>2. CASE MarkDispatched(c)
    <3>1. /\ status[c] = "reserved" /\ status' = [status EXCEPT ![c] = "dispatched"]
          /\ UNCHANGED <<terms, provider, debit>>
      BY <2>2 DEF MarkDispatched, Advance
    <3>2. /\ HoldOf' = [HoldOf EXCEPT ![c] = HoldStateOf["dispatched"]]
          /\ UNCHANGED <<LimitOf, UsedOf>>
      BY <3>1, HoldMoves, "dispatched" \in Statuses DEF Statuses
    <3>3. HoldOf' = HoldOf
      BY <3>1, <3>2, HoldStateValues DEF HoldOf
    <3> QED BY <3>1, <3>2, <3>3, HoldUnchanged
  <2>3. CASE Send(c) \/ Receive(c)
    BY <2>3, ExchangeHold DEF Hold!Next
  <2>4. CASE RecordResult(c)
    BY <2>4, RecordHold DEF Hold!Next
  <2>5. CASE FinishCycle(c)
    BY <2>5, FinalizeHold DEF FinishCycle, Hold!Next
  <2>6. CASE EndWithoutCall(c) \/ ResultUnrecorded(c) \/ FinishFails(c) \/ Crash(c)
    <3>1. UNCHANGED <<status, terms, debit, provider>>
      BY <2>6 DEF EndWithoutCall, ResultUnrecorded, FinishFails, Crash, callVars
    <3> QED BY <3>1, HoldStays DEF Billable
  <2> QED BY <1>1, <2>1, <2>2, <2>3, <2>4, <2>5, <2>6 DEF CycleStep, Hold!Next
<1>2. ASSUME NEW r \in Replicas, NEW c \in Calls, RecoverCall(r, c)
      PROVE  Hold!Next \/ UNCHANGED Hold!vars
  BY <1>2, FinalizeHold DEF RecoverCall, Hold!Next
<1>3. ASSUME NEW c \in Calls, RootReconciles(c)
      PROVE  Hold!Next
  BY <1>3, ReconcileHold DEF Hold!Next
<1>4. CASE \/ \E c \in Calls : Age(c)
           \/ \E r \in Replicas : ListStale(r)
           \/ \E r \in Replicas, c \in Calls : RecoverFails(r, c)
           \/ \E o \in Owners : Credit(o) \/ Reverse(o)
           \/ UNCHANGED vars
  <2>1. UNCHANGED <<status, terms, debit, provider>>
    BY <1>4 DEF Age, ListStale, RecoverFails, Credit, Reverse, vars, callVars
  <2> QED BY <2>1, HoldStays DEF Billable
<1> QED BY <1>1, <1>2, <1>3, <1>4 DEF Next, RecoveryStep

(* Every behaviour of the protocol is one of the abstract hold's.           *)
THEOREM Refinement == Spec => ImplementsHold
<1> QED BY InitHold, NextHold, InductiveInvariant, PTL DEF Spec, ImplementsHold, Hold!Spec
=============================================================================
