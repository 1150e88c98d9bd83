------------------------------ MODULE PaidCalls ------------------------------
(***************************************************************************)
(* The paid-brain credit protocol of the scheduler: the append-only        *)
(* agent_runtime.credit_ledger and the durable state of every paid model   *)
(* call in agent_runtime.paid_calls (db.ts, runtime.ts, paidBrain.ts).     *)
(*                                                                         *)
(* A call is named by its reserve key reserve:<agent>:<uuid>.  Every paid  *)
(* cycle mints one fresh key, so a call and the cycle that owns it share   *)
(* one name: pc[c] is where the cycle stands, status[c] the row it left in *)
(* the database.  The two disagree exactly where the code has to cope: a   *)
(* crash between two statements, a commit whose acknowledgement is lost, a *)
(* recovery pass on another replica.                                       *)
(*                                                                         *)
(* One action is one database transaction or one provider exchange.        *)
(* Transactions that move money run under the owner's advisory lock and    *)
(* lock the call row; the two unlocked statements (dispatch and record)    *)
(* are single guarded UPDATEs of that row.                                 *)
(***************************************************************************)
EXTENDS Integers, FiniteSets, Functions

CONSTANTS
  Calls,          \* reserve keys: one per paid cycle, minted with randomUUID
  Agents,         \* agents with a paid brain
  Owners,         \* billable owners
  OwnerOf,        \* the owner of each agent
  Months,         \* UTC months a reservation can count in
  Cap,            \* monthly cap of each agent, micro-USD
  WorstCases,     \* worst cases a snapshotted price row and margin can give
  Prices,         \* totals reported usage can be priced at
  CreditSteps,    \* amounts the backend credits or takes back
  MaxCredit,      \* bound: gross credits, and gross reversals, of one owner
  Replicas,       \* scheduler processes running the recovery pass
  NoTerms         \* the terms of a key that reserved nothing

ASSUME ConstantsAssumption ==
  /\ OwnerOf \in [Agents -> Owners]
  /\ Cap \in [Agents -> Nat]
  /\ WorstCases \subseteq Nat \ {0}
  /\ Prices \subseteq Nat
  /\ CreditSteps \subseteq Nat \ {0}
  /\ MaxCredit \in Nat
  /\ NoTerms \notin [agent : Agents, month : Months, worst : WorstCases]

VARIABLES
  pc,          \* pc[c]: the step of runAgentOnce the cycle of c is about to take
  provider,    \* provider[c]: what has really passed between cycle and model
  status,      \* paid_calls.status
  terms,       \* paid_calls.agent_id, month_start, worst_case_micro_usd
  usage,       \* paid_calls.usage, as the total it prices to
  debit,       \* paid_calls.debit_micro_usd
  idle,        \* the timestamp recovery looks at is 15 minutes old
  ledger,      \* credit_ledger rows of paid calls
  credited,    \* sum of the backend's positive rows, per owner
  reversed,    \* sum of the backend's reversal rows, per owner
  candidates   \* candidates[r]: stale calls replica r listed and has not visited

callVars   == <<status, terms, usage, debit, idle>>
moneyVars  == <<credited, reversed>>
vars == <<pc, provider, callVars, ledger, moneyVars, candidates>>

-----------------------------------------------------------------------------
(* Values *)

Terms == [agent : Agents, month : Months, worst : WorstCases]

(* Usage that cannot be priced: an unknown rate or an invalid token count.  *)
Unpriceable == -1

Statuses == {"none", "reserved", "dispatched", "answered", "rejected",
             "uncertain", "released", "finalized"}

Closed == {"released", "finalized"}

(* admitted: the reservation is known to be held.  sending: "dispatched" is *)
(* known to be committed.  waiting: the request is out.  recording: decide  *)
(* of the inner provider returned.  ending: the cycle only has finalisation *)
(* left.  over: finalisation committed.  gone: nobody will ever act for the *)
(* cycle again (crash, or an error that left the call to recovery).         *)
Steps == {"unused", "admitted", "sending", "waiting", "recording", "ending",
          "over", "gone"}

(* untouched: no request was sent.  deferred: decide returned without       *)
(* sending one.  asked: a request is out or its answer was lost.            *)
Exchanges == {"untouched", "deferred", "asked", "usage", "rejected",
              "uncertain"}

(* The provider may have charged the platform for this call.                *)
Billable(c) == provider[c] \in {"asked", "usage", "uncertain"}

OwnerOfCall(c) == OwnerOf[terms[c].agent]

-----------------------------------------------------------------------------
(* The ledger: every row has a unique idempotency key and an insert of a    *)
(* key that is already there does nothing.                                  *)

Row(kind, c, amount) == [key |-> <<kind, c>>, amount |-> amount]

Rows == [key : {"reserve", "release", "debit"} \X Calls, amount : Int]

Keys(rows) == {r.key : r \in rows}

InsertOnce(rows, row) ==
  IF row.key \in Keys(rows) THEN rows ELSE rows \cup {row}

(* The release row gives back what the reserve row holds, if there is one.  *)
WithRelease(rows, c) ==
  LET held == {r \in rows : r.key = <<"reserve", c>>}
  IN  IF held = {} THEN rows
      ELSE InsertOnce(rows, Row("release", c, terms[c].worst))

WithDebit(rows, c, amount) ==
  IF amount = 0 THEN rows ELSE InsertOnce(rows, Row("debit", c, -amount))

-----------------------------------------------------------------------------
(* The credit position a reservation is admitted on *)

LedgerRowsOf(o) ==
  {r \in ledger : OwnerOfCall(r.key[2]) = o}

Balance(o) ==
  credited[o] - reversed[o]
    + SumFunctionOnSet([r \in ledger |-> r.amount], LedgerRowsOf(o))

(* Variant: only charges count, the worst cases of open calls do not.       *)
CountedChargesOnly(c) == debit[c]

(* What a call counts for in its month.                                     *)
Counted(c) ==
  CASE status[c] \in {"none", "released"} -> 0
    [] status[c] = "finalized"            -> debit[c]
    [] OTHER                              -> terms[c].worst

CallsOf(a, m) ==
  {c \in Calls : status[c] # "none" /\ terms[c].agent = a /\ terms[c].month = m}

MonthSpend(a, m) == SumFunctionOnSet([c \in Calls |-> Counted(c)], CallsOf(a, m))

(* Metering of the owner is uncertain: a call may have been billed without  *)
(* usage, or was dispatched 15 minutes ago and never heard of again.        *)
MeteringUncertain(o) ==
  \E c \in Calls :
    /\ status[c] # "none"
    /\ OwnerOfCall(c) = o
    /\ \/ status[c] = "uncertain"
       \/ status[c] = "dispatched" /\ idle[c]

(* Variant: the balance is not looked at.                                   *)
AdmissibleOnCap(t) ==
  /\ Cap[t.agent] > 0
  /\ ~MeteringUncertain(OwnerOf[t.agent])
  /\ MonthSpend(t.agent, t.month) + t.worst <= Cap[t.agent]

Admissible(t) ==
  LET o == OwnerOf[t.agent]
  IN  /\ Cap[t.agent] > 0
      /\ ~MeteringUncertain(o)
      /\ Balance(o) >= t.worst
      /\ MonthSpend(t.agent, t.month) + t.worst <= Cap[t.agent]

-----------------------------------------------------------------------------
Init ==
  /\ pc         = [c \in Calls |-> "unused"]
  /\ provider   = [c \in Calls |-> "untouched"]
  /\ status     = [c \in Calls |-> "none"]
  /\ terms      = [c \in Calls |-> NoTerms]
  /\ usage      = [c \in Calls |-> Unpriceable]
  /\ debit      = [c \in Calls |-> 0]
  /\ idle       = [c \in Calls |-> FALSE]
  /\ ledger     = {}
  /\ credited   = [o \in Owners |-> 0]
  /\ reversed   = [o \in Owners |-> 0]
  /\ candidates = [r \in Replicas |-> {}]

GoTo(c, from, to) ==
  /\ pc[c] = from
  /\ pc' = [pc EXCEPT ![c] = to]

(* A status change made by a guarded UPDATE; the new status has a timestamp *)
(* of its own, which is not stale yet.                                      *)
Advance(c, to) ==
  /\ status' = [status EXCEPT ![c] = to]
  /\ idle' = [idle EXCEPT ![c] = FALSE]

-----------------------------------------------------------------------------
(* The paid cycle *)

(* Step 1: read the position, admit, insert the reserve row and the call    *)
(* row, in one transaction under the owner lock.  If the commit's           *)
(* acknowledgement is lost the cycle reports the reservation unavailable,   *)
(* forgets the key and runs on the free brain or skips.  A refused or       *)
(* failed attempt leaves nothing behind: its key is never used.             *)
Reserve(c, t) ==
  /\ \/ GoTo(c, "unused", "admitted")
     \/ GoTo(c, "unused", "gone")
  /\ Admissible(t)
  /\ <<"reserve", c>> \notin Keys(ledger)
  /\ status[c] = "none"
  /\ ledger' = ledger \cup {Row("reserve", c, -t.worst)}
  /\ Advance(c, "reserved")
  /\ terms' = [terms EXCEPT ![c] = t]
  /\ UNCHANGED <<provider, usage, debit, moneyVars, candidates>>

(* The cycle ends without a model call: setup failed, the gate skipped it,  *)
(* the kill switch stopped it, the prompt was over the paid input bound, or *)
(* the UPDATE that should commit "dispatched" failed or matched no row.     *)
EndWithoutCall(c) ==
  /\ GoTo(c, "admitted", "ending")
  /\ UNCHANGED <<provider, callVars, ledger, moneyVars, candidates>>

(* Step 2a: commit "dispatched" on a call that is still reserved.           *)
MarkDispatched(c) ==
  /\ status[c] = "reserved"
  /\ Advance(c, "dispatched")
  /\ \/ GoTo(c, "admitted", "sending")
     \/ GoTo(c, "admitted", "ending")   \* the acknowledgement was lost
  /\ UNCHANGED <<provider, terms, usage, debit, ledger, moneyVars, candidates>>

(* Variant: the request leaves before "dispatched" is committed.            *)
SendUndispatched(c) ==
  /\ \/ GoTo(c, "admitted", "waiting")
     \/ GoTo(c, "sending", "waiting")
  /\ provider' = [provider EXCEPT ![c] = "asked"]
  /\ UNCHANGED <<callVars, ledger, moneyVars, candidates>>

(* The inner provider sends the request, or defers without sending it.      *)
Send(c) ==
  /\ \/ /\ GoTo(c, "sending", "waiting")
        /\ provider' = [provider EXCEPT ![c] = "asked"]
     \/ /\ GoTo(c, "sending", "recording")
        /\ provider' = [provider EXCEPT ![c] = "deferred"]
  /\ UNCHANGED <<callVars, ledger, moneyVars, candidates>>

(* The exchange ends: with usage, with a known rejection before processing, *)
(* or with anything that may have been billed without usage.                *)
Receive(c) ==
  /\ GoTo(c, "waiting", "recording")
  /\ \E answer \in {"usage", "rejected", "uncertain"} :
       provider' = [provider EXCEPT ![c] = answer]
  /\ UNCHANGED <<callVars, ledger, moneyVars, candidates>>

(* Variant: an exchange that may have been billed counts as a rejection.    *)
ResultStatusOptimistic(exchange) ==
  CASE exchange = "usage"                      -> "answered"
    [] exchange \in {"rejected", "uncertain"} -> "rejected"
    [] exchange = "deferred"                   -> "reserved"

(* Step 2b: record the answer on a call that is still dispatched.           *)
ResultStatus(exchange) ==
  CASE exchange = "usage"     -> "answered"
    [] exchange = "rejected"  -> "rejected"
    [] exchange = "uncertain" -> "uncertain"
    [] exchange = "deferred"  -> "reserved"

(* Variant: a late answer is recorded whatever the call's status is.        *)
RecordResultAnyStatus(c) ==
  /\ GoTo(c, "recording", "ending")
  /\ Advance(c, ResultStatus(provider[c]))
  /\ IF provider[c] = "usage"
     THEN \E p \in Prices \cup {Unpriceable} : usage' = [usage EXCEPT ![c] = p]
     ELSE UNCHANGED usage
  /\ UNCHANGED <<provider, terms, debit, ledger, moneyVars, candidates>>

RecordResult(c) ==
  /\ GoTo(c, "recording", "ending")
  /\ status[c] = "dispatched"
  /\ Advance(c, ResultStatus(provider[c]))
  /\ IF provider[c] = "usage"
     THEN \E p \in Prices \cup {Unpriceable} : usage' = [usage EXCEPT ![c] = p]
     ELSE UNCHANGED usage
  /\ UNCHANGED <<provider, terms, debit, ledger, moneyVars, candidates>>

(* The UPDATE matched no row or its error was swallowed.                    *)
ResultUnrecorded(c) ==
  /\ GoTo(c, "recording", "ending")
  /\ UNCHANGED <<provider, callVars, ledger, moneyVars, candidates>>

-----------------------------------------------------------------------------
(* Step 3, also the body of recovery: one transaction under the owner lock  *)
(* with the call row locked, driven by the call's durable state alone.      *)

Close(c, to, amount) ==
  /\ Advance(c, to)
  /\ debit' = [debit EXCEPT ![c] = amount]

(* Variants: a closed call, or one that was dispatched, is released too.    *)
ReleaseClosed(c) ==
  /\ status[c] \in {"reserved", "rejected", "finalized"}
  /\ ledger' = WithRelease(ledger, c)
  /\ Close(c, "released", 0)

ReleaseDispatched(c) ==
  /\ status[c] \in {"reserved", "rejected", "dispatched"}
  /\ ledger' = WithRelease(ledger, c)
  /\ Close(c, "released", 0)

Release(c) ==
  /\ status[c] \in {"reserved", "rejected"}
  /\ ledger' = WithRelease(ledger, c)
  /\ Close(c, "released", 0)

MarkUncertain(c) ==
  /\ \/ status[c] = "dispatched"
     \/ status[c] = "answered" /\ usage[c] = Unpriceable
  /\ Advance(c, "uncertain")
  /\ UNCHANGED <<debit, ledger>>

(* Variant: usage above the reserve is charged in full.                     *)
ChargeUsageInFull(c) ==
  /\ status[c] = "answered"
  /\ usage[c] # Unpriceable
  /\ ledger' = WithDebit(WithRelease(ledger, c), c, usage[c])
  /\ Close(c, IF usage[c] > terms[c].worst THEN "uncertain" ELSE "finalized",
           usage[c])

(* Charge the reported usage, never above the reserve: usage above it is    *)
(* written off and the call flagged for review.                             *)
ChargeUsage(c) ==
  LET charged == IF usage[c] > terms[c].worst THEN terms[c].worst ELSE usage[c]
  IN  /\ status[c] = "answered"
      /\ usage[c] # Unpriceable
      /\ ledger' = WithDebit(WithRelease(ledger, c), c, charged)
      /\ Close(c, IF usage[c] > terms[c].worst THEN "uncertain" ELSE "finalized",
               charged)

(* Nothing to do: the call is closed, awaits review, or is not stale yet.   *)
LeaveAlone(c, recovering) ==
  /\ \/ status[c] \in {"none", "uncertain"} \cup Closed
     \/ recovering /\ ~idle[c]
  /\ UNCHANGED <<status, idle, debit, ledger>>

Finalize(c, recovering) ==
  /\ \/ /\ recovering => idle[c]
        /\ Release(c) \/ MarkUncertain(c) \/ ChargeUsage(c)
     \/ LeaveAlone(c, recovering)
  /\ UNCHANGED <<terms, usage>>

(* The end of the cycle: finalisation commits, or fails and leaves the      *)
(* reservation open.                                                        *)
FinishCycle(c) ==
  /\ GoTo(c, "ending", "over")
  /\ Finalize(c, FALSE)
  /\ UNCHANGED <<provider, moneyVars, candidates>>

FinishFails(c) ==
  /\ GoTo(c, "ending", "gone")
  /\ UNCHANGED <<provider, callVars, ledger, moneyVars, candidates>>

(* The process running the cycle dies.                                      *)
Crash(c) ==
  /\ pc[c] \in {"admitted", "sending", "waiting", "recording", "ending"}
  /\ pc' = [pc EXCEPT ![c] = "gone"]
  /\ UNCHANGED <<provider, callVars, ledger, moneyVars, candidates>>

-----------------------------------------------------------------------------
(* Step 4: the recovery pass of each replica *)

(* Fifteen minutes pass without progress on an open call.                   *)
Age(c) ==
  /\ status[c] \in {"reserved", "dispatched", "answered", "rejected"}
  /\ ~idle[c]
  /\ idle' = [idle EXCEPT ![c] = TRUE]
  /\ UNCHANGED <<pc, provider, status, terms, usage, debit, ledger, moneyVars,
                 candidates>>

(* Variant: only calls that were never dispatched are recovered.            *)
StaleReserved(c) == status[c] = "reserved" /\ idle[c]

Stale(c) ==
  /\ status[c] \in {"reserved", "dispatched", "answered", "rejected"}
  /\ idle[c]

ListStale(r) ==
  /\ candidates[r] = {}
  /\ \E c \in Calls : Stale(c)
  /\ candidates' = [candidates EXCEPT ![r] = {c \in Calls : Stale(c)}]
  /\ UNCHANGED <<pc, provider, callVars, ledger, moneyVars>>

Visit(r, c) ==
  /\ c \in candidates[r]
  /\ candidates' = [candidates EXCEPT ![r] = @ \ {c}]

(* The listed call is finalised from its state NOW, not from the listing.   *)
RecoverCall(r, c) ==
  /\ Visit(r, c)
  /\ Finalize(c, TRUE)
  /\ UNCHANGED <<pc, provider, moneyVars>>

(* The transaction fails: caught, and retried by a later pass.              *)
RecoverFails(r, c) ==
  /\ Visit(r, c)
  /\ UNCHANGED <<pc, provider, callVars, ledger, moneyVars>>

-----------------------------------------------------------------------------
(* The backend and the operator, outside this repository *)

(* grant, topup, refund and restore rows.                                   *)
Credit(o) ==
  /\ \E n \in CreditSteps :
       /\ credited[o] + n <= MaxCredit
       /\ credited' = [credited EXCEPT ![o] = @ + n]
  /\ UNCHANGED <<pc, provider, callVars, ledger, reversed, candidates>>

(* reversal rows: a refund or chargeback at the payment provider.           *)
Reverse(o) ==
  /\ \E n \in CreditSteps :
       /\ reversed[o] + n <= credited[o]
       /\ reversed' = [reversed EXCEPT ![o] = @ + n]
  /\ UNCHANGED <<pc, provider, callVars, ledger, credited, candidates>>

(* Root settles an uncertain call by hand, after its cycle is over: give    *)
(* the reserve back, charge at most the reserve, or accept the charge a     *)
(* call over its reserve already made.                                      *)
RootReconciles(c) ==
  /\ status[c] = "uncertain"
  /\ pc[c] \in {"over", "gone"}
  /\ \/ /\ debit[c] = 0
        /\ ledger' = WithRelease(ledger, c)
        /\ Close(c, "released", 0)
     \/ /\ debit[c] = 0
        /\ \E n \in Prices \ {0} :
             /\ n <= terms[c].worst
             /\ ledger' = WithDebit(WithRelease(ledger, c), c, n)
             /\ Close(c, "finalized", n)
     \/ /\ debit[c] # 0
        /\ Close(c, "finalized", debit[c])
        /\ UNCHANGED ledger
  /\ UNCHANGED <<pc, provider, terms, usage, moneyVars, candidates>>

-----------------------------------------------------------------------------
CycleStep(c) ==
  \/ \E t \in Terms : Reserve(c, t)
  \/ EndWithoutCall(c)
  \/ MarkDispatched(c)
  \/ Send(c)
  \/ Receive(c)
  \/ RecordResult(c)
  \/ ResultUnrecorded(c)
  \/ FinishCycle(c)
  \/ FinishFails(c)
  \/ Crash(c)

RecoveryStep(r) ==
  \/ ListStale(r)
  \/ \E c \in Calls : RecoverCall(r, c) \/ RecoverFails(r, c)

Next ==
  \/ \E c \in Calls : CycleStep(c) \/ Age(c) \/ RootReconciles(c)
  \/ \E r \in Replicas : RecoveryStep(r)
  \/ \E o \in Owners : Credit(o) \/ Reverse(o)

Spec == Init /\ [][Next]_vars

(* Only recovery is fair: the scheduler loop keeps passing, time passes and *)
(* the database does not refuse the same call for ever.  Cycles may hang or *)
(* die at any step, the provider may never answer, root may never act.      *)
Fairness ==
  /\ \A c \in Calls : WF_vars(Age(c))
  /\ \A r \in Replicas : WF_vars(ListStale(r))
  /\ \A r \in Replicas : \A c \in Calls : SF_vars(RecoverCall(r, c))

FairSpec == Spec /\ Fairness

-----------------------------------------------------------------------------
(* Properties *)

TypeOK ==
  /\ pc \in [Calls -> Steps]
  /\ provider \in [Calls -> Exchanges]
  /\ status \in [Calls -> Statuses]
  /\ terms \in [Calls -> Terms \cup {NoTerms}]
  /\ usage \in [Calls -> Prices \cup {Unpriceable}]
  /\ debit \in [Calls -> Nat]
  /\ idle \in [Calls -> BOOLEAN]
  /\ ledger \subseteq Rows
  /\ credited \in [Owners -> 0 .. MaxCredit]
  /\ reversed \in [Owners -> 0 .. MaxCredit]
  /\ candidates \in [Replicas -> SUBSET Calls]

RowsIn(rows, c) == {r \in rows : r.key[2] = c}

RowsOf(c) == RowsIn(ledger, c)

HeldRows(c) == {Row("reserve", c, -terms[c].worst)}

SettledRows(c) ==
  HeldRows(c)
    \cup {Row("release", c, terms[c].worst)}
    \cup {Row("debit", c, -n) : n \in {debit[c]} \ {0}}

(* Money moves exactly once per call, whatever crashed, was retried or was  *)
(* finalised twice: an open call has its reserve row and nothing else, a    *)
(* closed one has given the reserve back and taken its debit, an unused key *)
(* has no row (db.ts: "can never move money twice").                        *)
LedgerMatchesCalls ==
  \A c \in Calls :
    RowsOf(c) =
      IF status[c] = "none" THEN {}
      ELSE IF status[c] \in Closed \/ debit[c] > 0 THEN SettledRows(c)
      ELSE HeldRows(c)

(* Charges and open holds together never exceed what the owner paid in: a   *)
(* negative balance only ever comes from a reversal.                        *)
NeverOverdrawn == \A o \in Owners : Balance(o) + reversed[o] >= 0

(* The monthly cap holds for charges plus open worst cases of the agent's   *)
(* concurrent cycles, in the month each was reserved in.                    *)
MonthWithinCap == \A a \in Agents, m \in Months : MonthSpend(a, m) <= Cap[a]

(* The two tables agree: what the ledger has taken from an owner is what    *)
(* the owner's calls count for, so the balance and the caps never judge a   *)
(* reservation by different books.                                          *)
CallsOfOwner(o) == {c \in Calls : status[c] # "none" /\ OwnerOfCall(c) = o}

SpendOf(o) == SumFunctionOnSet([c \in Calls |-> Counted(c)], CallsOfOwner(o))

BooksAgree ==
  \A o \in Owners : Balance(o) = credited[o] - reversed[o] - SpendOf(o)

(* A recorded usage decides the charge: that usage and never more than the  *)
(* reserve, and only usage above the reserve is flagged for review.         *)
ChargedAsReported ==
  \A c \in Calls :
    usage[c] # Unpriceable =>
      /\ status[c] \in {"answered", "uncertain", "finalized"}
      /\ status[c] = "uncertain" => usage[c] > terms[c].worst
      /\ status[c] # "answered" =>
           debit[c] = IF usage[c] < terms[c].worst THEN usage[c]
                                                   ELSE terms[c].worst

(* A crash can never be mistaken for "no call ran": from the moment the     *)
(* request leaves until it is known not to be billable, the call is on      *)
(* record in a status that finalisation and recovery never release.         *)
AskedIsOnRecord ==
  \A c \in Calls :
    /\ Billable(c) => status[c] \notin {"none", "reserved", "rejected"}
    /\ pc[c] = "sending" => status[c] \in {"dispatched", "uncertain"}

(* The scheduler gives a reserve back only for a call that was not billed.  *)
OnlyUnbilledReleased ==
  [][\A c \in Calls :
        status[c] \notin {"released", "uncertain"} /\ status'[c] = "released"
          => ~Billable(c)]_vars

(* Nothing but root moves an uncertain call: no retry, late answer or       *)
(* recovery pass refunds or charges it.                                     *)
UncertainWaitsForRoot ==
  [][\A c \in Calls :
        status[c] = "uncertain" /\ ~RootReconciles(c) =>
          /\ status'[c] = "uncertain"
          /\ debit'[c] = debit[c]]_vars

(* Every reservation is eventually released, charged or put before root,    *)
(* even if the cycle that made it hangs or dies.                            *)
EveryHoldSettles ==
  \A c \in Calls : status[c] = "reserved" ~> status[c] \in Closed \cup {"uncertain"}

-----------------------------------------------------------------------------
(* The protocol implements the abstract credit hold                         *)

HoldStateOf ==
  [none |-> "none", reserved |-> "held", dispatched |-> "held",
   answered |-> "held", rejected |-> "held", uncertain |-> "disputed",
   released |-> "returned", finalized |-> "charged"]

Hold == INSTANCE PaidHold WITH
  Holds  <- Calls,
  Limits <- WorstCases,
  hold   <- [c \in Calls |-> HoldStateOf[status[c]]],
  limit  <- [c \in Calls |-> IF status[c] = "none" THEN 0 ELSE terms[c].worst],
  charge <- debit,
  used   <- [c \in Calls |-> Billable(c)]

(* Every step of the protocol is a step of the hold or changes nothing the  *)
(* hold can see.                                                            *)
ImplementsHold == Hold!Spec
=============================================================================
