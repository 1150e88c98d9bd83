---------------------------- MODULE PmPaperCycle ----------------------------
(***************************************************************************)
(* The cycle of a dedicated prediction-market paper house                  *)
(* (packages/mcp-trading/src/agent/pmPaperCycle.ts).  A cycle opens or     *)
(* closes at most one position.  The exact request and its idempotency key *)
(* are written to agent_state before the request is sent; a request whose  *)
(* outcome is not known stays on record, and the next cycle settles it     *)
(* before it does anything else.  One cycle of a house runs at a time      *)
(* (AgentFleet, NoOverlap); the policy and what the server says of entries *)
(* may change at any moment, and positions settle by themselves.           *)
(*                                                                         *)
(* The backend is external: it executes a key at most once, and it decides *)
(* the requests it holds under one key together, so that a refusal is the  *)
(* end of all of them.  Whether it admits an open is its own business: the *)
(* model lets it accept every one, so that the limits below are the work   *)
(* of the cycle alone.                                                     *)
(***************************************************************************)
EXTENDS Integers, FiniteSets

CONSTANTS
  Markets,    \* native markets
  Budgets,    \* levels of maxCashBudget
  Floors,     \* values of minEntryProbabilityPct
  Policies,   \* the configurations the house may be given
  MaxOpen,    \* policy.maxOpenPositions
  MaxSeq,     \* bound: requests of one identity
  MaxIntents, \* bound: requests of the house
  None

\* What a decision asks for; its hash is the identity that intentSeq counts.
\* A position goes by the key of the request that opened it.
Opens == [kind: {"open"}, market: Markets, cash: Budgets]
OpenKeys == [intent: Opens, seq: 0 .. MaxSeq - 1]
Closes == [kind: {"close"}, position: OpenKeys]
CloseKeys == [intent: Closes, seq: 0 .. MaxSeq - 1]
Intents == Opens \union Closes
Keys == OpenKeys \union CloseKeys

\* pendingSchema: the key and, for an open, the entry floor it was made under.
Pendings == [key: Keys, floor: Floors \union {None}]
AgentStates == [pending: Pendings \union {None}, seq: [Intents -> 0 .. MaxSeq]]

ASSUME PmAssumption ==
  /\ Budgets \subseteq Nat
  /\ Policies \subseteq [entry: BOOLEAN, cash: Nat, floor: Floors, live: BOOLEAN]
  /\ MaxOpen \in Nat /\ MaxSeq \in Nat /\ MaxIntents \in Nat
  /\ None \notin Policies /\ None \notin Pendings /\ None \notin Opens
  /\ None \notin Floors

VARIABLES
  policy,       \* the house policy as configured now
  entryEnabled, \* what the server's read says of new entries now
  position,     \* [OpenKeys -> state of the position that request opened]
  sent,         \* keys of requests under way
  receipts,     \* keys the backend has executed
  saved,        \* agent_state: the pending request and the intent counters
  mem,          \* the cycle's copy of it
  pc, pol,      \* the cycle's step and the policy it was started with
  view,         \* its first read: entries admitted, markets held, closable positions
  chosen        \* the open the model decided on, until the second read

vars == <<policy, entryEnabled, position, sent, receipts, saved, mem, pc, pol, view, chosen>>
backend == <<policy, entryEnabled, position, sent, receipts>>

Unsettled == {p \in OpenKeys : position[p] \in {"open", "exiting"}}
\* Variant: only positions that are still tradable count as held.
HeldWithoutExits == {p.intent.market : p \in {q \in OpenKeys : position[q] = "open"}}
Held == {p.intent.market : p \in Unsettled}

\* Variant: the limit is off by one.
AdmitsOneMore(p) == p.entry /\ entryEnabled /\ Cardinality(Unsettled) <= MaxOpen

\* admitsEntry: the policy, the server's flag (which stands for its accounting,
\* loss and daily limits too) and the number of open positions, as read now.
Admits(p) == p.entry /\ entryEnabled /\ Cardinality(Unsettled) < MaxOpen

NoView == [entry |-> FALSE, held |-> {}, closable |-> {}]

Init ==
  /\ policy \in Policies /\ entryEnabled = TRUE
  /\ position = [p \in OpenKeys |-> "none"]
  /\ sent = {} /\ receipts = {}
  /\ saved = [pending |-> None, seq |-> [i \in Intents |-> 0]]
  /\ mem = saved
  /\ pc = "idle" /\ pol = None /\ view = NoView /\ chosen = None

-----------------------------------------------------------------------------
(* The cycle *)

\* The claimed house's state is loaded and its positions read.
Begin ==
  /\ pc = "idle"
  /\ pc' = "begun" /\ pol' = policy /\ mem' = saved
  /\ view' = [entry    |-> Admits(policy),
              held     |-> Held,
              closable |-> {p \in OpenKeys : position[p] = "open"}]
  /\ UNCHANGED <<backend, saved, chosen>>

\* The end of a cycle or of its process: what is not saved is forgotten.
Forget(state) ==
  /\ saved' = state /\ mem' = state
  /\ pc' = "idle" /\ pol' = None /\ view' = NoView /\ chosen' = None

\* A cycle may end without a request at each of its reads: the read failed, the
\* entry is not admitted, the model is out of budget, deferred, wrong or skips,
\* the pending request is held by the policy, or this is a dry run.
Skip ==
  /\ pc \in {"begun", "probed", "chosen"}
  /\ Forget(mem)
  /\ UNCHANGED backend

\* Variant: a paused house does not ask for the receipt.
ReceiptIfAdmitted ==
  /\ pc = "begun" /\ pol.live /\ Admits(pol)
  /\ mem.pending # None /\ mem.pending.key \in OpenKeys \intersect receipts
  /\ mem' = [mem EXCEPT !.pending = None]
  /\ pc' = "settled"
  /\ UNCHANGED <<backend, saved, pol, view, chosen>>

\* replayPmPaperV2Open: the receipt of a pending open settles it, whatever the
\* policy says by now.
ReceiptFound ==
  /\ pc = "begun" /\ pol.live
  /\ mem.pending # None /\ mem.pending.key \in OpenKeys \intersect receipts
  /\ mem' = [mem EXCEPT !.pending = None]
  /\ pc' = "settled"
  /\ UNCHANGED <<backend, saved, pol, view, chosen>>

ReceiptMissing ==
  /\ pc = "begun" /\ pol.live
  /\ mem.pending # None /\ mem.pending.key \in OpenKeys \ receipts
  /\ pc' = "probed"
  /\ UNCHANGED <<backend, saved, mem, pol, view, chosen>>

\* Variant: the budget of a pending open is not checked again.
ResendUnpriced ==
  /\ pc = "probed"
  /\ mem.pending.floor = pol.floor
  /\ Admits(pol)
  /\ pc' = "sending"
  /\ UNCHANGED <<backend, saved, mem, pol, view, chosen>>

\* An open without a receipt is sent again only if a fresh read and the policy
\* of this cycle admit exactly that request.
ResendOpen ==
  /\ pc = "probed"
  /\ mem.pending.floor = pol.floor
  /\ Admits(pol)
  /\ mem.pending.key.intent.cash <= pol.cash
  /\ pc' = "sending"
  /\ UNCHANGED <<backend, saved, mem, pol, view, chosen>>

ResendClose ==
  /\ pc = "begun" /\ pol.live
  /\ mem.pending # None /\ mem.pending.key \in CloseKeys
  /\ pc' = "sending"
  /\ UNCHANGED <<backend, saved, mem, pol, view, chosen>>

\* The model answers from the first read.
DecideOpen(i) ==
  /\ pc = "begun" /\ mem.pending = None
  /\ view.entry /\ i.market \notin view.held
  /\ i.cash <= pol.cash
  /\ pc' = "chosen" /\ chosen' = i
  /\ UNCHANGED <<backend, saved, mem, pol, view>>

Made(state) == {k \in Keys : k.seq < state.seq[k.intent]}

\* Variant: the counter is left for the answer to advance.
MakePendingUncounted(i, floor) ==
  /\ pol.live
  /\ mem.seq[i] < MaxSeq /\ Cardinality(Made(mem)) < MaxIntents
  /\ mem' = [mem EXCEPT !.pending = [key |-> [intent |-> i, seq |-> mem.seq[i]], floor |-> floor]]
  /\ pc' = "checkpoint"

\* The pending request under a new key, in the cycle's copy of the state only.
MakePending(i, floor) ==
  /\ pol.live
  /\ mem.seq[i] < MaxSeq /\ Cardinality(Made(mem)) < MaxIntents
  /\ mem' = [pending |-> [key |-> [intent |-> i, seq |-> mem.seq[i]], floor |-> floor],
             seq     |-> [mem.seq EXCEPT ![i] = @ + 1]]
  /\ pc' = "checkpoint"

\* A second read before the entry: the model call took up to two minutes.
ConfirmOpen ==
  /\ pc = "chosen"
  /\ Admits(pol) /\ chosen.market \notin Held
  /\ MakePending(chosen, pol.floor)
  /\ chosen' = None
  /\ UNCHANGED <<backend, saved, pol, view>>

DecideClose(p) ==
  /\ pc = "begun" /\ mem.pending = None
  /\ p \in view.closable
  /\ MakePending([kind |-> "close", position |-> p], None)
  /\ UNCHANGED <<backend, saved, pol, view, chosen>>

\* Variant: the request does not wait for the write.
CheckpointNotAwaited ==
  /\ pc = "checkpoint"
  /\ pc' = "sending"
  /\ UNCHANGED <<backend, saved, mem, pol, view, chosen>>

\* saveStateJson, awaited before the request.
Checkpoint ==
  /\ pc = "checkpoint"
  /\ saved' = mem
  /\ pc' = "sending"
  /\ UNCHANGED <<backend, mem, pol, view, chosen>>

Send ==
  /\ pc = "sending"
  /\ sent' = sent \union {mem.pending.key}
  /\ pc' = "waiting"
  /\ UNCHANGED <<policy, entryEnabled, position, receipts, saved, mem, pol, view, chosen>>

\* No answer that can be read: delivery_unconfirmed, the request stays pending.
GiveUp ==
  /\ pc = "waiting"
  /\ pc' = "settled"
  /\ UNCHANGED <<backend, saved, mem, pol, view, chosen>>

\* persistCycleResult writes the cycle's copy of the state.
Persist ==
  /\ pc = "settled"
  /\ Forget(mem)
  /\ UNCHANGED backend

\* The process dies, or the checkpoint or the last write fails: the error path
\* of the worker records the cycle but not its state.
Crash ==
  /\ pc # "idle"
  /\ Forget(saved)
  /\ UNCHANGED backend

-----------------------------------------------------------------------------
(* The backend, the operator and the markets *)

\* The cycle hears the decision on the request it waits for, or does not.
Hear(k) ==
  \/ /\ pc = "waiting" /\ mem.pending.key = k
     /\ pc' = "settled" /\ mem' = [mem EXCEPT !.pending = None]
  \/ UNCHANGED <<pc, mem>>

Answered(k) ==
  /\ k \in sent
  /\ sent' = sent \ {k}
  /\ Hear(k)
  /\ UNCHANGED <<policy, entryEnabled, saved, pol, view, chosen>>

FillOpen(k) ==
  /\ Answered(k) /\ k \in OpenKeys \ receipts
  /\ receipts' = receipts \union {k}
  /\ position' = [position EXCEPT ![k] = "open"]

\* 200 filled: the exit is done; 202: it is accepted and pending.
AcceptClose(k, state) ==
  /\ Answered(k) /\ k \in CloseKeys \ receipts
  /\ position[k.intent.position] = "open"
  /\ receipts' = receipts \union {k}
  /\ position' = [position EXCEPT ![k.intent.position] = state]

\* The first decision again: replayed = true.
Replay(k) ==
  /\ Answered(k) /\ k \in receipts
  /\ UNCHANGED <<receipts, position>>

\* 409 or 422; unheard, it stands for a request that got lost as well.
Refuse(k) ==
  /\ Answered(k) /\ k \notin receipts
  /\ UNCHANGED <<receipts, position>>

\* The market settles, or the aggregator drains an exit.
Settle(p) ==
  /\ p \in Unsettled
  /\ position' = [position EXCEPT ![p] = "settled"]
  /\ UNCHANGED <<policy, entryEnabled, sent, receipts, saved, mem, pc, pol, view, chosen>>

ToggleEntry ==
  /\ entryEnabled' = ~entryEnabled
  /\ UNCHANGED <<policy, position, sent, receipts, saved, mem, pc, pol, view, chosen>>

ChangePolicy(p) ==
  /\ p # policy /\ policy' = p
  /\ UNCHANGED <<entryEnabled, position, sent, receipts, saved, mem, pc, pol, view, chosen>>

Cycle ==
  \/ Begin \/ Skip
  \/ ReceiptFound \/ ReceiptMissing \/ ResendOpen \/ ResendClose
  \/ \E i \in Opens : DecideOpen(i)
  \/ ConfirmOpen
  \/ \E p \in OpenKeys : DecideClose(p)
  \/ Checkpoint \/ Send \/ GiveUp \/ Persist \/ Crash

Backend ==
  \/ \E k \in Keys : FillOpen(k) \/ Replay(k) \/ Refuse(k)
  \/ \E k \in CloseKeys, s \in {"exiting", "settled"} : AcceptClose(k, s)

Outside ==
  \/ \E p \in OpenKeys : Settle(p)
  \/ ToggleEntry
  \/ \E p \in Policies : ChangePolicy(p)

Next == Cycle \/ Backend \/ Outside

Spec == Init /\ [][Next]_vars

\* The scheduler claims the house again and again, and a cycle goes on to its end
\* or dies.  Cycles are skipped, crash and lose answers, but not for ever at the
\* same place: the steps that settle a request happen when they are possible
\* time after time.
Fairness ==
  /\ WF_vars(Cycle)
  /\ SF_vars(ReceiptFound) /\ SF_vars(ResendClose)
  /\ SF_vars(Send) /\ SF_vars(pc = "waiting" /\ Backend /\ pc' = "settled")
  /\ SF_vars(mem.pending = None /\ Persist)

FairSpec == Spec /\ Fairness

-----------------------------------------------------------------------------
(* Properties *)

OnRecord(k) == saved.pending # None /\ saved.pending.key = k

TypeOK ==
  /\ policy \in Policies /\ entryEnabled \in BOOLEAN
  /\ position \in [OpenKeys -> {"none", "open", "exiting", "settled"}]
  /\ sent \subseteq Keys /\ receipts \subseteq Keys
  /\ saved \in AgentStates /\ mem \in AgentStates
  /\ pc \in {"idle", "begun", "probed", "chosen", "checkpoint", "sending", "waiting", "settled"}
  /\ pol \in Policies \union {None}
  /\ view \in [entry: BOOLEAN, held: SUBSET Markets, closable: SUBSET OpenKeys]
  /\ chosen \in Opens \union {None}

\* pmPaperCycle.ts:355 "No mutation can happen until this durable checkpoint
\* succeeds": a request the backend may still execute is the one on record, so
\* that no crash makes the house forget it.
TradableIsOnRecord == \A k \in sent \ receipts : OnRecord(k)

\* A new request never goes out under a key that was used before, however many
\* cycles crashed between the checkpoint and the last write (intentSeq).
FreshKeyIsNew == pc = "checkpoint" => mem.pending.key \notin sent \union receipts

\* The house holds at most one unsettled position in a native market, although
\* the market was read as free long before the request was made, may be resent
\* cycles later and may be executed after its answer was given up.
OnePositionPerMarket ==
  \A p, q \in Unsettled : p.intent.market = q.intent.market => p = q

\* maxOpenPositions, under the same delays.
OpenWithinLimit == Cardinality(Unsettled) <= MaxOpen

\* An entry under way, resent ones included, is one the policy of the cycle that
\* sends it admits: live, entries on, within the budget, under the same floor.
SendsWithinPolicy ==
  (pc \in {"sending", "waiting"} /\ mem.pending.key \in OpenKeys) =>
    /\ pol.live /\ pol.entry
    /\ mem.pending.key.intent.cash <= pol.cash
    /\ mem.pending.floor = pol.floor

\* README.md of the scheduler, 564: "Entry pauses do not prevent receipt
\* reconciliation or full-close requests".  Once the house stays live, a pending
\* close or a pending open that was executed does not stay on record for ever.
Reconcilable ==
  /\ saved.pending # None
  /\ saved.pending.key \in CloseKeys \union receipts
ReceiptIsReconciled == <>[](policy.live) => (Reconcilable ~> ~Reconcilable)
=============================================================================
