---------------------------- MODULE OwnerBudget -----------------------------
(***************************************************************************)
(* The shared owner bucket of the hosted brains                            *)
(* (packages/scheduler/src/capacity.ts and sharedPolicy.ts) and the cycles *)
(* of the owner's agents that draw on it (route.ts, runtime.ts).           *)
(*                                                                         *)
(* A bucket is one row: tokens that refill with time, leases for calls in  *)
(* flight, and one claim, which keeps the tokens a denied agent waits for. *)
(* A cycle reserves its estimate under the row's lock, takes a provider    *)
(* key, makes the call and settles the estimate against the usage; denied, *)
(* it may sleep once until its refill.  Processes die at any point; leases *)
(* and claims then wait for their expiry.                                  *)
(*                                                                         *)
(* Abstracted: the request budget and cooldowns (they deny whenever they   *)
(* like), the provider key's own bucket (it grants, denies or fails), and  *)
(* the limit on waits in one process (a cycle may always choose not to     *)
(* wait).  Time is counted in ticks.                                       *)
(***************************************************************************)
EXTENDS Integers, FiniteSets

CONSTANTS
  Agents,        \* the agents of one owner
  LeaseIds,      \* lease ids: fresh ones are never in use
  Needs,         \* estimates: reserveTokens of a decision
  Usages,        \* what a provider may report in the end
  Refill,        \* tokens per tick
  Tpm,           \* tokens per minute: the least burst
  MaxConcurrent, \* leases at a time: 1 for owners
  LeaseTtl,      \* capacityLeaseTtlSeconds
  Budget,        \* the cycle's deadline: 300 s
  MaxWait,       \* MAX_OWNER_REFILL_WAIT_MS
  MinResponse,   \* MIN_RECOVERY_RESPONSE_MS
  Slack,         \* WAITER_RETRY_SLACK_SECONDS
  Horizon,       \* bound: ticks
  None

ASSUME BudgetAssumption ==
  /\ Needs \subseteq Nat \ {0} /\ Usages \subseteq Nat
  /\ Refill \in Nat \ {0} /\ Tpm \in Nat \ {0}
  /\ MaxConcurrent \in Nat \ {0}
  /\ LeaseTtl \in Nat /\ Budget \in Nat /\ Budget < LeaseTtl
  /\ MaxWait \in Nat /\ MinResponse \in Nat /\ Slack \in Nat /\ Horizon \in Nat
  /\ None \notin LeaseIds
  /\ None \notin [reserved: Needs, until: Nat]
  /\ None \notin [by: Agents, need: Needs, until: Nat]
  /\ IsFiniteSet(LeaseIds)

VARIABLES
  now,
  tokens,        \* provider_capacity_buckets.model_tokens, as of refilledAt
  refilledAt,    \* last_refill_at
  claim,         \* waiter_key, waiter_tokens and waiter_expires_at, or None
  leases,        \* [LeaseIds -> provider_capacity_leases row, or None]
  active,        \* [Agents -> the agent is active on the shared pool]
  pc,            \* [Agents -> step of its cycle]
  need,          \* [Agents -> its estimate, 0 while idle]
  deadline,      \* [Agents -> end of its cycle, 0 while idle]
  wake,          \* [Agents -> end of its wait, 0 unless sleeping]
  held,          \* [Agents -> its lease, or None]
  charged,       \* ghost: tokens charged to the bucket so far
  debt           \* [Agents -> ghost: tokens charged beyond estimates while it sleeps]

bucketVars == <<tokens, refilledAt, claim, leases, charged>>
cycleVars == <<pc, need, deadline, wake, held>>
vars == <<now, bucketVars, active, cycleVars, debt>>

Steps == {"idle", "sleeping", "admitted", "calling", "undoing", "giving up"}

LesserOf(x, y) == IF x < y THEN x ELSE y
CeilDiv(x, y) == (x + y - 1) \div y

Init ==
  /\ now = 0 /\ tokens = 0 /\ refilledAt = 0 /\ claim = None
  /\ leases = [l \in LeaseIds |-> None]
  /\ active = [a \in Agents |-> TRUE]
  /\ pc = [a \in Agents |-> "idle"]
  /\ need = [a \in Agents |-> 0]
  /\ deadline = [a \in Agents |-> 0]
  /\ wake = [a \in Agents |-> 0]
  /\ held = [a \in Agents |-> None]
  /\ charged = 0
  /\ debt = [a \in Agents |-> 0]

-----------------------------------------------------------------------------
(* What the locked row says at this moment *)

\* tokenBurst: one request's worth of credit may accumulate.
Burst(n) == IF n < Tpm THEN Tpm ELSE n

Available(n) == LesserOf(Burst(n), tokens + Refill * (now - refilledAt))

ClaimLive == claim # None /\ claim.until > now /\ active[claim.by]

\* Variant: a claim binds nobody.
OwedNothing(a) == 0

\* Tokens owed to another live claim.
Owed(a) == IF ClaimLive /\ claim.by # a THEN claim.need ELSE 0

\* The wait for what is missing, in ticks.
Lack(missing) == IF missing > 0 THEN CeilDiv(missing, Refill) ELSE 0

\* Leases that have not been deleted and are not expired.
Running == {l \in LeaseIds : leases[l] # None /\ leases[l].until > now}
\* Variant: the last slot is given twice.
SlotsOverfull == Cardinality(Running) > MaxConcurrent
SlotsFull == Cardinality(Running) >= MaxConcurrent

\* Expired leases go at every reservation.
Purged == [l \in LeaseIds |-> IF l \in Running THEN leases[l] ELSE None]

-----------------------------------------------------------------------------
(* reserveProviderCapacity *)

Fits(a, n) == Available(n) - Owed(a) >= n

\* A live claim survives the admission of anyone; a lapsed one goes.
Admit(a, n) ==
  /\ Fits(a, n) /\ ~SlotsFull
  /\ tokens' = Available(n) - n
  /\ refilledAt' = now
  /\ charged' = charged + n
  /\ claim' = IF ClaimLive THEN claim ELSE None
  /\ \E l \in LeaseIds :
       /\ Purged[l] = None /\ \A b \in Agents : held[b] # l
       /\ leases' = [Purged EXCEPT ![l] = [reserved |-> n, until |-> now + LeaseTtl]]
       /\ held' = [held EXCEPT ![a] = l]
  /\ pc' = [pc EXCEPT ![a] = "admitted"]

\* A requester denied for tokens becomes the waiter, unless another one is.  Its
\* claim covers its own wait and is not extended by its later denials.
Queued(a, n) ==
  IF Fits(a, n) \/ (ClaimLive /\ claim.by # a) THEN claim
  ELSE [by    |-> a,
        need  |-> n,
        until |-> IF ClaimLive THEN claim.until
                  ELSE now + LesserOf(MaxWait + Slack, Lack(n - Available(n)) + Slack)]

Deny(a, n) ==
  /\ claim' = Queued(a, n)
  /\ leases' = Purged
  /\ UNCHANGED <<tokens, refilledAt, charged>>

\* Variant: the refund does not depend on the row being there.
ReleaseAgain(a, actual) ==
  /\ leases' = [leases EXCEPT ![held[a]] = None]
  /\ tokens' = LesserOf(Burst(need[a]), tokens + need[a] - actual)
  /\ charged' = IF leases[held[a]] = None THEN charged ELSE charged - need[a] + actual
  /\ claim' = IF actual > 0 /\ claim # None /\ claim.by = a THEN None ELSE claim
  /\ debt' = debt

\* releaseProviderCapacity: the lease is deleted and reconciled once.  Usage
\* beyond the estimate is kept as debt; consumed tokens end the claimant's turn.
Release(a, actual) ==
  LET l == held[a]
      reserved == leases[l].reserved
  IN  IF leases[l] = None THEN UNCHANGED <<tokens, leases, charged, claim, debt>>
      ELSE /\ leases' = [leases EXCEPT ![l] = None]
           /\ tokens' = LesserOf(Burst(reserved), tokens + reserved - actual)
           /\ charged' = charged - reserved + actual
           /\ claim' = IF actual > 0 /\ claim # None /\ claim.by = a THEN None ELSE claim
           /\ debt' = [b \in Agents |->
                         IF pc[b] = "sleeping" /\ actual > reserved
                         THEN debt[b] + actual - reserved ELSE debt[b]]

-----------------------------------------------------------------------------
(* The cycle of an agent *)

\* The cycle is over.
Finish(a) ==
  /\ pc' = [pc EXCEPT ![a] = "idle"]
  /\ need' = [need EXCEPT ![a] = 0]
  /\ deadline' = [deadline EXCEPT ![a] = 0]
  /\ wake' = [wake EXCEPT ![a] = 0]
  /\ held' = [held EXCEPT ![a] = None]

Start(a, n) ==
  /\ pc[a] = "idle" /\ active[a]
  /\ need' = [need EXCEPT ![a] = n]
  /\ deadline' = [deadline EXCEPT ![a] = now + Budget]
  /\ UNCHANGED <<now, active>>

\* The first reservation of a cycle, admitted.
AskAdmitted(a, n) ==
  /\ Start(a, n)
  /\ Admit(a, n)
  /\ UNCHANGED <<wake, debt>>

\* Denied for its owner's tokens alone, with no other claimant before it and with
\* time enough: the cycle sleeps until the refill.
AskSleeps(a, n) ==
  LET hint == Lack(n - Available(n)) IN
  /\ Start(a, n)
  /\ ~Fits(a, n) /\ ~SlotsFull /\ Owed(a) = 0
  /\ hint <= MaxWait /\ hint + MinResponse <= Budget
  /\ Deny(a, n)
  /\ pc' = [pc EXCEPT ![a] = "sleeping"]
  /\ wake' = [wake EXCEPT ![a] = now + hint]
  /\ UNCHANGED <<held, debt>>

\* Denied, for any reason, and not waiting.
AskRefused(a, n) ==
  /\ Start(a, n)
  /\ Deny(a, n)
  /\ pc' = [pc EXCEPT ![a] = "giving up"]
  /\ UNCHANGED <<wake, held, debt>>

\* After the wait the agent must still be eligible, and is admitted anew or not.
Awake(a) ==
  /\ pc[a] = "sleeping" /\ now >= wake[a]
  /\ wake' = [wake EXCEPT ![a] = 0]
  /\ debt' = [debt EXCEPT ![a] = 0]
  /\ UNCHANGED <<now, active, need, deadline>>

Eligible(a) == active[a] /\ now + MinResponse <= deadline[a]

WakeAdmitted(a) ==
  /\ Awake(a) /\ Eligible(a)
  /\ Admit(a, need[a])

WakeRefused(a) ==
  /\ Awake(a)
  /\ pc' = [pc EXCEPT ![a] = "giving up"]
  /\ held' = held
  /\ IF Eligible(a) THEN Deny(a, need[a]) ELSE UNCHANGED bucketVars

\* The provider key admits the call too, and there is time for it.
Call(a) ==
  /\ pc[a] = "admitted" /\ now < deadline[a]
  /\ pc' = [pc EXCEPT ![a] = "calling"]
  /\ UNCHANGED <<now, bucketVars, active, need, deadline, wake, held, debt>>

\* The key refuses, or the deadline has passed: the lease goes back unused.
HandBack(a) ==
  /\ pc[a] = "admitted"
  /\ Release(a, 0)
  /\ \/ pc' = [pc EXCEPT ![a] = "giving up"] /\ held' = [held EXCEPT ![a] = None]
     \/ pc' = [pc EXCEPT ![a] = "undoing"] /\ held' = held   \* the answer is lost
  /\ UNCHANGED <<now, refilledAt, active, need, deadline, wake>>

\* The key's reservation or the release before it failed: the lease is given back
\* in the error path, perhaps for the second time.
Undo(a) ==
  /\ pc[a] \in {"admitted", "undoing"}
  /\ Release(a, 0)
  /\ Finish(a)
  /\ UNCHANGED <<now, refilledAt, active>>

\* The call ends: with usage, rejected before inference (0), or without a word,
\* which charges the estimate.
Return(a, actual) ==
  /\ pc[a] = "calling"
  /\ Release(a, actual)
  /\ Finish(a)
  /\ UNCHANGED <<now, refilledAt, active>>

\* releaseOwnerClaim
Abandon(a) ==
  /\ pc[a] = "giving up"
  /\ claim' = IF claim # None /\ claim.by = a THEN None ELSE claim
  /\ Finish(a)
  /\ UNCHANGED <<now, tokens, refilledAt, leases, charged, active, debt>>

\* The process dies, or the release or the end of the claim fails.
Crash(a) ==
  /\ pc[a] # "idle"
  /\ Finish(a)
  /\ debt' = [debt EXCEPT ![a] = 0]
  /\ UNCHANGED <<now, bucketVars, active>>

\* The owner pauses, resumes, or moves the agent off the shared pool.
SetActive(a) ==
  /\ active' = [active EXCEPT ![a] = ~active[a]]
  /\ UNCHANGED <<now, bucketVars, cycleVars, debt>>

\* A call is cut at its cycle's deadline.
Tick ==
  /\ now < Horizon
  /\ \A a \in Agents : pc[a] = "calling" => now < deadline[a]
  /\ now' = now + 1
  /\ UNCHANGED <<bucketVars, active, cycleVars, debt>>

Cycle(a) ==
  \/ \E n \in Needs : AskAdmitted(a, n) \/ AskSleeps(a, n) \/ AskRefused(a, n)
  \/ WakeAdmitted(a) \/ WakeRefused(a)
  \/ Call(a) \/ HandBack(a) \/ Undo(a)
  \/ \E actual \in Usages \union {0, need[a]} : Return(a, actual)
  \/ Abandon(a) \/ Crash(a)

Next == Tick \/ \E a \in Agents : Cycle(a) \/ SetActive(a)

Spec == Init /\ [][Next]_vars

-----------------------------------------------------------------------------
(* Properties *)

TypeOK ==
  /\ now \in 0 .. Horizon
  /\ tokens \in Int /\ refilledAt \in 0 .. now
  /\ claim \in [by: Agents, need: Needs, until: Nat] \union {None}
  /\ leases \in [LeaseIds -> [reserved: Needs, until: Nat] \union {None}]
  /\ active \in [Agents -> BOOLEAN]
  /\ pc \in [Agents -> Steps]
  /\ need \in [Agents -> Needs \union {0}]
  /\ deadline \in [Agents -> Nat] /\ wake \in [Agents -> Nat]
  /\ held \in [Agents -> LeaseIds \union {None}]
  /\ charged \in Int /\ debt \in [Agents -> Nat]

\* capacity.ts:66 "adding replicas cannot multiply provider spend": no more calls
\* of the owner are in flight than it has slots, although leases expire by
\* themselves and the calls they stand for are cut by another clock.
Calling == {a \in Agents : pc[a] = "calling"}
CallsWithinLimit == Cardinality(Calling) <= MaxConcurrent

\* capacity.ts:424 "a lease reconciles once", 419 debt "may go negative": what
\* was ever charged and what is left to spend is covered by the refill since the
\* start.  A lease given back twice, a forgiven debt or a restart that starts
\* with a full bucket would be credit from nothing.
NoCreditFromNothing == charged + tokens <= Refill * refilledAt

\* capacity.ts:22 "its bounded in-cycle re-admission finds the refill": while the
\* claim of a sleeping cycle is live, its tokens will be there when it wakes,
\* whatever the owner's other agents do, except for usage that turns out to be
\* higher than its estimate.
SleeperFindsItsRefill ==
  \A a \in Agents :
    (pc[a] = "sleeping" /\ ClaimLive /\ claim.by = a /\ now <= wake[a]) =>
      tokens + Refill * (wake[a] - refilledAt) + debt[a] >= need[a]
=============================================================================
