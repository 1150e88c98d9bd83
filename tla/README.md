# CoinRithm agent trading: a TLA+ model

CoinRithm agents trade on paper accounts: a *runner* observes markets, asks a
language model for a decision, validates it and writes the trades to the
CoinRithm backend. An agent is either self-hosted (the `coinrithm-agent run`
command, one state file per agent) or hosted (a *scheduler*, several replicas
over one PostgreSQL database). Other applications reach the same backend
through the hosted MCP server or the SDKs. This directory models the parts of
the system whose correctness lies in the order of steps, or in two programs
agreeing on what a value means, rather than in the computation of a value: who
runs an agent, who may trade, what a crash leaves behind, what happens to an
owner's credit and to its share of a provider, and what a client keeps of an
answer. TLC checks the models on small instances; TLAPS proves the properties
that matter most for every value of the constants.

Paths are relative to `src/`. `db.ts`, `runtime.ts`, `scheduler.ts`,
`paidBrain.ts`, `capacity.ts`, `sharedPolicy.ts` and `route.ts` are in
`packages/scheduler/src`; `runner.ts`, `state.ts`, `cli.ts`,
`futuresCloseOutcome.ts` and `pmPaperCycle.ts` in
`packages/mcp-trading/src/agent`; the `http*.ts` files in
`packages/mcp-trading/src`; `client.py`, `models` and `api` in
`packages/sdk-python/coinrithm_sdk`.

## The system

| Part | State | Operations | Modelled in |
| --- | --- | --- | --- |
| Paid-brain credit protocol (`db.ts` 403-836, `runtime.ts` 653-978, `paidBrain.ts`) | `credit_ledger`, `paid_calls`, the step of each cycle | reserve, dispatch, send, record, finalise, recover | `PaidCalls`, abstractly `PaidHold` |
| Fleet sharing (`scheduler.ts`, `db.ts` 883-1538, `runAgentOnce`) | `agents.status`, `disabled_reason`, `next_run_at`, `agent_state`, the runs each replica has in flight | list, claim, load, run, persist, skip, pause, disable, revive; the owner's pause, stop, resume | `AgentFleet` |
| Trade idempotency (`runner.ts`, `state.ts`, `runtime.ts` 984-1349) | run identity and intent counters, saved and in memory; requests under way; keys the backend executed | start, write, confirm, give up, save, crash | `RunnerIntents` |
| Self-host run lock (`cli.ts` 341-403) and command (`cmdRun`) | the lock file, the step of each process; the state it loaded | open, read, unlink, reopen, write pid, release, killed; load, cycle | `RunnerLock`; with `RunnerIntents` in `SelfHost` |
| PM paper cycle (`pmPaperCycle.ts`) | a checkpointed request in RunState, positions, receipts | read, decide, checkpoint, send, reconcile, resend, persist, crash | `PmPaperCycle` |
| Owner capacity (`capacity.ts`, `sharedPolicy.ts`) and the part of `route.ts` that holds it | the owner's bucket: tokens, leases, one waiter's claim; the step of each cycle | reserve, queue, wait, re-admit, call, settle, hand back, expire | `OwnerBudget` |
| MCP server over HTTP (`http.ts`, `httpLimits.ts`, `httpCompletion.ts`, `httpShutdown.ts`) | requests in flight and per client, the completion record of each response, the drain | arrive, admit, refuse, handle, answer, finish, close, error, stop | `HttpServer` |
| Python SDK (`models`, `api`) and an application on it | the parsed model, the stored document, the release | parse, store, reload, upgrade | `SdkExchange` over `SdkCodec`, the four model modules and `SdkEndpoints` |
| Runner engine: observe, decide, validate, size | per-cycle values, daily caps | sequential | its effect on counters and kill switch only |
| Provider circuits, rate budget, house maintenance, credentials, MCP tools, definition files, examples | see *Not modelled* | sequential, or one row statement | no |

How they interact. Every scheduler replica loops: it recovers stale paid
calls, revives agents disabled for a passing fault, claims due agents under a
row lock (which pushes `next_run_at` far out: the agent's lock) and runs each
with `runAgentOnce`. That loads `agent_state`, reserves credit if the model is
a paid one, or a share of the owner's bucket if it is a shared one, runs one
cycle of the runner (or of the PM paper house), and persists state, cycle row
and disable-or-reschedule in one transaction; then the paid call is finalised.
The runner's writes reach the backend under an idempotency key made from the
RunState, so the two meet in `agent_state`: what the fleet persists is what
keeps a trade from being repeated. The owner acts on the same rows through the
backend at any time. The self-hosted command has a lock file and a state file
in the place of the database. The MCP server and the SDKs share nothing with
the scheduler but the backend.

What makes it hard: replicas interleave between statements; a process can die
between any two of them; a commit can take effect and its acknowledgement be
lost; a run can outlive its lock; a recovery pass works on a listing that is
out of date; a request can be executed after its sender gave up; leases expire
by a clock of their own; a response ends before, between or after the answers
it carries; a stored document is read by another release than wrote it.
`PROJECT.json` lists each hazard at its line with the properties that cover it.

What each part must guarantee:

- credit: money moves once per call, never more than was paid in or than the
  monthly cap allows, ledger and calls tell of the same money, a possibly billed
  call is never given back, and every hold is settled in the end;
- fleet: an agent is run by one replica at a time; what its owner stopped
  stays stopped; a disable is earned, and undone completely by a revival;
- runner: no trade is placed twice and no counter skips one;
- lock and command: one self-hosted runner per agent, a killed one traps
  nobody, and each cycle continues what is on disk;
- PM paper cycle: what can still trade is on record, no market is entered
  twice, limits and policy hold when a request is late or sent again, and an
  executed one is reconciled;
- owner capacity: no more calls than slots, no credit from nothing, and a
  sleeping cycle finds the refill it waits for;
- HTTP server: the count in flight is exact, each request is logged once and
  says what was delivered;
- SDK: nothing of an answer is lost, changed or made up, a store survives
  upgrades, and a refusal is not taken for a success.

## The modules

### PaidCalls and PaidHold

A call is named by its reserve key; every paid cycle makes up one, so the call
and its cycle share a name. `pc[c]` is the step of the cycle, `provider[c]`
what has really passed between cycle and model, and `status`, `terms`, `usage`,
`debit` are the columns of the row. One action is one transaction or one
exchange: `Reserve` (`reservePaidCall`), `MarkDispatched`, whose commit may take effect
unseen, `Send` and `Receive`, `RecordResult` and `ResultUnrecorded`,
`FinishCycle`/`FinishFails` (`finalizePaidRun`), `ListStale`, `RecoverCall` and
`RecoverFails` (recovery), `Crash` of a cycle at any step. `Finalize` is one
operator, used by the cycle and by recovery. Credits, reversals and the
settlement of an uncertain call by an operator are external actions. Reserve
and finalise run under the owner's advisory lock and lock the call row, so each
is one atomic step; dispatch and record are single guarded `UPDATE`s.

Abstractions: token usage is the total it is priced at (or `Unpriceable`); the
15-minute clocks are a flag that may rise at any time (`Age`), which allows more
than the code; the recovery listing has no limit of 100 rows.

`PaidHold` says what all this amounts to: a hold is placed before the service
is used, an unused one is returned, a used one is charged within its limit or
disputed. `PaidCalls` is shown to implement it (`ImplementsHold`): `reserved`,
`dispatched`, `answered` and `rejected` are a hold, `uncertain` a dispute. One
consequence worth knowing: when the dispatch mark was committed and its
acknowledgement lost, the call is not sent, yet counts as possibly sent and
waits for an operator, which is the safe side.

### AgentFleet

`wait[a]` is what is left until `next_run_at`; `runs[r][a]` is the run replica `r`
has in flight: its step, the state it loaded (`snap`), the disable it asks for
and its age. A claim is two steps, as in its one statement: the due list is
materialised (`ListDue`), then each row is locked and checked again (`Claim`);
rows another transaction holds are skipped, hence any subset. `Persist`
is one transaction. `Revive` and the owner's actions come at any time. `streak` is a
history variable: failed cycles since the last success or revival.

Abstractions: of RunState only what the kill switch reads: the streak nearest
its threshold (`fails`), 429 pressure (`limited`) and the flag (`switch`).
`disabled_reason` is its class. Left out: the order of claims among tenants, the
provider-circuit filter, the drain at shutdown, cycles of the PM paper
house (they save state in the middle of a run), and the database's house
migration.

Two switches state what the properties of one agent rest on. `Timely`: time
does not pass the lock of a run in flight (360 s, or the cadence if that is
longer). `QuietOwner`: the owner resumes an agent only when no run of it is in
flight; a resume makes an agent due at once, whatever run still has it.
`StopsAreAuthoritative` and `TypeOK` need neither.

### RunnerIntents

`run[p]` is the RunState an invocation works on, `saved` the one on record. A key
is the run identity, the intent and the intent's counter. The backend executes
a key once (external) and may do so late. `FileBacked` is the self-hosted
runner: it saves its identity before the first write, and runs alone
(`RunnerLock`). Otherwise the scheduler runs it: that save does nothing
(`stateFile: undefined`), and runs may overlap (`AgentFleet`). `Recorded` says that
a saved state exists to begin with. Every exit of a cycle saves, so `EndCycle`
does; `Crash` is a process that dies and a result that cannot be persisted.

### RunnerLock

One action per system call of `acquireLock`, and a process can be killed at
any of them. A file names its maker only after `Name`; one that cannot be
parsed counts as held. A release and a reclaim remove the file *by name*.
`OneReclaimer` restricts the model to runs in which no two processes are at
once between having found a dead owner and removing its file.

### SelfHost

The `run` command: `RunnerLock` around the cycles of `RunnerIntents`. A command
that got the lock reads the state file once (`Load`) and works from its own
copy (`own`) through all its cycles; a signal, an error or the end of the loop
releases the lock (`Stop`), and it may be killed anywhere (`Die`). What
`RunnerIntents` assumes of a self-hosted agent, one worker that starts each cycle
from what is on disk, is what the composition has to establish:
`ImplementsIntents` is the refinement, with `minted` mapped so that an identity
made up by a load counts once it is saved or lost. A process id that is used
again by another program keeps an orphaned lock held; ids are not reused in
the model.

### PmPaperCycle

The cycle of a dedicated house as its reads, its checkpoint, its request and
its last write, against positions that settle by themselves, a policy and an
entry flag that change at any time, and a backend that executes a request late
or not at all. A decision is its hash (`Opens`, `Closes`), a key that and its
counter. `Admits` is `admitsEntry`: the server's flag stands for its accounting,
loss and daily limits, the number of open positions is counted. Every read can
fail (`Skip`), every step can be the last (`Crash`). The backend decides all the requests it
holds under one key together, so that a refusal is the end of them (external).

### OwnerBudget

The row of one owner under its lock: `tokens` as of `refilledAt`, `leases` with
their expiry, and one `claim`, which keeps the tokens a denied agent waits for.
A cycle reserves, may sleep once until its refill and is admitted again or
gives up, takes a provider key, calls, and settles the estimate against the usage.
`Release` deletes the lease and settles it once; after a lost answer it is
repeated (`Undo`). Crashes leave leases and claims to their expiry. Time is
counted in ticks. `charged` and `debt` are ghost variables.

Abstractions: one owner reservation per cycle; the provider key's own bucket,
the request budget and the cooldowns are a refusal that can come at any time;
the limit on sleeping cycles in one process is the freedom not to sleep. That
a call is over before its lease expires is in the numbers: the cycle's budget
(300 s) is below the least lease (301 s), `Budget < LeaseTtl`.

### HttpServer

Callbacks of one process. `step` is where a request is in the middleware,
`response` what Node has emitted of its response, `slot` and `inFlight` are
`httpLimits.ts`, `watch` and `log` are `httpCompletion.ts`, `draining` and `exited`
`httpShutdown.ts`. Answers come in any order; `finish`, `close` and `error` come
before, between and after them; a send is in flight between `Send` and `Settle`.
Of a record only what became of the call is kept. A batch may hold one id
twice: such answers belong to nobody. POSTs to malformed links are served
outside the observed path and are left out, as are connections: a draining
server gets another request only while one of its responses is not over.

### The SDK: SdkCodec, the model modules, SdkEndpoints, SdkExchange

Every class of `models` has the same `from_dict` and `to_dict` up to its fields, so
a class is a record of what it does with them (`SdkCodec`): which keys it
demands, which it converts and raises on, which it converts leniently, which
are times, and whether it keeps unknown keys. `SdkTradingModels`,
`SdkAgentModels`, `SdkPublicPmModels` and `SdkPublicModels` hold one definition per
class, `SdkEndpoints` one per endpoint: the classes its `_parse_response` tries on each status.
A document is a function from the keys present to what matters of their
values: null, good, a time and how it is spelled, a list with an unreadable item,
anything else a conversion raises on. An object nested in it is one cell, read
and written by a class of its own, so the record of a class also says at which keys
nested objects can do, at any depth, what a class does by itself: hold a nullable list
that is kept raw (`deepList`), or be of a class that drops keys (`shut`, by required keys,
and `deepShut`). The cells `knotted`, `extra` and `late` are objects to which that happens.

`SdkExchange` is an application that calls, parses, stores with `to_dict`, is
restarted under an earlier or a later release (`Earlier` knows the required
fields only, in nested classes too, as a contract that grows by optional ones
implies) and reads its store back. What shows in the properties:

- A nullable list is kept raw when one item cannot be read, and `to_dict` then
  raises. Two classes have such lists, `PmDiscoveryResolution` (`settlementSources`)
  and `PublicCoinDetail`; the first is nested in the markets of two discovery
  responses, whose `to_dict` then raises as well. `ParsedIsStorable` says that
  there is no other case. An earlier release keeps `resolution` as an unknown key and
  can store what the later one cannot.
- 27 classes forbid unknown keys and drop them, by themselves or deep inside
  another object. `HoldsWhatWasSaid` exempts exactly those keys. `StoringIsStable`
  says when they may go: the release that wrote a document writes it again without
  loss, an upgrade loses no key (but may leave out keys of a nested object
  that the earlier release had kept unread), and a downgrade loses only optional keys of
  such classes. Stored answers do wear out in this way when releases alternate.
- `close_pm_paper_v2` reads refusals and successes by one class, which are told apart
  because that class demands `accepted` (`RefusalIsTold`).
- `_build_response` makes an `HTTPStatus` first, so that a status without a name
  raises `ValueError`.

The definitions were compared with the Python classes by running both on about
9,600 documents, those of the three nested cells under the later release among them.
Left out: values of a wrong shape on which no conversion raises (an empty list
where an object is expected is read as an empty object); 128 classes whose attributes
are all optional and kept as they come, and one whose keys are not fixed
(`PublicPmOverviewResponseHighlights`, lists of events by name); the sharing of header
dictionaries between the clients `client.with_*` returns.

### MC modules

`MC<Module>` gives the constants of a module values for TLC and defines symmetry
sets (not used where liveness is checked). Definitions whose comment begins
with "Variant" are plausible mistakes in the definition below them;
`PROJECT.json` names the property that catches each.

## The runs

| Run | Instance | Shows |
| --- | --- | --- |
| `paid_cycles` | 2 calls of 2 agents of 1 owner, 1 recovering replica | `LedgerMatchesCalls`, `NeverOverdrawn`, `MonthWithinCap`, `BooksAgree`, `ChargedAsReported`, `AskedIsOnRecord`, `OnlyUnbilledReleased`, `UncertainWaitsForRoot`, `ImplementsHold`; `EveryHoldSettles` with only recovery fair |
| `fleet_calm` | 2 agents, 2 replicas, runs in time, quiet owner | `NoOverlap`, `SnapshotIsCurrent`, `DisableIsEarned`, `TrippedIsNotActive`, `StopsAreAuthoritative` |
| `fleet_lock` | 1 agent, 2 replicas, runs of any length, quiet owner | violated: `LockHolds` |
| `intents_hosted` | 2 overlapping runs, a saved state | `NoDoubleTrade`, `ExecutedInOrder`, `SavedIsExecuted` |
| `intents_first_cycle` | 1 run at a time, no saved state | violated: `NoDoubleTrade` |
| `selfhost` | 3 commands, 2 of which may be killed, no state file yet | `RunnerKeepsItsLock`, `TradesPlacedOnce`, `OrphanIsReclaimed`, `ImplementsIntents` |
| `lock_race` | 3 processes, 1 killed, two reclaiming | violated: `OneRunner` |
| `pm_safety` | 3 markets, room for 2 positions, 3 policies | `TradableIsOnRecord`, `FreshKeyIsNew`, `OnePositionPerMarket`, `OpenWithinLimit`, `SendsWithinPolicy` |
| `pm_recovery` | 1 market, 2 requests | `ReceiptIsReconciled` |
| `capacity` | 2 agents of 1 owner, estimates 1 and 3, usage up to 4 | `CallsWithinLimit`, `NoCreditFromNothing`, `SleeperFindsItsRefill` |
| `http_events` | 2 requests of 1 client for 1 slot; a batch of two calls, of one id twice, of none | `SlotsAreExact`, `LoggedAsDelivered`, `EndIsLogged` |
| `sdk_contract` | every endpoint and class, one deviation per document, 2 releases | `HoldsWhatWasSaid`, `UpgradeKeepsStore`, `ParsedIsStorable`, `RefusalIsTold`, `StoringIsStable` |

Why the bounds are enough. Two calls of one owner are what it takes to race
for a balance or a cap; a usage of 0 or 3 against reserves of 2 and 3 costs
nothing, exactly the reserve, or more than it. One month suffices because rows of different
months never meet in `MonthSpend`, which sums by the month a call was reserved in.
Two replicas and one agent already give every overlap of runs, claims and
revivals; the second agent is there for slots and for claims of several rows.
A lock of two ticks and a cadence of one let a run be younger than, at and past
its lock, and an agent be due before, while and after it. `MaxFails = 2`
distinguishes the first failure from the last. Two writes of an intent tell a
repeated key from the next one. Three commands are a killed runner, its
reclaimer, killed in turn, and one that profits. Three markets and room for two
positions tell "one position per market" from "at most so many"; a third
request repeats an identity. The bucket's ticks are long enough for a lease to
expire, for a sleep and for a debt to be repaid. Two HTTP requests for one slot
are one that must be refused; a batch of two is the least with an order of
answers. A document of the SDK differs in one key because a class treats its
keys independently. Every bound is a constant of its module (`MaxSeq`, `MaxIntents`,
`Horizon`, `MaxCredit` and the like); the theorems hold for any value of them.

Deadlock is checked in `pm_safety` and `pm_recovery`. Elsewhere the model ends when its bounded supply
of calls, writes, ticks or processes is used up, or, like a stopped server and an idle,
wholly stopped fleet, in a legal state.

Fairness. `paid_cycles` assumes that time passes (`Age`), that the recovery pass
is run again and again (`ListStale`, weak), as the loop of every replica does, and that
a visit to a call that keeps being listed succeeds at last (`RecoverCall`, strong: a
visit can fail any number of times, but not for ever). Nothing is assumed of
cycles: they may hang or die. `selfhost` assumes that a process that is not
killed gets through `acquireLock`, which is synchronous; not that a runner ever
ends. `pm_recovery` assumes that the scheduler claims the house again and again
and that a cycle goes on or dies (weak), and that the steps which settle a
request are taken if they are possible time after time (strong): cycles are
skipped, crash and lose answers, but not for ever at the same place; the
property is conditional on the house staying live. `http_events` assumes that a send
which was started settles: it writes to a stream or fails; nothing is assumed of tools or
clients. Other runs check safety and assume nothing.

## Where the code and its comments disagree

- `fleet_lock`: `db.ts` 883-897 says a slow run is never overlapped. A run that
  outlived its lock reschedules the agent when it ends, and so takes away the
  lock of the run claimed in the meantime.
- `intents_first_cycle`: `runtime.ts` 1269-1272 promises that a crash before
  persist replays the same key. A hosted agent without an `agent_state` row
  gets a new random run identity on each invocation, until one is persisted.
- `lock_race`: `acquireLock` says that it bails out if it loses a race. A
  process that judged the old lock orphaned can unlink the fresh lock of one
  that reclaimed it first.

Seen while modelling, and not the subject of a run: the scheduler's README
(564-565) says that entry pauses do not prevent full-close requests. They do while
a pending open has no receipt: each cycle of a paused house ends at
`pm_v2_pending_entry_policy_hold` (`pmPaperCycle.ts` 188) before a close can be
decided.

## What is proved

All proofs hold for any constants that satisfy the named assumptions of the
modules, so for any number of calls, agents, replicas, processes, markets,
leases, endpoints and classes. Where a theorem needs more, it says so.

`PaidCallsProofs`. The invariant is `IInv`: types, `LedgerMatchesCalls`,
`ChargedAsReported`, and three facts that make it inductive: an unused key is
blank, a row fits what has passed between cycle and model (a row that
finalisation may release belongs to a call that was not billed), and a cycle
that is about to send has its dispatch on record. From it: `TypeCorrect`,
`MoneyMovesOnce`, `ChargesFollowUsage`, `RequestsAreOnRecord`, and the action
properties `BilledNeverRefunded` and `OnlyRootReconciles`. `Refinement` maps every
step of the protocol to a step of `PaidHold` or to none.

The other three theorems are about sums over calls and over ledger rows. The
section *Sums over finite sets* proves what is needed of the community modules'
`SumFunctionOnSet`: the sum of no terms is 0, a sum with an element more is the
sum with its term added, sums of the same terms are equal, and larger terms make
no smaller sum. The recursion behind that operator is over the subsets of a
finite set, so that it can be followed without an induction theorem that takes an
operator: the subsets at which a claim fails are a set, and if there is one,
there is one without a smaller (`WFMin` and `FS_StrictSubsetOrderingWellFounded`).
With these, `CapHolds`: a call counts for its worst case until it is settled and
for no more afterwards, so only a reservation raises what a month counts, and
that is what `Admissible` looks at (`MonthInv`). `OwnersPayFirst`: a reservation
takes from the balance what admission saw there, and a settlement gives back the
reserve and takes no more (`MoneyInv`; the balance is an owner's credits less
the reversals, plus the sum of the owner's rows). `TwoBooksAgree` says that the
two sums of the one query admission makes (`db.ts` 463-472) tell of the same
money: step by step, what an owner's rows lose is what the owner's calls come to
count for (`Cancel`). It needs `IInv` where a call is flagged for review: a
debit made there is the whole worst case.

`AgentFleetProofs`. `FleetTypes` and `StopsStay` hold for runs of any length.
Under `Timely` and `QuietOwner` the invariant is `CalmInv`: an agent with a run
in flight has a `wait` that covers the rest of that run's lock, hence is not
due and not claimed again; a run is the only one of its agent, its snapshot is the saved state,
an agent with a run is not disabled for a fault, and the streak counts at least
what the saved state counts. It gives `NeverTwoRuns`,
`SnapshotsAreCurrent`, `DisablesAreEarned` and `TrippedStaysDown`. `CalmInv` needs
both assumptions: without the first `fleet_lock` is a counterexample.

`RunnerIntentsProofs`. `InOrder` (counters count executed writes; a key on its
way follows an executed one) is inductive for every kind of runner and gives
`SavedFollowsBackend` and `KeysInOrder`. `OneIdentity` (all work is done under the
identity on record) is inductive when the identity is saved before the first
write or exists to begin with, and gives `TradesOnce`; without that,
`intents_first_cycle` is a counterexample. `Alone` gives `CountersOnlyGrow` for
the self-hosted runner (no run checks it; the theorem does); hosted runs that
overlap may save an older counter: a later trade of that intent is then
answered from the record of an earlier one, so it is lost, but none is placed
twice.

`SelfHostProofs` is about `RunnerLock` and `SelfHost`. Under `OneReclaimer` the lock a
process is about to remove belongs to a dead one, so nobody removes a runner's:
`LockStays`, and from it `RunnersExclude`. Without it `lock_race` is a
counterexample. `HostInv` adds to the lock's invariant that
only the holder of the lock has loaded a state or works, and that its copy follows the disk:
the saved identity is its own, and between cycles the saved counters are. With
it every step of `HostNext` is one of `RunnerIntents` or none
(`CommandsImplementIntents`); `CommandsExclude` is mutual exclusion. What the two
parts are there for together is `CommandsTradeOnce`, that no trade is placed
twice: every request so far was made under the identity on disk (`OneIdentity`).
It follows from the refinement and `TradesOnce`, but the prover cannot cite a
theorem through `INSTANCE`, and so it has a proof of its own.

`PmPaperCycleProofs`. `RecordInv` ties the cycle's copy to the saved state: the copy
differs only between a decision and its checkpoint or after an answer, every
key out or executed was counted, and the one that may still trade is pending
on record. `RoomInv` leaves room for that request: unless it is executed,
its market is free and the limit not used up, at every later time, because
positions only ever close while it is pending. They give `NothingIsForgotten`,
`KeysAreFresh`, `MarketsAreHeldOnce`, `LimitHolds` and, with `PolicyInv`,
`PolicyHolds`. `HouseTypes` is the type invariant.

`OwnerBudgetProofs`. `CallsStayWithinSlots`: each call has a lease of its own that
outlives its deadline, so that calls inject into running leases.
`CreditComesFromRefill`: a settlement moves credit between `charged` and `tokens`,
and everything else only loses it. `ClaimKeepsRefill` is for `MaxConcurrent = 1`,
the value of every owner bucket: with one lease at a time a refund cannot be cut
off at the burst below what a sleeper needs. `TypesAreKept` is the type
invariant.

`SdkExchangeProofs`. For any set of classes and endpoints: what is held and what is
stored is faithful to the answer key by key, a stored document was written
by a class tried on it, and it is fitted to the release that wrote it: nothing is left
in it that this release would leave out. Faithfulness gives `AnswersAreKept`,
`UpgradesAreSafe` and `StoringFailsOnLists`; for `StoringKeepsMeaning` it takes the fit
too, without which a release might drop what it had written itself (`Restored`). The
hundreds of definitions are then the data TLC evaluates in `sdk_contract`. `RefusalsAreTold` is about the
endpoints of this SDK: for each of them, on each of its statuses, the classes
tried on a refusal are those success returns only where they demand `accepted`
(`EveryEndpointTold`). Its assumption, that the API answers with documents of the
endpoints in `SdkEndpoints`, is one TLC evaluates (`MCAnswersAreDocumented`).
`SdkEndpoints` joins its records with an operator of its own, `++`, because the
prover cannot expand TLC's `@@`.

`HttpServerProofs`. `SlotInv`: a request holds a slot exactly while it is handled and
its response is open, so the count is right and bounded (`SlotsStayExact`). For
`LinesTellDelivery` the invariant `LogInv` says of each request what it keeps before
its lines are out (an outcome counts as answered while its send is on its way or
done, and `flying` is the number of those on their way) and after: a line of a
finished response waits for none, so no later send can change what it said.
`OnlySendsKeepLinesBack` is what `EndIsLogged` rests on besides fairness: in every
state, a response that is over has its line out, or an answer that its watch
counts is still on its way (`EndInv`: an end that was not logged is a finished
one with `flying > 0`). Such a send can settle, and its `finally` emits.

Only model-checked: the liveness properties `EveryHoldSettles`,
`OrphanIsReclaimed`, `ReceiptIsReconciled` and `EndIsLogged`, because liveness under
fairness is out of the prover's reach. Every invariant and every action property
of the runs is proved, and so are both refinements. Only proved: the type
invariants of all modules but `AgentFleet`, and `CountersOnlyGrow`, `RunnersExclude`
and `OnlySendsKeepLinesBack`.

## Not modelled, and why

- Provider circuits (`db.ts` 1225-1255): a strike is one upsert, a success one
  delete, and the code does not claim that one replica alone probes a held route.
- Rate budget (`rateBudget.ts`): a token bucket in one process, read and
  charged in one synchronous call. `AgentFleet` has its effect, a skipped cycle.
- The rest of capacity and routing: the bucket of a provider key has no waiter
  and is otherwise the owner's; candidate order, failure classes and retries
  are functions of what a provider answered.
- The tenant-fair order of claims: one `ORDER BY`. `AgentFleet` allows any order,
  so that its safety does not rest on it; fairness between tenants is not stated.
- Entry validation, sizing and daily caps of the runner: sequential functions
  of one observation and of counters that `RunnerIntents` shows to be kept.
- Prompts, observation tables, provider transports, definition files and their
  linting, MCP tools: no state of their own, formatting or pure I/O.
- House maintenance: operator scripts run by hand, one at a time.
- Encryption, egress checks, configuration: functions of their inputs.
- The TypeScript SDK types answers and converts nothing; the HTTP client objects of the
  Python SDK are a thin layer over `httpx`.
- Example bots: scripts to copy from.

What would come next: `AgentFleet` and `RunnerIntents` over one `agent_state`, with
the PM house's checkpoint in the middle of a run; the provider key's bucket
beside the owner's, with a lease of each held at once.
