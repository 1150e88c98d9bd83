--------------------------- MODULE RunnerIntents ---------------------------
(***************************************************************************)
(* How the runner keeps one trade from being placed twice (runner.ts,      *)
(* state.ts, runtime.ts).  A write carries an idempotency key made of the  *)
(* run identity, the intent and a counter of that intent; the backend      *)
(* executes a key once and answers a repeated one from its record.  The    *)
(* identity and the counters are part of RunState, which is saved at the   *)
(* end of a cycle: to a file when an agent is self-hosted, to agent_state  *)
(* when the scheduler runs it.                                             *)
(***************************************************************************)
EXTENDS Naturals

CONSTANTS
  Runners,     \* processes (or invocations of runAgentOnce) for one agent
  Intents,     \* what distinguishes trades: intentKeyOf
  MaxSeq,      \* bound: confirmed writes of one intent
  MaxIds,      \* bound: run identities made up
  FileBacked,  \* self-hosted: a state file and its lock; otherwise the database
  Recorded     \* the agent has a saved state to begin with

ASSUME IntentAssumption ==
  /\ Intents # {}
  /\ MaxSeq \in Nat \ {0}
  /\ MaxIds \in Nat \ {0}
  /\ FileBacked \in BOOLEAN
  /\ Recorded \in BOOLEAN

VARIABLES
  saved,     \* the saved RunState; id 0: there is none
  run,       \* run[p]: the RunState p works on, and where it is in a cycle
  sent,      \* keys under way to the backend
  executed,  \* keys the backend has executed
  minted     \* run identities made up so far

vars == <<saved, run, sent, executed, minted>>

Counters == [Intents -> 0 .. MaxSeq]

NoCounts == [i \in Intents |-> 0]

Keys == [id : 1 .. MaxIds, intent : Intents, seq : 0 .. MaxSeq]

KeyOf(p, i) == [id |-> run[p].id, intent |-> i, seq |-> run[p].seq[i]]

Idle(p) == run[p].step = "idle"

AsIdle(p) == [run EXCEPT ![p] = [@ EXCEPT !.step = "idle"]]

Init ==
  LET id == IF Recorded THEN 1 ELSE 0
  IN  /\ saved = [id |-> id, seq |-> NoCounts]
      /\ \E i \in Intents :
           run = [p \in Runners |->
                    [step |-> "idle", id |-> 1, seq |-> NoCounts, intent |-> i]]
      /\ sent = {}
      /\ executed = {}
      /\ minted = id

-----------------------------------------------------------------------------
(* A cycle *)

(* Variant: a run always works under the identity it made up.               *)
StartIdFresh == minted + 1

StartId == IF saved.id = 0 THEN minted + 1 ELSE saved.id

(* "Establish durable run identity before the first possible write."  The   *)
(* scheduler's runs have no state file, and this save does nothing.         *)
Established(id) == IF FileBacked THEN [saved EXCEPT !.id = id] ELSE saved

(* The state is loaded and, if need be, an identity made up.  The file has  *)
(* a lock; runs the scheduler starts may overlap (see AgentFleet).          *)
StartCycle(p) ==
  /\ Idle(p)
  /\ FileBacked => \A q \in Runners : Idle(q)
  /\ StartId <= MaxIds
  /\ minted' = IF StartId > minted THEN StartId ELSE minted
  /\ run' = [run EXCEPT ![p] = [step |-> "deciding", id |-> StartId,
                                seq |-> saved.seq, intent |-> @.intent]]
  /\ saved' = Established(StartId)
  /\ UNCHANGED <<sent, executed>>

(* An accepted action, or a thesis exit, is written.                        *)
SendWrite(p, i) ==
  /\ run[p].step = "deciding"
  /\ run[p].seq[i] < MaxSeq
  /\ run' = [run EXCEPT ![p] = [@ EXCEPT !.step = "waiting", !.intent = i]]
  /\ sent' = sent \cup {KeyOf(p, i)}
  /\ UNCHANGED <<saved, executed, minted>>

(* The backend executes a key, perhaps long after its sender gave up.       *)
Execute(k) ==
  /\ k \in sent
  /\ sent' = sent \ {k}
  /\ executed' = executed \cup {k}
  /\ UNCHANGED <<saved, run, minted>>

(* Variant: any answer counts.                                              *)
ConfirmedAnyhow(p) == TRUE

(* The answer says the key was executed, now or before.                     *)
Confirmed(p) == KeyOf(p, run[p].intent) \in executed

(* Variant: the write and its confirmation are both counted.                *)
AdvancedTwice(p) == [run[p].seq EXCEPT ![run[p].intent] = @ + 2]

Advanced(p) == [run[p].seq EXCEPT ![run[p].intent] = @ + 1]

ConfirmWrite(p) ==
  /\ run[p].step = "waiting"
  /\ Confirmed(p)
  /\ run' = [run EXCEPT ![p] = [step |-> "deciding", id |-> @.id,
                                seq |-> Advanced(p), intent |-> @.intent]]
  /\ UNCHANGED <<saved, sent, executed, minted>>

(* No answer, a refusal, or the replay of a close that is still settling:   *)
(* the counter stays, and so does a request that is still under way.        *)
WriteUnconfirmed(p) ==
  /\ run[p].step = "waiting"
  /\ run' = [run EXCEPT ![p] = [@ EXCEPT !.step = "deciding"]]
  /\ UNCHANGED <<saved, sent, executed, minted>>

Result(p) == [id |-> run[p].id, seq |-> run[p].seq]

EndCycle(p) ==
  /\ run[p].step = "deciding"
  /\ saved' = Result(p)
  /\ run' = AsIdle(p)
  /\ UNCHANGED <<sent, executed, minted>>

(* The process dies, or the result of the cycle cannot be saved.            *)
Crash(p) ==
  /\ ~Idle(p)
  /\ run' = AsIdle(p)
  /\ UNCHANGED <<saved, sent, executed, minted>>

(* An identity is made up with the state that is loaded, and the process    *)
(* ends, or finds a saved one, before it sends anything under it.           *)
WasteId ==
  /\ minted < MaxIds
  /\ minted' = minted + 1
  /\ UNCHANGED <<saved, run, sent, executed>>

RunnerStep(p) ==
  \/ StartCycle(p)
  \/ \E i \in Intents : SendWrite(p, i)
  \/ ConfirmWrite(p)
  \/ WriteUnconfirmed(p)
  \/ EndCycle(p)
  \/ Crash(p)

Next ==
  \/ \E p \in Runners : RunnerStep(p)
  \/ WasteId
  \/ \E k \in sent : Execute(k)

Spec == Init /\ [][Next]_vars

-----------------------------------------------------------------------------
(* Properties *)

TypeOK ==
  /\ saved \in [id : 0 .. MaxIds, seq : Counters]
  /\ run \in [Runners -> [step : {"idle", "deciding", "waiting"},
                          id : 1 .. MaxIds, seq : Counters, intent : Intents]]
  /\ sent \in SUBSET Keys
  /\ executed \in SUBSET Keys
  /\ minted \in 0 .. MaxIds

(* The n-th write of an intent is executed once: a cycle repeated after a   *)
(* crash, a lost answer or a late request reuses its key (runtime.ts: "a    *)
(* crash before persist replays the SAME key ... never a double-trade").    *)
NoDoubleTrade ==
  \A k, l \in executed : k.intent = l.intent /\ k.seq = l.seq => k.id = l.id

(* Keys are used up in order: a later write of an intent is executed only   *)
(* when every earlier one was, so no counter ever skips a trade.            *)
ExecutedInOrder ==
  \A k \in executed : k.seq > 0 => [k EXCEPT !.seq = @ - 1] \in executed

(* The saved counters never run ahead of the backend: each write they count *)
(* was executed under the saved identity.                                   *)
SavedIsExecuted ==
  \A i \in Intents : \A n \in 0 .. MaxSeq :
    n < saved.seq[i] => [id |-> saved.id, intent |-> i, seq |-> n] \in executed

(* With one runner at a time, no saved counter ever goes back, and the      *)
(* identity it counts for never changes: no old key is used for a new trade *)
(* that was already counted.                                                *)
CountersAdvance ==
  [][ /\ saved.id # 0 => saved'.id = saved.id
      /\ \A i \in Intents : saved'.seq[i] >= saved.seq[i] ]_vars
=============================================================================
