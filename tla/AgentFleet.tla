----------------------------- MODULE AgentFleet -----------------------------
(***************************************************************************)
(* How scheduler replicas share agents (db.ts, scheduler.ts, runtime.ts):  *)
(* the row agent_runtime.agents (status, disabled_reason, next_run_at) and *)
(* the RunState in agent_runtime.agent_state, claimed, run, rescheduled,   *)
(* stopped and revived by several replicas while the owner pauses, stops   *)
(* and resumes.                                                            *)
(*                                                                         *)
(* A run has no lock of its own: claiming pushes next_run_at past          *)
(* RUN_LOCK_SECONDS, and any reschedule of the agent takes that lock away. *)
(*                                                                         *)
(* Time is counted in ticks.  wait[a] is what is left until next_run_at    *)
(* (0: due), age what has passed since a run was claimed.                  *)
(***************************************************************************)
EXTENDS Integers, FiniteSets

CONSTANTS
  Agents,
  Replicas,    \* scheduler processes
  Slots,       \* maxConcurrent: runs one replica keeps in flight
  Lock,        \* RUN_LOCK_SECONDS, in ticks
  Cadence,     \* cadence of each agent (with the shared floor), in ticks
  MaxFails,    \* kill-switch threshold on consecutive failed cycles
  Timely,      \* every run ends within the lock it was claimed with
  QuietOwner,  \* the owner resumes an agent only when no run of it is in flight
  NoRun

(* The part of RunState the kill switch reads, and the flag it leaves:      *)
(* fails is the streak nearest its threshold (model failures, cycles        *)
(* without progress), limited whether the last cycle that acted met 429     *)
(* pressure.                                                                *)
States == [fails : 0 .. MaxFails, limited : {"no", "yes"},
           switch : {"armed", "tripped"}]

FreshState == [fails |-> 0, limited |-> "no", switch |-> "armed"]

(* owner: '... by owner'.  fault: model failures, rejects, 429 pressure.    *)
(* lasting: drawdown, setup error, key_invalid.  credit: paid brain pause.  *)
Reasons == {"none", "owner", "fault", "lasting", "credit"}

(* claimed: the row was read.  running: the state was loaded.  persisting:  *)
(* runCycle returned; stop is the disable it asks for, if any.              *)
Runs == [step : {"claimed", "running", "persisting"}, snap : States,
         stop : {"none", "fault", "lasting"}, age : Nat]

ASSUME FleetAssumption ==
  /\ Slots \in Nat \ {0}
  /\ Lock \in Nat \ {0}
  /\ Cadence \in [Agents -> Nat \ {0}]
  /\ MaxFails \in Nat \ {0}
  /\ Timely \in BOOLEAN
  /\ QuietOwner \in BOOLEAN
  /\ NoRun \notin Runs

VARIABLES
  status,    \* agents.status
  reason,    \* agents.disabled_reason, by the class of its text
  wait,      \* agents.next_run_at
  saved,     \* agent_state.state
  runs,      \* runs[r][a]: the run of a that replica r has in flight
  listed,    \* listed[r]: the due list r's claim statement materialised
  streak     \* history: failed cycles persisted since a success or a revival

rowVars == <<status, reason, wait>>
vars == <<rowVars, saved, runs, listed, streak>>

-----------------------------------------------------------------------------
LockOf(a) == IF Cadence[a] > Lock THEN Cadence[a] ELSE Lock

InFlight(r) == {a \in Agents : runs[r][a] # NoRun}

Running(a) == {r \in Replicas : runs[r][a] # NoRun}

Init ==
  /\ status = [a \in Agents |-> "active"]
  /\ reason = [a \in Agents |-> "none"]
  /\ wait   = [a \in Agents |-> 0]
  /\ saved  = [a \in Agents |-> FreshState]
  /\ runs   = [r \in Replicas |-> [a \in Agents |-> NoRun]]
  /\ listed = [r \in Replicas |-> {}]
  /\ streak = [a \in Agents |-> 0]

-----------------------------------------------------------------------------
(* Claiming: the due list is materialised first, and eligibility is checked *)
(* again on each row as it is locked.                                       *)

Due(a) == status[a] = "active" /\ wait[a] = 0

ListDue(r) ==
  LET due == {a \in Agents : Due(a)} \ InFlight(r)
  IN  /\ Cardinality(InFlight(r)) < Slots
      /\ due # {}
      /\ listed' = [listed EXCEPT ![r] = due]
      /\ UNCHANGED <<rowVars, saved, runs, streak>>

(* Variant: rows are taken as they were listed.                             *)
ClaimableAsListed(r) == listed[r]

Claimable(r) == {a \in listed[r] : Due(a)}

NewRun ==
  [step |-> "claimed", snap |-> FreshState, stop |-> "none", age |-> 0]

Started(r, picked) ==
  [a \in Agents |-> IF a \in picked THEN NewRun ELSE runs[r][a]]

(* Rows another replica holds locked are skipped.  If the commit is lost or *)
(* the claim fails after it, the lock stays and no run starts.              *)
Claim(r) ==
  /\ listed[r] # {}
  /\ listed' = [listed EXCEPT ![r] = {}]
  /\ \E picked \in SUBSET Claimable(r) :
       /\ Cardinality(picked) <= Slots - Cardinality(InFlight(r))
       /\ wait' = [a \in Agents |-> IF a \in picked THEN LockOf(a) ELSE wait[a]]
       /\ \/ runs' = [runs EXCEPT ![r] = Started(r, picked)]
          \/ UNCHANGED runs
  /\ UNCHANGED <<status, reason, saved, streak>>

-----------------------------------------------------------------------------
(* Row updates.  All are guarded by status = 'active'.                      *)

(* Variant: the disable overwrites whatever status the row has.             *)
StopAlways(a, to, why) ==
  /\ status' = [status EXCEPT ![a] = to]
  /\ reason' = [reason EXCEPT ![a] = why]
  /\ UNCHANGED wait

Stop(a, to, why) ==
  /\ IF status[a] = "active"
     THEN /\ status' = [status EXCEPT ![a] = to]
          /\ reason' = [reason EXCEPT ![a] = why]
     ELSE UNCHANGED <<status, reason>>
  /\ UNCHANGED wait

(* The next slot of the agent's phase grid: after now, within one cadence.  *)
Reschedule(a) ==
  /\ IF status[a] = "active"
     THEN \E n \in 1 .. Cadence[a] : wait' = [wait EXCEPT ![a] = n]
     ELSE UNCHANGED wait
  /\ UNCHANGED <<status, reason>>

EndRun(r, a) == runs' = [runs EXCEPT ![r][a] = NoRun]

-----------------------------------------------------------------------------
(* One run (runAgentOnce)                                                   *)

LoadState(r, a) ==
  /\ runs[r][a] # NoRun /\ runs[r][a].step = "claimed"
  /\ runs' = [runs EXCEPT ![r][a] = [@ EXCEPT !.step = "running",
                                             !.snap = saved[a]]]
  /\ UNCHANGED <<rowVars, saved, listed, streak>>

(* A graceful skip: rate budget, missing platform key, refused enrolment,   *)
(* credit check or hosted provider unavailable.                             *)
SkipCycle(r, a) ==
  /\ runs[r][a] # NoRun /\ runs[r][a].step \in {"claimed", "running"}
  /\ Reschedule(a)
  /\ EndRun(r, a)
  /\ UNCHANGED <<saved, listed, streak>>

(* The paid brain's credit is exhausted and the owner chose to stop.        *)
PauseForCredit(r, a) ==
  /\ runs[r][a] # NoRun /\ runs[r][a].step = "running"
  /\ Stop(a, "paused", "credit")
  /\ EndRun(r, a)
  /\ UNCHANGED <<saved, listed, streak>>

SetupFails(r, a) ==
  /\ runs[r][a] # NoRun /\ runs[r][a].step = "running"
  /\ Stop(a, "disabled", "lasting")
  /\ EndRun(r, a)
  /\ UNCHANGED <<saved, listed, streak>>

Tripped(s) == [s EXCEPT !.switch = "tripped"]

Counted(s, n, l) == [s EXCEPT !.fails = n, !.limited = l]

(* Variant: the counters are not looked at before the cycle.                *)
OutcomesUnswitched(s) ==
  { [snap |-> Counted(s, n, l), stop |-> "none"] :
      n \in {0, s.fails, s.fails + 1}, l \in {"no", "yes"} }

(* What runCycle makes of the state it was given.  The kill switch trips on *)
(* the counters before anything is observed, in the order in which it looks *)
(* at them: streaks, realised drawdown, 429 pressure.  Otherwise the cycle  *)
(* trips on drawdown or a rejected key, or it succeeds, fails or counts for *)
(* nothing, and meets 429s or not.                                          *)
Outcomes(s) ==
  IF s.fails >= MaxFails
  THEN { [snap |-> Tripped(s), stop |-> "fault"] }
  ELSE IF s.limited = "yes"
  THEN { [snap |-> Tripped(s), stop |-> why] : why \in {"fault", "lasting"} }
  ELSE { [snap |-> Tripped([s EXCEPT !.fails = n]), stop |-> "lasting"] :
           n \in {s.fails, s.fails + 1} }
       \cup
       { [snap |-> Counted(s, n, l), stop |-> "none"] :
           n \in {0, s.fails, s.fails + 1}, l \in {"no", "yes"} }

RunCycle(r, a) ==
  /\ runs[r][a] # NoRun /\ runs[r][a].step = "running"
  /\ \E o \in Outcomes(runs[r][a].snap) :
       runs' = [runs EXCEPT ![r][a] = [step |-> "persisting", snap |-> o.snap,
                                       stop |-> o.stop, age |-> @.age]]
  /\ UNCHANGED <<rowVars, saved, listed, streak>>

(* Variant: a tripped cycle is rescheduled like any other.                  *)
SettleRescheduled(a, stop) == Reschedule(a)

Settle(a, stop) ==
  IF stop # "none" THEN Stop(a, "disabled", stop) ELSE Reschedule(a)

(* One transaction: the state, the cycle row, and the disable or reschedule. *)
Persist(r, a) ==
  /\ runs[r][a] # NoRun /\ runs[r][a].step = "persisting"
  /\ saved' = [saved EXCEPT ![a] = runs[r][a].snap]
  /\ Settle(a, runs[r][a].stop)
  /\ EndRun(r, a)
  /\ LET was == saved[a].fails
         is  == runs[r][a].snap.fails
     IN  streak' = [streak EXCEPT ![a] =
                      IF is > was THEN IF @ < MaxFails THEN @ + 1 ELSE @
                      ELSE IF is < was THEN 0 ELSE @]
  /\ UNCHANGED listed

(* The run ends and leaves the row locked: the state could not be loaded,   *)
(* the result could not be persisted, or the reschedule failed.             *)
Abandon(r, a) ==
  /\ runs[r][a] # NoRun
  /\ EndRun(r, a)
  /\ UNCHANGED <<rowVars, saved, listed, streak>>

Crash(r) ==
  /\ InFlight(r) # {} \/ listed[r] # {}
  /\ runs' = [runs EXCEPT ![r] = [a \in Agents |-> NoRun]]
  /\ listed' = [listed EXCEPT ![r] = {}]
  /\ UNCHANGED <<rowVars, saved, streak>>

-----------------------------------------------------------------------------
(* Self-healing, in every pass of every replica                             *)

(* Variant: an owner's stop is revived like a fault.                        *)
RecoverableStops(a) == status[a] = "disabled" /\ reason[a] \in {"fault", "owner"}

Recoverable(a) == status[a] = "disabled" /\ reason[a] = "fault"

(* Variant: the streaks survive the revival.                                *)
RevivedStateKept(s) == [s EXCEPT !.limited = "no", !.switch = "armed"]

RevivedState(s) == [s EXCEPT !.fails = 0, !.limited = "no", !.switch = "armed"]

Revive ==
  LET revived == {a \in Agents : Recoverable(a)}
      Choose(f, new) == [a \in Agents |-> IF a \in revived THEN new ELSE f[a]]
  IN  /\ revived # {}
      /\ status' = Choose(status, "active")
      /\ reason' = Choose(reason, "none")
      /\ wait'   = Choose(wait, 0)
      /\ saved'  = [a \in Agents |-> IF a \in revived THEN RevivedState(saved[a])
                                                      ELSE saved[a]]
      /\ streak' = Choose(streak, 0)
      /\ UNCHANGED <<runs, listed>>

-----------------------------------------------------------------------------
(* The owner and the operator, through the backend                          *)

OwnerPauses(a) ==
  /\ status[a] = "active"
  /\ status' = [status EXCEPT ![a] = "paused"]
  /\ reason' = [reason EXCEPT ![a] = "owner"]
  /\ UNCHANGED <<wait, saved, runs, listed, streak>>

OwnerStops(a) ==
  /\ status' = [status EXCEPT ![a] = "disabled"]
  /\ reason' = [reason EXCEPT ![a] = "owner"]
  /\ UNCHANGED <<wait, saved, runs, listed, streak>>

(* Re-armed at once, or when it was next due anyway.                        *)
OwnerResumes(a) ==
  /\ status[a] # "active"
  /\ QuietOwner => Running(a) = {}
  /\ status' = [status EXCEPT ![a] = "active"]
  /\ reason' = [reason EXCEPT ![a] = "none"]
  /\ wait' \in {wait, [wait EXCEPT ![a] = 0]}
  /\ UNCHANGED <<saved, runs, listed, streak>>

(* A run's age is not counted beyond its lock.                              *)
Older(run, a) == [run EXCEPT !.age = IF @ < LockOf(a) THEN @ + 1 ELSE @]

Tick ==
  /\ \E a \in Agents : wait[a] > 0 \/ Running(a) # {}
  /\ Timely =>
       \A r \in Replicas : \A a \in InFlight(r) : runs[r][a].age + 1 < LockOf(a)
  /\ wait' = [a \in Agents |-> IF wait[a] > 0 THEN wait[a] - 1 ELSE 0]
  /\ runs' = [r \in Replicas |-> [a \in Agents |->
                IF runs[r][a] = NoRun THEN NoRun ELSE Older(runs[r][a], a)]]
  /\ UNCHANGED <<status, reason, saved, listed, streak>>

-----------------------------------------------------------------------------
RunStep(r, a) ==
  \/ LoadState(r, a)
  \/ SkipCycle(r, a)
  \/ PauseForCredit(r, a)
  \/ SetupFails(r, a)
  \/ RunCycle(r, a)
  \/ Persist(r, a)
  \/ Abandon(r, a)

OwnerStep(a) == OwnerPauses(a) \/ OwnerStops(a) \/ OwnerResumes(a)

Next ==
  \/ \E r \in Replicas : ListDue(r) \/ Claim(r) \/ Crash(r)
  \/ \E r \in Replicas : \E a \in Agents : RunStep(r, a)
  \/ Revive
  \/ \E a \in Agents : OwnerStep(a)
  \/ Tick

Spec == Init /\ [][Next]_vars

-----------------------------------------------------------------------------
(* Properties *)

TypeOK ==
  /\ status \in [Agents -> {"active", "paused", "disabled"}]
  /\ reason \in [Agents -> Reasons]
  /\ wait \in [Agents -> Nat]
  /\ saved \in [Agents -> States]
  /\ runs \in [Replicas -> [Agents -> Runs \cup {NoRun}]]
  /\ listed \in [Replicas -> SUBSET Agents]
  /\ streak \in [Agents -> 0 .. MaxFails]

(* What an owner paused or stopped, and what stopped for a lasting reason   *)
(* or for lack of credit, no replica restarts or relabels: not a late       *)
(* result, not self-healing, not a second overlapping run.                  *)
StopsAreAuthoritative ==
  [][\A a \in Agents :
        status[a] # "active" /\ reason[a] # "fault" /\ ~OwnerStep(a) =>
          /\ status'[a] = status[a]
          /\ reason'[a] = reason[a]]_vars

(* As long as every run ends within its lock, no two replicas ever run the  *)
(* same agent (db.ts: "two scheduler replicas never double-run the same     *)
(* agent").                                                                 *)
NoOverlap ==
  \A a \in Agents : \A r, q \in Running(a) : r = q

(* Nothing writes an agent's state behind the back of the run that loaded   *)
(* it, so no persisted result overwrites newer counters.                    *)
SnapshotIsCurrent ==
  \A r \in Replicas : \A a \in InFlight(r) :
    runs[r][a].step = "running" => runs[r][a].snap = saved[a]

(* An agent is disabled for a fault only under 429 pressure, or after as    *)
(* many failed cycles as the kill switch allows since it last succeeded or  *)
(* was revived: revived agents do not thrash.                               *)
DisableIsEarned ==
  \A a \in Agents :
    status[a] = "disabled" /\ reason[a] = "fault" =>
      streak[a] >= MaxFails \/ saved[a].limited = "yes"

(* The kill switch's flag and the row agree: nothing but the owner makes an *)
(* agent whose saved state says "tripped" active (db.ts: a crash "never     *)
(* leaves them diverged").                                                  *)
TrippedIsNotActive ==
  [][\A a \in Agents :
        saved'[a].switch = "tripped" /\ status'[a] = "active" =>
          \/ saved[a].switch = "tripped" /\ status[a] = "active"
          \/ OwnerResumes(a)]_vars

(* The divergence: the lock is meant to keep a running agent from being     *)
(* claimed again until it expires.  Of two overlapping runs one has         *)
(* outlived its lock.                                                       *)
LockHolds ==
  \A a \in Agents : \A r, q \in Running(a) :
    r # q => runs[r][a].age >= LockOf(a) \/ runs[q][a].age >= LockOf(a)
=============================================================================
