-------------------------- MODULE AgentFleetProofs --------------------------
(***************************************************************************)
(* Proofs about AgentFleet.  Two kinds of results: what holds whatever     *)
(* replicas, runs and owners do (types, authoritative stops), and what     *)
(* holds in a calm fleet, where every run ends within its lock and the     *)
(* owner resumes only idle agents.                                         *)
(***************************************************************************)
EXTENDS AgentFleet, TLAPS

Busy(r, a) == runs[r][a] # NoRun

(* How the result of a cycle relates to the state it is about to replace.   *)
Follows(new, old, stop) ==
  /\ new.fails \in {0, old.fails, old.fails + 1}
  /\ stop = "fault" =>
       /\ new.fails = old.fails
       /\ new.fails >= MaxFails \/ new.limited = "yes"
  /\ stop = "none" => new.switch = old.switch

(* A run in a calm fleet: its lock outlasts it, it is the only run of its   *)
(* agent, self-healing leaves the agent alone, and what it read is current. *)
RunCalm(r, a) ==
  Busy(r, a) =>
    /\ runs[r][a].age < LockOf(a)
    /\ wait[a] + runs[r][a].age >= LockOf(a)
    /\ \A q \in Replicas : Busy(q, a) => q = r
    /\ ~Recoverable(a)
    /\ runs[r][a].step = "running" => runs[r][a].snap = saved[a]
    /\ runs[r][a].step = "persisting" =>
         Follows(runs[r][a].snap, saved[a], runs[r][a].stop)

(* Failures are counted, and a disable for failures was earned.             *)
RecordCalm(a) ==
  /\ saved[a].fails <= streak[a]
  /\ status[a] = "disabled" /\ reason[a] = "fault" =>
       streak[a] >= MaxFails \/ saved[a].limited = "yes"

AgentCalm(a) == RecordCalm(a) /\ \A r \in Replicas : RunCalm(r, a)

CalmInv == TypeOK /\ \A a \in Agents : AgentCalm(a)

-----------------------------------------------------------------------------
(* Types *)

(* A lock lasts at least one tick.                                          *)
LEMMA LockType == \A a \in Agents : LockOf(a) \in Nat \ {0}
BY FleetAssumption DEF LockOf

(* A replica that changes its run of one agent changes no other run.        *)
LEMMA OneRunChanges ==
  ASSUME TypeOK, NEW r \in Replicas, NEW a \in Agents, NEW v,
         runs' = [runs EXCEPT ![r][a] = v]
  PROVE  /\ runs'[r][a] = v
         /\ \A q \in Replicas, b \in Agents :
              q # r \/ b # a => runs'[q][b] = runs[q][b]
         /\ v \in Runs \cup {NoRun} =>
              runs' \in [Replicas -> [Agents -> Runs \cup {NoRun}]]
BY DEF TypeOK

(* A fresh run, and one that loaded its state, are well formed.             *)
LEMMA RunType ==
  /\ NewRun \in Runs
  /\ \A s \in States : \A run \in Runs :
       [run EXCEPT !.step = "running", !.snap = s] \in Runs
  /\ \A run \in Runs : run.age \in Nat /\ run.snap \in States
<1>1. FreshState \in States
  BY FleetAssumption DEF States, FreshState
<1>2. NewRun \in Runs
  BY <1>1 DEF NewRun, Runs
<1>3. ASSUME NEW s \in States, NEW run \in Runs
      PROVE  [run EXCEPT !.step = "running", !.snap = s] \in Runs
  BY DEF Runs
<1>4. \A run \in Runs : run.age \in Nat /\ run.snap \in States
  BY DEF Runs
<1> QED BY <1>2, <1>3, <1>4

(* Every outcome of a cycle is a well-formed state and a known stop.        *)
LEMMA OutcomeType ==
  ASSUME NEW s \in States, NEW o \in Outcomes(s)
  PROVE  /\ o.snap \in States
         /\ o.stop \in {"none", "fault", "lasting"}
         /\ Follows(o.snap, s, o.stop)
<1>1. /\ s.fails \in 0 .. MaxFails /\ s.limited \in {"no", "yes"}
      /\ s.switch \in {"armed", "tripped"}
  BY DEF States
<1>2. ASSUME NEW n \in 0 .. MaxFails, NEW l \in {"no", "yes"}
      PROVE  /\ Counted(s, n, l) \in States /\ Counted(s, n, l).fails = n
             /\ Counted(s, n, l).switch = s.switch
  BY <1>1 DEF States, Counted
<1>3. ASSUME NEW n \in 0 .. MaxFails
      PROVE  LET new == Tripped([s EXCEPT !.fails = n])
             IN  new \in States /\ new.fails = n /\ new.limited = s.limited
  BY <1>1 DEF States, Tripped
<1>4. Tripped(s) \in States /\ Tripped(s).fails = s.fails /\ Tripped(s).limited = s.limited
  BY <1>1 DEF States, Tripped
<1>5. CASE s.fails >= MaxFails
  <2>1. o = [snap |-> Tripped(s), stop |-> "fault"]
    BY <1>5 DEF Outcomes
  <2> QED BY <1>1, <1>4, <1>5, <2>1 DEF Follows
<1>6. CASE ~(s.fails >= MaxFails) /\ s.limited = "yes"
  <2>1. \/ o = [snap |-> Tripped(s), stop |-> "fault"]
        \/ o = [snap |-> Tripped(s), stop |-> "lasting"]
    BY <1>6 DEF Outcomes
  <2> QED BY <1>1, <1>4, <1>6, <2>1 DEF Follows
<1>7. CASE ~(s.fails >= MaxFails) /\ s.limited # "yes"
  <2>1. /\ 0 \in 0 .. MaxFails /\ s.fails \in 0 .. MaxFails
        /\ s.fails + 1 \in 0 .. MaxFails
    BY <1>1, <1>7, FleetAssumption
  <2>2. \/ \E n \in {s.fails, s.fails + 1} :
             o = [snap |-> Tripped([s EXCEPT !.fails = n]), stop |-> "lasting"]
        \/ \E n \in {0, s.fails, s.fails + 1}, l \in {"no", "yes"} :
             o = [snap |-> Counted(s, n, l), stop |-> "none"]
    BY <1>7 DEF Outcomes
  <2>3. ASSUME NEW n \in {s.fails, s.fails + 1},
               o = [snap |-> Tripped([s EXCEPT !.fails = n]), stop |-> "lasting"]
        PROVE  /\ o.snap \in States
               /\ o.stop \in {"none", "fault", "lasting"}
               /\ Follows(o.snap, s, o.stop)
    <3>1. o.snap \in States /\ o.snap.fails = n /\ o.stop = "lasting"
      BY <1>3, <2>1, <2>3
    <3> QED BY <3>1 DEF Follows
  <2>4. ASSUME NEW n \in {0, s.fails, s.fails + 1}, NEW l \in {"no", "yes"},
               o = [snap |-> Counted(s, n, l), stop |-> "none"]
        PROVE  /\ o.snap \in States
               /\ o.stop \in {"none", "fault", "lasting"}
               /\ Follows(o.snap, s, o.stop)
    <3>1. /\ o.snap \in States /\ o.snap.fails = n /\ o.stop = "none"
          /\ o.snap.switch = s.switch
      BY <1>2, <2>1, <2>4
    <3> QED BY <3>1 DEF Follows
  <2> QED BY <2>2, <2>3, <2>4
<1> QED BY <1>5, <1>6, <1>7

(* A revived state is well formed, with every counter at zero.              *)
LEMMA RevivedType ==
  ASSUME NEW s \in States
  PROVE  /\ RevivedState(s) \in States
         /\ RevivedState(s).fails = 0
         /\ RevivedState(s).switch = "armed"
<1>1. /\ 0 \in 0 .. MaxFails /\ "armed" \in {"armed", "tripped"}
      /\ "no" \in {"no", "yes"}
  BY FleetAssumption
<1>2. DOMAIN s = {"fails", "limited", "switch"}
  BY DEF States
<1>3. RevivedState(s).fails = 0 /\ RevivedState(s).switch = "armed"
  BY <1>2 DEF RevivedState
<1>4. [[[s EXCEPT !.fails = 0] EXCEPT !.limited = "no"] EXCEPT !.switch = "armed"]
        \in States
  BY <1>1 DEF States
<1>5. RevivedState(s)
        = [[[s EXCEPT !.fails = 0] EXCEPT !.limited = "no"] EXCEPT !.switch = "armed"]
  BY DEF RevivedState
<1> QED BY <1>3, <1>4, <1>5

(* The guarded updates of a row keep its type.                              *)
LEMMA RowUpdateType ==
  ASSUME TypeOK, NEW a \in Agents,
         \/ Reschedule(a)
         \/ \E to \in {"paused", "disabled"}, why \in {"fault", "lasting", "credit"} :
              Stop(a, to, why)
  PROVE  /\ status' \in [Agents -> {"active", "paused", "disabled"}]
         /\ reason' \in [Agents -> Reasons]
         /\ wait' \in [Agents -> Nat]
BY FleetAssumption DEF TypeOK, Reschedule, Stop, Reasons

(* The fleet starts well typed.                                             *)
LEMMA InitTypes == Init => TypeOK
BY FleetAssumption DEF Init, TypeOK, States, Reasons, FreshState

(* A step of one run keeps the types.                                       *)
LEMMA RunStepTypes ==
  ASSUME TypeOK, NEW r \in Replicas, NEW a \in Agents, RunStep(r, a)
  PROVE  TypeOK'
<1>1. NoRun \in Runs \cup {NoRun} /\ saved[a] \in States
  BY DEF TypeOK
<1>2. runs[r][a] # NoRun => runs[r][a] \in Runs
  BY DEF TypeOK
<1>3. ASSUME EndRun(r, a)
      PROVE  runs' \in [Replicas -> [Agents -> Runs \cup {NoRun}]]
  BY <1>1, <1>3, OneRunChanges DEF EndRun
<1>4. CASE LoadState(r, a)
  <2>1. [runs[r][a] EXCEPT !.step = "running", !.snap = saved[a]] \in Runs
    BY <1>1, <1>2, <1>4, RunType DEF LoadState
  <2>2. runs' = [runs EXCEPT ![r][a] = [runs[r][a] EXCEPT !.step = "running",
                                                         !.snap = saved[a]]]
    BY <1>4 DEF LoadState, TypeOK
  <2>3. runs' \in [Replicas -> [Agents -> Runs \cup {NoRun}]]
    BY <2>1, <2>2, OneRunChanges
  <2> QED BY <1>4, <2>3 DEF TypeOK, LoadState, rowVars
<1>5. CASE SkipCycle(r, a)
  <2>1. Reschedule(a) /\ EndRun(r, a) /\ UNCHANGED <<saved, listed, streak>>
    BY <1>5 DEF SkipCycle
  <2> QED BY <1>3, <2>1, RowUpdateType DEF TypeOK
<1>6. CASE PauseForCredit(r, a)
  <2>1. Stop(a, "paused", "credit") /\ EndRun(r, a)
        /\ UNCHANGED <<saved, listed, streak>>
    BY <1>6 DEF PauseForCredit
  <2> QED BY <1>3, <2>1, RowUpdateType DEF TypeOK
<1>7. CASE SetupFails(r, a)
  <2>1. Stop(a, "disabled", "lasting") /\ EndRun(r, a)
        /\ UNCHANGED <<saved, listed, streak>>
    BY <1>7 DEF SetupFails
  <2> QED BY <1>3, <2>1, RowUpdateType DEF TypeOK
<1>8. CASE RunCycle(r, a)
  <2>1. PICK o \in Outcomes(runs[r][a].snap) :
          runs' = [runs EXCEPT ![r][a] = [step |-> "persisting", snap |-> o.snap,
                                          stop |-> o.stop, age |-> runs[r][a].age]]
    BY <1>8 DEF RunCycle, TypeOK
  <2>2. runs[r][a].snap \in States /\ runs[r][a].age \in Nat
    BY <1>2, <1>8, RunType DEF RunCycle
  <2>3. o.snap \in States /\ o.stop \in {"none", "fault", "lasting"}
    BY <2>2, OutcomeType
  <2>4. [step |-> "persisting", snap |-> o.snap, stop |-> o.stop,
         age |-> runs[r][a].age] \in Runs
    BY <2>2, <2>3 DEF Runs
  <2>5. runs' \in [Replicas -> [Agents -> Runs \cup {NoRun}]]
    BY <2>1, <2>4, OneRunChanges
  <2> QED BY <1>8, <2>5 DEF TypeOK, RunCycle, rowVars
<1>9. CASE Persist(r, a)
  <2>1. runs[r][a] \in Runs
    BY <1>2, <1>9 DEF Persist
  <2>2. runs[r][a].snap \in States /\ runs[r][a].stop \in {"none", "fault", "lasting"}
    BY <2>1, RunType DEF Runs
  <2>3. saved' \in [Agents -> States]
    BY <1>9, <2>2 DEF Persist, TypeOK
  <2>4. \/ Reschedule(a)
        \/ Stop(a, "disabled", "fault")
        \/ Stop(a, "disabled", "lasting")
    BY <1>9, <2>2 DEF Persist, Settle
  <2>5. streak[a] \in 0 .. MaxFails
    BY DEF TypeOK
  <2>6. streak' \in [Agents -> 0 .. MaxFails]
    BY <1>9, <2>5, FleetAssumption DEF Persist, TypeOK
  <2>7. EndRun(r, a) /\ UNCHANGED listed
    BY <1>9 DEF Persist
  <2> QED BY <1>3, <2>3, <2>4, <2>6, <2>7, RowUpdateType DEF TypeOK
<1>10. CASE Abandon(r, a)
  <2>1. EndRun(r, a) /\ UNCHANGED <<rowVars, saved, listed, streak>>
    BY <1>10 DEF Abandon
  <2> QED BY <1>3, <2>1 DEF TypeOK, rowVars
<1> QED
  BY <1>4, <1>5, <1>6, <1>7, <1>8, <1>9, <1>10 DEF RunStep

(* So does claiming, crashing, self-healing, the owner and the clock.       *)
LEMMA FleetStepTypes ==
  ASSUME TypeOK,
         \/ \E r \in Replicas : ListDue(r) \/ Claim(r) \/ Crash(r)
         \/ Revive
         \/ \E a \in Agents : OwnerStep(a)
         \/ Tick
  PROVE  TypeOK'
<1>1. ASSUME NEW r \in Replicas, ListDue(r)
      PROVE  TypeOK'
  <2>1. {a \in Agents : Due(a)} \ InFlight(r) \in SUBSET Agents
    OBVIOUS
  <2> QED BY <1>1, <2>1 DEF TypeOK, ListDue, rowVars
<1>2. ASSUME NEW r \in Replicas, Claim(r)
      PROVE  TypeOK'
  <2>1. PICK picked \in SUBSET Claimable(r) :
          /\ wait' = [a \in Agents |-> IF a \in picked THEN LockOf(a) ELSE wait[a]]
          /\ \/ runs' = [runs EXCEPT ![r] = Started(r, picked)]
             \/ UNCHANGED runs
    BY <1>2, Zenon DEF Claim
  <2>2. wait' \in [Agents -> Nat]
    BY <2>1, LockType DEF TypeOK
  <2>3. runs' \in [Replicas -> [Agents -> Runs \cup {NoRun}]]
    <3>1. Started(r, picked) \in [Agents -> Runs \cup {NoRun}]
      <4>1. \A a \in Agents : runs[r][a] \in Runs \cup {NoRun}
        BY DEF TypeOK
      <4> QED BY <4>1, RunType, Zenon DEF Started
    <3>2. CASE UNCHANGED runs
      BY <3>2 DEF TypeOK
    <3>3. CASE runs' = [runs EXCEPT ![r] = Started(r, picked)]
      BY <3>1, <3>3 DEF TypeOK
    <3> QED BY <2>1, <3>2, <3>3
  <2> QED BY <1>2, <2>2, <2>3 DEF TypeOK, Claim
<1>3. ASSUME NEW r \in Replicas, Crash(r)
      PROVE  TypeOK'
  BY <1>3 DEF TypeOK, Crash, rowVars
<1>4. CASE Revive
  <2>1. \A a \in Agents : RevivedState(saved[a]) \in States
    BY RevivedType DEF TypeOK
  <2> QED BY <1>4, <2>1, FleetAssumption DEF TypeOK, Revive, Reasons
<1>5. ASSUME NEW a \in Agents, OwnerStep(a)
      PROVE  TypeOK'
  BY <1>5 DEF TypeOK, OwnerStep, OwnerPauses, OwnerStops, OwnerResumes, Reasons
<1>6. CASE Tick
  <2>1. wait' \in [Agents -> Nat]
    BY <1>6 DEF TypeOK, Tick
  <2>2. ASSUME NEW r \in Replicas, NEW a \in Agents
        PROVE  runs'[r][a] \in Runs \cup {NoRun}
    <3>1. runs[r][a] \in Runs \cup {NoRun}
      BY DEF TypeOK
    <3>2. runs[r][a] \in Runs => Older(runs[r][a], a) \in Runs
      BY LockType DEF Older, Runs
    <3>3. runs'[r][a] = IF runs[r][a] = NoRun THEN NoRun ELSE Older(runs[r][a], a)
      BY <1>6 DEF Tick
    <3> QED BY <3>1, <3>2, <3>3
  <2>3. runs' \in [Replicas -> [Agents -> Runs \cup {NoRun}]]
    BY <1>6, <2>2 DEF Tick
  <2> QED BY <1>6, <2>1, <2>3 DEF TypeOK, Tick
<1> QED BY <1>1, <1>2, <1>3, <1>4, <1>5, <1>6

(* Every step keeps the types.                                              *)
LEMMA NextTypes == TypeOK /\ [Next]_vars => TypeOK'
<1> SUFFICES ASSUME TypeOK, [Next]_vars PROVE TypeOK'
  OBVIOUS
<1>1. CASE UNCHANGED vars
  BY <1>1 DEF vars, rowVars, TypeOK
<1>2. CASE Next
  BY <1>2, RunStepTypes, FleetStepTypes DEF Next
<1> QED BY <1>1, <1>2

(* Every variable keeps its type; in particular no state counts more        *)
(* failures than the kill switch allows, even when runs overlap.            *)
THEOREM FleetTypes == Spec => []TypeOK
BY InitTypes, NextTypes, PTL DEF Spec

-----------------------------------------------------------------------------
(* Authoritative stops, in any fleet                                        *)

(* Whatever late results, overlapping runs and self-healing do, an agent    *)
(* that its owner, a lasting fault or a lack of credit stopped stays        *)
(* stopped, with its reason, until the owner acts.                          *)
THEOREM StopsStay == Spec => StopsAreAuthoritative
<1>1. ASSUME TypeOK, [Next]_vars, NEW a \in Agents,
             status[a] # "active", reason[a] # "fault", ~OwnerStep(a)
      PROVE  status'[a] = status[a] /\ reason'[a] = reason[a]
  <2>1. ASSUME NEW b \in Agents, NEW to, NEW why, Stop(b, to, why)
        PROVE  status'[a] = status[a] /\ reason'[a] = reason[a]
    BY <1>1, <2>1 DEF Stop, TypeOK
  <2>2. ASSUME NEW b \in Agents, Reschedule(b)
        PROVE  status'[a] = status[a] /\ reason'[a] = reason[a]
    BY <2>2 DEF Reschedule
  <2>3. CASE UNCHANGED vars
    BY <2>3 DEF vars, rowVars
  <2>4. ASSUME NEW r \in Replicas, ListDue(r) \/ Claim(r) \/ Crash(r)
        PROVE  status'[a] = status[a] /\ reason'[a] = reason[a]
    BY <2>4 DEF ListDue, Claim, Crash, rowVars
  <2>5. ASSUME NEW r \in Replicas, NEW b \in Agents, RunStep(r, b)
        PROVE  status'[a] = status[a] /\ reason'[a] = reason[a]
    BY <2>1, <2>2, <2>5 DEF RunStep, LoadState, SkipCycle, PauseForCredit,
         SetupFails, RunCycle, Persist, Settle, Abandon, rowVars
  <2>6. CASE Revive
    BY <1>1, <2>6 DEF Revive, Recoverable
  <2>7. ASSUME NEW b \in Agents, OwnerStep(b)
        PROVE  status'[a] = status[a] /\ reason'[a] = reason[a]
    BY <1>1, <2>7 DEF OwnerStep, OwnerPauses, OwnerStops, OwnerResumes, TypeOK
  <2>8. CASE Tick
    BY <2>8 DEF Tick
  <2> QED BY <1>1, <2>3, <2>4, <2>5, <2>6, <2>7, <2>8 DEF Next
<1>2. TypeOK /\ [Next]_vars =>
        [\A a \in Agents :
           status[a] # "active" /\ reason[a] # "fault" /\ ~OwnerStep(a) =>
             /\ status'[a] = status[a]
             /\ reason'[a] = reason[a]]_vars
  BY <1>1
<1> QED BY <1>2, FleetTypes, PTL DEF Spec, StopsAreAuthoritative

-----------------------------------------------------------------------------
(* The calm fleet *)

(* An agent a step does not touch stays calm.                               *)
LEMMA Untouched ==
  ASSUME NEW b \in Agents, AgentCalm(b),
         status'[b] = status[b], reason'[b] = reason[b], wait'[b] = wait[b],
         saved'[b] = saved[b], streak'[b] = streak[b],
         \A r \in Replicas : runs'[r][b] = runs[r][b]
  PROVE  AgentCalm(b)'
BY DEF AgentCalm, RecordCalm, RunCalm, Busy, Recoverable

(* An agent without a run is calm when its record is.                       *)
LEMMA Idle ==
  ASSUME NEW a \in Agents, RecordCalm(a)', \A q \in Replicas : ~Busy(q, a)'
  PROVE  AgentCalm(a)'
BY DEF AgentCalm, RunCalm

(* The run that ends was the agent's only one.                              *)
LEMMA LastRunEnds ==
  ASSUME TypeOK, NEW r \in Replicas, NEW a \in Agents, AgentCalm(a),
         Busy(r, a), EndRun(r, a)
  PROVE  /\ \A q \in Replicas : ~Busy(q, a)'
         /\ \A q \in Replicas, b \in Agents : b # a => runs'[q][b] = runs[q][b]
<1>1. /\ runs'[r][a] = NoRun
      /\ \A q \in Replicas, b \in Agents : q # r \/ b # a => runs'[q][b] = runs[q][b]
  BY OneRunChanges DEF EndRun
<1>2. \A q \in Replicas : Busy(q, a) => q = r
  BY DEF AgentCalm, RunCalm
<1> QED BY <1>1, <1>2 DEF Busy

(* A row update changes one agent, and never to a fault unless asked to.    *)
LEMMA RowUpdate ==
  ASSUME TypeOK, NEW a \in Agents, NEW why,
         Reschedule(a) \/ \E to : Stop(a, to, why)
  PROVE  /\ \A b \in Agents : b # a => /\ status'[b] = status[b]
                                       /\ reason'[b] = reason[b]
                                       /\ wait'[b] = wait[b]
         /\ \/ status'[a] = status[a] /\ reason'[a] = reason[a]
            \/ reason'[a] = why
BY DEF TypeOK, Reschedule, Stop

(* A calm fleet starts calm.                                                *)
LEMMA InitCalm == Init => CalmInv
<1> SUFFICES ASSUME Init PROVE CalmInv
  OBVIOUS
<1>1. TypeOK
  BY InitTypes
<1>2. ASSUME NEW a \in Agents
      PROVE  AgentCalm(a)
  BY FleetAssumption DEF Init, AgentCalm, RecordCalm, RunCalm, Busy, FreshState
<1> QED BY <1>1, <1>2 DEF CalmInv

(* A run that ends without a result leaves the fleet calm.                  *)
LEMMA RunEndsCalm ==
  ASSUME CalmInv, NEW r \in Replicas, NEW a \in Agents, Busy(r, a), EndRun(r, a),
         UNCHANGED <<saved, streak>>,
         \/ Reschedule(a)
         \/ Stop(a, "paused", "credit")
         \/ Stop(a, "disabled", "lasting")
         \/ UNCHANGED rowVars
  PROVE  \A b \in Agents : AgentCalm(b)'
<1>1. \A b \in Agents : b # a => /\ status'[b] = status[b]
                                /\ reason'[b] = reason[b]
                                /\ wait'[b] = wait[b]
  BY RowUpdate DEF CalmInv, rowVars
<1>2. \/ status'[a] = status[a] /\ reason'[a] = reason[a]
      \/ reason'[a] \in {"credit", "lasting"}
  BY RowUpdate DEF CalmInv, rowVars
<1>3. /\ \A q \in Replicas : ~Busy(q, a)'
      /\ \A q \in Replicas, b \in Agents : b # a => runs'[q][b] = runs[q][b]
  BY LastRunEnds DEF CalmInv
<1>4. RecordCalm(a)'
  BY <1>2 DEF CalmInv, AgentCalm, RecordCalm
<1>5. AgentCalm(a)'
  BY <1>3, <1>4, Idle
<1>6. ASSUME NEW b \in Agents, b # a
      PROVE  AgentCalm(b)'
  BY <1>1, <1>3, <1>6, Untouched DEF CalmInv
<1> QED BY <1>5, <1>6

(* A run that loads its state reads the current one.                        *)
LEMMA LoadStateCalm ==
  ASSUME CalmInv, NEW r \in Replicas, NEW a \in Agents, LoadState(r, a)
  PROVE  \A b \in Agents : AgentCalm(b)'
<1> DEFINE new == [runs[r][a] EXCEPT !.step = "running", !.snap = saved[a]]
<1>1. TypeOK /\ AgentCalm(a) /\ Busy(r, a) /\ runs[r][a] \in Runs
  BY DEF CalmInv, LoadState, Busy, TypeOK
<1>2. runs' = [runs EXCEPT ![r][a] = new]
  BY DEF LoadState, CalmInv, TypeOK
<1> HIDE DEF new
<1>3. /\ runs'[r][a] = new
      /\ \A q \in Replicas, b \in Agents : q # r \/ b # a => runs'[q][b] = runs[q][b]
  BY <1>1, <1>2, OneRunChanges
<1>4. new.step = "running" /\ new.snap = saved[a] /\ new.age = runs[r][a].age
  BY <1>1 DEF Runs, new
<1>5. UNCHANGED <<status, reason, wait, saved, streak>>
  BY DEF LoadState, rowVars
<1>6. \A q \in Replicas : Busy(q, a)' => q = r
  BY <1>1, <1>3 DEF Busy, AgentCalm, RunCalm
<1>7. AgentCalm(a)'
  <2>1. RecordCalm(a)'
    BY <1>1, <1>5 DEF AgentCalm, RecordCalm
  <2>2. RunCalm(r, a)'
    BY <1>1, <1>3, <1>4, <1>5, <1>6 DEF AgentCalm, RunCalm, Recoverable
  <2>3. ASSUME NEW q \in Replicas PROVE RunCalm(q, a)'
    BY <1>6, <2>2 DEF RunCalm
  <2> QED BY <2>1, <2>3 DEF AgentCalm
<1>8. ASSUME NEW b \in Agents, b # a
      PROVE  AgentCalm(b)'
  BY <1>3, <1>5, <1>8, Untouched DEF CalmInv
<1> QED BY <1>7, <1>8

(* The result of a cycle follows the state it started from.                 *)
LEMMA RunCycleCalm ==
  ASSUME CalmInv, NEW r \in Replicas, NEW a \in Agents, RunCycle(r, a)
  PROVE  \A b \in Agents : AgentCalm(b)'
<1>1. TypeOK /\ AgentCalm(a) /\ Busy(r, a) /\ runs[r][a] \in Runs
  BY DEF CalmInv, RunCycle, Busy, TypeOK
<1>2. PICK o \in Outcomes(runs[r][a].snap) :
        runs' = [runs EXCEPT ![r][a] = [step |-> "persisting", snap |-> o.snap,
                                        stop |-> o.stop, age |-> runs[r][a].age]]
  BY DEF RunCycle, CalmInv, TypeOK
<1> DEFINE new == [step |-> "persisting", snap |-> o.snap,
                   stop |-> o.stop, age |-> runs[r][a].age]
<1>3. runs' = [runs EXCEPT ![r][a] = new]
  BY <1>2
<1> HIDE DEF new
<1>4. /\ runs'[r][a] = new
      /\ \A q \in Replicas, b \in Agents : q # r \/ b # a => runs'[q][b] = runs[q][b]
  BY <1>1, <1>3 DEF TypeOK
<1>5. runs[r][a].snap = saved[a] /\ runs[r][a].snap \in States
  BY <1>1, RunType DEF RunCycle, AgentCalm, RunCalm
<1>6. Follows(o.snap, saved[a], o.stop)
  BY <1>5, OutcomeType
<1>7. UNCHANGED <<status, reason, wait, saved, streak>>
  BY DEF RunCycle, rowVars
<1>8. \A q \in Replicas : Busy(q, a)' => q = r
  BY <1>1, <1>4 DEF Busy, AgentCalm, RunCalm
<1>9. AgentCalm(a)'
  <2>1. RecordCalm(a)'
    BY <1>1, <1>7 DEF AgentCalm, RecordCalm
  <2>2. RunCalm(r, a)'
    BY <1>1, <1>4, <1>6, <1>7, <1>8 DEF AgentCalm, RunCalm, Recoverable, Follows, new
  <2>3. ASSUME NEW q \in Replicas PROVE RunCalm(q, a)'
    BY <1>8, <2>2 DEF RunCalm
  <2> QED BY <2>1, <2>3 DEF AgentCalm
<1>10. ASSUME NEW b \in Agents, b # a
      PROVE  AgentCalm(b)'
  BY <1>4, <1>7, <1>10, Untouched DEF CalmInv
<1> QED BY <1>9, <1>10

(* Persisting keeps the counters current and earns every disable.           *)
LEMMA PersistCalm ==
  ASSUME CalmInv, NEW r \in Replicas, NEW a \in Agents, Persist(r, a)
  PROVE  \A b \in Agents : AgentCalm(b)'
<1> DEFINE old == saved[a]
           new == runs[r][a].snap
           stop == runs[r][a].stop
<1>1. TypeOK /\ AgentCalm(a) /\ Busy(r, a) /\ runs[r][a] \in Runs
  BY DEF CalmInv, Persist, Busy, TypeOK
<1>2. /\ Follows(new, old, stop) /\ ~Recoverable(a)
      /\ old.fails <= streak[a]
  BY <1>1 DEF Persist, AgentCalm, RunCalm, RecordCalm
<1>3. /\ stop \in {"none", "fault", "lasting"}
      /\ new.fails \in 0 .. MaxFails /\ old.fails \in 0 .. MaxFails
      /\ streak[a] \in 0 .. MaxFails
  BY <1>1 DEF Runs, States, TypeOK
<1>4. Reschedule(a) \/ Stop(a, "disabled", stop)
  BY DEF Persist, Settle
<1>5. /\ \A b \in Agents : b # a => /\ status'[b] = status[b]
                                   /\ reason'[b] = reason[b]
                                   /\ wait'[b] = wait[b]
      /\ \/ status'[a] = status[a] /\ reason'[a] = reason[a]
         \/ reason'[a] = stop
  BY <1>1, <1>4, RowUpdate
<1>6. /\ \A q \in Replicas : ~Busy(q, a)'
      /\ \A q \in Replicas, b \in Agents : b # a => runs'[q][b] = runs[q][b]
  BY <1>1, LastRunEnds DEF Persist
<1>7. /\ saved'[a] = new
      /\ streak'[a] = IF new.fails > old.fails
                      THEN IF streak[a] < MaxFails THEN streak[a] + 1 ELSE streak[a]
                      ELSE IF new.fails < old.fails THEN 0 ELSE streak[a]
      /\ \A b \in Agents : b # a => saved'[b] = saved[b] /\ streak'[b] = streak[b]
  BY <1>1 DEF Persist, TypeOK
<1>8. saved'[a].fails <= streak'[a]
  BY <1>2, <1>3, <1>7, FleetAssumption DEF Follows
<1>9. status'[a] = "disabled" /\ reason'[a] = "fault" =>
        streak'[a] >= MaxFails \/ saved'[a].limited = "yes"
  BY <1>2, <1>3, <1>5, <1>7, FleetAssumption DEF Follows, Recoverable
<1>10. AgentCalm(a)'
  BY <1>6, <1>8, <1>9, Idle DEF RecordCalm
<1>11. ASSUME NEW b \in Agents, b # a
       PROVE  AgentCalm(b)'
  BY <1>5, <1>6, <1>7, <1>11, Untouched DEF CalmInv
<1> QED BY <1>10, <1>11

(* Claimed agents were not running, and get a lock as long as their run.    *)
LEMMA ClaimCalm ==
  ASSUME CalmInv, NEW r \in Replicas, Claim(r)
  PROVE  \A b \in Agents : AgentCalm(b)'
<1>1. PICK picked \in SUBSET Claimable(r) :
        /\ wait' = [a \in Agents |-> IF a \in picked THEN LockOf(a) ELSE wait[a]]
        /\ \/ runs' = [runs EXCEPT ![r] = Started(r, picked)]
           \/ UNCHANGED runs
  BY Zenon DEF Claim
<1>2. TypeOK /\ UNCHANGED <<status, reason, saved, streak>>
  BY DEF CalmInv, Claim
<1> SUFFICES ASSUME NEW b \in Agents PROVE AgentCalm(b)'
  OBVIOUS
<1>3. AgentCalm(b) /\ wait[b] \in Nat /\ LockOf(b) \in Nat \ {0}
  BY <1>2, LockType DEF CalmInv, TypeOK
<1>4. /\ \A q \in Replicas : q # r => runs'[q][b] = runs[q][b]
      /\ \/ runs'[r][b] = runs[r][b]
         \/ b \in picked /\ runs'[r][b] = NewRun
  BY <1>1, <1>2 DEF TypeOK, Started
<1>5. CASE b \notin picked
  <2>1. wait'[b] = wait[b] /\ \A q \in Replicas : runs'[q][b] = runs[q][b]
    BY <1>1, <1>4, <1>5
  <2> QED BY <1>2, <1>3, <2>1, Untouched
<1>6. CASE b \in picked
  <2>1. status[b] = "active" /\ wait[b] = 0 /\ wait'[b] = LockOf(b)
    BY <1>1, <1>6 DEF Claimable, Due
  <2>2. \A q \in Replicas : ~Busy(q, b)
    <3> SUFFICES ASSUME NEW q \in Replicas, Busy(q, b) PROVE FALSE
      OBVIOUS
    <3>1. runs[q][b] \in Runs
      BY <1>2 DEF Busy, TypeOK
    <3>2. /\ runs[q][b].age \in Nat /\ runs[q][b].age < LockOf(b)
          /\ wait[b] + runs[q][b].age >= LockOf(b)
      BY <1>3, <3>1, RunType DEF AgentCalm, RunCalm
    <3> QED BY <1>3, <2>1, <3>2
  <2>3. RecordCalm(b)'
    BY <1>2, <1>3 DEF AgentCalm, RecordCalm
  <2>4. ASSUME NEW q \in Replicas, Busy(q, b)'
        PROVE  q = r /\ runs'[r][b] = NewRun
    BY <1>4, <2>2, <2>4 DEF Busy
  <2>5. ASSUME NEW q \in Replicas
        PROVE  RunCalm(q, b)'
    BY <1>2, <1>3, <2>1, <2>4 DEF RunCalm, NewRun, Recoverable
  <2> QED BY <2>3, <2>5 DEF AgentCalm
<1> QED BY <1>5, <1>6

(* A crash only ends runs.                                                  *)
LEMMA CrashCalm ==
  ASSUME CalmInv, NEW r \in Replicas, Crash(r)
  PROVE  \A b \in Agents : AgentCalm(b)'
<1> SUFFICES ASSUME NEW b \in Agents PROVE AgentCalm(b)'
  OBVIOUS
<1>1. AgentCalm(b) /\ UNCHANGED <<status, reason, wait, saved, streak>>
  BY DEF CalmInv, Crash, rowVars
<1>2. /\ runs'[r][b] = NoRun
      /\ \A q \in Replicas : q # r => runs'[q][b] = runs[q][b]
  BY DEF Crash, CalmInv, TypeOK
<1>3. RecordCalm(b)'
  BY <1>1 DEF AgentCalm, RecordCalm
<1>4. ASSUME NEW q \in Replicas PROVE RunCalm(q, b)'
  BY <1>1, <1>2 DEF AgentCalm, RunCalm, Busy, Recoverable
<1> QED BY <1>3, <1>4 DEF AgentCalm

(* Self-healing revives idle agents, and their streak starts over.          *)
LEMMA ReviveCalm ==
  ASSUME CalmInv, Revive
  PROVE  \A b \in Agents : AgentCalm(b)'
<1> SUFFICES ASSUME NEW b \in Agents PROVE AgentCalm(b)'
  OBVIOUS
<1>1. AgentCalm(b) /\ saved[b] \in States /\ UNCHANGED runs
  BY DEF CalmInv, TypeOK, Revive
<1>2. CASE ~Recoverable(b)
  <2>1. /\ status'[b] = status[b] /\ reason'[b] = reason[b] /\ wait'[b] = wait[b]
        /\ saved'[b] = saved[b] /\ streak'[b] = streak[b]
    BY <1>2 DEF Revive
  <2> QED BY <1>1, <2>1, Untouched
<1>3. CASE Recoverable(b)
  <2>1. status'[b] = "active" /\ streak'[b] = 0 /\ saved'[b] = RevivedState(saved[b])
    BY <1>3 DEF Revive
  <2>2. \A q \in Replicas : ~Busy(q, b)'
    BY <1>1, <1>3 DEF AgentCalm, RunCalm, Busy
  <2>3. RecordCalm(b)'
    BY <1>1, <2>1, RevivedType DEF RecordCalm
  <2> QED BY <2>2, <2>3, Idle
<1> QED BY <1>2, <1>3

(* A quiet owner disturbs no run.                                           *)
LEMMA OwnerCalm ==
  ASSUME CalmInv, QuietOwner, NEW a \in Agents, OwnerStep(a)
  PROVE  \A b \in Agents : AgentCalm(b)'
<1>1. TypeOK /\ UNCHANGED <<saved, runs, streak>>
  BY DEF CalmInv, OwnerStep, OwnerPauses, OwnerStops, OwnerResumes
<1>2. ASSUME NEW b \in Agents, b # a
      PROVE  AgentCalm(b)'
  <2>1. status'[b] = status[b] /\ reason'[b] = reason[b] /\ wait'[b] = wait[b]
    BY <1>1, <1>2 DEF TypeOK, OwnerStep, OwnerPauses, OwnerStops, OwnerResumes
  <2> QED BY <1>1, <2>1, Untouched DEF CalmInv
<1>3. AgentCalm(a)
  BY DEF CalmInv
<1>4. reason'[a] # "fault" /\ RecordCalm(a)'
  <2>1. reason'[a] # "fault"
    BY <1>1 DEF TypeOK, OwnerStep, OwnerPauses, OwnerStops, OwnerResumes
  <2> QED BY <1>1, <1>3, <2>1 DEF AgentCalm, RecordCalm
<1>5. CASE OwnerPauses(a) \/ OwnerStops(a)
  <2>1. UNCHANGED wait
    BY <1>5 DEF OwnerPauses, OwnerStops
  <2>2. ASSUME NEW q \in Replicas PROVE RunCalm(q, a)'
    BY <1>1, <1>3, <1>4, <2>1 DEF AgentCalm, RunCalm, Busy, Recoverable
  <2> QED BY <1>2, <1>4, <2>2 DEF AgentCalm
<1>6. CASE OwnerResumes(a)
  <2>1. \A q \in Replicas : ~Busy(q, a)'
    BY <1>1, <1>6 DEF OwnerResumes, Running, Busy
  <2> QED BY <1>2, <1>4, <2>1, Idle
<1> QED BY <1>5, <1>6 DEF OwnerStep

(* Time shortens the lock as fast as the run ages, and stops short of it.   *)
LEMMA TickCalm ==
  ASSUME CalmInv, Timely, Tick
  PROVE  \A b \in Agents : AgentCalm(b)'
<1> SUFFICES ASSUME NEW b \in Agents PROVE AgentCalm(b)'
  OBVIOUS
<1>1. /\ AgentCalm(b) /\ wait[b] \in Nat /\ LockOf(b) \in Nat \ {0}
      /\ UNCHANGED <<status, reason, saved, streak>>
  BY LockType DEF CalmInv, TypeOK, Tick
<1>2. wait'[b] = IF wait[b] > 0 THEN wait[b] - 1 ELSE 0
  BY DEF Tick
<1>3. \A q \in Replicas :
        runs'[q][b] = IF runs[q][b] = NoRun THEN NoRun ELSE Older(runs[q][b], b)
  BY DEF Tick
<1>4. RecordCalm(b)'
  BY <1>1 DEF AgentCalm, RecordCalm
<1>5. \A q \in Replicas : Busy(q, b)' => Busy(q, b)
  BY <1>3 DEF Busy
<1>6. ASSUME NEW q \in Replicas, Busy(q, b)
      PROVE  RunCalm(q, b)'
  <2>1. runs[q][b] \in Runs /\ runs[q][b].age \in Nat
    <3>1. runs[q][b] \in Runs
      BY <1>6 DEF CalmInv, TypeOK, Busy
    <3> QED BY <3>1, RunType
  <2>2. runs[q][b].age + 1 < LockOf(b)
    BY <1>6 DEF Tick, InFlight, Busy
  <2>3. runs'[q][b] = [runs[q][b] EXCEPT !.age = runs[q][b].age + 1]
    BY <1>1, <1>3, <1>6, <2>1, <2>2 DEF Older, Busy
  <2>4. /\ runs'[q][b].age = runs[q][b].age + 1
        /\ runs'[q][b].step = runs[q][b].step
        /\ runs'[q][b].snap = runs[q][b].snap
        /\ runs'[q][b].stop = runs[q][b].stop
    BY <2>1, <2>3 DEF Runs
  <2>5. /\ wait[b] + runs[q][b].age >= LockOf(b)
        /\ ~Recoverable(b)
        /\ \A p \in Replicas : Busy(p, b) => p = q
        /\ runs[q][b].step = "running" => runs[q][b].snap = saved[b]
        /\ runs[q][b].step = "persisting" =>
             Follows(runs[q][b].snap, saved[b], runs[q][b].stop)
    BY <1>1, <1>6 DEF AgentCalm, RunCalm
  <2>6. wait'[b] + runs'[q][b].age >= LockOf(b)
    BY <1>1, <1>2, <2>1, <2>2, <2>4, <2>5
  <2> QED BY <1>1, <1>5, <2>2, <2>4, <2>5, <2>6 DEF RunCalm, Recoverable, Follows
<1>7. ASSUME NEW q \in Replicas PROVE RunCalm(q, b)'
  BY <1>5, <1>6 DEF RunCalm
<1> QED BY <1>4, <1>7 DEF AgentCalm

(* Every step of a calm fleet leaves it calm.                               *)
LEMMA NextCalm ==
  ASSUME Timely, QuietOwner, CalmInv, [Next]_vars
  PROVE  CalmInv'
<1>1. TypeOK'
  BY NextTypes DEF CalmInv
<1>2. ASSUME UNCHANGED <<rowVars, saved, runs, streak>>
      PROVE  \A b \in Agents : AgentCalm(b)'
  BY <1>2, Untouched DEF CalmInv, rowVars
<1>3. ASSUME NEW r \in Replicas, NEW a \in Agents, RunStep(r, a)
      PROVE  \A b \in Agents : AgentCalm(b)'
  <2>1. CASE SkipCycle(r, a) \/ PauseForCredit(r, a) \/ SetupFails(r, a) \/ Abandon(r, a)
    BY <2>1, RunEndsCalm DEF SkipCycle, PauseForCredit, SetupFails, Abandon, Busy
  <2> QED BY <1>3, <2>1, LoadStateCalm, RunCycleCalm, PersistCalm DEF RunStep
<1>4. ASSUME NEW r \in Replicas, ListDue(r) \/ Claim(r) \/ Crash(r)
      PROVE  \A b \in Agents : AgentCalm(b)'
  BY <1>2, <1>4, ClaimCalm, CrashCalm DEF ListDue
<1>5. ASSUME UNCHANGED vars
      PROVE  \A b \in Agents : AgentCalm(b)'
  BY <1>2, <1>5 DEF vars, rowVars
<1>6. ASSUME Next
      PROVE  \A b \in Agents : AgentCalm(b)'
  BY <1>3, <1>4, <1>6, ReviveCalm, OwnerCalm, TickCalm DEF Next
<1>7. \A b \in Agents : AgentCalm(b)'
  BY <1>5, <1>6
<1> QED BY <1>1, <1>7 DEF CalmInv

(* As long as runs end in time and the owner resumes only idle agents, the  *)
(* fleet stays calm.                                                        *)
LEMMA FleetCalm == ASSUME Timely, QuietOwner PROVE Spec => []CalmInv
<1>1. CalmInv /\ [Next]_vars => CalmInv'
  BY NextCalm
<1> QED BY <1>1, InitCalm, PTL DEF Spec

(* However many replicas share the fleet, no two of them ever run the same  *)
(* agent when every run ends within the lock it was claimed with.           *)
THEOREM NeverTwoRuns == ASSUME Timely, QuietOwner PROVE Spec => []NoOverlap
<1>1. CalmInv => NoOverlap
  BY DEF CalmInv, AgentCalm, RunCalm, Busy, Running, NoOverlap
<1> QED BY <1>1, FleetCalm, PTL

(* A run never works on, and so never persists, counters that something     *)
(* else has since replaced.                                                 *)
THEOREM SnapshotsAreCurrent == ASSUME Timely, QuietOwner PROVE Spec => []SnapshotIsCurrent
<1>1. CalmInv => SnapshotIsCurrent
  BY DEF CalmInv, AgentCalm, RunCalm, Busy, InFlight, SnapshotIsCurrent
<1> QED BY <1>1, FleetCalm, PTL

(* Whatever the threshold, an agent is disabled for failures only after     *)
(* that many failed cycles since its last success or revival.               *)
THEOREM DisablesAreEarned == ASSUME Timely, QuietOwner PROVE Spec => []DisableIsEarned
<1>1. CalmInv => DisableIsEarned
  BY DEF CalmInv, AgentCalm, RecordCalm, DisableIsEarned
<1> QED BY <1>1, FleetCalm, PTL

(* Only the owner makes an agent active whose saved kill switch tripped.    *)
THEOREM TrippedStaysDown == ASSUME Timely, QuietOwner PROVE Spec => TrippedIsNotActive
<1>1. ASSUME CalmInv, [Next]_vars, NEW a \in Agents,
             saved'[a].switch = "tripped", status'[a] = "active"
      PROVE  \/ saved[a].switch = "tripped" /\ status[a] = "active"
             \/ OwnerResumes(a)
  <2>1. TypeOK /\ AgentCalm(a) /\ saved[a] \in States
    BY <1>1 DEF CalmInv, TypeOK
  <2>2. ASSUME status'[a] = status[a], saved'[a].switch = saved[a].switch
        PROVE  saved[a].switch = "tripped" /\ status[a] = "active"
    BY <1>1, <2>2
  <2>3. CASE UNCHANGED vars
    BY <2>2, <2>3 DEF vars, rowVars
  <2>4. ASSUME NEW r \in Replicas, ListDue(r) \/ Claim(r) \/ Crash(r)
        PROVE  saved[a].switch = "tripped" /\ status[a] = "active"
    <3>1. UNCHANGED <<status, saved>>
      BY <2>4 DEF ListDue, Claim, Crash, rowVars
    <3> QED BY <2>2, <3>1
  <2>5. ASSUME NEW r \in Replicas, NEW b \in Agents, RunStep(r, b)
        PROVE  saved[a].switch = "tripped" /\ status[a] = "active"
    <3>1. status[a] = "active"
      <4>1. ASSUME NEW to \in {"paused", "disabled"}, NEW why, Stop(b, to, why)
            PROVE  status[a] = "active"
        BY <1>1, <2>1, <4>1 DEF Stop, TypeOK
      <4>2. CASE Reschedule(b)
        BY <1>1, <4>2 DEF Reschedule
      <4>3. CASE UNCHANGED rowVars
        BY <1>1, <4>3 DEF rowVars
      <4> QED BY <2>5, <4>1, <4>2, <4>3 DEF RunStep, LoadState, SkipCycle,
                PauseForCredit, SetupFails, RunCycle, Persist, Settle, Abandon
    <3>2. CASE ~Persist(r, b) \/ a # b
      <4>1. saved'[a] = saved[a]
        BY <2>1, <2>5, <3>2 DEF TypeOK, RunStep, LoadState, SkipCycle,
           PauseForCredit, SetupFails, RunCycle, Persist, Abandon
      <4> QED BY <1>1, <3>1, <4>1
    <3>3. CASE Persist(r, b) /\ a = b
      <4>1. runs[r][a].stop = "none"
        BY <1>1, <2>1, <3>1, <3>3 DEF Persist, Settle, Stop, TypeOK
      <4>2. runs[r][a].snap.switch = saved[a].switch
        BY <2>1, <3>3, <4>1 DEF Persist, AgentCalm, RunCalm, Busy, Follows
      <4>3. saved'[a] = runs[r][a].snap
        BY <2>1, <3>3 DEF Persist, TypeOK
      <4> QED BY <1>1, <3>1, <4>2, <4>3
    <3> QED BY <3>2, <3>3
  <2>6. CASE Revive
    <3>1. ~Recoverable(a)
      BY <1>1, <2>1, <2>6, RevivedType DEF Revive
    <3>2. status'[a] = status[a] /\ saved'[a] = saved[a]
      BY <2>6, <3>1 DEF Revive
    <3> QED BY <2>2, <3>2
  <2>7. ASSUME NEW b \in Agents, OwnerStep(b), ~OwnerResumes(a)
        PROVE  saved[a].switch = "tripped" /\ status[a] = "active"
    BY <1>1, <2>1, <2>7 DEF OwnerStep, OwnerPauses, OwnerStops, OwnerResumes, TypeOK
  <2>8. CASE Tick
    BY <2>2, <2>8 DEF Tick
  <2> QED BY <1>1, <2>3, <2>4, <2>5, <2>6, <2>7, <2>8 DEF Next
<1>2. CalmInv /\ [Next]_vars =>
        [\A a \in Agents :
           saved'[a].switch = "tripped" /\ status'[a] = "active" =>
             \/ saved[a].switch = "tripped" /\ status[a] = "active"
             \/ OwnerResumes(a)]_vars
  BY <1>1
<1> QED BY <1>2, FleetCalm, PTL DEF Spec, TrippedIsNotActive
=============================================================================
