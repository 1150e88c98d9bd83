--------------------------- MODULE SelfHostProofs ---------------------------
(***************************************************************************)
(* Proofs about RunnerLock and SelfHost, for any number of processes:      *)
(* while no two of them are about to remove the file at once, one runner   *)
(* works at a time; the commands take the steps of RunnerLock, and from    *)
(* that what they do is what RunnerIntents says.                           *)
(***************************************************************************)
EXTENDS SelfHost, TLAPS

-----------------------------------------------------------------------------
(* The lock by itself *)

(* A lock that a process is about to remove belongs to a dead one.          *)
RemovesOrphans ==
  \A p \in Processes :
    step[p] = "removing" => lock.by \in Processes /\ ~Alive(lock.by)

OneRemover ==
  \A p, q \in Processes :
    step[p] = "removing" /\ step[q] = "removing" => p = q

NamedByProcess == lock.named => lock.by \in Processes

IInv ==
  /\ TypeOK
  /\ RunnerKeepsItsLock
  /\ RemovesOrphans
  /\ OneRemover
  /\ NamedByProcess

(* A process takes one step of its program.                                 *)
LEMMA GoesTo ==
  ASSUME TypeOK, NEW p \in Processes, NEW s \in Steps, NEW t \in Steps,
         Goes(p, s, t)
  PROVE  /\ step[p] = s /\ step'[p] = t
         /\ step' \in [Processes -> Steps]
         /\ \A q \in Processes : q # p => step'[q] = step[q]
BY DEF TypeOK, Goes

(* Every step keeps the types, whoever holds the lock.                      *)
LEMMA NextTypes == TypeOK /\ [Next]_vars => TypeOK'
<1> SUFFICES ASSUME TypeOK, [Next]_vars PROVE TypeOK'
  OBVIOUS
<1>1. Absent \in [by : Processes \cup {Nobody}, named : BOOLEAN]
  BY DEF Absent
<1>2. \A p \in Processes : Made(p) \in [by : Processes \cup {Nobody}, named : BOOLEAN]
  BY DEF Made
<1>3. ASSUME NEW p \in Processes, acquireLock(p) \/ Release(p) \/ Kill(p)
      PROVE  step' \in [Processes -> Steps]
  BY <1>3 DEF acquireLock, Open, Read, Remove, Reopen, Name, Release, Kill, Goes,
              TypeOK, Steps
<1>4. ASSUME NEW p \in Processes, acquireLock(p) \/ Release(p) \/ Kill(p)
      PROVE  lock' \in [by : Processes \cup {Nobody}, named : BOOLEAN]
  BY <1>1, <1>2, <1>4 DEF acquireLock, Open, Read, Remove, Reopen, Name, Release,
              Kill, TypeOK
<1>5. CASE UNCHANGED vars
  BY <1>5 DEF vars, TypeOK
<1> QED BY <1>3, <1>4, <1>5 DEF Next, TypeOK

(* Nobody holds an absent lock, and nobody is about to remove it.           *)
LEMMA AbsentIsFree ==
  ASSUME IInv, lock = Absent, NEW q \in Processes
  PROVE  ~Holds(q) /\ step[q] # "removing"
BY LockAssumption DEF IInv, RunnerKeepsItsLock, RemovesOrphans, Absent

(* A lock that is made, the first time or after a removal, is one's own.    *)
LEMMA MakingKeeps ==
  ASSUME IInv, lock = Absent, NEW p \in Processes, NEW s \in Steps,
         Goes(p, s, "naming"), lock' = Made(p)
  PROVE  RunnerKeepsItsLock' /\ RemovesOrphans' /\ OneRemover' /\ NamedByProcess'
<1>1. /\ step'[p] = "naming"
      /\ \A q \in Processes : q # p => step'[q] = step[q]
  BY GoesTo DEF IInv, Steps
<1>2. lock'.by = p /\ lock'.named = FALSE
  BY DEF Made
<1>3. \A q \in Processes : ~Holds(q) /\ step[q] # "removing"
  BY AbsentIsFree
<1> QED BY <1>1, <1>2, <1>3 DEF RunnerKeepsItsLock, RemovesOrphans, OneRemover,
                                NamedByProcess, Holds

(* A step to where nothing is held or removed, the file left alone.         *)
LEMMA LeavingKeeps ==
  ASSUME IInv, NEW p \in Processes, Alive(p), UNCHANGED lock,
         ~Holds(p)', step'[p] # "removing",
         \A q \in Processes : q # p => step'[q] = step[q]
  PROVE  RunnerKeepsItsLock' /\ RemovesOrphans' /\ OneRemover' /\ NamedByProcess'
<1>1. RunnerKeepsItsLock'
  BY DEF IInv, RunnerKeepsItsLock, Holds
<1>2. ASSUME NEW q \in Processes, step'[q] = "removing"
      PROVE  lock.by \in Processes /\ ~Alive(lock.by)'
  <2>1. step[q] = "removing"
    BY <1>2
  <2>2. lock.by \in Processes /\ ~Alive(lock.by)
    BY <2>1 DEF IInv, RemovesOrphans
  <2>3. lock.by # p
    BY <2>2
  <2> QED BY <2>2, <2>3 DEF Alive
<1>3. OneRemover' /\ NamedByProcess'
  BY DEF IInv, OneRemover, NamedByProcess
<1> QED BY <1>1, <1>2, <1>3 DEF RemovesOrphans, Alive

(* Every step keeps the lock its runner's.                                  *)
LEMMA NextKeeps == OneReclaimer /\ IInv /\ [Next]_vars => IInv'
<1> SUFFICES ASSUME OneReclaimer, IInv, [Next]_vars
             PROVE  /\ RunnerKeepsItsLock' /\ RemovesOrphans'
                    /\ OneRemover' /\ NamedByProcess'
  BY NextTypes DEF IInv
<1>a. TypeOK
  BY DEF IInv
<1>1. ASSUME NEW p \in Processes, Open(p)
      PROVE  /\ RunnerKeepsItsLock' /\ RemovesOrphans'
             /\ OneRemover' /\ NamedByProcess'
  <2>1. CASE lock = Absent
    BY <1>1, <2>1, MakingKeeps DEF Open, Steps
  <2>2. CASE lock # Absent
    <3>1. Goes(p, "opening", "reading") /\ UNCHANGED lock
      BY <1>1, <2>2 DEF Open
    <3>2. step[p] = "opening" /\ step'[p] = "reading"
          /\ \A q \in Processes : q # p => step'[q] = step[q]
      BY <1>a, <3>1, GoesTo DEF Steps
    <3> QED BY <3>1, <3>2, LeavingKeeps DEF Alive, Holds
  <2> QED BY <2>1, <2>2
<1>2. ASSUME NEW p \in Processes, Reopen(p)
      PROVE  /\ RunnerKeepsItsLock' /\ RemovesOrphans'
             /\ OneRemover' /\ NamedByProcess'
  <2>1. CASE lock = Absent
    BY <1>2, <2>1, MakingKeeps DEF Reopen, Steps
  <2>2. CASE lock # Absent
    <3>1. Goes(p, "reopening", "over") /\ UNCHANGED lock
      BY <1>2, <2>2 DEF Reopen
    <3>2. step[p] = "reopening" /\ step'[p] = "over"
          /\ \A q \in Processes : q # p => step'[q] = step[q]
      BY <1>a, <3>1, GoesTo DEF Steps
    <3> QED BY <3>1, <3>2, LeavingKeeps DEF Alive, Holds
  <2> QED BY <2>1, <2>2
<1>3. ASSUME NEW p \in Processes, Read(p)
      PROVE  /\ RunnerKeepsItsLock' /\ RemovesOrphans'
             /\ OneRemover' /\ NamedByProcess'
  <2>1. CASE Orphaned
    <3>1. /\ Goes(p, "reading", "removing") /\ UNCHANGED lock
          /\ \A q \in Processes : step[q] # "removing"
      BY <1>3, <2>1 DEF Read
    <3>2. step[p] = "reading" /\ step'[p] = "removing"
          /\ \A q \in Processes : q # p => step'[q] = step[q]
      BY <1>a, <3>1, GoesTo DEF Steps
    <3>3. lock.by \in Processes /\ ~Alive(lock.by) /\ Alive(p)
      BY <2>1, <3>2 DEF Orphaned, IInv, NamedByProcess, Alive
    <3>4. ~Alive(lock.by)'
      BY <3>1, <3>2, <3>3 DEF Alive
    <3>5. RunnerKeepsItsLock' /\ NamedByProcess'
      BY <3>1, <3>2 DEF IInv, RunnerKeepsItsLock, NamedByProcess, Holds
    <3> QED BY <3>1, <3>2, <3>3, <3>4, <3>5 DEF RemovesOrphans, OneRemover, Alive
  <2>2. CASE ~Orphaned
    <3>1. Goes(p, "reading", "over") /\ UNCHANGED lock
      BY <1>3, <2>2 DEF Read
    <3>2. step[p] = "reading" /\ step'[p] = "over"
          /\ \A q \in Processes : q # p => step'[q] = step[q]
      BY <1>a, <3>1, GoesTo DEF Steps
    <3> QED BY <3>1, <3>2, LeavingKeeps DEF Alive, Holds
  <2> QED BY <2>1, <2>2
<1>4. ASSUME NEW p \in Processes, Remove(p)
      PROVE  /\ RunnerKeepsItsLock' /\ RemovesOrphans'
             /\ OneRemover' /\ NamedByProcess'
  <2>1. step[p] = "removing"
    BY <1>4 DEF Remove, Goes
  <2>2. lock.by \in Processes /\ ~Alive(lock.by)
    BY <2>1 DEF IInv, RemovesOrphans
  <2>3. lock # Absent
    BY <2>2, LockAssumption DEF Absent
  <2>4. Goes(p, "removing", "reopening") /\ lock' = Absent
    BY <1>4, <2>3 DEF Remove
  <2>5. step'[p] = "reopening" /\ \A q \in Processes : q # p => step'[q] = step[q]
    BY <1>a, <2>4, GoesTo DEF Steps
  <2>6. \A q \in Processes : ~Holds(q)
    BY <2>2 DEF IInv, RunnerKeepsItsLock, Holds, Alive
  <2>7. \A q \in Processes : step'[q] # "removing"
    BY <2>1, <2>5 DEF IInv, OneRemover
  <2>8. \A q \in Processes : ~Holds(q)'
    BY <2>5, <2>6 DEF Holds
  <2>9. lock'.named = FALSE
    BY <2>4 DEF Absent
  <2> QED BY <2>7, <2>8, <2>9
          DEF RunnerKeepsItsLock, RemovesOrphans, OneRemover, NamedByProcess
<1>5. ASSUME NEW p \in Processes, Name(p)
      PROVE  /\ RunnerKeepsItsLock' /\ RemovesOrphans'
             /\ OneRemover' /\ NamedByProcess'
  <2>1. Goes(p, "naming", "running")
    BY <1>5 DEF Name
  <2>2. /\ step[p] = "naming" /\ step'[p] = "running"
        /\ \A q \in Processes : q # p => step'[q] = step[q]
    BY <1>a, <2>1, GoesTo DEF Steps
  <2>3. lock.by = p /\ Alive(p)
    BY <2>2 DEF IInv, RunnerKeepsItsLock, Holds, Alive
  <2>4. lock'.by = p
    BY <1>a, <1>5, <2>3 DEF Name, TypeOK
  <2>5. \A q \in Processes : step[q] # "removing"
    BY <2>3 DEF IInv, RemovesOrphans
  <2>6. \A q \in Processes : Holds(q) => q = p
    BY <2>3 DEF IInv, RunnerKeepsItsLock
  <2>7. RunnerKeepsItsLock'
    BY <2>2, <2>4, <2>6 DEF RunnerKeepsItsLock, Holds
  <2>8. \A q \in Processes : step'[q] # "removing"
    BY <2>2, <2>5
  <2> QED BY <2>4, <2>7, <2>8 DEF RemovesOrphans, OneRemover, NamedByProcess
<1>6. ASSUME NEW p \in Processes, Release(p)
      PROVE  /\ RunnerKeepsItsLock' /\ RemovesOrphans'
             /\ OneRemover' /\ NamedByProcess'
  <2>1. Goes(p, "running", "over") /\ lock' = Absent
    BY <1>6 DEF Release
  <2>2. /\ step[p] = "running" /\ step'[p] = "over"
        /\ \A q \in Processes : q # p => step'[q] = step[q]
    BY <1>a, <2>1, GoesTo DEF Steps
  <2>3. lock.by = p /\ Alive(p)
    BY <2>2 DEF IInv, RunnerKeepsItsLock, Holds, Alive
  <2>4. \A q \in Processes : step'[q] # "removing"
    BY <2>2, <2>3 DEF IInv, RemovesOrphans
  <2>5. \A q \in Processes : ~Holds(q)'
    BY <2>2, <2>3 DEF IInv, RunnerKeepsItsLock, Holds
  <2>6. lock'.named = FALSE
    BY <2>1 DEF Absent
  <2> QED BY <2>4, <2>5, <2>6
          DEF RunnerKeepsItsLock, RemovesOrphans, OneRemover, NamedByProcess
<1>7. ASSUME NEW p \in Processes, Kill(p)
      PROVE  /\ RunnerKeepsItsLock' /\ RemovesOrphans'
             /\ OneRemover' /\ NamedByProcess'
  <2>1. /\ Alive(p) /\ UNCHANGED lock /\ step'[p] = "killed"
        /\ \A q \in Processes : q # p => step'[q] = step[q]
    BY <1>a, <1>7 DEF Kill, TypeOK
  <2> QED BY <2>1, LeavingKeeps DEF Holds
<1>8. CASE UNCHANGED vars
  BY <1>8 DEF vars, IInv, RunnerKeepsItsLock, RemovesOrphans, OneRemover,
              NamedByProcess, Holds, Alive
<1> QED BY <1>1, <1>2, <1>3, <1>4, <1>5, <1>6, <1>7, <1>8 DEF Next, acquireLock

(* Nobody holds or removes anything at the start.                           *)
LEMMA InitKeeps == Init => IInv
BY DEF Init, IInv, TypeOK, RunnerKeepsItsLock, RemovesOrphans, OneRemover,
       NamedByProcess, Holds, Absent, Steps

-----------------------------------------------------------------------------
(* The file and the processes keep their types, racing or not.              *)
THEOREM LockTypes == Spec => []TypeOK
<1>1. Init => TypeOK
  BY InitKeeps DEF IInv
<1> QED BY <1>1, NextTypes, PTL DEF Spec

(* While no two processes are about to remove the file at once, a runner's  *)
(* lock stays where it made it (cli.ts, acquireLock).                       *)
THEOREM LockStays ==
  ASSUME OneReclaimer
  PROVE  Spec => []RunnerKeepsItsLock
<1>1. IInv /\ [Next]_vars => IInv'
  BY NextKeeps
<1>2. IInv => RunnerKeepsItsLock
  BY DEF IInv
<1> QED BY <1>1, <1>2, InitKeeps, PTL DEF Spec

(* Under the same assumption, one runner of an agent works at a time.       *)
THEOREM RunnersExclude ==
  ASSUME OneReclaimer
  PROVE  Spec => []OneRunner
<1>1. RunnerKeepsItsLock => OneRunner
  BY DEF RunnerKeepsItsLock, OneRunner
<1> QED BY <1>1, LockStays, PTL

-----------------------------------------------------------------------------
(* The commands: what holds of their data *)

Idle(p) == Runner!Idle(p)

IsState(r) == r = [id |-> r.id, seq |-> r.seq]

IsRun(r) == r = [step |-> r.step, id |-> r.id, seq |-> r.seq, intent |-> r.intent]

\* The shape of the data; what the counters hold does not matter here.
Shapes ==
  /\ DOMAIN own = Processes /\ DOMAIN run = Processes
  /\ own = [p \in Processes |-> own[p]] /\ run = [p \in Processes |-> run[p]]
  /\ \A p \in Processes : IsState(own[p]) /\ IsRun(run[p])
  /\ IsState(saved)

\* Only a command that has the lock has anything in memory.
HoldersOnly ==
  \A p \in Processes : step[p] # "running" => own[p] = NotLoaded /\ Idle(p)

\* What a command has in memory is what is on disk, or the identity that it made
\* up when there was nothing on disk.
FollowsDisk ==
  /\ minted \in 0 .. MaxIds /\ saved.id \in 0 .. minted
  /\ saved.id = 0 => saved.seq = Runner!NoCounts
  /\ \A p \in Processes : own[p] # NotLoaded =>
       IF saved.id = 0 THEN own[p].id = minted /\ minted # 0 /\ own[p].seq = saved.seq
       ELSE own[p].id = saved.id /\ (Idle(p) => own[p].seq = saved.seq)
  /\ \A p \in Processes : ~Idle(p) =>
       own[p] # NotLoaded /\ saved.id # 0 /\ run[p].id = saved.id

HostInv == IInv /\ Shapes /\ HoldersOnly /\ FollowsDisk

-----------------------------------------------------------------------------
(* The commands and the lock *)

\* Every step of a command is one of RunnerLock, or leaves the lock alone.
LEMMA LockSteps == [HostNext]_hostVars => [Next]_vars
BY DEF HostNext, hostVars, cmdRun, AcquireLock, Load, StartCycle, GoOn, EndCycle,
       Stop, Die, Execute, Next

\* The lock is kept as RunnerLock keeps it.
LEMMA HostKeepsLock == OneReclaimer /\ IInv /\ [HostNext]_hostVars => IInv'
BY LockSteps, NextKeeps

LEMMA OneRuns ==
  ASSUME IInv, NEW p \in Processes, NEW q \in Processes,
         step[p] = "running", step[q] = "running"
  PROVE  p = q
BY DEF IInv, RunnerKeepsItsLock, Holds

\* Processes take their steps one at a time.
LEMMA OthersStay ==
  ASSUME IInv, NEW p \in Processes, acquireLock(p) \/ Release(p) \/ Kill(p)
  PROVE  /\ \A q \in Processes : q # p => step'[q] = step[q]
         /\ step[p] = "running" => step'[p] # "running"
  BY DEF IInv, TypeOK, acquireLock, Open, Read, Remove, Reopen, Name, Release, Kill, Goes

LEMMA AcquiringIsNotRunning ==
  ASSUME NEW p \in Processes, acquireLock(p)
  PROVE  step[p] # "running"
  BY DEF acquireLock, Open, Read, Remove, Reopen, Name, Goes


-----------------------------------------------------------------------------
(* What the steps do to memory *)

\* One process's run changes.
LEMMA RunOf ==
  ASSUME Shapes, NEW p \in Processes, NEW v, IsRun(v), run' = [run EXCEPT ![p] = v]
  PROVE  /\ DOMAIN run' = Processes /\ run' = [q \in Processes |-> run'[q]]
         /\ run'[p] = v /\ \A q \in Processes : q # p => run'[q] = run[q]
         /\ \A q \in Processes : IsRun(run'[q])
BY DEF Shapes

\* One process's own copy changes.
LEMMA OwnOf ==
  ASSUME Shapes, NEW p \in Processes, NEW v, IsState(v), own' = [own EXCEPT ![p] = v]
  PROVE  /\ DOMAIN own' = Processes /\ own' = [q \in Processes |-> own'[q]]
         /\ own'[p] = v /\ \A q \in Processes : q # p => own'[q] = own[q]
         /\ \A q \in Processes : IsState(own'[q])
BY DEF Shapes

LEMMA Loading ==
  ASSUME HostInv, NEW p \in Processes, Load(p)
  PROVE  /\ own[p] = NotLoaded /\ Idle(p) /\ step[p] = "running"
         /\ \A q \in Processes : q # p => own'[q] = own[q]
         /\ own'[p] = IF saved.id # 0 THEN saved
                      ELSE [id |-> minted + 1, seq |-> Runner!NoCounts]
         /\ minted' = IF saved.id # 0 THEN minted ELSE minted + 1
         /\ minted' \in 0 .. MaxIds
         /\ Shapes' /\ UNCHANGED <<vars, saved, run, sent, executed>>
<1> DEFINE v == IF saved.id # 0 THEN saved
                ELSE [id |-> minted + 1, seq |-> Runner!NoCounts]
<1>1. /\ own[p] = NotLoaded /\ step[p] = "running"
      /\ UNCHANGED <<vars, saved, run, sent, executed>>
  BY DEF Load
<1>2. Idle(p)
  BY <1>1 DEF HostInv, FollowsDisk
<1>3. IsState(v)
  BY DEF HostInv, Shapes, IsState
<1>4. /\ own' = [own EXCEPT ![p] = v]
      /\ minted' = IF saved.id # 0 THEN minted ELSE minted + 1
      /\ minted' \in 0 .. MaxIds
  <2>1. minted \in 0 .. MaxIds /\ MaxIds \in Nat
    BY HostAssumption DEF HostInv, FollowsDisk
  <2>2. CASE saved.id # 0
    BY <2>1, <2>2 DEF Load
  <2>3. CASE saved.id = 0
    BY <2>1, <2>3 DEF Load
  <2> QED BY <2>2, <2>3
<1> HIDE DEF v
<1>5. Shapes
  BY DEF HostInv
<1>6. /\ DOMAIN own' = Processes /\ own' = [q \in Processes |-> own'[q]]
      /\ own'[p] = v /\ \A q \in Processes : q # p => own'[q] = own[q]
      /\ \A q \in Processes : IsState(own'[q])
  BY <1>3, <1>4, <1>5, OwnOf
<1>7. Shapes'
  BY <1>1, <1>5, <1>6 DEF Shapes
<1> QED BY <1>1, <1>2, <1>4, <1>6, <1>7 DEF v

LEMMA Starting ==
  ASSUME HostInv, NEW p \in Processes, StartCycle(p)
  PROVE  /\ own[p] # NotLoaded /\ Idle(p) /\ step[p] = "running"
         /\ saved' = own[p] /\ ~Idle(p)' /\ run'[p].id = own[p].id
         /\ \A q \in Processes : q # p => run'[q] = run[q]
         /\ Shapes' /\ UNCHANGED <<vars, sent, executed, minted, own>>
<1> DEFINE v == [step |-> "deciding", id |-> own[p].id, seq |-> own[p].seq,
                 intent |-> run[p].intent]
<1>1. Shapes
  BY DEF HostInv
<1>2. /\ run' = [run EXCEPT ![p] = v] /\ saved' = own[p]
      /\ own[p] # NotLoaded /\ Idle(p) /\ step[p] = "running"
      /\ UNCHANGED <<vars, sent, executed, minted, own>>
  BY <1>1 DEF StartCycle, Shapes, Idle
<1>3. IsRun(v) /\ v.step = "deciding" /\ v.id = own[p].id
  BY DEF IsRun
<1> HIDE DEF v
<1>4. /\ DOMAIN run' = Processes /\ run' = [q \in Processes |-> run'[q]]
      /\ run'[p] = v /\ \A q \in Processes : q # p => run'[q] = run[q]
      /\ \A q \in Processes : IsRun(run'[q])
  BY <1>1, <1>2, <1>3, RunOf
<1>5. Shapes'
  BY <1>1, <1>2, <1>4 DEF Shapes
<1> QED BY <1>2, <1>3, <1>4, <1>5 DEF Idle, Runner!Idle

\* A record with another step is still a run.
LEMMA StepOf ==
  ASSUME NEW r, IsRun(r), NEW s
  PROVE  LET v == [r EXCEPT !.step = s]
         IN  IsRun(v) /\ v.step = s /\ v.id = r.id /\ v.seq = r.seq
BY DEF IsRun

\* A run whose write of intent i is under way.
Sending(r, i) == [r EXCEPT !.step = "waiting", !.intent = i]

LEMMA SendOf ==
  ASSUME NEW r, IsRun(r), NEW i
  PROVE  /\ IsRun(Sending(r, i))
         /\ Sending(r, i).step = "waiting" /\ Sending(r, i).id = r.id
<1> DEFINE v == Sending(r, i)
           s == "waiting"
<1>1. DOMAIN r = {"step", "id", "seq", "intent"}
  BY DEF IsRun
<1>2. v = [f \in DOMAIN r |-> IF f = "intent" THEN i ELSE IF f = "step" THEN s ELSE r[f]]
  BY DEF Sending
<1> HIDE DEF v
<1>3. v.step = s /\ v.id = r.id /\ v.seq = r.seq /\ v.intent = i
  BY <1>1, <1>2
<1>4. v = [step |-> v.step, id |-> v.id, seq |-> v.seq, intent |-> v.intent]
  BY <1>1, <1>2
<1> QED BY <1>3, <1>4 DEF IsRun, v

LEMMA GoingOn ==
  ASSUME HostInv, NEW p \in Processes, GoOn(p)
  PROVE  /\ step[p] = "running" /\ ~Idle(p) /\ ~Idle(p)' /\ run'[p].id = run[p].id
         /\ \A q \in Processes : q # p => run'[q] = run[q]
         /\ Shapes' /\ UNCHANGED <<vars, saved, minted, own>>
<1>a. Shapes /\ step[p] = "running" /\ UNCHANGED <<vars, own>>
  BY DEF HostInv, GoOn
<1>b. IsRun(run[p])
  BY <1>a DEF Shapes
<1>c. ASSUME NEW v, IsRun(v), v.step # "idle", v.id = run[p].id,
             run' = [run EXCEPT ![p] = v], ~Idle(p), UNCHANGED <<saved, minted>>
      PROVE  /\ step[p] = "running" /\ ~Idle(p) /\ ~Idle(p)' /\ run'[p].id = run[p].id
             /\ \A q \in Processes : q # p => run'[q] = run[q]
             /\ Shapes' /\ UNCHANGED <<vars, saved, minted, own>>
  <2>1. /\ DOMAIN run' = Processes /\ run' = [q \in Processes |-> run'[q]]
        /\ run'[p] = v /\ \A q \in Processes : q # p => run'[q] = run[q]
        /\ \A q \in Processes : IsRun(run'[q])
    BY <1>a, <1>c, RunOf
  <2>2. Shapes'
    BY <1>a, <1>c, <2>1 DEF Shapes
  <2> QED BY <1>a, <1>c, <2>1, <2>2 DEF Idle, Runner!Idle
<1>1. ASSUME NEW i \in Intents, Runner!SendWrite(p, i)
      PROVE  /\ step[p] = "running" /\ ~Idle(p) /\ ~Idle(p)' /\ run'[p].id = run[p].id
             /\ \A q \in Processes : q # p => run'[q] = run[q]
             /\ Shapes' /\ UNCHANGED <<vars, saved, minted, own>>
  <2> DEFINE v == Sending(run[p], i)
  <2>1. IsRun(v) /\ v.step = "waiting" /\ v.id = run[p].id
    BY <1>b, SendOf
  <2>2. run' = [run EXCEPT ![p] = v] /\ ~Idle(p) /\ UNCHANGED <<saved, minted>>
    BY <1>a, <1>1 DEF Runner!SendWrite, Idle, Runner!Idle, Shapes, Sending
  <2> HIDE DEF v
  <2> QED BY <1>c, <2>1, <2>2
<1>2. ASSUME Runner!ConfirmWrite(p)
      PROVE  /\ step[p] = "running" /\ ~Idle(p) /\ ~Idle(p)' /\ run'[p].id = run[p].id
             /\ \A q \in Processes : q # p => run'[q] = run[q]
             /\ Shapes' /\ UNCHANGED <<vars, saved, minted, own>>
  <2> DEFINE v == [step |-> "deciding", id |-> run[p].id,
                   seq |-> Runner!Advanced(p), intent |-> run[p].intent]
  <2>1. IsRun(v) /\ v.step = "deciding" /\ v.id = run[p].id
    BY DEF IsRun
  <2>2. run' = [run EXCEPT ![p] = v] /\ ~Idle(p) /\ UNCHANGED <<saved, minted>>
    BY <1>a, <1>2 DEF Runner!ConfirmWrite, Idle, Runner!Idle, Shapes
  <2> HIDE DEF v
  <2> QED BY <1>c, <2>1, <2>2
<1>3. ASSUME Runner!WriteUnconfirmed(p)
      PROVE  /\ step[p] = "running" /\ ~Idle(p) /\ ~Idle(p)' /\ run'[p].id = run[p].id
             /\ \A q \in Processes : q # p => run'[q] = run[q]
             /\ Shapes' /\ UNCHANGED <<vars, saved, minted, own>>
  <2> DEFINE v == [run[p] EXCEPT !.step = "deciding"]
  <2>1. IsRun(v) /\ v.step = "deciding" /\ v.id = run[p].id
    BY <1>b, StepOf
  <2>2. run' = [run EXCEPT ![p] = v] /\ ~Idle(p) /\ UNCHANGED <<saved, minted>>
    BY <1>a, <1>3 DEF Runner!WriteUnconfirmed, Idle, Runner!Idle, Shapes
  <2> HIDE DEF v
  <2> QED BY <1>c, <2>1, <2>2
<1> QED BY <1>1, <1>2, <1>3 DEF GoOn

LEMMA Ending ==
  ASSUME HostInv, NEW p \in Processes, EndCycle(p)
  PROVE  /\ step[p] = "running" /\ ~Idle(p) /\ Idle(p)'
         /\ saved' = [id |-> run[p].id, seq |-> run[p].seq] /\ own'[p] = saved'
         /\ \A q \in Processes : q # p => run'[q] = run[q] /\ own'[q] = own[q]
         /\ Shapes' /\ UNCHANGED <<vars, minted>>
<1> DEFINE v == [run[p] EXCEPT !.step = "idle"]
           w == [id |-> run[p].id, seq |-> run[p].seq]
<1>1. Shapes
  BY DEF HostInv
<1>2. IsRun(v) /\ v.step = "idle" /\ IsState(w)
  BY <1>1, StepOf DEF Shapes, IsState
<1>3. /\ run' = [run EXCEPT ![p] = v] /\ own' = [own EXCEPT ![p] = w] /\ saved' = w
      /\ step[p] = "running" /\ ~Idle(p) /\ UNCHANGED <<vars, minted>>
  BY <1>1 DEF EndCycle, Runner!EndCycle, Runner!Result, Runner!AsIdle, Idle, Runner!Idle, Shapes
<1> HIDE DEF v, w
<1>4. /\ DOMAIN run' = Processes /\ run' = [q \in Processes |-> run'[q]]
      /\ run'[p] = v /\ \A q \in Processes : q # p => run'[q] = run[q]
      /\ \A q \in Processes : IsRun(run'[q])
  BY <1>1, <1>2, <1>3, RunOf
<1>5. /\ DOMAIN own' = Processes /\ own' = [q \in Processes |-> own'[q]]
      /\ own'[p] = w /\ \A q \in Processes : q # p => own'[q] = own[q]
      /\ \A q \in Processes : IsState(own'[q])
  BY <1>1, <1>2, <1>3, OwnOf
<1>6. Shapes' /\ Idle(p)'
  BY <1>1, <1>2, <1>3, <1>4, <1>5 DEF Shapes, Idle, Runner!Idle
<1> QED BY <1>3, <1>4, <1>5, <1>6 DEF w

LEMMA Forgetting ==
  ASSUME HostInv, NEW p \in Processes, Forget(p)
  PROVE  /\ Idle(p)' /\ own'[p] = NotLoaded
         /\ \A q \in Processes : q # p => run'[q] = run[q] /\ own'[q] = own[q]
         /\ run'[p].id = run[p].id
         /\ Shapes' /\ UNCHANGED <<saved, sent, executed, minted>>
<1> DEFINE v == [run[p] EXCEPT !.step = "idle"]
<1>1. Shapes
  BY DEF HostInv
<1>2. IsRun(v) /\ v.step = "idle" /\ v.id = run[p].id /\ IsState(NotLoaded)
  BY <1>1, StepOf DEF Shapes, IsState, NotLoaded
<1>3. /\ run' = [run EXCEPT ![p] = v] /\ own' = [own EXCEPT ![p] = NotLoaded]
      /\ UNCHANGED <<saved, sent, executed, minted>>
  BY <1>1 DEF Forget, Runner!AsIdle, Shapes
<1> HIDE DEF v, NotLoaded
<1>4. /\ DOMAIN run' = Processes /\ run' = [q \in Processes |-> run'[q]]
      /\ run'[p] = v /\ \A q \in Processes : q # p => run'[q] = run[q]
      /\ \A q \in Processes : IsRun(run'[q])
  BY <1>1, <1>2, <1>3, RunOf
<1>5. /\ DOMAIN own' = Processes /\ own' = [q \in Processes |-> own'[q]]
      /\ own'[p] = NotLoaded /\ \A q \in Processes : q # p => own'[q] = own[q]
      /\ \A q \in Processes : IsState(own'[q])
  BY <1>1, <1>2, <1>3, OwnOf
<1>6. Shapes' /\ Idle(p)'
  BY <1>1, <1>2, <1>3, <1>4, <1>5 DEF Shapes, Idle, Runner!Idle
<1> QED BY <1>2, <1>3, <1>4, <1>5, <1>6

-----------------------------------------------------------------------------
(* The invariant *)

\* While p works, nobody else has anything in memory.
LEMMA OthersAreEmpty ==
  ASSUME HostInv, NEW p \in Processes, step[p] = "running",
         NEW q \in Processes, q # p
  PROVE  own[q] = NotLoaded /\ Idle(q) /\ step[q] # "running"
BY OneRuns DEF HostInv, HoldersOnly

LEMMA NotLoadedIsNothing == NotLoaded.id = 0 /\ NotLoaded.seq = Runner!NoCounts
BY DEF NotLoaded

LEMMA LoadKeeps ==
  ASSUME HostInv, NEW p \in Processes, Load(p)
  PROVE  HoldersOnly' /\ FollowsDisk'
<1>1. HoldersOnly'
  BY Loading DEF HostInv, HoldersOnly, vars, Idle, Runner!Idle
<1>2. \A q \in Processes : q # p => own[q] = NotLoaded
  BY Loading, OthersAreEmpty
<1>3. minted \in 0 .. MaxIds /\ saved.id \in 0 .. minted /\ MaxIds \in Nat
  BY HostAssumption DEF HostInv, FollowsDisk
<1>4. saved.id = 0 => saved.seq = Runner!NoCounts
  BY DEF HostInv, FollowsDisk
<1>5. minted' \in 0 .. MaxIds /\ saved'.id \in 0 .. minted'
  BY <1>3, Loading
<1>6. /\ saved.id = 0 => own'[p].id = minted' /\ minted' # 0 /\ own'[p].seq = saved.seq
      /\ saved.id # 0 => own'[p] = saved
  BY <1>3, <1>4, Loading
<1>7. \A q \in Processes : ~Idle(q)' => ~Idle(q)
  BY Loading DEF Idle, Runner!Idle
<1>8. \A q \in Processes : ~Idle(q)' =>
        own'[q] # NotLoaded /\ saved.id # 0 /\ run[q].id = saved.id
  <2>1. ~Idle(p)' => FALSE
    BY <1>7, Loading
  <2> QED BY <2>1, <1>7, Loading DEF HostInv, FollowsDisk
<1>9. saved' = saved /\ run' = run
  BY Loading
<1>10. \A q \in Processes : q # p => own'[q] = NotLoaded
  BY <1>2, Loading
<1>11. saved'.id = 0 => saved'.seq = Runner!NoCounts
  BY <1>4, <1>9
<1> QED BY <1>1, <1>5, <1>6, <1>8, <1>9, <1>10, <1>11 DEF FollowsDisk, NotLoaded

LEMMA StartKeeps ==
  ASSUME HostInv, NEW p \in Processes, StartCycle(p)
  PROVE  HoldersOnly' /\ FollowsDisk'
<1>1. HoldersOnly'
  BY Starting DEF HostInv, HoldersOnly, vars, Idle, Runner!Idle
<1>2. \A q \in Processes : q # p => own[q] = NotLoaded /\ Idle(q) /\ Idle(q)'
  BY Starting, OthersAreEmpty DEF Idle, Runner!Idle
<1>3. /\ minted \in 0 .. MaxIds /\ saved.id \in 0 .. minted /\ MaxIds \in Nat
      /\ own[p].id # 0 /\ own[p].id \in 0 .. minted
  BY HostAssumption, Starting DEF HostInv, FollowsDisk
<1> QED BY <1>1, <1>2, <1>3, Starting DEF FollowsDisk

LEMMA GoOnKeeps ==
  ASSUME HostInv, NEW p \in Processes, GoOn(p)
  PROVE  HoldersOnly' /\ FollowsDisk'
<1>1. \A q \in Processes : Idle(q)' <=> Idle(q)
  BY GoingOn DEF Idle, Runner!Idle
<1>2. \A q \in Processes : run'[q].id = run[q].id
  BY GoingOn
<1>3. UNCHANGED <<vars, saved, minted, own>>
  BY GoingOn
<1>4. HoldersOnly'
  BY <1>1, <1>3 DEF HostInv, HoldersOnly, vars
<1> QED BY <1>1, <1>2, <1>3, <1>4 DEF HostInv, FollowsDisk

LEMMA EndKeeps ==
  ASSUME HostInv, NEW p \in Processes, EndCycle(p)
  PROVE  HoldersOnly' /\ FollowsDisk'
<1>1. HoldersOnly'
  BY Ending DEF HostInv, HoldersOnly, vars, Idle, Runner!Idle
<1>2. \A q \in Processes : q # p => own'[q] = NotLoaded /\ Idle(q)'
  BY Ending, OthersAreEmpty DEF Idle, Runner!Idle
<1>3. saved'.id = saved.id /\ saved.id # 0
  BY Ending DEF HostInv, FollowsDisk
<1>4. minted' \in 0 .. MaxIds /\ saved'.id \in 0 .. minted'
  BY <1>3, Ending DEF HostInv, FollowsDisk
<1> QED BY <1>1, <1>2, <1>3, <1>4, Ending DEF FollowsDisk

LEMMA ForgetKeeps ==
  ASSUME HostInv, NEW p \in Processes, Forget(p), Release(p) \/ Kill(p)
  PROVE  HoldersOnly' /\ FollowsDisk'
<1>1. \A q \in Processes : q # p => step'[q] = step[q]
  BY OthersStay DEF HostInv
<1>2. HoldersOnly'
  BY <1>1, Forgetting DEF HostInv, HoldersOnly, Idle, Runner!Idle, NotLoaded
<1>3. \A q \in Processes : q # p => (Idle(q)' <=> Idle(q)) /\ run'[q].id = run[q].id
  BY Forgetting DEF Idle, Runner!Idle
<1>4. minted' \in 0 .. MaxIds /\ saved'.id \in 0 .. minted'
  BY Forgetting DEF HostInv, FollowsDisk
<1> QED BY <1>2, <1>3, <1>4, Forgetting DEF HostInv, FollowsDisk, NotLoaded

LEMMA StayKeeps ==
  ASSUME HostInv, UNCHANGED <<saved, run, minted, own>>,
         \A p \in Processes : step[p] = "running" => step'[p] = "running"
  PROVE  Shapes' /\ HoldersOnly' /\ FollowsDisk'
BY DEF HostInv, Shapes, HoldersOnly, FollowsDisk, Idle, Runner!Idle

\* Every step keeps the invariant.
LEMMA HostKeeps == OneReclaimer /\ HostInv /\ [HostNext]_hostVars => HostInv'
<1> SUFFICES ASSUME OneReclaimer, HostInv, [HostNext]_hostVars
             PROVE  Shapes' /\ HoldersOnly' /\ FollowsDisk'
  BY HostKeepsLock DEF HostInv
<1>1. ASSUME NEW p \in Processes, AcquireLock(p)
      PROVE  Shapes' /\ HoldersOnly' /\ FollowsDisk'
  <2>1. acquireLock(p) /\ UNCHANGED <<saved, run, minted, own>>
    BY <1>1 DEF AcquireLock, work
  <2>2. \A q \in Processes : step[q] = "running" => step'[q] = "running"
    BY <2>1, OthersStay, AcquiringIsNotRunning DEF HostInv
  <2> QED BY <2>1, <2>2, StayKeeps
<1>2. ASSUME NEW p \in Processes, Load(p)
      PROVE  Shapes' /\ HoldersOnly' /\ FollowsDisk'
  BY <1>2, Loading, LoadKeeps
<1>3. ASSUME NEW p \in Processes, StartCycle(p)
      PROVE  Shapes' /\ HoldersOnly' /\ FollowsDisk'
  BY <1>3, Starting, StartKeeps
<1>4. ASSUME NEW p \in Processes, GoOn(p)
      PROVE  Shapes' /\ HoldersOnly' /\ FollowsDisk'
  BY <1>4, GoingOn, GoOnKeeps
<1>5. ASSUME NEW p \in Processes, EndCycle(p)
      PROVE  Shapes' /\ HoldersOnly' /\ FollowsDisk'
  BY <1>5, Ending, EndKeeps
<1>6. ASSUME NEW p \in Processes, Stop(p) \/ Die(p)
      PROVE  Shapes' /\ HoldersOnly' /\ FollowsDisk'
  BY <1>6, Forgetting, ForgetKeeps DEF Stop, Die
<1>7. ASSUME NEW k \in sent, Execute(k)
      PROVE  Shapes' /\ HoldersOnly' /\ FollowsDisk'
  BY <1>7, StayKeeps DEF Execute, Runner!Execute, vars
<1>8. CASE UNCHANGED hostVars
  BY <1>8, StayKeeps DEF hostVars, vars, work
<1> QED BY <1>1, <1>2, <1>3, <1>4, <1>5, <1>6, <1>7, <1>8 DEF HostNext, cmdRun

\* At the start nobody has anything, and there is nothing on disk.
LEMMA HostStarts == HostInit => HostInv
<1> SUFFICES ASSUME HostInit PROVE Shapes /\ HoldersOnly /\ FollowsDisk
  BY InitKeeps DEF HostInit, HostInv
<1>1. own = [p \in Processes |-> NotLoaded] /\ Runner!Init
  BY DEF HostInit
<1>2. saved = [id |-> 0, seq |-> Runner!NoCounts] /\ minted = 0
  BY <1>1 DEF Runner!Init
<1>3. PICK i \in Intents :
        run = [p \in Processes |->
                 [step |-> "idle", id |-> 1, seq |-> Runner!NoCounts, intent |-> i]]
  BY <1>1 DEF Runner!Init
<1>4. \A p \in Processes : own[p] = NotLoaded /\ Idle(p)
  BY <1>1, <1>3 DEF Idle, Runner!Idle
<1>5. Shapes
  BY <1>1, <1>2, <1>3 DEF Shapes, IsState, IsRun, NotLoaded
<1>6. 0 \in 0 .. MaxIds /\ 0 \in 0 .. 0
  BY HostAssumption
<1>7. saved.id = 0 /\ saved.seq = Runner!NoCounts
  BY <1>2
<1> QED BY <1>2, <1>4, <1>5, <1>6, <1>7 DEF HoldersOnly, FollowsDisk

-----------------------------------------------------------------------------
(* The refinement *)

\* Once there is an identity on disk, every identity counts.
LEMMA AllCounted ==
  /\ saved.id # 0 => Counted = minted
  /\ (saved.id # 0)' => Counted' = minted'
  /\ (\A p \in Processes : own[p] = NotLoaded) => Counted = minted
  /\ (\A p \in Processes : own[p] = NotLoaded)' => Counted' = minted'
BY DEF Counted, Unestablished

\* Counting depends on nothing else.
LEMMA CountedStays ==
  ASSUME UNCHANGED <<saved, own, minted>>
  PROVE  Counted' = Counted
BY DEF Counted, Unestablished

LEMMA LoadRefines ==
  ASSUME HostInv, NEW p \in Processes, Load(p)
  PROVE  UNCHANGED Work!vars
<1>1. UNCHANGED <<saved, run, sent, executed>>
  BY Loading
<1>2. Counted' = Counted
  <2>1. CASE saved.id # 0
    <3>1. minted' = minted /\ (saved.id # 0)'
      BY <2>1, Loading
    <3> QED BY <2>1, <3>1, AllCounted
  <2>2. CASE saved.id = 0
    <3>1. \A q \in Processes : own[q] = NotLoaded
      BY Loading, OthersAreEmpty
    <3>2. Counted = minted
      BY <3>1, AllCounted
    <3>3. own'[p] # NotLoaded /\ saved'.id = 0 /\ minted' = minted + 1
      BY <2>2, Loading DEF HostInv, FollowsDisk, NotLoaded
    <3>4. Counted' = minted' - 1 /\ minted \in Nat
      BY <3>3 DEF Counted, Unestablished, HostInv, FollowsDisk
    <3> QED BY <3>2, <3>3, <3>4
  <2> QED BY <2>1, <2>2
<1> QED BY <1>1, <1>2 DEF Work!vars

LEMMA StartRefines ==
  ASSUME HostInv, NEW p \in Processes, StartCycle(p)
  PROVE  Work!StartCycle(p)
<1>1. /\ minted \in 0 .. MaxIds /\ saved.id \in 0 .. minted /\ MaxIds \in Nat
      /\ own[p] # NotLoaded /\ own[p].seq = saved.seq
      /\ own[p].id = IF saved.id = 0 THEN minted ELSE saved.id
      /\ minted # 0
  BY HostAssumption, Starting DEF HostInv, FollowsDisk
<1>2. Counted = IF saved.id = 0 THEN minted - 1 ELSE minted
  BY <1>1 DEF Counted, Unestablished
<1>3. Work!StartId = own[p].id
  BY <1>1, <1>2 DEF Work!StartId
<1>4. saved' = Work!Established(own[p].id)
  <2>1. own[p] = [id |-> own[p].id, seq |-> saved.seq]
    BY <1>1 DEF HostInv, Shapes, IsState
  <2>2. saved = [id |-> saved.id, seq |-> saved.seq]
    BY DEF HostInv, Shapes, IsState
  <2>3. [saved EXCEPT !.id = own[p].id] = [id |-> own[p].id, seq |-> saved.seq]
    BY <2>2
  <2> QED BY <2>1, <2>3, Starting DEF Work!Established
<1>5. run' = [run EXCEPT ![p] = [step |-> "deciding", id |-> own[p].id,
                                 seq |-> saved.seq, intent |-> @.intent]]
  BY <1>1 DEF StartCycle
<1>6. Counted' = IF own[p].id > Counted THEN own[p].id ELSE Counted
  <2>1. (saved.id # 0)' /\ minted' = minted
    BY <1>1, Starting
  <2> QED BY <1>1, <1>2, <2>1, AllCounted
<1>7. \A q \in Processes : Work!Idle(q)
  BY Starting, OthersAreEmpty DEF Idle, Runner!Idle, Work!Idle
<1>8. own[p].id <= MaxIds
  BY <1>1
<1> QED BY <1>3, <1>4, <1>5, <1>6, <1>7, <1>8, Starting DEF Work!StartCycle

LEMMA GoOnRefines ==
  ASSUME HostInv, NEW p \in Processes, GoOn(p)
  PROVE  \/ \E i \in Intents : Work!SendWrite(p, i)
         \/ Work!ConfirmWrite(p) \/ Work!WriteUnconfirmed(p)
<1>1. Counted' = Counted
  BY GoingOn, CountedStays
<1>2. ASSUME NEW i \in Intents, Runner!SendWrite(p, i)
      PROVE  Work!SendWrite(p, i)
  BY <1>1, <1>2 DEF Runner!SendWrite, Work!SendWrite, Runner!KeyOf, Work!KeyOf
<1>3. ASSUME Runner!ConfirmWrite(p)
      PROVE  Work!ConfirmWrite(p)
  BY <1>1, <1>3 DEF Runner!ConfirmWrite, Work!ConfirmWrite, Runner!Confirmed,
                    Work!Confirmed, Runner!KeyOf, Work!KeyOf, Runner!Advanced,
                    Work!Advanced
<1>4. ASSUME Runner!WriteUnconfirmed(p)
      PROVE  Work!WriteUnconfirmed(p)
  BY <1>1, <1>4 DEF Runner!WriteUnconfirmed, Work!WriteUnconfirmed
<1> QED BY <1>2, <1>3, <1>4 DEF GoOn

LEMMA EndRefines ==
  ASSUME HostInv, NEW p \in Processes, EndCycle(p)
  PROVE  Work!EndCycle(p)
<1>1. saved.id # 0 /\ (saved.id # 0)' /\ minted' = minted
  BY Ending DEF HostInv, FollowsDisk
<1>2. Counted' = Counted
  BY <1>1, AllCounted
<1> QED BY <1>2 DEF EndCycle, Runner!EndCycle, Work!EndCycle, Runner!Result,
                    Work!Result, Runner!AsIdle, Work!AsIdle

\* A process that ends loses its cycle, its unsaved identity, or nothing.
LEMMA ForgetRefines ==
  ASSUME HostInv, NEW p \in Processes, Forget(p)
  PROVE  Work!Crash(p) \/ Work!WasteId \/ UNCHANGED Work!vars
<1>1. UNCHANGED <<saved, sent, executed, minted>> /\ run' = Runner!AsIdle(p)
  BY DEF Forget
<1>2. CASE ~Idle(p)
  <2>1. saved.id # 0
    BY <1>2 DEF HostInv, FollowsDisk
  <2>2. Counted' = Counted
    BY <1>1, <2>1, AllCounted
  <2> QED BY <1>1, <1>2, <2>2
          DEF Work!Crash, Idle, Runner!Idle, Work!Idle, Runner!AsIdle, Work!AsIdle
<1>3. CASE Idle(p)
  <2>1. run' = run
    <3>1. run[p].step = "idle" /\ IsRun(run[p])
      BY <1>3 DEF Idle, Runner!Idle, HostInv, Shapes
    <3>2. [run[p] EXCEPT !.step = "idle"] = run[p]
      BY <3>1 DEF IsRun
    <3>3. run = [q \in Processes |-> run[q]]
      BY DEF HostInv, Shapes
    <3> QED BY <1>1, <3>2, <3>3 DEF Runner!AsIdle
  <2>2. CASE saved.id # 0
    <3>1. Counted' = Counted
      BY <1>1, <2>2, AllCounted
    <3> QED BY <1>1, <2>1, <3>1 DEF Work!vars
  <2>3. CASE saved.id = 0 /\ own[p] = NotLoaded
    <3>1. own = [q \in Processes |-> own[q]]
      BY DEF HostInv, Shapes
    <3>2. own' = own
      BY <2>3, <3>1 DEF Forget
    <3>3. Counted' = Counted
      BY <1>1, <3>2, CountedStays
    <3> QED BY <1>1, <2>1, <3>3 DEF Work!vars
  <2>4. CASE saved.id = 0 /\ own[p] # NotLoaded
    <3>1. step[p] = "running" /\ minted \in 0 .. MaxIds /\ MaxIds \in Nat /\ minted # 0
      BY <2>4, HostAssumption DEF HostInv, HoldersOnly, FollowsDisk
    <3>2. \A q \in Processes : own'[q] = NotLoaded
      BY <3>1, Forgetting, OthersAreEmpty
    <3>3. Counted = minted - 1
      BY <2>4 DEF Counted, Unestablished
    <3>4. Counted' = minted
      BY <1>1, <3>2, AllCounted
    <3>5. Counted < MaxIds /\ Counted' = Counted + 1
      BY <3>1, <3>3, <3>4
    <3> QED BY <1>1, <2>1, <3>5 DEF Work!WasteId
  <2> QED BY <2>2, <2>3, <2>4
<1> QED BY <1>2, <1>3

\* Every step is one of RunnerIntents, or leaves its variables alone.
LEMMA StepsRefine == HostInv /\ [HostNext]_hostVars => [Work!Next]_(Work!vars)
<1> SUFFICES ASSUME HostInv, [HostNext]_hostVars PROVE [Work!Next]_(Work!vars)
  OBVIOUS
<1>1. ASSUME NEW p \in Processes, AcquireLock(p)
      PROVE  UNCHANGED Work!vars
  BY <1>1, CountedStays DEF AcquireLock, work, Work!vars
<1>2. ASSUME NEW p \in Processes, StartCycle(p)
      PROVE  Work!Next
  BY <1>2, StartRefines DEF Work!Next, Work!RunnerStep
<1>3. ASSUME NEW p \in Processes, GoOn(p)
      PROVE  Work!Next
  BY <1>3, GoOnRefines DEF Work!Next, Work!RunnerStep
<1>4. ASSUME NEW p \in Processes, EndCycle(p)
      PROVE  Work!Next
  BY <1>4, EndRefines DEF Work!Next, Work!RunnerStep
<1>5. ASSUME NEW p \in Processes, Stop(p) \/ Die(p)
      PROVE  Work!Next \/ UNCHANGED Work!vars
  <2>1. Forget(p)
    BY <1>5 DEF Stop, Die
  <2> QED BY <2>1, ForgetRefines DEF Work!Next, Work!RunnerStep
<1>6. ASSUME NEW k \in sent, Execute(k)
      PROVE  Work!Next
  <2>1. Counted' = Counted
    BY <1>6, CountedStays DEF Execute, Runner!Execute
  <2>2. Work!Execute(k)
    BY <1>6, <2>1 DEF Execute, Runner!Execute, Work!Execute
  <2> QED BY <2>2 DEF Work!Next
<1>7. CASE UNCHANGED hostVars
  BY <1>7, CountedStays DEF hostVars, work, Work!vars
<1> QED BY <1>1, <1>2, <1>3, <1>4, <1>5, <1>6, <1>7, LoadRefines DEF HostNext, cmdRun

\* At the start there is nothing on disk, and no identity.
LEMMA StartsRefine == HostInit => Work!Init
<1> SUFFICES ASSUME HostInit PROVE Work!Init
  OBVIOUS
<1>1. \A p \in Processes : own[p] = NotLoaded
  BY DEF HostInit
<1>2. Counted = minted
  BY <1>1, AllCounted
<1> QED BY <1>2 DEF HostInit, Runner!Init, Work!Init, Runner!NoCounts, Work!NoCounts

-----------------------------------------------------------------------------
(* The requests *)

\* All requests so far were made under the identity on disk.
OneIdentity ==
  \A k \in sent \cup executed : saved.id # 0 /\ k.id = saved.id

\* A command works under the identity on disk, and no save replaces that.
LEMMA OneIdentityKept ==
  ASSUME HostInv, OneIdentity, [HostNext]_hostVars
  PROVE  OneIdentity'
<1>1. ASSUME NEW p \in Processes, GoOn(p)
      PROVE  OneIdentity'
  <2>1. UNCHANGED saved
    BY <1>1, GoingOn
  <2>2. UNCHANGED executed
    BY <1>1 DEF GoOn, Runner!SendWrite, Runner!ConfirmWrite, Runner!WriteUnconfirmed
  <2>3. UNCHANGED sent \/ \E k : sent' = sent \cup {k} /\ k.id = run[p].id
    <3>1. ASSUME NEW i \in Intents, Runner!SendWrite(p, i)
          PROVE  \E k : sent' = sent \cup {k} /\ k.id = run[p].id
      <4>1. sent' = sent \cup {Runner!KeyOf(p, i)}
        BY <3>1 DEF Runner!SendWrite
      <4>2. Runner!KeyOf(p, i).id = run[p].id
        BY DEF Runner!KeyOf
      <4> QED BY <4>1, <4>2, Zenon
    <3>2. CASE Runner!ConfirmWrite(p) \/ Runner!WriteUnconfirmed(p)
      BY <3>2 DEF Runner!ConfirmWrite, Runner!WriteUnconfirmed
    <3> QED BY <1>1, <3>1, <3>2 DEF GoOn
  <2>4. saved.id # 0 /\ run[p].id = saved.id
    BY <1>1, GoingOn DEF HostInv, FollowsDisk
  <2> QED BY <2>1, <2>2, <2>3, <2>4 DEF OneIdentity
<1>2. ASSUME NEW p \in Processes, StartCycle(p)
      PROVE  OneIdentity'
  <2>1. saved.id # 0 => saved'.id = saved.id
    BY <1>2, Starting DEF HostInv, FollowsDisk
  <2> QED BY <1>2, <2>1, Starting DEF OneIdentity
<1>3. ASSUME NEW p \in Processes, EndCycle(p)
      PROVE  OneIdentity'
  <2>1. saved'.id = saved.id
    BY <1>3, Ending DEF HostInv, FollowsDisk
  <2>2. UNCHANGED <<sent, executed>>
    BY <1>3 DEF EndCycle, Runner!EndCycle
  <2> QED BY <2>1, <2>2 DEF OneIdentity
<1>4. ASSUME NEW k \in sent, Execute(k)
      PROVE  OneIdentity'
  BY <1>4 DEF Execute, Runner!Execute, OneIdentity
<1>5. CASE \/ \E p \in Processes : AcquireLock(p) \/ Load(p) \/ Stop(p) \/ Die(p)
           \/ UNCHANGED hostVars
  <2>1. UNCHANGED <<saved, sent, executed>>
    BY <1>5 DEF AcquireLock, Load, Stop, Die, Forget, work, hostVars
  <2> QED BY <2>1 DEF OneIdentity
<1> QED BY <1>1, <1>2, <1>3, <1>4, <1>5 DEF HostNext, cmdRun

-----------------------------------------------------------------------------
(* Theorems *)

LEMMA HostAlways ==
  ASSUME OneReclaimer
  PROVE  HostSpec => []HostInv
BY HostStarts, HostKeeps, PTL DEF HostSpec

\* For any number of commands, kills and signals at any step: one command works
\* at a time (cli.ts, "only one runner per agent at a time"), and the file is its.
THEOREM CommandsExclude ==
  ASSUME OneReclaimer
  PROVE  HostSpec => [](OneRunner /\ RunnerKeepsItsLock)
<1>1. HostInv => OneRunner /\ RunnerKeepsItsLock
  BY DEF HostInv, IInv, RunnerKeepsItsLock, OneRunner
<1> QED BY <1>1, HostAlways, PTL

\* And what the commands do together is what RunnerIntents says of a self-hosted
\* agent: its theorems hold of the run command, although each command reads the
\* state file once and works from memory.
THEOREM CommandsImplementIntents ==
  ASSUME OneReclaimer
  PROVE  HostSpec => ImplementsIntents
<1>1. HostInv /\ [HostNext]_hostVars => [Work!Next]_(Work!vars)
  BY StepsRefine
<1> QED BY <1>1, StartsRefine, HostAlways, PTL DEF HostSpec, ImplementsIntents, Work!Spec

\* No command places a trade that another one, or the same one before it was
\* killed, has placed (cli.ts, "only one runner per agent at a time").
THEOREM CommandsTradeOnce ==
  ASSUME OneReclaimer
  PROVE  HostSpec => []TradesPlacedOnce
<1>1. HostInit => OneIdentity
  BY DEF HostInit, Runner!Init, OneIdentity
<1>2. HostInv /\ OneIdentity /\ [HostNext]_hostVars => OneIdentity'
  BY OneIdentityKept
<1>3. OneIdentity => TradesPlacedOnce
  BY DEF OneIdentity, TradesPlacedOnce, Runner!NoDoubleTrade
<1> QED BY <1>1, <1>2, <1>3, HostAlways, PTL DEF HostSpec
=============================================================================
