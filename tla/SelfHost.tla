------------------------------ MODULE SelfHost ------------------------------
(***************************************************************************)
(* The `run` command of a self-hosted agent (cli.ts, cmdRun): the lock of  *)
(* RunnerLock around the cycles of RunnerIntents.  A command that got the  *)
(* lock reads the state file once and then works, cycle after cycle, from  *)
(* its own copy.  RunnerIntents assumes that one runner works at a time    *)
(* and that it starts each cycle from what is on disk; here the lock and   *)
(* the order of the steps have to see to that.                             *)
(***************************************************************************)
EXTENDS RunnerLock

CONSTANTS Intents, MaxSeq, MaxIds  \* as in RunnerIntents

ASSUME HostAssumption ==
  Intents # {} /\ MaxSeq \in Nat \ {0} /\ MaxIds \in Nat \ {0}

VARIABLES
  saved, run, sent, executed, minted,  \* as in RunnerIntents
  own  \* own[p]: the RunState in p's memory between cycles; id 0: none yet

Runner == INSTANCE RunnerIntents
            WITH Runners <- Processes, FileBacked <- TRUE, Recorded <- FALSE

work == <<saved, run, sent, executed, minted, own>>
hostVars == <<vars, work>>

NotLoaded == [id |-> 0, seq |-> Runner!NoCounts]

HostInit ==
  /\ Init
  /\ Runner!Init
  /\ own = [p \in Processes |-> NotLoaded]

AcquireLock(p) == acquireLock(p) /\ UNCHANGED work

\* Variant: the file is read before the lock is asked for.
LoadBeforeLock(p) ==
  /\ Alive(p) /\ own[p] = NotLoaded
  /\ IF saved.id # 0
     THEN own' = [own EXCEPT ![p] = saved] /\ UNCHANGED minted
     ELSE /\ minted < MaxIds
          /\ minted' = minted + 1
          /\ own' = [own EXCEPT ![p] = [id |-> minted', seq |-> Runner!NoCounts]]
  /\ UNCHANGED <<vars, saved, run, sent, executed>>

\* loadState(stateFile, makeRunId(...))
Load(p) ==
  /\ step[p] = "running" /\ own[p] = NotLoaded
  /\ IF saved.id # 0
     THEN own' = [own EXCEPT ![p] = saved] /\ UNCHANGED minted
     ELSE /\ minted < MaxIds
          /\ minted' = minted + 1
          /\ own' = [own EXCEPT ![p] = [id |-> minted', seq |-> Runner!NoCounts]]
  /\ UNCHANGED <<vars, saved, run, sent, executed>>

\* The cycle's first save, "before the first possible write".
StartCycle(p) ==
  /\ step[p] = "running" /\ own[p] # NotLoaded /\ Runner!Idle(p)
  /\ saved' = own[p]
  /\ run' = [run EXCEPT ![p] = [step |-> "deciding", id |-> own[p].id,
                                seq |-> own[p].seq, intent |-> @.intent]]
  /\ UNCHANGED <<vars, sent, executed, minted, own>>

GoOn(p) ==
  /\ step[p] = "running"
  /\ \/ \E i \in Intents : Runner!SendWrite(p, i)
     \/ Runner!ConfirmWrite(p)
     \/ Runner!WriteUnconfirmed(p)
  /\ UNCHANGED <<vars, own>>

EndCycle(p) ==
  /\ step[p] = "running"
  /\ Runner!EndCycle(p)
  /\ own' = [own EXCEPT ![p] = Runner!Result(p)]
  /\ UNCHANGED vars

\* What is in memory is gone, wherever in a cycle the process was.
Forget(p) ==
  /\ run' = Runner!AsIdle(p)
  /\ own' = [own EXCEPT ![p] = NotLoaded]
  /\ UNCHANGED <<saved, sent, executed, minted>>

\* The loop is over, something was thrown, or SIGINT or SIGTERM arrived: the
\* finally or the signal handler releases the lock.
Stop(p) == Release(p) /\ Forget(p)

Die(p) == Kill(p) /\ Forget(p)

Execute(k) == Runner!Execute(k) /\ UNCHANGED <<vars, own>>

cmdRun(p) ==
  \/ AcquireLock(p)
  \/ Load(p)
  \/ StartCycle(p) \/ GoOn(p) \/ EndCycle(p)
  \/ Stop(p) \/ Die(p)

HostNext ==
  \/ \E p \in Processes : cmdRun(p)
  \/ \E k \in sent : Execute(k)

HostSpec ==
  /\ HostInit
  /\ [][HostNext]_hostVars
  /\ \A p \in Processes : WF_hostVars(AcquireLock(p))

-----------------------------------------------------------------------------
(* Properties *)

\* An identity that was made up and is not on disk yet is not counted until it
\* is either saved or lost with its process.
Unestablished == saved.id = 0 /\ \E p \in Processes : own[p] # NotLoaded

Counted == IF Unestablished THEN minted - 1 ELSE minted

Work == INSTANCE RunnerIntents
          WITH Runners <- Processes, FileBacked <- TRUE, Recorded <- FALSE,
               minted <- Counted

\* With one command reclaiming at a time, the commands together do what
\* RunnerIntents says of a self-hosted agent: one works at a time, each cycle
\* starts from what is on disk, and the identity is there before the first write.
ImplementsIntents == Work!Spec

\* Whatever is killed, stopped or started again, and however late the backend
\* executes a request: the n-th write of an intent is executed once (cli.ts,
\* "only one runner per agent at a time"; runner.ts, "Establish durable run
\* identity before the first possible write").
TradesPlacedOnce == Runner!NoDoubleTrade
=============================================================================
