----------------------------- MODULE RunnerLock -----------------------------
(***************************************************************************)
(* The lock of a self-hosted agent (cli.ts, acquireLock): a file beside    *)
(* the state file, made with O_EXCL, that names the process that made it.  *)
(* A process that finds the file reads it and, when the process it names   *)
(* is dead, removes it and tries once more.  Each step here is one system  *)
(* call; processes interleave between them and may be killed at any of     *)
(* them.  RunnerIntents takes from this module that one runner of an agent *)
(* works at a time.                                                        *)
(***************************************************************************)
EXTENDS Naturals

CONSTANTS
  Processes,    \* each stands for one `run` command, with a pid of its own
  Nobody,       \* the maker of a lock file that does not exist
  Killable,     \* the processes that may be killed
  OneReclaimer  \* no two processes are about to remove the file at once

ASSUME LockAssumption ==
  /\ Nobody \notin Processes
  /\ Killable \subseteq Processes
  /\ OneReclaimer \in BOOLEAN

VARIABLES
  lock,  \* the lock file: who made it, and whether it names them yet
  step   \* what each process does next

vars == <<lock, step>>

Steps == {"opening", "reading", "removing", "reopening", "naming", "running",
          "over", "killed"}

Absent == [by |-> Nobody, named |-> FALSE]

Made(p) == [by |-> p, named |-> FALSE]

Init ==
  /\ lock = Absent
  /\ step = [p \in Processes |-> "opening"]

Goes(p, s, t) == step[p] = s /\ step' = [step EXCEPT ![p] = t]

(* Variant: a process that may not be signalled (EPERM) counts as dead.     *)
AliveIfOurs(p) == p \in Killable /\ step[p] \notin {"over", "killed"}

(* Signal 0 reaches the process, or is refused.                             *)
Alive(p) == step[p] \notin {"over", "killed"}

(* openSync(lock, "wx"), first and second attempt                           *)
Open(p) ==
  \/ /\ lock = Absent
     /\ Goes(p, "opening", "naming")
     /\ lock' = Made(p)
  \/ /\ lock # Absent
     /\ Goes(p, "opening", "reading")
     /\ UNCHANGED lock

Reopen(p) ==
  \/ /\ lock = Absent
     /\ Goes(p, "reopening", "naming")
     /\ lock' = Made(p)
  \/ /\ lock # Absent
     /\ Goes(p, "reopening", "over")
     /\ UNCHANGED lock

(* Variant: a file that names nobody yet belongs to nobody.                 *)
OrphanedUnnamed == lock.named => ~Alive(lock.by)

(* The file is there, can be parsed, and names a dead process.              *)
Orphaned == lock # Absent /\ lock.named /\ ~Alive(lock.by)

(* Variant: any file is held.                                               *)
ReadHeld(p) == Goes(p, "reading", "over") /\ UNCHANGED lock

(* A file that is gone, empty or names a live process: held.                *)
Read(p) ==
  /\ \/ /\ Orphaned
        /\ OneReclaimer => \A q \in Processes : step[q] # "removing"
        /\ Goes(p, "reading", "removing")
     \/ ~Orphaned /\ Goes(p, "reading", "over")
  /\ UNCHANGED lock

(* unlinkSync(lock): whatever file has the name by now; gone already: the   *)
(* race is lost.                                                            *)
Remove(p) ==
  /\ Goes(p, "removing", IF lock = Absent THEN "over" ELSE "reopening")
  /\ lock' = Absent

(* The pid goes into the file that was opened, linked or not.               *)
Name(p) ==
  /\ Goes(p, "naming", "running")
  /\ lock' = IF lock.by = p THEN [lock EXCEPT !.named = TRUE] ELSE lock

(* The release, from the finally or from the signal handler, removes the    *)
(* file by its name.                                                        *)
Release(p) ==
  /\ Goes(p, "running", "over")
  /\ lock' = Absent

(* Killed, without unwinding its finally                                    *)
Kill(p) ==
  /\ p \in Killable
  /\ Alive(p)
  /\ step' = [step EXCEPT ![p] = "killed"]
  /\ UNCHANGED lock

acquireLock(p) ==
  \/ Open(p)
  \/ Read(p)
  \/ Remove(p)
  \/ Reopen(p)
  \/ Name(p)

Next == \E p \in Processes : acquireLock(p) \/ Release(p) \/ Kill(p)

(* acquireLock is synchronous: a process that is not killed gets through    *)
(* it.  How long a runner then runs is up to its user.                      *)
Spec ==
  /\ Init
  /\ [][Next]_vars
  /\ \A p \in Processes : WF_vars(acquireLock(p))

-----------------------------------------------------------------------------
(* Properties *)

TypeOK ==
  /\ lock \in [by : Processes \cup {Nobody}, named : BOOLEAN]
  /\ step \in [Processes -> Steps]

Holds(p) == step[p] \in {"naming", "running"}

(* "only one runner per agent at a time" (cli.ts, cmdRun): two processes    *)
(* that both got past acquireLock would race one state file.                *)
OneRunner == \A p, q \in Processes : Holds(p) /\ Holds(q) => p = q

(* The file a runner made stays there while it runs, so that it keeps every *)
(* later process out: no release and no reclaim removes somebody else's.    *)
RunnerKeepsItsLock == \A p \in Processes : Holds(p) => lock.by = p

(* A killed runner traps nobody (cli.ts: "the orphaned lock is reclaimed    *)
(* instead of trapping every subsequent run"): once a process that lives is *)
(* about to read a lock whose maker is dead, that lock does not last, even  *)
(* when another process is killed while it reclaims it.                     *)
OrphanIsReclaimed ==
  \A p \in Processes \ Killable :
    (step[p] = "reading" /\ Orphaned) ~> ~Orphaned
=============================================================================
