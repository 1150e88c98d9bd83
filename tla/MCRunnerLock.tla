---------------------------- MODULE MCRunnerLock ----------------------------
(* Instances of RunnerLock for TLC.                                         *)
EXTENDS RunnerLock, TLC
=============================================================================
