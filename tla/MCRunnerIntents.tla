--------------------------- MODULE MCRunnerIntents ---------------------------
(* Instances of RunnerIntents for TLC.                                      *)
EXTENDS RunnerIntents, TLC

Symmetry == Permutations(Runners) \cup Permutations(Intents)
=============================================================================
