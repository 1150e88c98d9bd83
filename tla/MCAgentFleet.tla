---------------------------- MODULE MCAgentFleet ----------------------------
(* Instances of AgentFleet for TLC: every agent has the same cadence.       *)
EXTENDS AgentFleet, TLC

CONSTANT Ticks

MCCadence == [a \in Agents |-> Ticks]

Symmetry == Permutations(Replicas)
SymmetryBoth == Permutations(Replicas) \cup Permutations(Agents)
=============================================================================
