-------------------------- MODULE MCAgentRuntime --------------------------
(* AgentRuntime for TLC: step ids, and runs, are interchangeable. *)
EXTENDS AgentRuntime

\* No id has spaces around it.
MCTrim == [s \in StepIds |-> s]

Symmetry == Permutations(StepIds) \cup Permutations(Runs)
=============================================================================
