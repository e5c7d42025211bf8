---------------------------- MODULE MCPlanState ----------------------------
(* PlanState for TLC: one of four ids is another with spaces around it, and *)
(* the other two are interchangeable.                                      *)
EXTENDS PlanState

CONSTANTS a, b, c, paddedA

MCTrim == [s \in StepIds |-> IF s = paddedA THEN a ELSE s]

Symmetry == Permutations({b, c})
=============================================================================
