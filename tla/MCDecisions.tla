---------------------------- MODULE MCDecisions ----------------------------
(* Decisions on plans of up to MaxSteps steps, and one plan over the limit. *)
EXTENDS Decisions

CONSTANTS x, y  \* the model values NoId and Stray

MCStepIds == 1 .. 4

MCTrim == [s \in MCStepIds |-> s]

\* The steps are ones the checks tell apart: the id is absent, the step's own
\* or the first one's.
RawStepAt(i) == [id : {x, i, 1}, deps : {{y}} \cup SUBSET (MCStepIds \ {4})]

RECURSIVE RawLists(_)
RawLists(n) ==
  IF n = 0 THEN {<<>>} ELSE {Append(s, r) : s \in RawLists(n - 1), r \in RawStepAt(n)}

\* A plan over the limit is otherwise without fault.
TooLong == [i \in MCStepIds |-> [id |-> i, deps |-> {}]]

MCAnswers ==
  [readable : {TRUE}, worded : {TRUE}, steps : {TooLong} \cup UNION {RawLists(n) : n \in 0 .. 3}] \cup
  [readable : BOOLEAN, worded : BOOLEAN, steps : RawLists(1)]
=============================================================================
