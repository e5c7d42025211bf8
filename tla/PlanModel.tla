----------------------------- MODULE PlanModel -----------------------------
(***************************************************************************)
(* The plan data model of @ixia/planner and the methods of class PlanState *)
(* as operators on a plan record.  A method that may throw is two          *)
(* operators: a guard MayX, true when the call does not throw, and the     *)
(* plan it leaves.  A throwing call changes nothing, because every method  *)
(* throws before it assigns this.plan.  PlanState drives the operators     *)
(* with an arbitrary client, AgentRuntime with the runtime's own calls.    *)
(*                                                                         *)
(* The step array is `order`, the ids in array order, with the fields of a *)
(* step in functions over StepIds: ids are unique in a validated plan, so  *)
(* findIndex by id finds the one step that has it.  An id may have spaces  *)
(* around it, which the validator trims in some places and not in others.  *)
(* Titles, descriptions, timestamps, error texts and metadata are left out. *)
(***************************************************************************)
EXTENDS Naturals, Sequences, SequencesExt

CONSTANTS StepIds,    \* the ids a step of the plan may have
          NoStep,     \* `undefined` where the code holds an optional step
          MaxSteps,   \* limits.maxSteps of the validator
          Trim        \* Trim[s]: s without the spaces around it

ASSUME PlanAssumption ==
  /\ NoStep \notin StepIds /\ MaxSteps \in Nat \ {0}
  /\ Trim \in [StepIds -> StepIds] /\ \A s \in StepIds : Trim[Trim[s]] = Trim[s]

StepStatus ==
  {"pending", "in_progress", "completed", "blocked", "skipped", "failed"}
PlanStatus ==
  {"ready", "in_progress", "completed", "blocked", "cancelled", "failed"}
TerminalStatus == {"completed", "cancelled", "failed"}

Plan == [order   : Seq(StepIds),
         step    : [StepIds -> StepStatus \cup {"absent"}],
         deps    : [StepIds -> SUBSET StepIds],
         status  : PlanStatus,
         current : StepIds \cup {NoStep},
         version : Nat]

\* The ids of the plan's steps.
Ids(p) == {s \in StepIds : p.step[s] # "absent"}

WithStatus(p, set) == {s \in StepIds : p.step[s] \in set}

\* The fields have their types, the array lists each step of the plan once,
\* and currentStepId names a step of the plan.
WellFormed(p) ==
  /\ p \in Plan
  /\ IsInjective(p.order)
  /\ ToSet(p.order) = Ids(p)
  /\ p.current \in Ids(p) \cup {NoStep}

----------------------------------------------------------------------------
(* PlanValidator: what validate accepts, on the fields kept here.  A       *)
(* nonempty set of steps each of which depends on a member of the set is   *)
(* what a dependency cycle is in a finite graph.                           *)

Acyclic(ids, deps) ==
  \A S \in SUBSET ids : S # {} => \E s \in S : deps[s] \cap S = {}

\* The ids that are looked for as duplicates are trimmed ...
IdsDistinct(p) == \A s, t \in Ids(p) : Trim[s] = Trim[t] => s = t

\* ... and so are those the search for a cycle goes through, while stepMap and
\* the dependencies have them as they are: the steps of which it sees the
\* dependencies, and which it recognizes as one, are those without spaces.
Searched(p) == {s \in Ids(p) : Trim[s] = s}

DependenciesOK(p) ==
  /\ \A s \in Ids(p) : p.deps[s] \subseteq Ids(p) \ {s}
  /\ Acyclic(Searched(p), p.deps)

Valid(p) == Len(p.order) \in 1 .. MaxSteps /\ IdsDistinct(p) /\ DependenciesOK(p)

\* Arrays of distinct ids that are not over the limit.
Orders == {o \in UNION {[1 .. n -> StepIds] : n \in 1 .. MaxSteps} : IsInjective(o)}

\* PlanGenerator.generate, then createPlanState: a ready plan, all pending.
NewPlan(o, D) ==
  [order   |-> o,
   step    |-> [s \in StepIds |-> IF s \in ToSet(o) THEN "pending" ELSE "absent"],
   deps    |-> [s \in StepIds |-> IF s \in ToSet(o) THEN D[s] ELSE {}],
   status  |-> "ready",
   current |-> NoStep,
   version |-> 1]

----------------------------------------------------------------------------
(* Queries *)

NotTerminal(p) == p.status \notin TerminalStatus

\* Mutation: only completed dependencies count.
MutDepsSatisfied(p, s) == \A d \in p.deps[s] : p.step[d] = "completed"

\* Mutation: a dependency counts unless it failed.
MutDepsNotFailed(p, s) == \A d \in p.deps[s] : p.step[d] # "failed"

DepsSatisfied(p, s) ==
  \A d \in p.deps[s] : p.step[d] \in {"completed", "skipped"}

Executable(p) == {s \in WithStatus(p, {"pending"}) : DepsSatisfied(p, s)}

\* find and findIndex: the first entry of the array that is in set, the index
\* 0 or the id NoStep if there is none.
IndexIn(o, set) == SelectInSeq(o, LAMBDA s : s \in set)

FirstOf(p, set) ==
  LET i == IndexIn(p.order, set) IN IF i = 0 THEN NoStep ELSE p.order[i]

NextExecutable(p) ==
  IF p.status \in {"completed", "cancelled"} THEN NoStep
  ELSE FirstOf(p, Executable(p))

----------------------------------------------------------------------------
(* Methods *)

Started(p) ==
  IF p.status = "in_progress" THEN p
  ELSE [p EXCEPT !.status = "in_progress", !.version = @ + 1]

MayStartStep(p, s) ==
  /\ NotTerminal(p)
  /\ p.step[s] \in {"pending", "in_progress"}
  /\ DepsSatisfied(p, s)
StepStarted(p, s) ==
  [p EXCEPT !.status = "in_progress", !.current = s,
            !.step[s] = "in_progress", !.version = @ + 1]

\* Dependencies are not consulted, and a pending step may be completed.
MayCompleteStep(p, s) ==
  NotTerminal(p) /\ p.step[s] \in {"pending", "in_progress"}
StepCompleted(p, s) ==
  [p EXCEPT !.step[s] = "completed", !.version = @ + 1,
            !.current = FirstOf(p, WithStatus(p, {"pending"}) \ {s})]

MaySkipStep(p, s) == NotTerminal(p) /\ s \in Ids(p)
StepSkipped(p, s) ==
  [p EXCEPT !.step[s] = "skipped", !.version = @ + 1,
            !.current = IF @ = s THEN NoStep ELSE @]

MayBlockStep(p, s) == NotTerminal(p) /\ s \in Ids(p)
StepBlocked(p, s) ==
  [p EXCEPT !.status = "blocked", !.step[s] = "blocked", !.version = @ + 1]

\* No terminal check: a late failStep reopens nothing but does overwrite.
MayFailStep(p, s) == s \in Ids(p)
StepFailed(p, s) ==
  [p EXCEPT !.status = "failed", !.step[s] = "failed", !.version = @ + 1]

\* `after` NoStep stands for an omitted afterStepId: append.
StepAdded(p, s, st, D, after) ==
  LET at == IF after = NoStep THEN Len(p.order) + 1
            ELSE IndexIn(p.order, {after}) + 1
  IN  [p EXCEPT !.order = InsertAt(@, at, s), !.step[s] = st,
                !.deps[s] = D, !.version = @ + 1]
\* Mutation: the ids are not checked for duplicates.
MutMayAddStep(p, s, st, D, after) ==
  /\ NotTerminal(p)
  /\ after \in Ids(p) \cup {NoStep}
  /\ Valid(StepAdded(p, s, st, D, after))
MayAddStep(p, s, st, D, after) ==
  /\ NotTerminal(p)
  /\ after \in Ids(p) \cup {NoStep}
  /\ s \notin Ids(p)                       \* a duplicate id is refused
  /\ Valid(StepAdded(p, s, st, D, after))

StepUpdated(p, s, st, D) ==
  [p EXCEPT !.step[s] = st, !.deps[s] = D, !.version = @ + 1]
\* Mutation: the candidate is assigned without validation.
MutMayUpdateStep(p, s, st, D) == NotTerminal(p) /\ s \in Ids(p)
MayUpdateStep(p, s, st, D) ==
  /\ NotTerminal(p)
  /\ s \in Ids(p)
  /\ Valid(StepUpdated(p, s, st, D))

\* Nothing checks that the steps are done.
MayComplete(p) == NotTerminal(p)
Completed(p) ==
  [p EXCEPT !.status = "completed", !.current = NoStep, !.version = @ + 1]

\* cancel and fail have no terminal check.
Cancelled(p) ==
  IF p.status = "cancelled" THEN p
  ELSE [p EXCEPT !.status = "cancelled", !.current = NoStep, !.version = @ + 1]

Failed(p) == [p EXCEPT !.status = "failed", !.version = @ + 1]
=============================================================================
