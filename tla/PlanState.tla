----------------------------- MODULE PlanState -----------------------------
(***************************************************************************)
(* One PlanState object and a client that calls its public methods in any  *)
(* order (packages/planner/src/state/plan-state.ts).  The methods are      *)
(* synchronous, so each call is one step.                                  *)
(***************************************************************************)
EXTENDS PlanModel

CONSTANT MaxVersion   \* bound: no call is made at this version

ASSUME VersionAssumption == MaxVersion \in Nat

VARIABLE plan   \* this.plan

PlanInit == \E o \in Orders : \E D \in [ToSet(o) -> SUBSET StepIds] :
          plan = NewPlan(o, D) /\ Valid(plan)

Start == NotTerminal(plan) /\ plan' = Started(plan)

StartStep(s) == MayStartStep(plan, s) /\ plan' = StepStarted(plan, s)

CompleteStep(s) == MayCompleteStep(plan, s) /\ plan' = StepCompleted(plan, s)

SkipStep(s) == MaySkipStep(plan, s) /\ plan' = StepSkipped(plan, s)

BlockStep(s) == MayBlockStep(plan, s) /\ plan' = StepBlocked(plan, s)

FailStep(s) == MayFailStep(plan, s) /\ plan' = StepFailed(plan, s)

\* The validator does not look at the status of a step.
AddStep(s) ==
  \E D \in SUBSET StepIds, after \in StepIds \cup {NoStep} :
    /\ MayAddStep(plan, s, "pending", D, after)
    /\ \E st \in StepStatus : plan' = StepAdded(plan, s, st, D, after)

\* Any field but the id may be replaced, the status among them.
UpdateStep(s) ==
  \E D \in SUBSET StepIds :
    /\ MayUpdateStep(plan, s, "pending", D)
    /\ \E st \in StepStatus : plan' = StepUpdated(plan, s, st, D)

Complete == MayComplete(plan) /\ plan' = Completed(plan)

Cancel == plan' = Cancelled(plan)

Fail == plan' = Failed(plan)

StepCall(s) ==
  \/ StartStep(s) \/ CompleteStep(s) \/ SkipStep(s) \/ BlockStep(s)
  \/ FailStep(s)  \/ AddStep(s)      \/ UpdateStep(s)

PlanNext ==
  /\ plan.version < MaxVersion
  /\ \/ Start \/ Complete \/ Cancel \/ Fail
     \/ \E s \in StepIds : StepCall(s)

PlanSpec == PlanInit /\ [][PlanNext]_plan

----------------------------------------------------------------------------

\* The plan is well formed: types, one array entry per step, and a
\* currentStepId that is one of the steps, through every insertion.
PlanWellFormed == WellFormed(plan)

\* Whatever is added or rewritten (addStep and updateStep revalidate, lines 327
\* and 361), every step depends on other steps of the plan only, and steps that
\* depend on each other in a circle are at most ones with spaces around an id.
DependencyGraphValid ==
  /\ \A s \in Ids(plan) : plan.deps[s] \subseteq Ids(plan) \ {s}
  /\ \A circle \in (SUBSET Ids(plan)) \ {{}} :
       (\A s \in circle : plan.deps[s] \cap circle # {}) => \E s \in circle : Trim[s] # s

\* A plan whose steps are only pending, completed or skipped, and not all
\* done, has a step to execute next, however the client reached this state:
\* getNextExecutableStep can wedge on dependencies only if a pending step has
\* spaces around its id.
NeverWedged ==
  LET open == WithStatus(plan, {"pending"}) IN
    /\ plan.status \notin {"completed", "cancelled"}
    /\ open # {}
    /\ Ids(plan) = open \cup WithStatus(plan, {"completed", "skipped"})
    /\ NextExecutable(plan) = NoStep
    => \E s \in open : Trim[s] # s

----------------------------------------------------------------------------
(* What the documentation says and the code does not do *)

\* planning-system.md: the validator detects mutual and indirect cycles and
\* throws PlanDependencyError, so no plan has one.
CyclesRefused == Acyclic(Ids(plan), plan.deps)

\* planning-system.md: a plan in a terminal state is immutable.
TerminalIsImmutable == [][plan.status \notin TerminalStatus]_plan
=============================================================================
