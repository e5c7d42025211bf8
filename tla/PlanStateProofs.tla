-------------------------- MODULE PlanStateProofs --------------------------
(***************************************************************************)
(* PlanState for every set of step ids and every limit: the plan stays     *)
(* well formed, and neither a cycle nor a wedge on dependencies comes from *)
(* steps whose ids have no spaces around them.                             *)
(***************************************************************************)
EXTENDS PlanState, PlanModelProofs

LEMMA InitSound == PlanInit => Sound(plan)
<1> SUFFICES ASSUME NEW o \in Orders, NEW D \in [ToSet(o) -> SUBSET StepIds],
                    plan = NewPlan(o, D), Valid(plan)
             PROVE  Sound(plan)
  BY DEF PlanInit
<1> DEFINE E == [s \in StepIds |-> IF s \in ToSet(o) THEN D[s] ELSE {}]
<1>1. E \in [StepIds -> SUBSET StepIds]
  OBVIOUS
<1>2. NewPlan(o, D) = NewPlan(o, E)
  BY DEF NewPlan
<1> HIDE DEF E
<1> QED
  BY <1>1, <1>2, NewPlanSound

LEMMA NextSound == Sound(plan) /\ [PlanNext]_plan => Sound(plan)'
<1> SUFFICES ASSUME Sound(plan), [PlanNext]_plan PROVE Sound(plan')
  BY DEF Sound, WellFormed, DependenciesOK, Acyclic, Searched, Ids
<1>1. CASE UNCHANGED plan
  BY <1>1
<1>2. CASE Start \/ Complete \/ Cancel \/ Fail
  BY <1>2, StatusSet DEF Start, Complete, Cancel, Fail
<1>3. ASSUME NEW s \in StepIds, StepCall(s) PROVE Sound(plan')
  <2>1. plan.step[s] # "absent" => s \in Ids(plan)
    BY DEF Ids
  <2>2. CASE StartStep(s)
    BY <2>1, <2>2, StepSet DEF StartStep, MayStartStep
  <2>3. CASE CompleteStep(s)
    BY <2>1, <2>3, StepSet DEF CompleteStep, MayCompleteStep
  <2>4. CASE SkipStep(s)
    BY <2>4, StepSet DEF SkipStep, MaySkipStep
  <2>5. CASE BlockStep(s)
    BY <2>5, StepSet DEF BlockStep, MayBlockStep
  <2>6. CASE FailStep(s)
    BY <2>6, StepSet DEF FailStep, MayFailStep
  <2>7. CASE AddStep(s)
    BY <2>7, AddSound DEF AddStep
  <2>8. CASE UpdateStep(s)
    BY <2>8, UpdateSound DEF UpdateStep
  <2> QED
    BY <1>3, <2>2, <2>3, <2>4, <2>5, <2>6, <2>7, <2>8 DEF StepCall
<1> QED
  BY <1>1, <1>2, <1>3 DEF PlanNext

----------------------------------------------------------------------------
(* The theorems *)

\* Every plan the client can make is well formed: each step once in the array,
\* typed fields, and currentStepId one of the plan's own steps.
THEOREM TypeCorrect == PlanSpec => []PlanWellFormed
<1>1. Sound(plan) => PlanWellFormed
  BY DEF Sound, PlanWellFormed
<1> QED
  BY <1>1, InitSound, NextSound, PTL DEF PlanSpec

\* No sequence of addStep and updateStep makes the dependencies dangle or
\* form a cycle of trimmed ids (lines 327, 361 revalidate the candidate): a
\* circle always goes through an id with spaces around it.
THEOREM GraphStaysValid == PlanSpec => []DependencyGraphValid
<1>1. Sound(plan) => DependencyGraphValid
  <2> SUFFICES ASSUME Sound(plan), NEW circle \in SUBSET Ids(plan), circle # {},
                      \A s \in circle : plan.deps[s] \cap circle # {},
                      \A s \in circle : Trim[s] = s
               PROVE  FALSE
    <3>1. Sound(plan) => \A s \in Ids(plan) : plan.deps[s] \subseteq Ids(plan) \ {s}
      BY DEF Sound, DependenciesOK
    <3> QED
      BY <3>1 DEF DependencyGraphValid
  <2>1. circle \subseteq Searched(plan)
    BY DEF Searched
  <2> QED
    BY <2>1 DEF Sound, DependenciesOK, Acyclic
<1> QED
  BY <1>1, InitSound, NextSound, PTL DEF PlanSpec

\* getNextExecutableStep wedges on no plan whose pending steps have trimmed
\* ids: these contain one that depends on no pending step, and the rest of the
\* plan is done.
THEOREM NeverWedges == PlanSpec => []NeverWedged
<1>1. Sound(plan) => NeverWedged
  <2> DEFINE open == WithStatus(plan, {"pending"})
  <2> SUFFICES ASSUME Sound(plan), plan.status \notin {"completed", "cancelled"},
                      open # {}, \A s \in open : Trim[s] = s,
                      Ids(plan) = open \cup WithStatus(plan, {"completed", "skipped"})
               PROVE  NextExecutable(plan) # NoStep
    BY DEF NeverWedged
  <2>1. open \subseteq Ids(plan) /\ open \subseteq Searched(plan)
    BY DEF WithStatus, Ids, Searched
  <2>2. PICK s \in open : plan.deps[s] \cap open = {}
    BY <2>1 DEF Sound, DependenciesOK, Acyclic
  <2>3. plan.deps[s] \subseteq Ids(plan)
    BY <2>1, <2>2 DEF Sound, DependenciesOK
  <2>4. s \in Executable(plan)
    BY <2>2, <2>3 DEF Executable, DepsSatisfied, WithStatus
  <2>5. plan.order \in Seq(StepIds) /\ ToSet(plan.order) = Ids(plan) /\ Ids(plan) \subseteq StepIds
    BY DEF Sound, WellFormed, Plan, Ids
  <2>6. ToSet(plan.order) \cap Executable(plan) # {}
    BY <2>1, <2>2, <2>4, <2>5
  <2>7. FirstOf(plan, Executable(plan)) \in StepIds
    BY <2>5, <2>6, FirstOfCorrect
  <2> QED
    BY <2>7, PlanAssumption DEF NextExecutable
<1> QED
  BY <1>1, InitSound, NextSound, PTL DEF PlanSpec
=============================================================================
