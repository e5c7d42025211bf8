------------------------- MODULE AgentRuntimeProofs -------------------------
(***************************************************************************)
(* AgentRuntime for every number of runs and steps and for all limits.     *)
(*                                                                         *)
(* The safety properties of a run follow from one inductive invariant of   *)
(* its local state, RunInv, whichever way the runs interleave: no action   *)
(* of one run changes the locals of another but Cancel, which changes a    *)
(* plan's status and a signal.                                             *)
(***************************************************************************)
EXTENDS AgentRuntime, PlanModelProofs

----------------------------------------------------------------------------
(* The invariant of a plan and of the evidence for its steps *)

Trouble(p) == WithStatus(p, {"in_progress", "blocked", "failed"})

\* No step is skipped, and one that was ever started has its dependencies done.
InOrder(p) ==
  /\ WithStatus(p, {"skipped"}) = {}
  /\ \A s \in Trouble(p) \cup WithStatus(p, {"completed"}) :
       \A d \in p.deps[s] : p.step[d] = "completed"

OneTrouble(p) == \A s, t \in Trouble(p) : s = t

Good == {"passed", "unchecked"}

Evident(p, e) ==
  /\ \A s \in WithStatus(p, {"completed"}) : e[s] \in Good
  /\ p.status = "completed" => AllDone(p) /\ e[NoStep] \in Good

PlanInv(p, e) ==
  Sound(p) /\ InOrder(p) /\ OneTrouble(p) /\ Evident(p, e) /\ e \in [Subjects -> Evidence]

\* start, cancel and fail touch no step.
LEMMA StatusOps ==
  ASSUME NEW p, NEW e, PlanInv(p, e), NEW q \in {Started(p), Cancelled(p), Failed(p)}
  PROVE  PlanInv(q, e) /\ q.step = p.step /\ q.status # "completed"
<1>1. p \in Plan /\ Sound(q)
  BY StatusSet DEF PlanInv, Sound, WellFormed
<1>2. q.step = p.step /\ q.deps = p.deps /\ q.status # "completed"
  BY <1>1 DEF Started, Cancelled, Failed, Plan
<1> QED
  BY <1>1, <1>2 DEF PlanInv, InOrder, OneTrouble, Evident, Trouble, WithStatus

\* complete is called when every step is done, on evidence for the whole plan.
LEMMA CompleteOp ==
  ASSUME NEW p, NEW e, PlanInv(p, e), AllDone(p), e[NoStep] \in Good
  PROVE  PlanInv(Completed(p), e) /\ Completed(p).step = p.step
<1>1. p \in Plan /\ Sound(Completed(p))
  BY StatusSet DEF PlanInv, Sound, WellFormed
<1>2. Completed(p).step = p.step /\ Completed(p).deps = p.deps
  BY <1>1 DEF Completed, Plan
<1> QED
  BY <1>1, <1>2 DEF PlanInv, InOrder, OneTrouble, Evident, Trouble, WithStatus, AllDone, Ids

\* startStep of the step getNextExecutableStep answered, on a plan without
\* trouble.
LEMMA StartOp ==
  ASSUME NEW p, NEW e, PlanInv(p, e), Trouble(p) = {},
         NEW s, s = NextExecutable(p), s # NoStep
  PROVE  /\ PlanInv(StepStarted(p, s), e)
         /\ s \in StepIds /\ StepStarted(p, s).step[s] = "in_progress"
         /\ StepStarted(p, s).status # "completed"
<1> DEFINE q == StepStarted(p, s)
<1>1. p \in Plan /\ p.order \in Seq(StepIds)
  BY DEF PlanInv, Sound, WellFormed, Plan
<1>2. s \in Executable(p)
  BY <1>1, FirstOfCorrect DEF NextExecutable
<1>3. s \in StepIds /\ s \in Ids(p) /\ p.step[s] = "pending"
  BY <1>2 DEF Executable, WithStatus, Ids
<1>4. \A d \in p.deps[s] : d \in StepIds /\ p.step[d] = "completed"
  <2>1. p.deps[s] \subseteq StepIds
    BY <1>1, <1>3 DEF Plan
  <2> QED
    BY <1>2, <2>1 DEF Executable, DepsSatisfied, PlanInv, InOrder, WithStatus
<1>5. Sound(q)
  BY <1>3, StepSet DEF PlanInv
<1>6. /\ q.step = [p.step EXCEPT ![s] = "in_progress"] /\ q.deps = p.deps
      /\ q.status = "in_progress" /\ p.step \in [StepIds -> StepStatus \cup {"absent"}]
      /\ p.deps \in [StepIds -> SUBSET StepIds]
  BY <1>1 DEF StepStarted, Plan
<1> HIDE DEF q
<1>7. /\ Trouble(q) = {s} /\ WithStatus(q, {"completed"}) = WithStatus(p, {"completed"})
      /\ WithStatus(q, {"skipped"}) = WithStatus(p, {"skipped"})
      /\ q.step[s] = "in_progress"
      /\ \A t \in StepIds : t # s => q.step[t] = p.step[t]
  BY <1>3, <1>6 DEF Trouble, WithStatus
<1>8. InOrder(q)
  <2> SUFFICES ASSUME NEW t \in {s} \cup WithStatus(p, {"completed"}), NEW d \in q.deps[t]
               PROVE  q.step[d] = "completed"
    BY <1>7 DEF InOrder, PlanInv
  <2>1. t \in StepIds /\ d \in p.deps[t] /\ d \in StepIds
    BY <1>3, <1>6 DEF WithStatus
  <2>2. p.step[d] = "completed"
    BY <1>4, <2>1 DEF PlanInv, InOrder
  <2> QED
    BY <1>3, <1>7, <2>1, <2>2
<1> QED
  BY <1>3, <1>5, <1>6, <1>7, <1>8 DEF PlanInv, OneTrouble, Evident, q

\* completeStep, blockStep and failStep of the step in progress.
LEMMA EndOps ==
  ASSUME NEW p, NEW e, PlanInv(p, e), NEW s \in StepIds, p.step[s] = "in_progress"
  PROVE  /\ p.status # "completed" /\ e[s] \in Good =>
              PlanInv(StepCompleted(p, s), e) /\ Trouble(StepCompleted(p, s)) = {}
         /\ StepCompleted(p, s).status = p.status
         /\ \A q \in {StepBlocked(p, s), StepFailed(p, s)} :
              PlanInv(q, e) /\ q.status # "completed"
         /\ \A q \in {StepCompleted(p, s), StepBlocked(p, s), StepFailed(p, s)} :
              WithStatus(q, {"in_progress"}) = {}
<1>1. p \in Plan /\ s \in Ids(p) /\ Trouble(p) = {s}
  BY DEF PlanInv, Sound, WellFormed, Ids, OneTrouble, Trouble, WithStatus
<1>2. p.step \in [StepIds -> StepStatus \cup {"absent"}] /\ p.deps \in [StepIds -> SUBSET StepIds]
  BY <1>1 DEF Plan
<1>3. ASSUME NEW q, NEW st \in {"completed", "blocked", "failed"},
             q.step = [p.step EXCEPT ![s] = st], q.deps = p.deps
      PROVE  /\ InOrder(q) /\ OneTrouble(q) /\ WithStatus(q, {"in_progress"}) = {}
             /\ Trouble(q) = IF st = "completed" THEN {} ELSE {s}
             /\ WithStatus(q, {"completed"}) \subseteq
                  WithStatus(p, {"completed"}) \cup IF st = "completed" THEN {s} ELSE {}
  <2>1. /\ q.step[s] = st
        /\ \A t \in StepIds : t # s => q.step[t] = p.step[t] /\ t \notin Trouble(p)
    BY <1>1, <1>2, <1>3
  <2>2. /\ WithStatus(q, {"in_progress"}) = {}
        /\ Trouble(q) = IF st = "completed" THEN {} ELSE {s}
        /\ WithStatus(q, {"completed"}) \subseteq
                  WithStatus(p, {"completed"}) \cup IF st = "completed" THEN {s} ELSE {}
        /\ WithStatus(q, {"skipped"}) = {}
    BY <2>1 DEF Trouble, WithStatus, PlanInv, InOrder
  <2>3. ASSUME NEW t \in Trouble(q) \cup WithStatus(q, {"completed"}), NEW d \in q.deps[t]
        PROVE  q.step[d] = "completed"
    <3>1. t \in Trouble(p) \cup WithStatus(p, {"completed"}) /\ t \in StepIds
      BY <1>1, <2>2, <2>3 DEF WithStatus, Trouble
    <3>2. d \in StepIds /\ p.step[d] = "completed"
      BY <1>2, <1>3, <3>1 DEF PlanInv, InOrder
    <3> QED
      BY <2>1, <3>2
  <2> QED
    BY <2>2, <2>3 DEF InOrder, OneTrouble
<1>4. /\ StepCompleted(p, s).step = [p.step EXCEPT ![s] = "completed"]
      /\ StepCompleted(p, s).deps = p.deps /\ StepCompleted(p, s).status = p.status
  BY <1>1 DEF StepCompleted, Plan
<1>5. /\ StepBlocked(p, s).step = [p.step EXCEPT ![s] = "blocked"]
      /\ StepBlocked(p, s).deps = p.deps /\ StepBlocked(p, s).status = "blocked"
  BY <1>1 DEF StepBlocked, Plan
<1>6. /\ StepFailed(p, s).step = [p.step EXCEPT ![s] = "failed"]
      /\ StepFailed(p, s).deps = p.deps /\ StepFailed(p, s).status = "failed"
  BY <1>1 DEF StepFailed, Plan
<1>7. /\ Sound(StepCompleted(p, s)) /\ Sound(StepBlocked(p, s)) /\ Sound(StepFailed(p, s))
  BY <1>1, StepSet DEF PlanInv
<1>8. ASSUME p.status # "completed", e[s] \in Good
      PROVE  PlanInv(StepCompleted(p, s), e) /\ Trouble(StepCompleted(p, s)) = {}
  BY <1>3, <1>4, <1>7, <1>8 DEF PlanInv, Evident
<1>9. PlanInv(StepBlocked(p, s), e) /\ StepBlocked(p, s).status # "completed"
  BY <1>3, <1>5, <1>7 DEF PlanInv, Evident
<1>10. PlanInv(StepFailed(p, s), e) /\ StepFailed(p, s).status # "completed"
  BY <1>3, <1>6, <1>7 DEF PlanInv, Evident
<1>11. \A q \in {StepCompleted(p, s), StepBlocked(p, s), StepFailed(p, s)} :
         WithStatus(q, {"in_progress"}) = {}
  BY <1>3, <1>4, <1>5, <1>6
<1> QED
  BY <1>4, <1>8, <1>9, <1>10, <1>11

\* A new plan has nothing started, done or in trouble.
LEMMA NewPlanInv ==
  ASSUME NEW o \in Orders, NEW D \in [StepIds -> SUBSET StepIds],
         Valid(NewPlan(o, D)), NEW e \in [Subjects -> Evidence]
  PROVE  /\ PlanInv(NewPlan(o, D), e) /\ NewPlan(o, D).status # "completed"
         /\ Trouble(NewPlan(o, D)) = {}
<1> DEFINE p == NewPlan(o, D)
<1>1. Sound(p)
  BY NewPlanSound
<1>2. p.status = "ready" /\ \A s \in StepIds : p.step[s] \in {"pending", "absent"}
  BY DEF NewPlan
<1> HIDE DEF p
<1>3. \A set : "pending" \notin set /\ "absent" \notin set => WithStatus(p, set) = {}
  BY <1>2 DEF WithStatus
<1>4. PlanInv(p, e) /\ p.status # "completed" /\ Trouble(p) = {}
  BY <1>1, <1>2, <1>3 DEF PlanInv, InOrder, OneTrouble, Evident, Trouble
<1> QED
  BY <1>4 DEF p

\* Evidence about a step in progress, or about a plan not completed, may
\* change freely.
LEMMA NewEvidence ==
  ASSUME NEW p, NEW e, PlanInv(p, e), NEW s \in Subjects, NEW ev \in Evidence,
         s \in StepIds => p.step[s] # "completed",
         s = NoStep => p.status # "completed"
  PROVE  PlanInv(p, [e EXCEPT ![s] = ev])
BY PlanAssumption DEF PlanInv, Evident, Subjects, WithStatus

----------------------------------------------------------------------------
(* The invariant of a run *)

\* The run is busy with one step of its plan.
AtStep(x) ==
  \/ x.pc \in {"turnOver", "turnFailed", "recover", "correct", "exhausted"}
  \/ /\ x.pc \in {"loop", "tool", "checks", "check", "verdict"}
     /\ x.phase \in {"step", "correction"}

\* The run verifies the whole plan.
AtFinal(x) ==
  x.pc = "final" \/ (x.pc \in {"checks", "check", "verdict"} /\ x.phase = "final")

Planned(x) ==
  AtStep(x) \/ AtFinal(x) \/ x.pc \in {"planOnly", "select", "halted"} \/ x.plan # NoPlan

\* Which point of the run goes with which phase, step and plan.
Placed(x) ==
  /\ x.pc \in {"loop", "tool"} => x.phase # "final"
  /\ x.pc \in {"checks", "check", "verdict"} => x.phase # "plain"
  /\ x.pc = "turnOver" => x.phase = "step"
  /\ x.pc = "final" => x.phase = "final"
  /\ AtStep(x) => x.step \in StepIds /\ x.plan.step[x.step] = "in_progress"
  /\ AtFinal(x) => x.step = NoStep /\ AllDone(x.plan)
  /\ x.pc \in {"planOnly", "select"} => Trouble(x.plan) = {}
  /\ Planned(x) /\ x.plan.status = "completed" => x.pc \in {"closing", "done"}

\* What a verification has shown so far.
Verified(x) ==
  /\ x.phase = "correction" \/ x.pc \in {"checks", "check", "verdict", "recover", "correct"}
       => x.checks > 0
  /\ x.pc = "check" => x.left > 0
  /\ x.pc \in {"checks", "check"} /\ x.fails = "none"
       => x.evidence[x.step] = IF x.left = 0 THEN "passed" ELSE "none"
  /\ x.pc = "verdict" /\ x.verdict = "passed" => x.evidence[x.step] = "passed"

RunInv(x) ==
  /\ x \in Local
  /\ Placed(x)
  /\ Verified(x)
  /\ Planned(x) => PlanInv(x.plan, x.evidence)

\* What an aborted run does no more.
Quiet(me, x) ==
  me.aborted =>
    /\ x.calls <= me.calls
    /\ x.attempt <= me.attempt
    /\ x.pc = "check" => me.pc = "check"
    /\ me.plan # NoPlan => WithStatus(x.plan, {"in_progress"})
                              \subseteq WithStatus(me.plan, {"in_progress"})

\* A move of a run from me to x.
Legal(me, x) ==
  RunInv(x) /\ Quiet(me, x) /\ (me.plan # NoPlan => x.plan # NoPlan)

Shared ==
  /\ state \in AgentState
  /\ active \in Runs \cup {NoRun}
  /\ activePlan \in Runs \cup {NoRun}
  /\ activePlan \in Runs => HasPlan(activePlan)

IInv ==
  /\ run \in [Runs -> Local]
  /\ \A r \in Runs : RunInv(run[r])
  /\ Shared

LEMMA InitInv == Init => IInv
<1>1. Fresh \in Local
  BY RuntimeAssumption DEF Fresh, Local, PCs, Evidence
<1>2. /\ Fresh.pc = "new" /\ Fresh.phase = "plain" /\ Fresh.plan = NoPlan
  BY DEF Fresh
<1>3. RunInv(Fresh)
  BY <1>1, <1>2 DEF RunInv, Placed, Verified, Planned, AtStep, AtFinal
<1> QED
  BY <1>1, <1>3, RuntimeAssumption DEF Init, IInv, Shared, AgentState

\* Assigning a field a value of its type; the provers take the fields of an
\* EXCEPT one by one.
LEMMA SetField ==
  ASSUME NEW x \in Local
  PROVE  /\ \A v \in PCs : [x EXCEPT !.pc = v] \in Local
         /\ \A v \in {"plain", "step", "correction", "final"} : [x EXCEPT !.phase = v] \in Local
         /\ \A v \in BOOLEAN : [x EXCEPT !.aborted = v] \in Local
         /\ \A v \in BOOLEAN : [x EXCEPT !.verify = v] \in Local
         /\ \A v \in Plan : [x EXCEPT !.plan = v] \in Local
         /\ \A v \in StepIds \cup {NoStep} : [x EXCEPT !.step = v] \in Local
         /\ \A v \in 0 .. MaxToolCalls : [x EXCEPT !.calls = v] \in Local
         /\ \A v \in 0 .. MaxAttempts : [x EXCEPT !.attempt = v] \in Local
         /\ \A v \in 0 .. MaxChecks : [x EXCEPT !.checks = v] \in Local
         /\ \A v \in 0 .. MaxChecks : [x EXCEPT !.left = v] \in Local
         /\ \A v \in {"none", "failed", "blocked"} : [x EXCEPT !.fails = v] \in Local
         /\ \A v \in {"none", "passed", "failed", "blocked"} : [x EXCEPT !.verdict = v] \in Local
         /\ \A v \in [Subjects -> Evidence] : [x EXCEPT !.evidence = v] \in Local
         /\ \A v \in {"none", "plan_completed", "plan_cancelled", "plan_failed",
                      "agent_completed", "agent_cancelled", "agent_error",
                      "threw", "abandoned"} : [x EXCEPT !.told = v] \in Local
         /\ \A v \in {"none", "success", "failure", "cancelled"} : [x EXCEPT !.report = v] \in Local
<1>1. \A v \in PCs : [x EXCEPT !.pc = v] \in Local
  BY DEF Local
<1>2. \A v \in {"plain", "step", "correction", "final"} : [x EXCEPT !.phase = v] \in Local
  BY DEF Local
<1>3. \A v \in BOOLEAN : [x EXCEPT !.aborted = v] \in Local
  BY DEF Local
<1>4. \A v \in BOOLEAN : [x EXCEPT !.verify = v] \in Local
  BY DEF Local
<1>5. \A v \in Plan : [x EXCEPT !.plan = v] \in Local
  BY DEF Local
<1>6. \A v \in StepIds \cup {NoStep} : [x EXCEPT !.step = v] \in Local
  BY DEF Local
<1>7. \A v \in 0 .. MaxToolCalls : [x EXCEPT !.calls = v] \in Local
  BY DEF Local
<1>8. \A v \in 0 .. MaxAttempts : [x EXCEPT !.attempt = v] \in Local
  BY DEF Local
<1>9. \A v \in 0 .. MaxChecks : [x EXCEPT !.checks = v] \in Local
  BY DEF Local
<1>10. \A v \in 0 .. MaxChecks : [x EXCEPT !.left = v] \in Local
  BY DEF Local
<1>11. \A v \in {"none", "failed", "blocked"} : [x EXCEPT !.fails = v] \in Local
  BY DEF Local
<1>12. \A v \in {"none", "passed", "failed", "blocked"} : [x EXCEPT !.verdict = v] \in Local
  BY DEF Local
<1>13. \A v \in [Subjects -> Evidence] : [x EXCEPT !.evidence = v] \in Local
  BY DEF Local
<1>14. \A v \in {"none", "plan_completed", "plan_cancelled", "plan_failed",
                      "agent_completed", "agent_cancelled", "agent_error",
                      "threw", "abandoned"} : [x EXCEPT !.told = v] \in Local
  BY DEF Local
<1>15. \A v \in {"none", "success", "failure", "cancelled"} : [x EXCEPT !.report = v] \in Local
  BY DEF Local
<1> QED
  BY <1>1, <1>2, <1>3, <1>4, <1>5, <1>6, <1>7, <1>8, <1>9, <1>10, <1>11, <1>12, <1>13, <1>14, <1>15

\* A run whose plan is Sound has one.
LEMMA PlanThere == ASSUME NEW p, NEW e, PlanInv(p, e) PROVE p # NoPlan /\ p \in Plan
BY RuntimeAssumption DEF PlanInv, Sound, WellFormed

\* A move that keeps the plan and the evidence.
LEMMA SamePlan ==
  ASSUME NEW me, RunInv(me), NEW x \in Local,
         x.plan = me.plan, x.evidence = me.evidence,
         Placed(x), Verified(x), Planned(x) => Planned(me),
         me.aborted => /\ x.calls <= me.calls /\ x.attempt <= me.attempt
                       /\ x.pc = "check" => me.pc = "check"
  PROVE  Legal(me, x)
BY DEF Legal, RunInv, Quiet

\* The end of a run: finally.
LEMMA DoneLegal ==
  ASSUME NEW me, RunInv(me), NEW x \in Local,
         x.plan = me.plan, x.evidence = me.evidence, x.pc = "done",
         x.phase = me.phase, x.checks = me.checks,
         x.calls = me.calls, x.attempt = me.attempt
  PROVE  Legal(me, x)
<1>1. me \in Local /\ me.calls <= me.calls /\ me.attempt <= me.attempt
  BY RuntimeAssumption DEF RunInv, Local
<1>2. Placed(x) /\ Verified(x)
  BY <1>1 DEF RunInv, Placed, Verified, AtStep, AtFinal
<1>3. Planned(x) => Planned(me)
  BY DEF Planned, AtStep, AtFinal
<1> QED
  BY <1>1, <1>2, <1>3, SamePlan

LEMMA FinallyLegal ==
  ASSUME IInv, NEW r \in Runs, NEW y,
         y \in {run[r]} \cup {[run[r] EXCEPT !.told = t] : t \in {"threw", "abandoned"}},
         Finally(r, y)
  PROVE  /\ run' = [run EXCEPT ![r] = [y EXCEPT !.pc = "done"]]
         /\ Legal(run[r], [y EXCEPT !.pc = "done"])
<1> DEFINE me == run[r]
           x == [y EXCEPT !.pc = "done"]
<1>1. RunInv(me) /\ me \in Local
  BY DEF IInv
<1> HIDE DEF me
<1>2. y \in Local /\ /\ y.plan = me.plan /\ y.evidence = me.evidence
         /\ y.phase = me.phase /\ y.checks = me.checks
         /\ y.calls = me.calls /\ y.attempt = me.attempt
  BY <1>1 DEF Local, me
<1>3. /\ x \in Local /\ x.plan = me.plan /\ x.evidence = me.evidence /\ x.pc = "done"
      /\ x.phase = me.phase /\ x.checks = me.checks
      /\ x.calls = me.calls /\ x.attempt = me.attempt
  BY <1>2 DEF Local, PCs
<1> HIDE DEF x
<1>4. Legal(me, x)
  BY <1>1, <1>3, DoneLegal
<1> QED
  BY <1>4 DEF me, x, Finally, Become

----------------------------------------------------------------------------
(* Every action is a legal move of its run *)

Moves(r) == \E x : run' = [run EXCEPT ![r] = x] /\ Legal(run[r], x)

\* The facts about a run that every case below starts from.
LEMMA RunFacts ==
  ASSUME IInv, NEW r \in Runs
  PROVE  /\ RunInv(run[r]) /\ run[r] \in Local /\ Placed(run[r]) /\ Verified(run[r])
         /\ Planned(run[r]) => PlanInv(run[r].plan, run[r].evidence)
         /\ run[r].evidence \in [Subjects -> Evidence]
         /\ run[r].calls \in 0 .. MaxToolCalls /\ run[r].attempt \in 0 .. MaxAttempts
         /\ run[r].checks \in 0 .. MaxChecks /\ run[r].left \in 0 .. MaxChecks
         /\ 0 \in 0 .. MaxToolCalls /\ 0 \in 0 .. MaxAttempts /\ 0 \in 0 .. MaxChecks
         /\ run[r].calls <= run[r].calls /\ run[r].attempt <= run[r].attempt
         /\ 0 <= run[r].calls /\ 0 <= run[r].attempt
<1>1. RunInv(run[r])
  BY DEF IInv
<1>2. run[r] \in Local
  BY <1>1 DEF RunInv
<1>3. /\ run[r].calls \in 0 .. MaxToolCalls /\ run[r].attempt \in 0 .. MaxAttempts
      /\ run[r].checks \in 0 .. MaxChecks /\ run[r].left \in 0 .. MaxChecks
      /\ run[r].evidence \in [Subjects -> Evidence]
  BY <1>2 DEF Local
<1> QED
  BY <1>1, <1>2, <1>3, RuntimeAssumption DEF RunInv

LEMMA FinallyMoves ==
  ASSUME IInv, NEW r \in Runs, NEW y,
         y \in {run[r]} \cup {[run[r] EXCEPT !.told = t] : t \in {"threw", "abandoned"}},
         Finally(r, y)
  PROVE  Moves(r)
BY FinallyLegal DEF Moves

LEMMA CallerMoves ==
  ASSUME IInv, NEW r \in Runs, CallerStep(r)
  PROVE  Moves(r)
<1> DEFINE me == run[r]
<1>0. /\ RunInv(me) /\ me \in Local /\ Placed(me) /\ Verified(me)
      /\ me.calls <= me.calls /\ me.attempt <= me.attempt
  BY RunFacts
<1>1. CASE RunStream(r)
  <2>1. PICK v \in BOOLEAN, a \in BOOLEAN :
          Become(r, [run[r] EXCEPT !.pc = "begin", !.verify = v, !.aborted = a])
    BY <1>1 DEF RunStream
  <2> DEFINE x == [me EXCEPT !.pc = "begin", !.verify = v, !.aborted = a]
  <2>2. me.pc = "new"
    BY <1>1 DEF RunStream
  <2> HIDE DEF me
  <2>3t. x \in Local
    BY <1>0, SetField DEF PCs
  <2>3. /\ x \in Local /\ x.pc = "begin"
        /\ x.plan = me.plan /\ x.evidence = me.evidence
        /\ x.calls = me.calls /\ x.attempt = me.attempt
        /\ x.phase = me.phase /\ x.checks = me.checks
    BY <1>0, <2>3t DEF Local
  <2> HIDE DEF x
  <2>4. Placed(x) /\ Verified(x) /\ (Planned(x) => Planned(me))
    BY <1>0, <2>2, <2>3 DEF Placed, Verified, Planned, AtStep, AtFinal
  <2>5. Legal(me, x)
    BY <1>0, <2>2, <2>3, <2>4, SamePlan
  <2> QED
    BY <2>1, <2>5 DEF Moves, Become, me, x
<1>2. CASE ExternalAbort(r)
  <2> DEFINE x == [me EXCEPT !.aborted = TRUE]
  <2> HIDE DEF me
  <2>3t. x \in Local
    BY <1>0, SetField DEF PCs
  <2>3. /\ x \in Local /\ x.pc = me.pc
        /\ x.plan = me.plan /\ x.evidence = me.evidence
        /\ x.calls = me.calls /\ x.attempt = me.attempt
        /\ x.phase = me.phase /\ x.checks = me.checks
        /\ x.step = me.step /\ x.left = me.left /\ x.fails = me.fails
        /\ x.verdict = me.verdict
    BY <1>0, <2>3t DEF Local
  <2> HIDE DEF x
  <2>4. Placed(x) /\ Verified(x) /\ (Planned(x) => Planned(me))
    BY <1>0, <2>3 DEF Placed, Verified, Planned, AtStep, AtFinal
  <2>5. Legal(me, x)
    BY <1>0, <2>3, <2>4, SamePlan
  <2> QED
    BY <1>2, <2>5 DEF Moves, Become, Goto, ExternalAbort, me, x
<1>3. CASE Abandon(r)
  BY <1>3, FinallyMoves DEF Abandon
<1> QED
  BY <1>1, <1>2, <1>3 DEF CallerStep

\* Planning: the run has no plan, adopts one, or goes on without.
LEMMA PlanningMoves ==
  ASSUME IInv, NEW r \in Runs,
         SkipPlanning(r) \/ FailPlanning(r) \/ GeneratePlan(r) \/ AdoptPlan(r)
           \/ ClosePlanOnly(r)
  PROVE  Moves(r)
<1> DEFINE me == run[r]
<1>0. /\ RunInv(me) /\ me \in Local /\ Placed(me) /\ Verified(me)
      /\ me.calls <= me.calls /\ me.attempt <= me.attempt
      /\ me.evidence \in [Subjects -> Evidence]
  BY RunFacts
<1>1. ASSUME NEW x \in Local, me.pc = "begin", x.pc \in {"loop", "planned"},
             x.pc = "loop" => x.phase = "plain", x.pc = "planned" => x.phase = me.phase,
             x.plan = me.plan, x.evidence = me.evidence,
             x.calls = me.calls, x.attempt = me.attempt, x.checks = me.checks
      PROVE  Legal(me, x)
  <2>1. Placed(x) /\ Verified(x) /\ (Planned(x) => Planned(me))
    BY <1>0, <1>1 DEF Placed, Verified, Planned, AtStep, AtFinal
  <2> QED
    BY <1>0, <1>1, <2>1, SamePlan
<1>2. CASE SkipPlanning(r) \/ FailPlanning(r)
  <2>1. PICK rep \in {me.report, "failure"} :
          Become(r, [me EXCEPT !.pc = "loop", !.phase = "plain", !.report = rep])
    <3>1. CASE FailPlanning(r)
      BY <3>1 DEF FailPlanning, Goto
    <3>2. CASE SkipPlanning(r)
      <4>1. [me EXCEPT !.pc = "loop", !.phase = "plain", !.report = me.report]
              = [me EXCEPT !.pc = "loop", !.phase = "plain"]
        BY <1>0 DEF Local
      <4> QED
        BY <3>2, <4>1 DEF SkipPlanning, Goto
    <3> QED
      BY <1>2, <3>1, <3>2
  <2>r. rep \in {"none", "success", "failure", "cancelled"}
    BY <1>0 DEF Local
  <2> DEFINE x == [me EXCEPT !.pc = "loop", !.phase = "plain", !.report = rep]
  <2>2. me.pc = "begin"
    BY <1>2 DEF SkipPlanning, FailPlanning
  <2> HIDE DEF me
  <2>3t. x \in Local
    BY <1>0, <2>r, SetField DEF PCs
  <2>3. /\ x \in Local /\ x.pc = "loop" /\ x.phase = "plain"
        /\ x.plan = me.plan /\ x.evidence = me.evidence
        /\ x.calls = me.calls /\ x.attempt = me.attempt /\ x.checks = me.checks
    BY <1>0, <2>3t DEF Local
  <2> HIDE DEF x
  <2>4. Legal(me, x)
    BY <1>1, <2>2, <2>3
  <2> QED
    BY <2>1, <2>4 DEF Moves, Become, me, x
<1>3. CASE GeneratePlan(r)
  <2> DEFINE x == [me EXCEPT !.pc = "planned"]
  <2>2. me.pc = "begin"
    BY <1>3 DEF GeneratePlan
  <2> HIDE DEF me
  <2>3t. x \in Local
    BY <1>0, SetField DEF PCs
  <2>3. /\ x \in Local /\ x.pc = "planned" /\ x.phase = me.phase
        /\ x.plan = me.plan /\ x.evidence = me.evidence
        /\ x.calls = me.calls /\ x.attempt = me.attempt /\ x.checks = me.checks
    BY <1>0, <2>3t DEF Local
  <2> HIDE DEF x
  <2>4. Legal(me, x)
    BY <1>1, <2>2, <2>3
  <2> QED
    BY <1>3, <2>4 DEF Moves, GeneratePlan, Goto, Become, me, x
<1>4. CASE AdoptPlan(r)
  <2>1. PICK o \in Orders, D \in [StepIds -> SUBSET StepIds] :
          /\ Valid(NewPlan(o, D))
          /\ \/ Become(r, [me EXCEPT !.plan = NewPlan(o, D), !.told = "agent_completed",
                                     !.report = "success", !.pc = "planOnly"])
             \/ Become(r, [me EXCEPT !.plan = Started(NewPlan(o, D)), !.pc = "select"])
    BY <1>4 DEF AdoptPlan
  <2>2. me.pc = "planned"
    BY <1>4 DEF AdoptPlan
  <2> DEFINE p == NewPlan(o, D)
             q == Started(p)
             x == [me EXCEPT !.plan = p, !.told = "agent_completed",
                             !.report = "success", !.pc = "planOnly"]
             y == [me EXCEPT !.plan = q, !.pc = "select"]
  <2> HIDE DEF me
  <2>3. PlanInv(p, me.evidence) /\ p.status # "completed" /\ Trouble(p) = {}
    BY <1>0, <2>1, NewPlanInv
  <2> HIDE DEF p
  <2>4. PlanInv(q, me.evidence) /\ q.status # "completed" /\ Trouble(q) = {}
    BY <2>3, StatusOps DEF Trouble, WithStatus
  <2> HIDE DEF q
  <2>5. p \in Plan /\ q \in Plan /\ p # NoPlan /\ q # NoPlan
    BY <2>3, <2>4, PlanThere
  <2>6t. x \in Local
    BY <1>0, <2>5, SetField DEF PCs
  <2>6. /\ x \in Local /\ x.pc = "planOnly" /\ x.plan = p
        /\ x.evidence = me.evidence /\ x.phase = me.phase /\ x.checks = me.checks
        /\ x.calls = me.calls /\ x.attempt = me.attempt
    BY <1>0, <2>5, <2>6t DEF Local
  <2>7t. y \in Local
    BY <1>0, <2>5, SetField DEF PCs
  <2>7. /\ y \in Local /\ y.pc = "select" /\ y.plan = q
        /\ y.evidence = me.evidence /\ y.phase = me.phase /\ y.checks = me.checks
        /\ y.calls = me.calls /\ y.attempt = me.attempt
    BY <1>0, <2>5, <2>7t DEF Local
  <2> HIDE DEF x, y
  <2>8. ASSUME NEW z \in {x, y} PROVE Legal(me, z)
    <3>1. Placed(z)
      BY <2>3, <2>4, <2>6, <2>7 DEF Placed, AtStep, AtFinal
    <3>2. Verified(z)
      BY <1>0, <2>2, <2>6, <2>7 DEF Verified
    <3>3. z \in Local /\ PlanInv(z.plan, z.evidence) /\ z.plan # NoPlan
      BY <2>3, <2>4, <2>5, <2>6, <2>7
    <3>4. WithStatus(z.plan, {"in_progress"}) = {}
      BY <2>3, <2>4, <2>6, <2>7 DEF Trouble, WithStatus
    <3>5. z.calls <= me.calls /\ z.attempt <= me.attempt /\ z.pc # "check"
      BY <1>0, <2>6, <2>7
    <3> QED
      BY <3>1, <3>2, <3>3, <3>4, <3>5 DEF Legal, RunInv, Quiet
  <2> QED
    BY <2>1, <2>8 DEF Moves, Become, me, x, y, p, q
<1>5. CASE ClosePlanOnly(r)
  <2> DEFINE x == [me EXCEPT !.pc = "done"]
  <2> HIDE DEF me
  <2>1t. x \in Local
    BY <1>0, SetField DEF PCs
  <2>1. /\ x \in Local /\ x.pc = "done" /\ x.phase = me.phase
        /\ x.plan = me.plan /\ x.evidence = me.evidence
        /\ x.calls = me.calls /\ x.attempt = me.attempt /\ x.checks = me.checks
    BY <1>0, <2>1t DEF Local
  <2> HIDE DEF x
  <2>2. Legal(me, x)
    BY <1>0, <2>1, DoneLegal
  <2> QED
    BY <1>5, <2>2 DEF Moves, ClosePlanOnly, Become, me, x
<1> QED
  BY <1>1, <1>2, <1>3, <1>4, <1>5

----------------------------------------------------------------------------
(* Moves that change the plan *)

LEMMA OtherPlan ==
  ASSUME NEW me, RunInv(me), NEW x \in Local, Placed(x), Verified(x),
         PlanInv(x.plan, x.evidence), Quiet(me, x)
  PROVE  Legal(me, x)
BY PlanThere DEF Legal, RunInv

\* To the last event, or to the end of the step loop.
LEMMA CloseLegal ==
  ASSUME NEW me, RunInv(me), NEW x \in Local,
         x.pc \in {"closing", "halted"},
         x.pc = "halted" => x.plan.status # "completed",
         x.phase = "correction" => me.phase = "correction",
         x.checks = me.checks, x.calls = me.calls, x.attempt = me.attempt,
         PlanInv(x.plan, x.evidence),
         WithStatus(x.plan, {"in_progress"}) \subseteq WithStatus(me.plan, {"in_progress"})
  PROVE  Legal(me, x)
<1>1. me \in Local /\ me.calls <= me.calls /\ me.attempt <= me.attempt
  BY RuntimeAssumption DEF RunInv, Local
<1>2. Placed(x) /\ Verified(x)
  BY DEF RunInv, Placed, Verified, AtStep, AtFinal
<1>3. Quiet(me, x)
  BY <1>1 DEF Quiet
<1> QED
  BY <1>2, <1>3, OtherPlan

LEMMA CompletePlanMoves ==
  ASSUME IInv, NEW r \in Runs, NEW y \in Local, CompletePlan(r, y),
         y.plan = run[r].plan, y.phase = "final", y.checks = run[r].checks,
         y.calls = run[r].calls, y.attempt = run[r].attempt,
         PlanInv(y.plan, y.evidence), AllDone(y.plan), y.evidence[NoStep] \in Good
  PROVE  Moves(r)
<1> DEFINE p == Completed(y.plan)
           x == [y EXCEPT !.plan = p, !.told = "plan_completed",
                          !.report = "success", !.pc = "closing"]
           me == run[r]
<1>1. CASE ~MayComplete(y.plan)
  BY <1>1, FinallyMoves DEF CompletePlan, Attempt
<1>2. CASE MayComplete(y.plan)
  <2>1. RunInv(me)
    BY RunFacts
  <2>2. PlanInv(p, y.evidence) /\ p.step = y.plan.step
    BY CompleteOp
  <2>3. Goto(r, x)
    BY <1>2 DEF CompletePlan, Attempt
  <2> HIDE DEF p
  <2>4. p \in Plan
    BY <2>2, PlanThere
  <2>5. x \in Local
    BY <2>4, SetField DEF PCs
  <2>6. /\ x.pc = "closing" /\ x.plan = p /\ x.phase = y.phase /\ x.checks = y.checks
        /\ x.calls = y.calls /\ x.attempt = y.attempt /\ x.evidence = y.evidence
    BY DEF Local
  <2> HIDE DEF x, me
  <2>7. WithStatus(x.plan, {"in_progress"}) \subseteq WithStatus(me.plan, {"in_progress"})
    BY <2>2, <2>6 DEF WithStatus, me
  <2>8. Legal(me, x)
    BY <2>1, <2>2, <2>5, <2>6, <2>7, CloseLegal DEF me
  <2> QED
    BY <2>3, <2>8 DEF Moves, Goto, Become, me
<1> QED
  BY <1>1, <1>2

LEMMA CompleteStepMoves ==
  ASSUME IInv, NEW r \in Runs, NEW y \in Local, CompleteCurrentStep(r, y),
         y.plan = run[r].plan, y.step \in StepIds,
         y.plan.step[y.step] = "in_progress",
         y.phase = run[r].phase, y.checks = run[r].checks,
         y.calls = run[r].calls, y.attempt = run[r].attempt,
         PlanInv(y.plan, y.evidence), y.evidence[y.step] \in Good
  PROVE  Moves(r)
<1> DEFINE p == StepCompleted(y.plan, y.step)
           x == [y EXCEPT !.plan = p, !.pc = "select"]
           me == run[r]
<1>1. CASE ~MayCompleteStep(y.plan, y.step)
  BY <1>1, FinallyMoves DEF CompleteCurrentStep, Attempt
<1>2. CASE MayCompleteStep(y.plan, y.step)
  <2>1. RunInv(me) /\ Verified(me) /\ me.calls <= me.calls /\ me.attempt <= me.attempt
    BY RunFacts
  <2>2. y.plan.status # "completed"
    BY <1>2 DEF MayCompleteStep, NotTerminal, TerminalStatus
  <2>3. /\ PlanInv(p, y.evidence) /\ Trouble(p) = {} /\ p.status # "completed"
        /\ WithStatus(p, {"in_progress"}) = {}
    BY <2>2, EndOps
  <2>4. Goto(r, x)
    BY <1>2 DEF CompleteCurrentStep, Attempt
  <2> HIDE DEF p
  <2>5. p \in Plan
    BY <2>3, PlanThere
  <2>6. x \in Local
    BY <2>5, SetField DEF PCs
  <2>7. /\ x.pc = "select" /\ x.plan = p /\ x.phase = y.phase /\ x.checks = y.checks
        /\ x.calls = y.calls /\ x.attempt = y.attempt /\ x.evidence = y.evidence
    BY DEF Local
  <2> HIDE DEF x, me
  <2>8. Placed(x)
    BY <2>3, <2>7 DEF Placed, AtStep, AtFinal
  <2>9. Verified(x)
    BY <2>1, <2>7 DEF Verified, me
  <2>10. Quiet(me, x)
    BY <2>1, <2>3, <2>7 DEF Quiet, me
  <2>11. Legal(me, x)
    BY <2>1, <2>3, <2>6, <2>7, <2>8, <2>9, <2>10, OtherPlan
  <2> QED
    BY <2>4, <2>11 DEF Moves, Goto, Become, me
<1> QED
  BY <1>1, <1>2

\* The step loop.
LEMMA SelectMoves ==
  ASSUME IInv, NEW r \in Runs, SelectStep(r)
  PROVE  Moves(r)
<1> DEFINE me == run[r]
           s == NextExecutable(me.plan)
           p == StepStarted(me.plan, s)
           x == [me EXCEPT !.plan = p, !.step = s, !.calls = 0,
                           !.phase = "step", !.pc = "loop"]
<1>1. CASE ~MayStartStep(me.plan, s)
  BY <1>1, FinallyMoves DEF SelectStep, Attempt
<1>2. CASE MayStartStep(me.plan, s)
  <2>1. /\ RunInv(me) /\ me \in Local /\ Placed(me) /\ Verified(me)
        /\ Planned(me) => PlanInv(me.plan, me.evidence)
        /\ 0 \in 0 .. MaxToolCalls
    BY RunFacts
  <2>2. me.pc = "select" /\ s # NoStep /\ ~me.aborted /\ Goto(r, x)
    BY <1>2 DEF SelectStep, Attempt
  <2> HIDE DEF me
  <2>3. PlanInv(me.plan, me.evidence) /\ Trouble(me.plan) = {}
    BY <2>1, <2>2 DEF Planned, Placed
  <2>4. /\ PlanInv(p, me.evidence) /\ s \in StepIds /\ p.step[s] = "in_progress"
        /\ p.status # "completed"
    BY <2>2, <2>3, StartOp
  <2> HIDE DEF p, s
  <2>5. p \in Plan
    BY <2>4, PlanThere
  <2>6. x \in Local
    BY <2>1, <2>4, <2>5, SetField DEF PCs
  <2>7. /\ x.pc = "loop" /\ x.plan = p /\ x.phase = "step" /\ x.step = s
        /\ x.evidence = me.evidence
    BY <2>1 DEF Local
  <2> HIDE DEF x
  <2>8. Placed(x) /\ Verified(x)
    BY <2>4, <2>7 DEF Placed, Verified, AtStep, AtFinal
  <2>9. Legal(me, x)
    BY <2>1, <2>2, <2>4, <2>6, <2>7, <2>8, OtherPlan DEF Quiet
  <2> QED
    BY <2>2, <2>9 DEF Moves, Goto, Become, me
<1> QED
  BY <1>1, <1>2

LEMMA EndStepsMoves ==
  ASSUME IInv, NEW r \in Runs, EndSteps(r)
  PROVE  Moves(r)
<1> DEFINE me == run[r]
           y == [me EXCEPT !.step = NoStep, !.phase = "final"]
<1>1. /\ RunInv(me) /\ me \in Local /\ Placed(me) /\ Verified(me)
      /\ Planned(me) => PlanInv(me.plan, me.evidence)
      /\ me.calls <= me.calls /\ me.attempt <= me.attempt
  BY RunFacts
<1>2. me.pc \in {"halted", "select"} /\ LeaveSteps(r)
  BY DEF EndSteps
<1> HIDE DEF me
<1>3. PlanInv(me.plan, me.evidence) /\ me.plan.status # "completed"
  BY <1>1, <1>2 DEF Planned, Placed
<1>4. y \in Local
  BY <1>1, SetField
<1>5. /\ y.step = NoStep /\ y.phase = "final" /\ y.pc = me.pc /\ y.plan = me.plan
      /\ y.checks = me.checks /\ y.calls = me.calls /\ y.attempt = me.attempt
      /\ y.evidence = me.evidence /\ y.aborted = me.aborted /\ y.verify = me.verify
  BY <1>1 DEF Local
<1>6. \/ y.aborted /\ Goto(r, [y EXCEPT !.plan = Cancelled(y.plan),
                                        !.told = "plan_cancelled", !.pc = "closing"])
      \/ AllDone(y.plan) /\ Goto(r, [y EXCEPT !.pc = "final"])
      \/ AllDone(y.plan) /\ CompletePlan(r, [y EXCEPT !.evidence[NoStep] = "unchecked"])
      \/ Goto(r, [y EXCEPT !.told = "plan_failed", !.report = "failure",
                           !.pc = "closing"])
  BY <1>2 DEF LeaveSteps, me
<1> HIDE DEF y
<1>7. ASSUME Goto(r, [y EXCEPT !.plan = Cancelled(y.plan),
                               !.told = "plan_cancelled", !.pc = "closing"])
      PROVE  Moves(r)
  <2> DEFINE p == Cancelled(y.plan)
             x == [y EXCEPT !.plan = p, !.told = "plan_cancelled", !.pc = "closing"]
  <2>1. PlanInv(p, me.evidence) /\ p.step = me.plan.step
    BY <1>3, <1>5, StatusOps
  <2> HIDE DEF p
  <2>2. p \in Plan
    BY <2>1, PlanThere
  <2>3. x \in Local
    BY <1>4, <2>2, SetField DEF PCs
  <2>4. /\ x.pc = "closing" /\ x.plan = p /\ x.phase = y.phase /\ x.checks = y.checks
        /\ x.calls = y.calls /\ x.attempt = y.attempt /\ x.evidence = y.evidence
    BY <1>4 DEF Local
  <2> HIDE DEF x
  <2>5. WithStatus(x.plan, {"in_progress"}) \subseteq WithStatus(me.plan, {"in_progress"})
    BY <2>1, <2>4 DEF WithStatus
  <2>6. Legal(me, x)
    BY <1>1, <1>5, <2>1, <2>3, <2>4, <2>5, CloseLegal
  <2> QED
    BY <1>7, <2>6 DEF Moves, Goto, Become, me, x, p
<1>8. ASSUME AllDone(y.plan), Goto(r, [y EXCEPT !.pc = "final"])
      PROVE  Moves(r)
  <2> DEFINE x == [y EXCEPT !.pc = "final"]
  <2>3. x \in Local
    BY <1>4, SetField DEF PCs
  <2>4. /\ x.pc = "final" /\ x.plan = y.plan /\ x.phase = y.phase /\ x.checks = y.checks
        /\ x.calls = y.calls /\ x.attempt = y.attempt /\ x.evidence = y.evidence
        /\ x.step = y.step
    BY <1>4 DEF Local
  <2> HIDE DEF x
  <2>5. Placed(x) /\ Verified(x)
    BY <1>3, <1>5, <1>8, <2>4 DEF Placed, Verified, AtStep, AtFinal
  <2>6. Planned(me)
    BY <1>2 DEF Planned
  <2>7. Legal(me, x)
    BY <1>1, <1>5, <2>3, <2>4, <2>5, <2>6, SamePlan
  <2> QED
    BY <1>8, <2>7 DEF Moves, Goto, Become, me, x
<1>9. ASSUME AllDone(y.plan), CompletePlan(r, [y EXCEPT !.evidence[NoStep] = "unchecked"])
      PROVE  Moves(r)
  <2> DEFINE e == [y.evidence EXCEPT ![NoStep] = "unchecked"]
             z == [y EXCEPT !.evidence = e]
  <2>1. PlanInv(y.plan, e) /\ e[NoStep] \in Good /\ e \in [Subjects -> Evidence]
    BY <1>3, <1>5, NewEvidence, PlanAssumption DEF Subjects, Evidence, Good, PlanInv
  <2> HIDE DEF e
  <2>2. z \in Local
    BY <1>4, <2>1, SetField
  <2>3. /\ z.plan = y.plan /\ z.phase = y.phase /\ z.checks = y.checks
        /\ z.calls = y.calls /\ z.attempt = y.attempt /\ z.evidence = e
    BY <1>4 DEF Local
  <2>4. CompletePlan(r, z)
    BY <1>9 DEF e
  <2> HIDE DEF z
  <2> QED
    BY <1>5, <1>9, <2>1, <2>2, <2>3, <2>4, CompletePlanMoves DEF me
<1>10. ASSUME Goto(r, [y EXCEPT !.told = "plan_failed", !.report = "failure",
                                !.pc = "closing"])
       PROVE  Moves(r)
  <2> DEFINE x == [y EXCEPT !.told = "plan_failed", !.report = "failure", !.pc = "closing"]
  <2>3. x \in Local
    BY <1>4, SetField DEF PCs
  <2>4. /\ x.pc = "closing" /\ x.plan = y.plan /\ x.phase = y.phase /\ x.checks = y.checks
        /\ x.calls = y.calls /\ x.attempt = y.attempt /\ x.evidence = y.evidence
    BY <1>4 DEF Local
  <2> HIDE DEF x
  <2>6. Legal(me, x)
    BY <1>1, <1>3, <1>5, <2>3, <2>4, CloseLegal
  <2> QED
    BY <1>10, <2>6 DEF Moves, Goto, Become, me, x
<1> QED
  BY <1>6, <1>7, <1>8, <1>9, <1>10

----------------------------------------------------------------------------
(* The AgentLoop inside a run *)

LEMMA StartChecksMoves ==
  ASSUME IInv, NEW r \in Runs, NEW y \in Local, NEW n \in 1 .. MaxChecks,
         StartChecks(r, y, n),
         y.plan = run[r].plan, y.evidence = run[r].evidence,
         y.calls = run[r].calls, y.attempt = run[r].attempt,
         PlanInv(y.plan, y.evidence), y.plan.status # "completed",
         \/ /\ y.phase \in {"step", "correction"}
            /\ y.step \in StepIds /\ y.plan.step[y.step] = "in_progress"
         \/ y.phase = "final" /\ y.step = NoStep /\ AllDone(y.plan)
  PROVE  Moves(r)
<1> DEFINE e == [y.evidence EXCEPT ![y.step] = "none"]
           x == [y EXCEPT !.checks = n, !.left = n, !.fails = "none",
                          !.evidence = e, !.pc = "checks"]
           me == run[r]
<1>1. RunInv(me) /\ me.calls <= me.calls /\ me.attempt <= me.attempt
  BY RunFacts
<1>2. n \in 0 .. MaxChecks /\ n > 0 /\ n # 0
  BY RuntimeAssumption
<1>3. y.step \in Subjects /\ "none" \in Evidence /\ y.evidence \in [Subjects -> Evidence]
  BY DEF Subjects, Evidence, PlanInv
<1>4. PlanInv(y.plan, e) /\ e[y.step] = "none" /\ e \in [Subjects -> Evidence]
  BY <1>3, NewEvidence, PlanAssumption
<1>5. Goto(r, x)
  BY DEF StartChecks
<1> HIDE DEF e
<1>6. x \in Local
  BY <1>2, <1>4, SetField DEF PCs
<1>7. /\ x.pc = "checks" /\ x.plan = y.plan /\ x.phase = y.phase /\ x.checks = n
      /\ x.left = n /\ x.fails = "none" /\ x.evidence = e /\ x.step = y.step
      /\ x.calls = y.calls /\ x.attempt = y.attempt
  BY DEF Local
<1> HIDE DEF x, me
<1>8. Placed(x)
  BY <1>7, PlanAssumption DEF Placed, AtStep, AtFinal
<1>9. Verified(x)
  BY <1>2, <1>4, <1>7 DEF Verified
<1>10. Quiet(me, x)
  BY <1>1, <1>7 DEF Quiet, me
<1>11. Legal(me, x)
  BY <1>1, <1>4, <1>6, <1>7, <1>8, <1>9, <1>10, OtherPlan
<1> QED
  BY <1>5, <1>11 DEF Moves, Goto, Become, me

LEMMA LoopMoves ==
  ASSUME IInv, NEW r \in Runs,
         \/ StartTool(r) \/ EndTool(r) \/ LoopCancelled(r)
         \/ (\E ok \in BOOLEAN : LoopEnded(r, ok)) \/ FailTurn(r) \/ GiveUp(r)
  PROVE  Moves(r)
<1> DEFINE me == run[r]
<1>1. /\ RunInv(me) /\ me \in Local /\ Placed(me) /\ Verified(me)
      /\ Planned(me) => PlanInv(me.plan, me.evidence)
      /\ me.calls <= me.calls /\ me.attempt <= me.attempt
  BY RunFacts
<1>2. ASSUME NEW x \in Local, me.pc \in {"loop", "tool"},
             x.pc \in {"loop", "tool", "closing"},
             ~me.aborted, x.phase = me.phase, x.step = me.step, x.checks = me.checks,
             x.plan = me.plan, x.evidence = me.evidence
      PROVE  Legal(me, x)
  <2>1. Placed(x) /\ Verified(x) /\ (Planned(x) => Planned(me))
    BY <1>1, <1>2 DEF Placed, Verified, Planned, AtStep, AtFinal
  <2> QED
    BY <1>1, <1>2, <2>1, SamePlan
<1>3. CASE StartTool(r)
  <2> DEFINE x == [me EXCEPT !.pc = "tool", !.calls = @ + 1]
  <2>1. me.pc = "loop" /\ ~me.aborted /\ me.calls < MaxToolCalls /\ Become(r, x)
    BY <1>3 DEF StartTool
  <2>2. me.calls + 1 \in 0 .. MaxToolCalls
    BY <1>1, <2>1, RuntimeAssumption, RunFacts
  <2> HIDE DEF me
  <2>3. x = [me EXCEPT !.pc = "tool", !.calls = me.calls + 1]
    BY <1>1 DEF Local
  <2>4. x \in Local
    BY <1>1, <2>2, <2>3, SetField DEF PCs
  <2>5. /\ x.pc = "tool" /\ x.phase = me.phase /\ x.step = me.step
        /\ x.checks = me.checks /\ x.plan = me.plan /\ x.evidence = me.evidence
    BY <1>1 DEF Local
  <2> HIDE DEF x
  <2>6. Legal(me, x)
    BY <1>2, <2>1, <2>4, <2>5
  <2> QED
    BY <2>1, <2>6 DEF Moves, Become, me
<1>4. CASE EndTool(r)
  <2> DEFINE x == [me EXCEPT !.pc = "loop"]
  <2>1. me.pc = "tool" /\ ~me.aborted /\ Become(r, x)
    BY <1>4 DEF EndTool
  <2> HIDE DEF me
  <2>4. x \in Local
    BY <1>1, SetField DEF PCs
  <2>5. /\ x.pc = "loop" /\ x.phase = me.phase /\ x.step = me.step
        /\ x.checks = me.checks /\ x.plan = me.plan /\ x.evidence = me.evidence
    BY <1>1 DEF Local
  <2> HIDE DEF x
  <2>6. Legal(me, x)
    BY <1>2, <2>1, <2>4, <2>5
  <2> QED
    BY <2>1, <2>6 DEF Moves, Become, me
<1>5. CASE LoopCancelled(r)
  <2> DEFINE p == IF me.phase = "plain" THEN me.plan ELSE Cancelled(me.plan)
             x == [me EXCEPT !.plan = p, !.told = "agent_cancelled",
                             !.report = "cancelled", !.pc = "closing"]
  <2>1. me.pc \in {"loop", "tool"} /\ Become(r, x)
    BY <1>5 DEF LoopCancelled
  <2>2. me.phase # "plain" => PlanInv(me.plan, me.evidence)
    BY <1>1, <2>1 DEF Placed, Planned, AtStep, Local
  <2> HIDE DEF me
  <2>3. me.phase # "plain" => PlanInv(p, me.evidence) /\ p.step = me.plan.step
    BY <2>2, StatusOps
  <2>4. me.phase = "plain" => p = me.plan
    OBVIOUS
  <2> HIDE DEF p
  <2>5. p \in Plan \cup {NoPlan}
    BY <1>1, <2>3, <2>4, PlanThere DEF Local
  <2>6. x \in Local
    <3>1. CASE p \in Plan
      BY <1>1, <3>1, SetField DEF PCs
    <3>2. CASE p \notin Plan
      <4>1. p = me.plan
        BY <2>3, <2>4, <3>2, PlanThere
      <4>2. [me EXCEPT !.plan = p] = me
        BY <1>1, <4>1 DEF Local
      <4> QED
        BY <1>1, <4>2, SetField DEF PCs
    <3> QED
      BY <3>1, <3>2
  <2>7. /\ x.pc = "closing" /\ x.plan = p /\ x.phase = me.phase /\ x.checks = me.checks
        /\ x.calls = me.calls /\ x.attempt = me.attempt /\ x.evidence = me.evidence
    BY <1>1 DEF Local
  <2> HIDE DEF x
  <2>8. CASE me.phase # "plain"
    <3>1. WithStatus(x.plan, {"in_progress"}) \subseteq WithStatus(me.plan, {"in_progress"})
      BY <2>3, <2>7, <2>8 DEF WithStatus
    <3>2. Legal(me, x)
      BY <1>1, <2>3, <2>6, <2>7, <2>8, <3>1, CloseLegal
    <3> QED
      BY <2>1, <3>2 DEF Moves, Become, me
  <2>9. CASE me.phase = "plain"
    <3>1. Placed(x) /\ Verified(x) /\ (Planned(x) => Planned(me))
      BY <1>1, <2>1, <2>4, <2>7, <2>9 DEF Placed, Verified, Planned, AtStep, AtFinal
    <3>2. Legal(me, x)
      BY <1>1, <2>4, <2>6, <2>7, <2>9, <3>1, SamePlan
    <3> QED
      BY <2>1, <3>2 DEF Moves, Become, me
  <2> QED
    BY <2>8, <2>9
<1>6. ASSUME NEW ok \in BOOLEAN, LoopEnded(r, ok) PROVE Moves(r)
  <2> DEFINE rep == IF ok THEN "success" ELSE "failure"
             y == [me EXCEPT !.report = rep]
  <2>0. /\ y.pc = "loop" /\ ~y.aborted
        /\ \/ /\ y.phase = "plain"
              /\ Become(r, [y EXCEPT
                   !.told = IF ok THEN "agent_completed" ELSE "agent_error",
                   !.pc = "closing"])
           \/ /\ y.phase = "step"
              /\ Goto(r, [y EXCEPT !.pc = IF ok THEN "turnOver" ELSE "turnFailed"])
           \/ y.phase = "correction" /\ StartChecks(r, y, y.checks)
    BY <1>6 DEF LoopEnded
  <2> HIDE DEF me
  <2>3. y \in Local
    BY <1>1, SetField
  <2>4. /\ y.phase = me.phase /\ y.step = me.step /\ y.checks = me.checks
        /\ y.plan = me.plan /\ y.evidence = me.evidence
        /\ y.calls = me.calls /\ y.attempt = me.attempt
        /\ y.pc = me.pc /\ y.aborted = me.aborted
    BY <1>1 DEF Local
  <2> HIDE DEF y
  <2>1. me.pc = "loop" /\ ~me.aborted
    BY <2>0, <2>4
  <2>2. \/ /\ me.phase = "plain"
           /\ \E t \in {"agent_completed", "agent_error"} :
                Become(r, [y EXCEPT !.told = t, !.pc = "closing"])
        \/ /\ me.phase = "step"
           /\ \E c \in {"turnOver", "turnFailed"} : Goto(r, [y EXCEPT !.pc = c])
        \/ me.phase = "correction" /\ StartChecks(r, y, y.checks)
    BY <2>0, <2>4
  <2>5. CASE me.phase = "plain"
    <3>1. PICK t \in {"agent_completed", "agent_error"} :
            Become(r, [y EXCEPT !.told = t, !.pc = "closing"])
      BY <2>2, <2>5
    <3> DEFINE x == [y EXCEPT !.told = t, !.pc = "closing"]
    <3>2. x \in Local
      BY <2>3, SetField DEF PCs
    <3>3. /\ x.pc = "closing" /\ x.phase = y.phase /\ x.step = y.step
          /\ x.checks = y.checks /\ x.plan = y.plan /\ x.evidence = y.evidence
      BY <2>3 DEF Local
    <3> HIDE DEF x
    <3>4. Legal(me, x)
      BY <1>2, <2>1, <2>4, <3>2, <3>3
    <3> QED
      BY <3>1, <3>4 DEF Moves, Become, me, x
  <2>6. CASE me.phase = "step"
    <3>1. PICK c \in {"turnOver", "turnFailed"} : Goto(r, [y EXCEPT !.pc = c])
      BY <2>2, <2>6
    <3> DEFINE x == [y EXCEPT !.pc = c]
    <3>2. x \in Local
      BY <2>3, SetField DEF PCs
    <3>3. /\ x.pc = c /\ x.phase = y.phase /\ x.step = y.step
          /\ x.checks = y.checks /\ x.plan = y.plan /\ x.evidence = y.evidence
          /\ x.calls = y.calls /\ x.attempt = y.attempt
      BY <2>3 DEF Local
    <3> HIDE DEF x
    <3>4. Placed(x) /\ Verified(x) /\ Planned(me)
      BY <1>1, <2>1, <2>4, <2>6, <3>3 DEF Placed, Verified, Planned, AtStep, AtFinal
    <3>5. Legal(me, x)
      BY <1>1, <2>1, <2>4, <3>2, <3>3, <3>4, SamePlan
    <3> QED
      BY <3>1, <3>5 DEF Moves, Goto, Become, me, x
  <2>7. CASE me.phase = "correction"
    <3>1. y.checks \in 1 .. MaxChecks
      <4>1. me.checks \in 0 .. MaxChecks
        BY <1>1 DEF Local
      <4>2. me.checks > 0
        BY <1>1, <2>7 DEF Verified
      <4> QED
        BY <2>4, <4>1, <4>2, RuntimeAssumption
    <3>2. /\ PlanInv(y.plan, y.evidence) /\ y.plan.status # "completed"
          /\ y.step \in StepIds /\ y.plan.step[y.step] = "in_progress"
      BY <1>1, <2>1, <2>4, <2>7 DEF Placed, Planned, AtStep
    <3>3. StartChecks(r, y, y.checks)
      BY <2>2, <2>7
    <3> QED
      BY <2>3, <2>4, <2>7, <3>1, <3>2, <3>3, StartChecksMoves DEF me
  <2> QED
    BY <2>2, <2>5, <2>6, <2>7
<1>7. ASSUME FailTurn(r) \/ GiveUp(r) PROVE Moves(r)
  <2> DEFINE p == StepFailed(me.plan, me.step)
             x == [me EXCEPT !.plan = p, !.report = "failure", !.pc = "halted"]
  <2>1. me.pc \in {"turnFailed", "exhausted"} /\ Goto(r, x)
    BY <1>7 DEF FailTurn, GiveUp
  <2> HIDE DEF me
  <2>2. /\ PlanInv(me.plan, me.evidence) /\ me.step \in StepIds
        /\ me.plan.step[me.step] = "in_progress"
    BY <1>1, <2>1 DEF Placed, Planned, AtStep
  <2>3. /\ PlanInv(p, me.evidence) /\ p.status # "completed"
        /\ WithStatus(p, {"in_progress"}) = {}
    BY <2>2, EndOps
  <2> HIDE DEF p
  <2>4. p \in Plan
    BY <2>3, PlanThere
  <2>5. x \in Local
    BY <1>1, <2>4, SetField DEF PCs
  <2>6. /\ x.pc = "halted" /\ x.plan = p /\ x.phase = me.phase /\ x.checks = me.checks
        /\ x.calls = me.calls /\ x.attempt = me.attempt /\ x.evidence = me.evidence
    BY <1>1 DEF Local
  <2> HIDE DEF x
  <2>7. Legal(me, x)
    BY <1>1, <2>3, <2>5, <2>6, CloseLegal
  <2> QED
    BY <2>1, <2>7 DEF Moves, Goto, Become, me
<1> QED
  BY <1>3, <1>4, <1>5, <1>6, <1>7

----------------------------------------------------------------------------
(* Verification and recovery *)

LEMMA RecoveringMoves ==
  ASSUME IInv, NEW r \in Runs, NEW y \in Local, Recovering(r, y),
         AtStep(run[r]),
         y.plan = run[r].plan, y.evidence = run[r].evidence, y.step = run[r].step,
         y.phase = run[r].phase, y.checks = run[r].checks, y.checks > 0,
         y.calls = run[r].calls, y.attempt = run[r].attempt,
         y.aborted = run[r].aborted
  PROVE  Moves(r)
<1> DEFINE me == run[r]
<1>1. /\ RunInv(me) /\ Placed(me) /\ Verified(me)
      /\ me.calls <= me.calls /\ me.attempt <= me.attempt
      /\ Planned(me) => PlanInv(me.plan, me.evidence)
  BY RunFacts
<1>2. /\ PlanInv(me.plan, me.evidence) /\ me.plan.status # "completed" /\ Planned(me)
      /\ me.step \in StepIds /\ me.plan.step[me.step] = "in_progress"
  BY <1>1 DEF Planned, Placed, AtStep
<1> HIDE DEF me
<1>3. ASSUME NEW x \in Local, x.pc \in {"correct", "exhausted"},
             x.plan = y.plan, x.evidence = y.evidence, x.step = y.step,
             x.phase = y.phase, x.checks = y.checks,
             me.aborted => x.calls <= me.calls /\ x.attempt <= me.attempt
      PROVE  Legal(me, x)
  <2>1. Placed(x)
    BY <1>2, <1>3 DEF Placed, AtStep, AtFinal, me
  <2>2. Verified(x)
    BY <1>3 DEF Verified
  <2> QED
    BY <1>1, <1>2, <1>3, <2>1, <2>2, SamePlan DEF me
<1>4. ASSUME y.attempt < MaxAttempts, ~y.aborted,
             Goto(r, [y EXCEPT !.attempt = y.attempt + 1, !.pc = "correct"])
      PROVE  Moves(r)
  <2> DEFINE x == [y EXCEPT !.attempt = y.attempt + 1, !.pc = "correct"]
  <2>1. y.attempt \in 0 .. MaxAttempts
    BY DEF Local
  <2>2. y.attempt + 1 \in 0 .. MaxAttempts
    BY <1>4, <2>1, RuntimeAssumption
  <2>3. x \in Local
    BY <2>2, SetField DEF PCs
  <2>4. /\ x.pc = "correct" /\ x.plan = y.plan /\ x.evidence = y.evidence
        /\ x.step = y.step /\ x.phase = y.phase /\ x.checks = y.checks
    BY DEF Local
  <2> HIDE DEF x
  <2>5. Legal(me, x)
    BY <1>3, <1>4, <2>3, <2>4 DEF me
  <2> QED
    BY <1>4, <2>5 DEF Moves, Goto, Become, me, x
<1>5. ASSUME Goto(r, [y EXCEPT !.pc = "exhausted"])
      PROVE  Moves(r)
  <2> DEFINE x == [y EXCEPT !.pc = "exhausted"]
  <2>1. x \in Local
    BY SetField DEF PCs
  <2>2. /\ x.pc = "exhausted" /\ x.plan = y.plan /\ x.evidence = y.evidence
        /\ x.step = y.step /\ x.phase = y.phase /\ x.checks = y.checks
        /\ x.calls = y.calls /\ x.attempt = y.attempt
    BY DEF Local
  <2> HIDE DEF x
  <2>3. Legal(me, x)
    BY <1>1, <1>3, <2>1, <2>2 DEF me
  <2> QED
    BY <1>5, <2>3 DEF Moves, Goto, Become, me, x
<1>6. ASSUME Goto(r, [y EXCEPT !.plan = Cancelled(y.plan), !.told = "plan_cancelled",
                               !.step = NoStep, !.pc = "closing"])
      PROVE  Moves(r)
  <2> DEFINE p == Cancelled(y.plan)
             x == [y EXCEPT !.plan = p, !.told = "plan_cancelled",
                            !.step = NoStep, !.pc = "closing"]
  <2>1. PlanInv(p, me.evidence) /\ p.step = me.plan.step
    BY <1>2, StatusOps DEF me
  <2> HIDE DEF p
  <2>2. p \in Plan
    BY <2>1, PlanThere
  <2>3. x \in Local
    BY <2>2, SetField DEF PCs
  <2>4. /\ x.pc = "closing" /\ x.plan = p /\ x.evidence = y.evidence
        /\ x.phase = y.phase /\ x.checks = y.checks
        /\ x.calls = y.calls /\ x.attempt = y.attempt
    BY DEF Local
  <2> HIDE DEF x
  <2>5. WithStatus(x.plan, {"in_progress"}) \subseteq WithStatus(me.plan, {"in_progress"})
    BY <2>1, <2>4 DEF WithStatus
  <2>6. Legal(me, x)
    BY <1>1, <2>1, <2>3, <2>4, <2>5, CloseLegal DEF me
  <2> QED
    BY <1>6, <2>6 DEF Moves, Goto, Become, me, x, p
<1> QED
  BY <1>4, <1>5, <1>6 DEF Recovering

\* selectChecks answers.
LEMMA ChooseMoves ==
  ASSUME IInv, NEW r \in Runs, ChooseChecks(r) \/ ChooseFinalChecks(r)
  PROVE  Moves(r)
<1> DEFINE me == run[r]
<1>1. /\ RunInv(me) /\ me \in Local /\ Placed(me) /\ Verified(me)
      /\ me.evidence \in [Subjects -> Evidence]
      /\ Planned(me) => PlanInv(me.plan, me.evidence)
  BY RunFacts
<1>2. ASSUME NEW n \in 1 .. MaxChecks, StartChecks(r, me, n),
             me.pc \in {"turnOver", "final"}
      PROVE  Moves(r)
  <2> HIDE DEF me
  <2>1. /\ PlanInv(me.plan, me.evidence) /\ me.plan.status # "completed"
        /\ \/ /\ me.pc = "turnOver" /\ me.phase = "step"
              /\ me.step \in StepIds /\ me.plan.step[me.step] = "in_progress"
           \/ me.pc = "final" /\ me.step = NoStep /\ AllDone(me.plan)
    BY <1>1, <1>2 DEF Planned, Placed, AtStep, AtFinal
  <2>2. me.pc = "final" => me.phase = "final"
    BY <1>1 DEF Placed
  <2> QED
    BY <1>1, <1>2, <2>1, <2>2, StartChecksMoves DEF me
<1>3. ASSUME NEW s \in Subjects, s = me.step,
             me.pc \in {"turnOver", "final"}
      PROVE  LET e == [me.evidence EXCEPT ![s] = "unchecked"]
                 y == [me EXCEPT !.evidence = e]
             IN  /\ PlanInv(me.plan, e) /\ e[s] \in Good
                 /\ y \in Local /\ y.evidence = e /\ y.plan = me.plan
                 /\ y.step = me.step /\ y.phase = me.phase /\ y.checks = me.checks
                 /\ y.calls = me.calls /\ y.attempt = me.attempt
  <2> DEFINE e == [me.evidence EXCEPT ![s] = "unchecked"]
             y == [me EXCEPT !.evidence = e]
  <2> HIDE DEF me
  <2>1. /\ PlanInv(me.plan, me.evidence) /\ me.plan.status # "completed"
        /\ s \in StepIds => me.plan.step[s] # "completed"
    BY <1>1, <1>3, PlanAssumption DEF Planned, Placed, AtStep, AtFinal
  <2>2. "unchecked" \in Evidence
    BY DEF Evidence
  <2>3. PlanInv(me.plan, e) /\ e[s] \in Good /\ e \in [Subjects -> Evidence]
    BY <1>1, <2>1, <2>2, NewEvidence DEF Good
  <2> HIDE DEF e
  <2>4. y \in Local
    BY <1>1, <2>3, SetField
  <2>5. /\ y.evidence = e /\ y.plan = me.plan
        /\ y.step = me.step /\ y.phase = me.phase /\ y.checks = me.checks
        /\ y.calls = me.calls /\ y.attempt = me.attempt
    BY <1>1 DEF Local
  <2> QED
    BY <2>3, <2>4, <2>5 DEF e
<1>4. CASE ChooseChecks(r)
  <2>1. me.pc = "turnOver" /\ me.step \in StepIds /\ me.step \in Subjects
    BY <1>1, <1>4 DEF ChooseChecks, Placed, AtStep, Subjects
  <2>2. me.plan.step[me.step] = "in_progress"
    BY <1>1, <2>1 DEF Placed, AtStep
  <2> DEFINE y == [me EXCEPT !.evidence = [me.evidence EXCEPT ![me.step] = "unchecked"]]
  <2>3. CompleteCurrentStep(r, y) \/ \E n \in 1 .. MaxChecks : StartChecks(r, me, n)
    BY <1>4 DEF ChooseChecks
  <2>4. /\ PlanInv(y.plan, y.evidence) /\ y.evidence[y.step] \in Good
        /\ y \in Local /\ y.plan = me.plan
        /\ y.step = me.step /\ y.phase = me.phase /\ y.checks = me.checks
        /\ y.calls = me.calls /\ y.attempt = me.attempt
    BY <1>3, <2>1
  <2>5. CASE CompleteCurrentStep(r, y)
    <3> HIDE DEF y
    <3> QED
      BY <2>1, <2>2, <2>4, <2>5, CompleteStepMoves
  <2> QED
    BY <1>2, <2>1, <2>3, <2>5
<1>5. CASE ChooseFinalChecks(r)
  <2>1. me.pc = "final"
    BY <1>5 DEF ChooseFinalChecks
  <2>2. me.step = NoStep /\ AllDone(me.plan) /\ me.step \in Subjects /\ me.phase = "final"
    BY <1>1, <2>1 DEF Placed, AtFinal, Subjects
  <2> DEFINE y == [me EXCEPT !.evidence = [me.evidence EXCEPT ![NoStep] = "unchecked"]]
  <2>3. CompletePlan(r, y) \/ \E n \in 1 .. MaxChecks : StartChecks(r, me, n)
    BY <1>5 DEF ChooseFinalChecks
  <2>4. /\ PlanInv(y.plan, y.evidence) /\ y.evidence[NoStep] \in Good
        /\ y \in Local /\ y.plan = me.plan
        /\ y.step = me.step /\ y.phase = me.phase /\ y.checks = me.checks
        /\ y.calls = me.calls /\ y.attempt = me.attempt
    BY <1>3, <2>1, <2>2
  <2>5. CASE CompletePlan(r, y)
    <3> HIDE DEF y
    <3> QED
      BY <2>2, <2>4, <2>5, CompletePlanMoves
  <2> QED
    BY <1>2, <2>1, <2>3, <2>5
<1> QED
  BY <1>4, <1>5

\* Checks run, and end.
LEMMA CheckMoves ==
  ASSUME IInv, NEW r \in Runs, StartCheck(r) \/ EndCheck(r)
  PROVE  Moves(r)
<1> DEFINE me == run[r]
<1>1. /\ RunInv(me) /\ me \in Local /\ Placed(me) /\ Verified(me)
      /\ me.evidence \in [Subjects -> Evidence] /\ me.left \in 0 .. MaxChecks
      /\ me.calls <= me.calls /\ me.attempt <= me.attempt
      /\ Planned(me) => PlanInv(me.plan, me.evidence)
  BY RunFacts
<1>2. CASE StartCheck(r)
  <2> DEFINE x == [me EXCEPT !.pc = "check"]
  <2>1. me.pc = "checks" /\ me.left > 0 /\ ~me.aborted /\ Goto(r, x)
    BY <1>2 DEF StartCheck
  <2> HIDE DEF me
  <2>2. x \in Local
    BY <1>1, SetField DEF PCs
  <2>3. /\ x.pc = "check" /\ x.phase = me.phase /\ x.step = me.step
        /\ x.checks = me.checks /\ x.plan = me.plan /\ x.evidence = me.evidence
        /\ x.left = me.left /\ x.fails = me.fails
    BY <1>1 DEF Local
  <2> HIDE DEF x
  <2>4. Placed(x) /\ Verified(x) /\ (Planned(x) => Planned(me))
    BY <1>1, <2>1, <2>3 DEF Placed, Verified, Planned, AtStep, AtFinal
  <2>5. Legal(me, x)
    BY <1>1, <2>1, <2>2, <2>3, <2>4, SamePlan
  <2> QED
    BY <2>1, <2>5 DEF Moves, Goto, Become, me
<1>3. CASE EndCheck(r)
  <2>1. PICK outcome \in {"passed", "failed", "blocked"} :
          Goto(r, [me EXCEPT
           !.pc = "checks",
           !.left = IF outcome = "blocked" THEN 0 ELSE me.left - 1,
           !.fails = IF outcome = "passed" THEN me.fails ELSE outcome,
           !.evidence[me.step] =
             IF outcome # "passed" \/ (me.evidence[me.step] = "none" /\ me.left = 1)
             THEN outcome ELSE me.evidence[me.step]])
    BY <1>1, <1>3 DEF EndCheck, Local
  <2>2. me.pc = "check"
    BY <1>3 DEF EndCheck
  <2> DEFINE lf == IF outcome = "blocked" THEN 0 ELSE me.left - 1
             fs == IF outcome = "passed" THEN me.fails ELSE outcome
             ev == IF outcome # "passed" \/ (me.evidence[me.step] = "none" /\ me.left = 1)
                   THEN outcome ELSE me.evidence[me.step]
             e  == [me.evidence EXCEPT ![me.step] = ev]
             x  == [me EXCEPT !.pc = "checks", !.left = lf, !.fails = fs, !.evidence = e]
  <2>3. Goto(r, x)
    BY <2>1
  <2> HIDE DEF me
  <2>4. /\ me.step \in Subjects /\ me.phase # "plain" /\ me.checks > 0 /\ me.left > 0
        /\ me.fails \in {"none", "failed", "blocked"}
        /\ PlanInv(me.plan, me.evidence) /\ me.plan.status # "completed"
        /\ me.step \in StepIds => me.plan.step[me.step] = "in_progress"
        /\ me.fails = "none" => me.evidence[me.step] = "none"
        /\ Planned(me)
    <3>1. me.step \in Subjects /\ me.fails \in {"none", "failed", "blocked"}
      BY <1>1 DEF Local, Subjects
    <3>2. me.phase # "plain" /\ me.checks > 0 /\ me.left > 0
      BY <1>1, <2>2 DEF Placed, Verified
    <3>3. Planned(me)
      BY <1>1, <2>2, <3>2 DEF Planned, AtStep, AtFinal, Local
    <3>4. PlanInv(me.plan, me.evidence) /\ me.plan.status # "completed"
      BY <1>1, <2>2, <3>3 DEF Placed
    <3>5. me.step \in StepIds => me.plan.step[me.step] = "in_progress"
      BY <1>1, <2>2, <3>2, PlanAssumption DEF Placed, AtStep, AtFinal, Local
    <3>6. me.left # 0
      BY <1>1, <3>2
    <3>7. me.fails = "none" => me.evidence[me.step] = "none"
      BY <1>1, <2>2, <3>6 DEF Verified
    <3> QED
      BY <3>1, <3>2, <3>3, <3>4, <3>5, <3>7
  <2>5. lf \in 0 .. MaxChecks /\ (outcome = "passed" => (lf = 0 <=> me.left = 1))
    BY <1>1, <2>4, RuntimeAssumption
  <2>6. ev \in Evidence /\ fs \in {"none", "failed", "blocked"}
    BY <1>1, <2>4 DEF Evidence
  <2>7. fs = "none" => outcome = "passed" /\ me.fails = "none"
    OBVIOUS
  <2>8. fs = "none" => ev = IF lf = 0 THEN "passed" ELSE "none"
    BY <2>4, <2>5, <2>7
  <2> HIDE DEF lf, fs, ev
  <2>9. PlanInv(me.plan, e) /\ e \in [Subjects -> Evidence] /\ e[me.step] = ev
    BY <1>1, <2>4, <2>6, NewEvidence
  <2> HIDE DEF e
  <2>10. x \in Local
    BY <1>1, <2>5, <2>6, <2>9, SetField DEF PCs
  <2>11. /\ x.pc = "checks" /\ x.phase = me.phase /\ x.step = me.step
         /\ x.checks = me.checks /\ x.plan = me.plan /\ x.evidence = e
         /\ x.left = lf /\ x.fails = fs
         /\ x.calls = me.calls /\ x.attempt = me.attempt
    BY <1>1 DEF Local
  <2> HIDE DEF x
  <2>12. Placed(x)
    BY <1>1, <2>2, <2>4, <2>11 DEF Placed, Planned, AtStep, AtFinal
  <2>13. Verified(x)
    BY <2>4, <2>8, <2>9, <2>11 DEF Verified
  <2>14. Quiet(me, x)
    BY <1>1, <2>11 DEF Quiet
  <2>15. Legal(me, x)
    BY <1>1, <2>9, <2>10, <2>11, <2>12, <2>13, <2>14, OtherPlan
  <2> QED
    BY <2>3, <2>15 DEF Moves, Goto, Become, me
<1> QED
  BY <1>2, <1>3

\* The checks are over.
LEMMA EndChecksMoves ==
  ASSUME IInv, NEW r \in Runs, EndChecks(r)
  PROVE  Moves(r)
<1> DEFINE me == run[r]
           v  == VerificationStatus(me)
           y  == [me EXCEPT !.verdict = v, !.left = 0]
<1>1. /\ RunInv(me) /\ me \in Local /\ Placed(me) /\ Verified(me)
      /\ me.calls <= me.calls /\ me.attempt <= me.attempt
      /\ 0 <= me.attempt /\ 0 \in 0 .. MaxChecks /\ 0 \in 0 .. MaxAttempts
      /\ Planned(me) => PlanInv(me.plan, me.evidence)
  BY RunFacts
<1>2. /\ me.pc = "checks"
      /\ me.left = 0 \/ me.aborted
      /\ \/ /\ me.phase = "step" /\ v = "failed"
            /\ Goto(r, [y EXCEPT !.attempt = 0, !.pc = "recover"])
         \/ me.phase = "correction" /\ Recovering(r, y)
         \/ Goto(r, [y EXCEPT !.pc = "verdict",
                              !.report = IF me.phase = "final" /\ v # "passed"
                                         THEN "failure" ELSE y.report])
  BY DEF EndChecks
<1> HIDE DEF me
<1>3. /\ v \in {"passed", "failed", "blocked"}
      /\ v = "passed" => me.evidence[me.step] = "passed"
  <2>1. me.aborted \in BOOLEAN /\ me.fails \in {"none", "failed", "blocked"}
    BY <1>1 DEF Local
  <2>2. v \in {"passed", "failed", "blocked"} /\ (v = "passed" => me.fails = "none" /\ ~me.aborted)
    BY <2>1 DEF VerificationStatus
  <2> QED
    BY <1>1, <1>2, <2>2 DEF Verified
<1> HIDE DEF v
<1>4. /\ Planned(me) /\ me.checks > 0 /\ me.phase # "plain"
      /\ me.phase \in {"step", "correction"} => AtStep(me)
  BY <1>1, <1>2 DEF Placed, Verified, Planned, AtStep, AtFinal, Local
<1>5. y \in Local
  BY <1>1, <1>3, SetField
<1>6. /\ y.pc = me.pc /\ y.phase = me.phase /\ y.step = me.step /\ y.checks = me.checks
      /\ y.plan = me.plan /\ y.evidence = me.evidence /\ y.aborted = me.aborted
      /\ y.calls = me.calls /\ y.attempt = me.attempt /\ y.verdict = v
  BY <1>1 DEF Local
<1> HIDE DEF y
<1>7. ASSUME me.phase = "step", v = "failed",
             Goto(r, [y EXCEPT !.attempt = 0, !.pc = "recover"])
      PROVE  Moves(r)
  <2> DEFINE x == [y EXCEPT !.attempt = 0, !.pc = "recover"]
  <2>1. x \in Local
    BY <1>1, <1>5, SetField DEF PCs
  <2>2. /\ x.pc = "recover" /\ x.phase = y.phase /\ x.step = y.step /\ x.checks = y.checks
        /\ x.plan = y.plan /\ x.evidence = y.evidence
        /\ x.calls = y.calls /\ x.attempt = 0
    BY <1>5 DEF Local
  <2> HIDE DEF x
  <2>3. Placed(x) /\ Verified(x)
    BY <1>1, <1>2, <1>4, <1>6, <1>7, <2>2 DEF Placed, Verified, Planned, AtStep, AtFinal
  <2>4. Legal(me, x)
    BY <1>1, <1>4, <1>6, <2>1, <2>2, <2>3, SamePlan
  <2> QED
    BY <1>7, <2>4 DEF Moves, Goto, Become, me, x
<1>8. ASSUME me.phase = "correction", Recovering(r, y)
      PROVE  Moves(r)
  BY <1>4, <1>5, <1>6, <1>8, RecoveringMoves DEF me
<1>9. ASSUME NEW rep \in {"none", "success", "failure", "cancelled"},
             Goto(r, [y EXCEPT !.pc = "verdict", !.report = rep])
      PROVE  Moves(r)
  <2> DEFINE x == [y EXCEPT !.pc = "verdict", !.report = rep]
  <2>1. x \in Local
    BY <1>5, SetField DEF PCs
  <2>2. /\ x.pc = "verdict" /\ x.phase = y.phase /\ x.step = y.step /\ x.checks = y.checks
        /\ x.plan = y.plan /\ x.evidence = y.evidence /\ x.verdict = y.verdict
        /\ x.calls = y.calls /\ x.attempt = y.attempt
    BY <1>5 DEF Local
  <2> HIDE DEF x
  <2>3. Placed(x)
    BY <1>1, <1>2, <1>4, <1>6, <2>2 DEF Placed, Planned, AtStep, AtFinal
  <2>4. Verified(x)
    BY <1>3, <1>4, <1>6, <2>2 DEF Verified
  <2>5. Legal(me, x)
    BY <1>1, <1>4, <1>6, <2>1, <2>2, <2>3, <2>4, SamePlan
  <2> QED
    BY <1>9, <2>5 DEF Moves, Goto, Become, me, x
<1>10. y.report \in {"none", "success", "failure", "cancelled"}
  BY <1>5 DEF Local
<1> QED
  BY <1>2, <1>7, <1>8, <1>9, <1>10

\* What is made of the outcome.
LEMMA VerdictMoves ==
  ASSUME IInv, NEW r \in Runs,
         StepVerdict(r) \/ PlanVerdict(r) \/ Recover(r) \/ Correct(r) \/ Close(r)
  PROVE  Moves(r)
<1> DEFINE me == run[r]
<1>1. /\ RunInv(me) /\ me \in Local /\ Placed(me) /\ Verified(me)
      /\ me.calls <= me.calls /\ me.attempt <= me.attempt
      /\ 0 <= me.calls /\ 0 \in 0 .. MaxToolCalls
      /\ Planned(me) => PlanInv(me.plan, me.evidence)
  BY RunFacts
<1>2. CASE StepVerdict(r)
  <2> DEFINE p == StepBlocked(me.plan, me.step)
             x == [me EXCEPT !.plan = p, !.pc = "halted"]
  <2>1. /\ me.pc = "verdict" /\ me.phase # "final"
        /\ \/ me.verdict = "passed" /\ CompleteCurrentStep(r, me)
           \/ Attempt(r, MayBlockStep(me.plan, me.step), x)
    BY <1>2 DEF StepVerdict
  <2>2. CASE me.verdict = "passed" /\ CompleteCurrentStep(r, me)
    <3> HIDE DEF me
    <3>1. /\ me.step \in StepIds /\ me.plan.step[me.step] = "in_progress"
          /\ PlanInv(me.plan, me.evidence)
      BY <1>1, <2>1 DEF Placed, Planned, AtStep, AtFinal, Local
    <3>2. me.evidence[me.step] \in Good
      BY <1>1, <2>1, <2>2 DEF Verified, Good
    <3> QED
      BY <1>1, <2>2, <3>1, <3>2, CompleteStepMoves DEF me
  <2>3. CASE Goto(r, x)
    <3> HIDE DEF me
    <3>1. /\ me.step \in StepIds /\ me.plan.step[me.step] = "in_progress"
          /\ PlanInv(me.plan, me.evidence)
      BY <1>1, <2>1 DEF Placed, Planned, AtStep, AtFinal, Local
    <3>2. /\ PlanInv(p, me.evidence) /\ p.status # "completed"
          /\ WithStatus(p, {"in_progress"}) = {}
      BY <3>1, EndOps
    <3> HIDE DEF p
    <3>3. p \in Plan
      BY <3>2, PlanThere
    <3>4. x \in Local
      BY <1>1, <3>3, SetField DEF PCs
    <3>5. /\ x.pc = "halted" /\ x.plan = p /\ x.phase = me.phase /\ x.checks = me.checks
          /\ x.calls = me.calls /\ x.attempt = me.attempt /\ x.evidence = me.evidence
      BY <1>1 DEF Local
    <3> HIDE DEF x
    <3>6. Legal(me, x)
      BY <1>1, <3>2, <3>4, <3>5, CloseLegal
    <3> QED
      BY <2>3, <3>6 DEF Moves, Goto, Become, me
  <2>4. CASE Finally(r, [me EXCEPT !.told = "threw"])
    BY <2>4, FinallyMoves
  <2> QED
    BY <2>1, <2>2, <2>3, <2>4 DEF Attempt
<1>3. CASE PlanVerdict(r)
  <2> DEFINE p == Failed(me.plan)
             x == [me EXCEPT !.plan = p, !.told = "plan_failed",
                             !.report = "failure", !.pc = "closing"]
  <2>1. /\ me.pc = "verdict" /\ me.phase = "final"
        /\ \/ me.verdict = "passed" /\ CompletePlan(r, me)
           \/ Goto(r, x)
    BY <1>3 DEF PlanVerdict
  <2> HIDE DEF me
  <2>2. me.step = NoStep /\ AllDone(me.plan) /\ PlanInv(me.plan, me.evidence)
    BY <1>1, <2>1 DEF Placed, Planned, AtFinal
  <2>3. CASE me.verdict = "passed" /\ CompletePlan(r, me)
    <3>1. me.evidence[NoStep] \in Good
      BY <1>1, <2>1, <2>2, <2>3 DEF Verified, Good
    <3> QED
      BY <1>1, <2>1, <2>2, <2>3, <3>1, CompletePlanMoves DEF me
  <2>4. CASE Goto(r, x)
    <3>1. PlanInv(p, me.evidence) /\ p.step = me.plan.step
      BY <2>2, StatusOps
    <3> HIDE DEF p
    <3>2. p \in Plan
      BY <3>1, PlanThere
    <3>3. x \in Local
      BY <1>1, <3>2, SetField DEF PCs
    <3>4. /\ x.pc = "closing" /\ x.plan = p /\ x.phase = me.phase /\ x.checks = me.checks
          /\ x.calls = me.calls /\ x.attempt = me.attempt /\ x.evidence = me.evidence
      BY <1>1 DEF Local
    <3> HIDE DEF x
    <3>5. WithStatus(x.plan, {"in_progress"}) \subseteq WithStatus(me.plan, {"in_progress"})
      BY <3>1, <3>4 DEF WithStatus
    <3>6. Legal(me, x)
      BY <1>1, <3>1, <3>3, <3>4, <3>5, CloseLegal
    <3> QED
      BY <2>4, <3>6 DEF Moves, Goto, Become, me
  <2> QED
    BY <2>1, <2>3, <2>4
<1>4. CASE Recover(r)
  <2>1. me.pc = "recover" /\ Recovering(r, me)
    BY <1>4 DEF Recover
  <2>2. AtStep(me) /\ me.checks > 0
    BY <1>1, <2>1 DEF AtStep, Verified
  <2> HIDE DEF me
  <2> QED
    BY <1>1, <2>1, <2>2, RecoveringMoves DEF me
<1>5. CASE Correct(r)
  <2> DEFINE x == [me EXCEPT !.phase = "correction", !.calls = 0, !.pc = "loop"]
  <2>1. me.pc = "correct" /\ Goto(r, x)
    BY <1>5 DEF Correct
  <2> HIDE DEF me
  <2>2. x \in Local
    BY <1>1, SetField DEF PCs
  <2>3. /\ x.pc = "loop" /\ x.phase = "correction" /\ x.step = me.step
        /\ x.checks = me.checks /\ x.plan = me.plan /\ x.evidence = me.evidence
        /\ x.calls = 0 /\ x.attempt = me.attempt
    BY <1>1 DEF Local
  <2> HIDE DEF x
  <2>4. Placed(x) /\ Verified(x) /\ Planned(me)
    BY <1>1, <2>1, <2>3 DEF Placed, Verified, Planned, AtStep, AtFinal
  <2>5. Legal(me, x)
    BY <1>1, <2>2, <2>3, <2>4, SamePlan
  <2> QED
    BY <2>1, <2>5 DEF Moves, Goto, Become, me
<1>6. CASE Close(r)
  BY <1>6, FinallyMoves DEF Close
<1> QED
  BY <1>2, <1>3, <1>4, <1>5, <1>6

----------------------------------------------------------------------------
(* cancel(), the runtime's fields, and the inductive invariant *)

LEMMA CancelMoves ==
  ASSUME IInv, Cancel, NEW r \in Runs
  PROVE  Legal(run[r], run'[r]) /\ run'[r].pc = run[r].pc
<1> DEFINE me == run[r]
           p  == IF r = activePlan THEN Cancelled(me.plan) ELSE me.plan
           b  == me.aborted \/ r = active
           x  == [me EXCEPT !.plan = p, !.aborted = b]
<1>1. /\ RunInv(me) /\ me \in Local /\ Placed(me) /\ Verified(me)
      /\ me.calls <= me.calls /\ me.attempt <= me.attempt
      /\ Planned(me) => PlanInv(me.plan, me.evidence)
  BY RunFacts
<1>2. run'[r] = x
  <2>1. run'[r] = [me EXCEPT !.plan = IF r = activePlan THEN Cancelled(@) ELSE @,
                             !.aborted = @ \/ r = active]
    BY DEF Cancel
  <2> HIDE DEF me
  <2> QED
    BY <1>1, <2>1 DEF Local
<1>3. r = activePlan => me.plan # NoPlan
  BY DEF IInv, Shared, HasPlan
<1> HIDE DEF me
<1>4. b \in BOOLEAN
  OBVIOUS
<1>5. ASSUME r = activePlan
      PROVE  /\ PlanInv(p, me.evidence) /\ p.step = me.plan.step
             /\ p.status # "completed" /\ p \in Plan /\ p # NoPlan
  <2>1. PlanInv(me.plan, me.evidence)
    BY <1>1, <1>3, <1>5 DEF Planned
  <2>2. /\ PlanInv(Cancelled(me.plan), me.evidence) /\ Cancelled(me.plan).step = me.plan.step
        /\ Cancelled(me.plan).status # "completed"
    BY <2>1, StatusOps
  <2> QED
    BY <1>5, <2>2, PlanThere
<1>6. r # activePlan => p = me.plan
  OBVIOUS
<1> HIDE DEF p, b
<1>7. x \in Local
  <2>1. CASE r = activePlan
    BY <1>1, <1>4, <1>5, <2>1, SetField
  <2>2. CASE r # activePlan
    <3>1. x = [me EXCEPT !.aborted = b]
      BY <1>1, <1>6, <2>2 DEF Local
    <3> QED
      BY <1>1, <1>4, <3>1, SetField
  <2> QED
    BY <2>1, <2>2
<1>8. /\ x.pc = me.pc /\ x.phase = me.phase /\ x.step = me.step /\ x.checks = me.checks
      /\ x.left = me.left /\ x.fails = me.fails /\ x.verdict = me.verdict
      /\ x.plan = p /\ x.evidence = me.evidence
      /\ x.calls = me.calls /\ x.attempt = me.attempt
  BY <1>1 DEF Local
<1> HIDE DEF x
<1>9. Verified(x)
  BY <1>1, <1>8 DEF Verified
<1>10. CASE r = activePlan
  <2>1. Placed(x)
    BY <1>1, <1>5, <1>8, <1>10 DEF Placed, Planned, AtStep, AtFinal, AllDone, Ids, Trouble, WithStatus
  <2>2. Quiet(me, x)
    BY <1>1, <1>5, <1>8, <1>10 DEF Quiet, WithStatus
  <2> QED
    BY <1>1, <1>2, <1>5, <1>7, <1>8, <1>9, <1>10, <2>1, <2>2, OtherPlan DEF me
<1>11. CASE r # activePlan
  <2>1. Placed(x) /\ (Planned(x) => Planned(me))
    BY <1>1, <1>6, <1>8, <1>11 DEF Placed, Planned, AtStep, AtFinal
  <2> QED
    BY <1>1, <1>2, <1>6, <1>7, <1>8, <1>9, <1>11, <2>1, SamePlan DEF me
<1> QED
  BY <1>10, <1>11

\* The run ends, and leaves the runtime free.
Ends(r) ==
  /\ Executing(r) /\ run'[r].pc = "done" /\ run'[r].aborted = run[r].aborted
  /\ state' \in AgentState \ Busy /\ active' = NoRun /\ activePlan' = activePlan

\* Points of a run that callers do not tell apart.
Inside == PCs \ {"new", "done", "closing", "planOnly", "tool", "check"}

\* The steps of a run that begin or end a tool call or a check.
ItemStep(r) ==
  \/ StartTool(r) /\ run'[r].pc = "tool"
  \/ EndTool(r) /\ run'[r].pc = "loop"
  \/ LoopCancelled(r) /\ run'[r].pc = "closing"
  \/ StartCheck(r) /\ run'[r].pc = "check"
  \/ EndCheck(r) /\ run'[r].pc = "checks"

\* The run goes on, and keeps the runtime.
GoesOn(r) ==
  /\ Executing(r) /\ run[r].pc \notin {"closing", "planOnly"}
  /\ Executing(r)'
  /\ run'[r].aborted = run[r].aborted
  /\ \/ ItemStep(r)
     \/ /\ run[r].pc \in Inside /\ run'[r].pc \in Inside \cup {"closing", "planOnly"}
        /\ state' = state \/ (state' \notin Busy /\ run'[r].pc = "closing")
  /\ active' = active
  /\ \/ state' = state \/ state' \in Busy
     \/ state' \in AgentState /\ run'[r].pc = "closing"
  /\ \/ activePlan' = activePlan
     \/ activePlan' = r /\ run'[r].pc \in {"planOnly", "select"}

\* What a step of a run does to the runtime's fields.
LEMMA StepShape ==
  ASSUME run \in [Runs -> Local], state \in AgentState, NEW r \in Runs, RunStep(r)
  PROVE  (Ends(r) /\ run[r].pc \notin {"tool", "check"}) \/ GoesOn(r)
<1> DEFINE me == run[r]
           EndsHere == Ends(r) /\ run[r].pc \notin {"tool", "check"}
<1>1. me \in Local
  OBVIOUS
<1>2. ASSUME NEW x, Become(r, x)
      PROVE  run'[r] = x
  BY <1>2 DEF Become
<1>3. ASSUME NEW y \in Local, y.aborted = me.aborted, Finally(r, y), Executing(r)
      PROVE  Ends(r)
  <2>1. run'[r].pc = "done" /\ run'[r].aborted = me.aborted
    BY <1>2, <1>3 DEF Finally, Local
  <2> QED
    BY <1>3, <2>1 DEF Ends, Finally, AgentState, Busy
<1>4. ASSUME Finally(r, [me EXCEPT !.told = "threw"]), Executing(r) PROVE Ends(r)
  <2>1. [me EXCEPT !.told = "threw"].aborted = me.aborted
    BY <1>1 DEF Local
  <2> QED
    BY <1>1, <1>3, <1>4, <2>1, SetField
<1>5. ASSUME NEW x, Goto(r, x), x.pc \in Inside \cup {"closing", "planOnly"},
             x.aborted = me.aborted, me.pc \in Inside
      PROVE  GoesOn(r)
  BY <1>2, <1>5 DEF Goto, shared, GoesOn, Executing, Inside
<1>6. ASSUME NEW y \in Local, CompletePlan(r, y),
             me.pc \in Inside, y.aborted = me.aborted
      PROVE  EndsHere \/ GoesOn(r)
  <2> DEFINE x == [y EXCEPT !.plan = Completed(@), !.told = "plan_completed",
                            !.report = "success", !.pc = "closing"]
  <2>1. /\ x.pc = "closing"
        /\ x.aborted = me.aborted
    BY <1>6 DEF Local
  <2>2. Goto(r, x) \/ Finally(r, [me EXCEPT !.told = "threw"])
    BY <1>6 DEF CompletePlan, Attempt
  <2> HIDE DEF x
  <2> QED
    BY <1>4, <1>5, <1>6, <2>1, <2>2 DEF PCs, Inside, Executing
<1>7. ASSUME NEW y \in Local, CompleteCurrentStep(r, y),
             me.pc \in Inside, y.aborted = me.aborted
      PROVE  EndsHere \/ GoesOn(r)
  <2> DEFINE x == [y EXCEPT !.plan = StepCompleted(@, y.step), !.pc = "select"]
  <2>1. /\ x.pc = "select"
        /\ x.aborted = me.aborted
    BY <1>7 DEF Local
  <2>2. Goto(r, x) \/ Finally(r, [me EXCEPT !.told = "threw"])
    BY <1>7 DEF CompleteCurrentStep, Attempt
  <2> HIDE DEF x
  <2> QED
    BY <1>4, <1>5, <1>7, <2>1, <2>2 DEF PCs, Inside, Executing
<1>8. ASSUME NEW y \in Local, NEW n, StartChecks(r, y, n),
             me.pc \in Inside, y.aborted = me.aborted
      PROVE  GoesOn(r)
  <2> DEFINE x == [y EXCEPT !.checks = n, !.left = n, !.fails = "none",
                            !.evidence[y.step] = "none", !.pc = "checks"]
  <2>1. /\ x.pc = "checks"
        /\ x.aborted = me.aborted
    BY <1>8 DEF Local
  <2>2. Goto(r, x)
    BY <1>8 DEF StartChecks
  <2> HIDE DEF x
  <2> QED
    BY <1>5, <1>8, <2>1, <2>2 DEF PCs, Inside
<1>9. ASSUME NEW y \in Local, Recovering(r, y),
             me.pc \in Inside, y.aborted = me.aborted
      PROVE  GoesOn(r)
  <2> DEFINE a == [y EXCEPT !.attempt = @ + 1, !.pc = "correct"]
             b == [y EXCEPT !.pc = "exhausted"]
             c == [y EXCEPT !.plan = Cancelled(@), !.told = "plan_cancelled",
                            !.step = NoStep, !.pc = "closing"]
  <2>1. /\ a.pc = "correct" /\ b.pc = "exhausted" /\ c.pc = "closing"
        /\ a.aborted = me.aborted /\ b.aborted = me.aborted /\ c.aborted = me.aborted
    BY <1>9 DEF Local
  <2>2. Goto(r, a) \/ Goto(r, b) \/ Goto(r, c)
    BY <1>9 DEF Recovering
  <2> HIDE DEF a, b, c
  <2> QED
    BY <1>5, <1>9, <2>1, <2>2 DEF PCs, Inside
<1>10. CASE SkipPlanning(r) \/ FailPlanning(r) \/ GeneratePlan(r)
  <2> DEFINE a == [me EXCEPT !.pc = "loop", !.phase = "plain"]
             b == [me EXCEPT !.pc = "loop", !.phase = "plain", !.report = "failure"]
             c == [me EXCEPT !.pc = "planned"]
  <2>1. /\ a.pc = "loop" /\ b.pc = "loop" /\ c.pc = "planned"
        /\ a.aborted = me.aborted /\ b.aborted = me.aborted /\ c.aborted = me.aborted
    BY <1>1 DEF Local
  <2>2. me.pc = "begin" /\ (Goto(r, a) \/ Goto(r, b) \/ Goto(r, c))
    BY <1>10 DEF SkipPlanning, FailPlanning, GeneratePlan
  <2> HIDE DEF a, b, c, me
  <2> QED
    BY <1>5, <2>1, <2>2 DEF PCs, Inside
<1>11. CASE AdoptPlan(r)
  <2>1. /\ me.pc = "planned" /\ activePlan' = r /\ UNCHANGED <<state, active>>
        /\ \E p, q : \/ Become(r, [me EXCEPT !.plan = p, !.told = "agent_completed",
                                        !.report = "success", !.pc = "planOnly"])
                     \/ Become(r, [me EXCEPT !.plan = q, !.pc = "select"])
    BY <1>11 DEF AdoptPlan
  <2> DEFINE a(p) == [me EXCEPT !.plan = p, !.told = "agent_completed",
                                !.report = "success", !.pc = "planOnly"]
             b(q) == [me EXCEPT !.plan = q, !.pc = "select"]
  <2>2. ASSUME NEW p
        PROVE  /\ a(p).pc = "planOnly" /\ b(p).pc = "select"
               /\ a(p).aborted = me.aborted /\ b(p).aborted = me.aborted
    BY <1>1 DEF Local
  <2> HIDE DEF a, b
  <2>3. \E p : Become(r, a(p)) \/ Become(r, b(p))
    BY <2>1 DEF a, b
  <2>4. run'[r].pc \in {"planOnly", "select"} /\ run'[r].aborted = me.aborted
    BY <1>2, <2>2, <2>3
  <2> QED
    BY <2>1, <2>4 DEF GoesOn, Executing, PCs, Inside
<1>12. CASE ClosePlanOnly(r)
  <2>1. run'[r].pc = "done" /\ run'[r].aborted = me.aborted
    BY <1>1, <1>2, <1>12 DEF ClosePlanOnly, Local
  <2> QED
    BY <1>12, <2>1 DEF ClosePlanOnly, Ends, Executing, AgentState, Busy
<1>13. CASE SelectStep(r)
  <2> DEFINE s == NextExecutable(me.plan)
             x == [me EXCEPT !.plan = StepStarted(@, s), !.step = s, !.calls = 0,
                             !.phase = "step", !.pc = "loop"]
  <2>1. /\ x.pc = "loop"
        /\ x.aborted = me.aborted
    BY <1>1 DEF Local
  <2>2. me.pc = "select" /\ (Goto(r, x) \/ Finally(r, [me EXCEPT !.told = "threw"]))
    BY <1>13 DEF SelectStep, Attempt
  <2> HIDE DEF x
  <2> QED
    BY <1>4, <1>5, <2>1, <2>2 DEF PCs, Inside, Executing
<1>14. CASE EndSteps(r)
  <2> DEFINE y == [me EXCEPT !.step = NoStep, !.phase = "final"]
             a == [y EXCEPT !.plan = Cancelled(@), !.told = "plan_cancelled",
                            !.pc = "closing"]
             b == [y EXCEPT !.pc = "final"]
             c == [y EXCEPT !.evidence[NoStep] = "unchecked"]
             d == [y EXCEPT !.told = "plan_failed", !.report = "failure",
                            !.pc = "closing"]
  <2>1. y \in Local /\ y.aborted = me.aborted
    <3>1. y \in Local
      BY <1>1, SetField
    <3> QED
      BY <1>1, <3>1 DEF Local
  <2>2. /\ me.pc \in {"halted", "select"}
        /\ Goto(r, a) \/ Goto(r, b) \/ CompletePlan(r, c) \/ Goto(r, d)
    BY <1>14 DEF EndSteps, LeaveSteps
  <2> HIDE DEF y
  <2>3. /\ a.pc = "closing" /\ b.pc = "final" /\ d.pc = "closing"
        /\ a.aborted = me.aborted /\ b.aborted = me.aborted /\ d.aborted = me.aborted
    BY <2>1 DEF Local
  <2>4. c \in Local /\ c.aborted = me.aborted
    <3> DEFINE e == [y.evidence EXCEPT ![NoStep] = "unchecked"]
    <3>1. e \in [Subjects -> Evidence]
      BY <2>1 DEF Local, Evidence
    <3> HIDE DEF e
    <3>2. [y EXCEPT !.evidence = e] \in Local /\ [y EXCEPT !.evidence = e].aborted = y.aborted
      <4>1. [y EXCEPT !.evidence = e] \in Local
        BY <2>1, <3>1, SetField
      <4> QED
        BY <2>1, <4>1 DEF Local
    <3> QED
      BY <2>1, <3>2 DEF e
  <2> HIDE DEF a, b, c, d, me
  <2> QED
    BY <1>5, <1>6, <2>2, <2>3, <2>4 DEF PCs, Inside
<1>15. CASE StartTool(r)
  <2>1. run'[r].aborted = me.aborted /\ run'[r].pc = "tool" /\ me.pc = "loop" /\ state' = "waiting_for_tool"
        /\ UNCHANGED <<active, activePlan>>
    BY <1>1, <1>2, <1>15 DEF StartTool, Local
  <2> QED
    BY <1>15, <2>1 DEF GoesOn, ItemStep, Executing, Busy
<1>16. CASE EndTool(r)
  <2>1. run'[r].aborted = me.aborted /\ run'[r].pc = "loop" /\ me.pc = "tool" /\ state' = "running"
        /\ UNCHANGED <<active, activePlan>>
    BY <1>1, <1>2, <1>16 DEF EndTool, Local
  <2> QED
    BY <1>16, <2>1 DEF GoesOn, ItemStep, Executing, Busy
<1>17. CASE LoopCancelled(r)
  <2>1. /\ run'[r].pc = "closing" /\ me.pc \in {"loop", "tool"}
        /\ run'[r].aborted = me.aborted
        /\ state' \in {state, "cancelled"} /\ UNCHANGED <<active, activePlan>>
    <3> DEFINE x(p) == [me EXCEPT !.plan = p, !.told = "agent_cancelled",
                                  !.report = "cancelled", !.pc = "closing"]
    <3>1. ASSUME NEW p PROVE x(p).pc = "closing" /\ x(p).aborted = me.aborted
      BY <1>1 DEF Local
    <3> HIDE DEF x
    <3>2. \E p : Become(r, x(p))
      BY <1>17 DEF LoopCancelled, x
    <3> QED
      BY <1>2, <1>17, <3>1, <3>2 DEF LoopCancelled
  <2> QED
    BY <1>17, <2>1 DEF GoesOn, ItemStep, Executing, AgentState
<1>18. ASSUME NEW ok \in BOOLEAN, LoopEnded(r, ok) PROVE GoesOn(r)
  <2> DEFINE y == [me EXCEPT !.report = IF ok THEN "success" ELSE "failure"]
             a == [y EXCEPT !.told = IF ok THEN "agent_completed" ELSE "agent_error",
                            !.pc = "closing"]
             b == [y EXCEPT !.pc = IF ok THEN "turnOver" ELSE "turnFailed"]
  <2>0. y \in Local
    BY <1>1, SetField
  <2>1. y \in Local /\ y.pc = me.pc /\ y.aborted = me.aborted
    BY <1>1, <2>0 DEF Local
  <2>2. /\ y.pc = "loop"
        /\ \/ /\ Become(r, a) /\ state' \in {"completed", "failed"}
              /\ UNCHANGED <<active, activePlan>>
           \/ Goto(r, b)
           \/ StartChecks(r, y, y.checks)
    BY <1>18 DEF LoopEnded
  <2> HIDE DEF y
  <2>3. /\ a.pc = "closing" /\ b.pc \in {"turnOver", "turnFailed"}
        /\ a.aborted = me.aborted /\ b.aborted = me.aborted
    BY <2>1 DEF Local
  <2> HIDE DEF a, b
  <2>4. Become(r, a) => run'[r].pc = "closing" /\ run'[r].aborted = me.aborted
    BY <1>2, <2>3
  <2> HIDE DEF me
  <2>5. CASE Become(r, a) /\ state' \in {"completed", "failed"} /\ UNCHANGED <<active, activePlan>>
    BY <2>1, <2>2, <2>4, <2>5 DEF GoesOn, Executing, AgentState, Busy, Inside, PCs, me
  <2>6. CASE Goto(r, b)
    BY <1>5, <2>1, <2>2, <2>3, <2>6 DEF PCs, Inside
  <2>7. CASE StartChecks(r, y, y.checks)
    BY <1>8, <2>1, <2>2, <2>7 DEF PCs, Inside
  <2> QED
    BY <2>2, <2>5, <2>6, <2>7
<1>19. CASE FailTurn(r) \/ GiveUp(r)
  <2> DEFINE x == [me EXCEPT !.plan = StepFailed(@, me.step),
                             !.report = "failure", !.pc = "halted"]
  <2>1. /\ x.pc = "halted"
        /\ x.aborted = me.aborted
    BY <1>1 DEF Local
  <2>2. me.pc \in {"turnFailed", "exhausted"} /\ Goto(r, x)
    BY <1>19 DEF FailTurn, GiveUp
  <2> HIDE DEF x, me
  <2> QED
    BY <1>5, <2>1, <2>2 DEF PCs, Inside
<1>20. CASE ChooseChecks(r) \/ ChooseFinalChecks(r)
  <2> DEFINE e(s) == [me.evidence EXCEPT ![s] = "unchecked"]
             y(s) == [me EXCEPT !.evidence = e(s)]
  <2>1. ASSUME NEW s PROVE y(s) \in Local /\ y(s).aborted = me.aborted
    <3>1. e(s) \in [Subjects -> Evidence]
      BY <1>1 DEF Local, Evidence
    <3> HIDE DEF e
    <3>2. y(s) \in Local
      BY <1>1, <3>1, SetField
    <3> QED
      BY <1>1, <3>2 DEF Local
  <2>2. /\ me.pc \in {"turnOver", "final"}
        /\ \/ CompleteCurrentStep(r, y(me.step))
           \/ CompletePlan(r, y(NoStep))
           \/ \E n : StartChecks(r, me, n)
    BY <1>20 DEF ChooseChecks, ChooseFinalChecks
  <2> HIDE DEF y, me
  <2> QED
    BY <1>1, <1>6, <1>7, <1>8, <2>1, <2>2 DEF PCs, Inside
<1>21. CASE StartCheck(r)
  <2>1. me.pc = "checks" /\ Goto(r, [me EXCEPT !.pc = "check"])
    BY <1>21 DEF StartCheck
  <2>2. run'[r].pc = "check" /\ run'[r].aborted = me.aborted
    BY <1>1, <1>2, <2>1 DEF Goto, Local
  <2> QED
    BY <1>21, <2>1, <2>2 DEF GoesOn, ItemStep, Goto, shared, Executing
<1>22. CASE EndCheck(r)
  <2>1. me.pc = "check" /\ \E a, b, c : Goto(r, [me EXCEPT !.pc = "checks", !.left = a,
                                                 !.fails = b, !.evidence[me.step] = c])
    BY <1>1, <1>22 DEF EndCheck, Local
  <2> DEFINE x(a, b, c) == [me EXCEPT !.pc = "checks", !.left = a, !.fails = b,
                                      !.evidence[me.step] = c]
  <2>2. ASSUME NEW a, NEW b, NEW c
        PROVE  x(a, b, c).pc = "checks" /\ x(a, b, c).aborted = me.aborted
    BY <1>1 DEF Local
  <2> HIDE DEF x
  <2>3. \E a, b, c : Goto(r, x(a, b, c))
    BY <2>1 DEF x
  <2>4. run'[r].pc = "checks" /\ run'[r].aborted = me.aborted /\ UNCHANGED shared
    BY <1>2, <2>2, <2>3 DEF Goto
  <2> QED
    BY <1>22, <2>1, <2>4 DEF GoesOn, ItemStep, shared, Executing
<1>23. CASE EndChecks(r)
  <2> DEFINE v == VerificationStatus(me)
             y == [me EXCEPT !.verdict = v, !.left = 0]
             a == [y EXCEPT !.attempt = 0, !.pc = "recover"]
             b == [y EXCEPT !.pc = "verdict",
                            !.report = IF me.phase = "final" /\ v # "passed"
                                       THEN "failure" ELSE @]
  <2>1. /\ me.pc = "checks"
        /\ Goto(r, a) \/ Recovering(r, y) \/ Goto(r, b)
    BY <1>23 DEF EndChecks
  <2>2. v \in {"passed", "failed", "blocked"} /\ 0 \in 0 .. MaxChecks
    <3>1. me.aborted \in BOOLEAN /\ me.fails \in {"none", "failed", "blocked"}
      BY <1>1 DEF Local
    <3> QED
      BY <3>1, RuntimeAssumption DEF VerificationStatus
  <2> HIDE DEF v, me
  <2>3. y \in Local /\ y.aborted = me.aborted
    <3>1. y \in Local
      BY <1>1, <2>2, SetField
    <3> QED
      BY <1>1, <3>1 DEF Local, me
  <2> HIDE DEF y
  <2>4. /\ a.pc = "recover" /\ b.pc = "verdict"
        /\ a.aborted = me.aborted /\ b.aborted = me.aborted
    BY <2>3 DEF Local
  <2> HIDE DEF a, b
  <2> QED
    BY <1>5, <1>9, <2>1, <2>3, <2>4 DEF PCs, Inside
<1>24. CASE StepVerdict(r)
  <2> DEFINE x == [me EXCEPT !.plan = StepBlocked(@, me.step), !.pc = "halted"]
  <2>1. /\ x.pc = "halted"
        /\ x.aborted = me.aborted
    BY <1>1 DEF Local
  <2>2. /\ me.pc = "verdict"
        /\ \/ CompleteCurrentStep(r, me) \/ Goto(r, x)
           \/ Finally(r, [me EXCEPT !.told = "threw"])
    BY <1>24 DEF StepVerdict, Attempt
  <2> HIDE DEF x
  <2> QED
    BY <1>1, <1>4, <1>5, <1>7, <2>1, <2>2 DEF PCs, Inside, Executing
<1>25. CASE PlanVerdict(r)
  <2> DEFINE x == [me EXCEPT !.plan = Failed(@), !.told = "plan_failed",
                             !.report = "failure", !.pc = "closing"]
  <2>1. /\ x.pc = "closing"
        /\ x.aborted = me.aborted
    BY <1>1 DEF Local
  <2>2. me.pc = "verdict" /\ (CompletePlan(r, me) \/ Goto(r, x))
    BY <1>25 DEF PlanVerdict
  <2> HIDE DEF x, me
  <2> QED
    BY <1>1, <1>5, <1>6, <2>1, <2>2 DEF PCs, Inside
<1>26. CASE Recover(r)
  <2>1. me.pc = "recover" /\ Recovering(r, me)
    BY <1>26 DEF Recover
  <2> HIDE DEF me
  <2> QED
    BY <1>1, <1>9, <2>1 DEF PCs, Inside
<1>27. CASE Correct(r)
  <2> DEFINE x == [me EXCEPT !.phase = "correction", !.calls = 0, !.pc = "loop"]
  <2>1. /\ x.pc = "loop"
        /\ x.aborted = me.aborted
    BY <1>1 DEF Local
  <2>2. me.pc = "correct" /\ Goto(r, x)
    BY <1>27 DEF Correct
  <2> HIDE DEF x, me
  <2> QED
    BY <1>5, <2>1, <2>2 DEF PCs, Inside
<1>28. CASE Close(r)
  BY <1>1, <1>3, <1>28 DEF Close, Executing
<1> QED
  BY <1>10, <1>11, <1>12, <1>13, <1>14, <1>15, <1>16, <1>17, <1>18, <1>19, <1>20,
     <1>21, <1>22, <1>23, <1>24, <1>25, <1>26, <1>27, <1>28 DEF RunStep

\* The caller's steps.
LEMMA CallerShape ==
  ASSUME run \in [Runs -> Local], state \in AgentState, NEW r \in Runs, CallerStep(r)
  PROVE  \/ RunStream(r) /\ run'[r].pc = "begin"
         \/ ExternalAbort(r) /\ run'[r].pc = run[r].pc
         \/ Ends(r)
<1>1. run[r] \in Local
  OBVIOUS
<1>2. CASE RunStream(r)
  <2>1. PICK v \in BOOLEAN, a \in BOOLEAN :
          Become(r, [run[r] EXCEPT !.pc = "begin", !.verify = v, !.aborted = a])
    BY <1>2 DEF RunStream
  <2>2. run'[r] = [run[r] EXCEPT !.pc = "begin", !.verify = v, !.aborted = a]
    BY <2>1 DEF Become
  <2> QED
    BY <1>1, <1>2, <2>2 DEF Local
<1>3. CASE ExternalAbort(r)
  <2>1. run'[r] = [run[r] EXCEPT !.aborted = TRUE]
    BY <1>3 DEF ExternalAbort, Goto, Become
  <2> QED
    BY <1>1, <1>3, <2>1 DEF Local
<1>4. CASE Abandon(r)
  <2> DEFINE y == [run[r] EXCEPT !.told = "abandoned"]
             x == [y EXCEPT !.pc = "done"]
  <2>1. x.pc = "done" /\ x.aborted = run[r].aborted
    BY <1>1 DEF Local
  <2>2. run'[r] = x
    BY <1>4 DEF Abandon, Finally, Become
  <2> HIDE DEF x
  <2>3. run'[r].pc = "done" /\ run'[r].aborted = run[r].aborted
    BY <2>1, <2>2
  <2> QED
    BY <1>4, <2>3 DEF Abandon, Finally, Ends, AgentState, Busy
<1> QED
  BY <1>2, <1>3, <1>4 DEF CallerStep

\* No action but Cancel touches another run.
LEMMA StepMoves ==
  ASSUME IInv, NEW r \in Runs, RunStep(r) \/ CallerStep(r)
  PROVE  Moves(r)
<1>1. ASSUME RunStep(r) PROVE Moves(r)
  BY <1>1, PlanningMoves, SelectMoves, EndStepsMoves, LoopMoves, ChooseMoves,
     CheckMoves, EndChecksMoves, VerdictMoves DEF RunStep
<1> QED
  BY <1>1, CallerMoves

LEMMA NextInv ==
  ASSUME IInv, [Next]_vars
  PROVE  IInv' /\ \A r \in Runs : Quiet(run[r], run'[r])
<1>0. /\ run \in [Runs -> Local] /\ Shared /\ state \in AgentState
      /\ \A r \in Runs : RunInv(run[r])
  BY DEF IInv, Shared
<1>1. ASSUME NEW me, RunInv(me) PROVE Quiet(me, me)
  BY <1>1, RuntimeAssumption DEF Quiet, RunInv, Local
<1>2. ASSUME run' \in [Runs -> Local],
             \A r \in Runs : RunInv(run'[r]) /\ (run[r].plan # NoPlan => run'[r].plan # NoPlan),
             state' \in AgentState, active' \in Runs \cup {NoRun},
             \/ activePlan' = activePlan
             \/ activePlan' \in Runs /\ run'[activePlan'].plan # NoPlan
      PROVE  IInv'
  <2>1. Shared'
    BY <1>0, <1>2, RuntimeAssumption DEF Shared, HasPlan
  <2>2. \A r \in Runs : RunInv(run[r])'
    BY <1>2
  <2> QED
    BY <1>2, <2>1, <2>2 DEF IInv
<1>3. CASE UNCHANGED vars
  BY <1>0, <1>1, <1>2, <1>3 DEF vars, Shared, HasPlan
<1>4. CASE Cancel
  <2>1. \A r \in Runs : Legal(run[r], run'[r])
    BY <1>4, CancelMoves
  <2>2. run' \in [Runs -> Local]
    BY <1>4, <2>1 DEF Cancel, Legal, RunInv
  <2>3. state' \in AgentState /\ active' = active /\ activePlan' = activePlan
    BY <1>0, <1>4 DEF Cancel, AgentState
  <2>4. IInv'
    BY <1>0, <1>2, <2>1, <2>2, <2>3 DEF Shared, Legal
  <2> QED
    BY <2>1, <2>4 DEF Legal
<1>5. ASSUME NEW r \in Runs, RunStep(r) \/ CallerStep(r)
      PROVE  IInv' /\ \A q \in Runs : Quiet(run[q], run'[q])
  <2>1. PICK x : run' = [run EXCEPT ![r] = x] /\ Legal(run[r], x)
    BY <1>5, StepMoves DEF Moves
  <2>2. run'[r] = x /\ \A q \in Runs : q # r => run'[q] = run[q]
    BY <1>0, <2>1
  <2>3. \A q \in Runs : Quiet(run[q], run'[q]) /\ RunInv(run'[q])
                          /\ (run[q].plan # NoPlan => run'[q].plan # NoPlan)
    BY <1>0, <1>1, <2>1, <2>2 DEF Legal
  <2>4. run' \in [Runs -> Local]
    BY <1>0, <2>1 DEF Legal, RunInv
  <2>5. /\ state' \in AgentState /\ active' \in Runs \cup {NoRun}
        /\ \/ activePlan' = activePlan
           \/ activePlan' = r /\ run'[r].pc \in {"planOnly", "select"}
    <3>1. CASE RunStep(r)
      BY <1>0, <3>1, StepShape DEF Ends, GoesOn, Shared, AgentState, Busy
    <3>2. CASE CallerStep(r)
      BY <1>0, <3>2, CallerShape DEF Ends, Shared, AgentState, RunStream, ExternalAbort,
         Goto, shared
    <3> QED
      BY <1>5, <3>1, <3>2
  <2>6. run'[r].pc \in {"planOnly", "select"} => run'[r].plan # NoPlan
    BY <2>3, PlanThere DEF RunInv, Planned
  <2> QED
    BY <1>2, <2>3, <2>4, <2>5, <2>6
<1> QED
  BY <1>3, <1>4, <1>5 DEF Next

----------------------------------------------------------------------------
(* The theorems *)

THEOREM Invariance == Spec => []IInv
BY InitInv, NextInv, PTL DEF Spec

\* The fields keep their types: no loop exceeds its tool call budget, no step
\* its recovery attempts, no plan record its shape.
THEOREM TypeCorrect == Spec => []TypeOK
<1>1. IInv => TypeOK
  BY DEF IInv, Shared, TypeOK
<1> QED
  BY <1>1, Invariance, PTL

\* Whatever a run meets on its way, its steps leave `pending` in dependency
\* order.
THEOREM DependencyOrder == Spec => []StepsInDependencyOrder
<1>1. IInv => StepsInDependencyOrder
  <2> SUFFICES ASSUME IInv, NEW r \in Runs, HasPlan(r), NEW s \in Ids(run[r].plan),
                      run[r].plan.step[s] # "pending", NEW d \in run[r].plan.deps[s]
               PROVE  run[r].plan.step[d] = "completed"
    BY DEF StepsInDependencyOrder
  <2> DEFINE p == run[r].plan
  <2>1. PlanInv(p, run[r].evidence)
    BY RunFacts DEF HasPlan, Planned
  <2> HIDE DEF p
  <2>2. s \in StepIds /\ p.step[s] \in StepStatus \ {"pending"}
    BY <2>1 DEF PlanInv, Sound, WellFormed, Plan, Ids, p
  <2>3. s \in Trouble(p) \cup WithStatus(p, {"completed"})
    BY <2>1, <2>2 DEF PlanInv, InOrder, Trouble, WithStatus, StepStatus
  <2> QED
    BY <2>1, <2>3 DEF PlanInv, InOrder, p
<1> QED
  BY <1>1, Invariance, PTL

\* A plan stops at its first trouble.
THEOREM FirstTrouble == Spec => []StopsAtFirstTrouble
<1>1. IInv => StopsAtFirstTrouble
  BY RunFacts DEF StopsAtFirstTrouble, HasPlan, Planned, PlanInv, OneTrouble, Trouble
<1> QED
  BY <1>1, Invariance, PTL

\* Nothing counts as done but on evidence gathered after the last change.
THEOREM DoneOnEvidence == Spec => []CompletedOnEvidence
<1>1. IInv => CompletedOnEvidence
  BY RunFacts DEF CompletedOnEvidence, HasPlan, Planned, PlanInv, Evident, Good
<1> QED
  BY <1>1, Invariance, PTL

\* Once aborted, a run starts no step, tool call, check or correction.
THEOREM AbortStops == Spec => AbortStopsWork
<1>1. IInv /\ [Next]_vars =>
        [\A r \in Runs : run[r].aborted =>
           /\ run'[r].calls <= run[r].calls
           /\ run'[r].attempt <= run[r].attempt
           /\ run'[r].pc = "check" => run[r].pc = "check"
           /\ HasPlan(r) => WithStatus(run'[r].plan, {"in_progress"})
                              \subseteq WithStatus(run[r].plan, {"in_progress"})]_vars
  BY NextInv DEF Quiet, HasPlan
<1> QED
  BY <1>1, Invariance, PTL DEF Spec, AbortStopsWork

\* The runtime is free whenever no run executes, also when runs overlap.
THEOREM LockIsReleased == Spec => []LockReleased
<1> DEFINE J == IInv /\ LockReleased
<1>1. Init => LockReleased
  BY DEF Init, LockReleased, Busy
<1>2. IInv /\ LockReleased /\ [Next]_vars => LockReleased'
  <2> SUFFICES ASSUME IInv, LockReleased, [Next]_vars, \A r \in Runs : ~Executing(r)'
               PROVE  state' \notin Busy /\ active' = NoRun
    BY DEF LockReleased
  <2>0. run \in [Runs -> Local] /\ state \in AgentState
    BY DEF IInv, Shared
  <2>1. CASE UNCHANGED vars
    BY <2>1 DEF vars, LockReleased, Executing
  <2>2. CASE Cancel
    <3>1. \A r \in Runs : run'[r].pc = run[r].pc
      BY <2>2, CancelMoves
    <3>2. state \notin Busy /\ active = NoRun
      BY <3>1 DEF LockReleased, Executing
    <3> QED
      BY <2>2, <3>2 DEF Cancel
  <2>3. ASSUME NEW r \in Runs, RunStep(r)
        PROVE  state' \notin Busy /\ active' = NoRun
    BY <2>0, <2>3, StepShape DEF Ends, GoesOn
  <2>4. ASSUME NEW r \in Runs, CallerStep(r)
        PROVE  state' \notin Busy /\ active' = NoRun
    <3>1. ~(RunStream(r) /\ run'[r].pc = "begin")
      BY DEF Executing
    <3>2. ~(ExternalAbort(r) /\ run'[r].pc = run[r].pc)
      BY DEF Executing, ExternalAbort
    <3> QED
      BY <2>0, <2>4, <3>1, <3>2, CallerShape DEF Ends
  <2> QED
    BY <2>1, <2>2, <2>3, <2>4 DEF Next
<1> QED
  BY <1>1, <1>2, Invariance, PTL DEF Spec

\* Where no one calls cancel() and every stream is drained before the next
\* call, the lock excludes: a run that executes owns the runtime.
Owned ==
  \A r \in Runs : Executing(r) =>
    active = r /\ (state \in Busy \/ run[r].pc \in {"closing", "planOnly"})

LEMMA Ownership ==
  ASSUME ~CancelCalls, PromptConsumers
  PROVE  Spec => []Owned
<1>1. Init => Owned
  BY DEF Init, Owned, Executing, Fresh
<1>2. IInv /\ Owned /\ [Next]_vars => Owned'
  <2> SUFFICES ASSUME IInv, Owned, [Next]_vars, NEW q \in Runs, Executing(q)'
               PROVE  active' = q /\ (state' \in Busy \/ run'[q].pc \in {"closing", "planOnly"})
    BY DEF Owned
  <2>0. run \in [Runs -> Local] /\ state \in AgentState /\ run[q] \in Local
    BY DEF IInv, Shared
  <2>1. CASE UNCHANGED vars
    BY <2>1 DEF vars, Owned, Executing
  <2>2. ~Cancel
    BY DEF Cancel
  <2>3. ASSUME NEW r \in Runs, RunStep(r) \/ CallerStep(r), r # q
        PROVE  run'[q] = run[q] /\ Executing(q)
    <3>1. run'[q] = run[q]
      BY <2>0, <2>3, StepMoves DEF Moves
    <3> QED
      BY <3>1 DEF Executing
  <2>4. ASSUME NEW r \in Runs, RunStep(r)
        PROVE  active' = q /\ (state' \in Busy \/ run'[q].pc \in {"closing", "planOnly"})
    <3>1. Executing(r) /\ active = r
      BY <2>0, <2>4, StepShape DEF Ends, GoesOn, Owned
    <3>2. r = q
      BY <2>3, <2>4, <3>1 DEF Owned
    <3>3. GoesOn(q)
      BY <2>0, <2>4, <3>2, StepShape DEF Ends, Executing
    <3> QED
      BY <3>1, <3>2, <3>3 DEF GoesOn, Owned
  <2>5. ASSUME NEW r \in Runs, CallerStep(r)
        PROVE  active' = q /\ (state' \in Busy \/ run'[q].pc \in {"closing", "planOnly"})
    <3>1. CASE RunStream(r) /\ run'[r].pc = "begin"
      <4>1. ~Executing(q)
        BY <3>1 DEF RunStream, Owned
      <4>2. r = q
        BY <2>3, <2>5, <4>1
      <4> QED
        BY <3>1, <4>2 DEF RunStream, Busy
    <3>2. CASE ExternalAbort(r) /\ run'[r].pc = run[r].pc
      <4>1. run'[q].pc = run[q].pc
        BY <2>3, <2>5, <3>2
      <4> QED
        BY <3>2, <4>1 DEF ExternalAbort, Goto, shared, Owned, Executing
    <3>3. CASE Ends(r)
      <4>1. r # q
        BY <3>3 DEF Ends, Executing
      <4>2. Executing(q) /\ Executing(r)
        BY <2>3, <2>5, <3>3, <4>1 DEF Ends
      <4> QED
        BY <4>1, <4>2 DEF Owned
    <3> QED
      BY <2>0, <2>5, <3>1, <3>2, <3>3, CallerShape
  <2> QED
    BY <2>1, <2>2, <2>4, <2>5 DEF Next
<1> QED
  BY <1>1, <1>2, Invariance, PTL DEF Spec

\* The concurrency lock of runStream then excludes a second run.
THEOREM LockExcludes ==
  ASSUME ~CancelCalls, PromptConsumers
  PROVE  Spec => []MutualExclusion
<1>1. Owned => MutualExclusion
  BY DEF Owned, MutualExclusion
<1> QED
  BY <1>1, Ownership, PTL

\* And a cancel() would reach the run that executes.
THEOREM ControllerReaches ==
  ASSUME ~CancelCalls, PromptConsumers
  PROVE  Spec => []CancelReachesRun
<1>1. Owned => CancelReachesRun
  BY DEF Owned, CancelReachesRun
<1> QED
  BY <1>1, Ownership, PTL

----------------------------------------------------------------------------
(* AgentRuntime implements RuntimeContract *)

View(p, c, d) == [pc |-> p, cancelled |-> c, doing |-> d]

Resting == <<"idle", 0>>

\* What is seen of a run at each group of points.
LEMMA SeenAs ==
  \A x :
    /\ x.pc \in {"new", "done"} => Seen(x) = View(x.pc, x.aborted, Resting)
    /\ x.pc \in {"closing", "planOnly"} => Seen(x) = View("last", x.aborted, Resting)
    /\ x.pc \in Inside => Seen(x) = View("open", x.aborted, Resting)
    /\ x.pc = "tool" => Seen(x) = View("open", x.aborted, <<"tool", x.calls>>)
    /\ x.pc = "check" => Seen(x) = View("open", x.aborted, <<"check", x.left>>)
BY DEF Seen, View, Resting, Inside

LEMMA SeenOpen ==
  ASSUME NEW x, x.pc \in Inside \cup {"closing", "planOnly", "tool", "check"}
  PROVE  \E p \in {"open", "last"} : \E d :
           \A y : y.pc = x.pc /\ y.calls = x.calls /\ y.left = x.left =>
             Seen(y) = View(p, y.aborted, d)
<1>1. CASE x.pc \in Inside
  <2>1. \A y : y.pc = x.pc => Seen(y) = View("open", y.aborted, Resting)
    BY <1>1, SeenAs
  <2> QED
    BY <2>1
<1>2. CASE x.pc \in {"closing", "planOnly"}
  <2>1. \A y : y.pc = x.pc => Seen(y) = View("last", y.aborted, Resting)
    BY <1>2, SeenAs
  <2> QED
    BY <2>1
<1>3. CASE x.pc = "tool"
  <2>1. \A y : y.pc = x.pc /\ y.calls = x.calls =>
          Seen(y) = View("open", y.aborted, <<"tool", x.calls>>)
    BY <1>3, SeenAs
  <2> QED
    BY <2>1
<1>4. CASE x.pc = "check"
  <2>1. \A y : y.pc = x.pc /\ y.left = x.left =>
          Seen(y) = View("open", y.aborted, <<"check", x.left>>)
    BY <1>4, SeenAs
  <2> QED
    BY <2>1
<1> QED
  BY <1>1, <1>2, <1>3, <1>4

\* A step of one run changes what is seen of this run.
LEMMA ViewsMove ==
  ASSUME IInv, NEW r \in Runs, RunStep(r) \/ CallerStep(r)
  PROVE  /\ views[r] = Seen(run[r]) /\ views' = [views EXCEPT ![r] = Seen(run'[r])]
         /\ run[r] \in Local /\ run'[r] \in Local
         /\ views = [views EXCEPT ![r] = Seen(run[r])]
<1>1. PICK x : run' = [run EXCEPT ![r] = x] /\ Legal(run[r], x)
  BY StepMoves DEF Moves
<1>2. run \in [Runs -> Local] /\ run'[r] = x
  BY <1>1 DEF IInv
<1> QED
  BY <1>1, <1>2 DEF views, Legal, RunInv

\* A last event leaves the runtime as busy as it was, or not busy.
LEMMA StillBusy ==
  ASSUME state' = state \/ state' \notin Busy
  PROVE  isBusy' \in {isBusy, FALSE}
<1>1. CASE state' = state
  <2>1. isBusy' = isBusy
    BY <1>1 DEF isBusy
  <2> QED
    BY <2>1
<1>2. CASE state' \notin Busy
  <2>1. isBusy' = FALSE
    BY <1>2 DEF isBusy, Busy
  <2> QED
    BY <2>1
<1> QED
  BY <1>1, <1>2

\* The five steps that begin or end a tool call or a check.
LEMMA ItemContract ==
  ASSUME IInv, NEW r \in Runs, ItemStep(r), GoesOn(r)
  PROVE  Contract!Step(r)
<1> DEFINE me == run[r]
           x  == run'[r]
<1>0. RunStep(r)
  BY DEF ItemStep, RunStep
<1>1. /\ views[r] = Seen(me) /\ views' = [views EXCEPT ![r] = Seen(x)]
      /\ me \in Local /\ x \in Local
  BY <1>0, ViewsMove
<1>2. /\ active' = active /\ x.aborted = me.aborted
      /\ run' = [run EXCEPT ![r] = x] /\ run \in [Runs -> Local]
  BY <1>0, StepMoves DEF GoesOn, Moves, IInv
<1>3. me.aborted \in BOOLEAN /\ x.calls \in 0 .. MaxToolCalls /\ x.left \in 0 .. MaxChecks
  BY <1>1 DEF Local
<1>4. \A n \in 0 .. MaxToolCalls \cup 0 .. MaxChecks : n \in 0 .. MaxToolCalls + MaxChecks
  BY RuntimeAssumption
<1>5. CASE StartTool(r) /\ x.pc = "tool"
  <2>1. me.pc = "loop" /\ x.pc = "tool" /\ ~me.aborted /\ state' = "waiting_for_tool"
    BY <1>5 DEF StartTool
  <2> HIDE DEF me, x
  <2>2. views[r] = View("open", FALSE, Resting)
        /\ Seen(x) = View("open", FALSE, <<"tool", x.calls>>)
    BY <1>1, <1>2, <1>3, <2>1, SeenAs DEF Inside, PCs
  <2>3. Contract!StartTool(r, x.calls)
    BY <1>1, <1>2, <2>1, <2>2
       DEF Contract!StartTool, Contract!Goes, Contract!Becomes, Contract!Idle, View, Resting,
           isBusy, Busy
  <2> QED
    BY <1>3, <1>4, <2>3 DEF Contract!Step
<1>6. CASE EndTool(r) /\ x.pc = "loop"
  <2>1. me.pc = "tool" /\ x.pc = "loop" /\ ~me.aborted /\ state' = "running"
    BY <1>6 DEF EndTool
  <2> HIDE DEF me, x
  <2>2. views[r] = View("open", FALSE, <<"tool", me.calls>>)
        /\ Seen(x) = View("open", FALSE, Resting)
    BY <1>1, <1>2, <1>3, <2>1, SeenAs DEF Inside, PCs
  <2>3. /\ views[r].pc = "open" /\ views[r].doing = <<"tool", me.calls>>
        /\ ~views[r].cancelled
        /\ Contract!Becomes(r, "open", views[r].cancelled, Resting)
    BY <1>1, <2>2 DEF View, Contract!Becomes
  <2>4. Contract!EndItem(r)
    BY <1>2, <2>1, <2>3 DEF Contract!EndItem, Contract!Idle, Resting, isBusy, Busy
  <2> QED
    BY <2>4 DEF Contract!Step
<1>7. CASE LoopCancelled(r) /\ x.pc = "closing"
  <2>1. /\ me.pc \in {"loop", "tool"} /\ x.pc = "closing" /\ me.aborted
        /\ state' = state \/ state' \notin Busy
    BY <1>7 DEF LoopCancelled, Busy
  <2> HIDE DEF me, x
  <2>2. PICK d \in {Resting, <<"tool", me.calls>>} :
          views[r] = View("open", TRUE, d) /\ Seen(x) = View("last", TRUE, Resting)
    BY <1>1, <1>2, <1>3, <2>1, SeenAs DEF Inside, PCs
  <2>3. /\ views[r].pc = "open" /\ views[r].cancelled
        /\ views[r].doing = Resting \/ views[r].doing[1] = "tool"
        /\ Contract!Becomes(r, "last", views[r].cancelled, Resting)
    BY <1>1, <2>2 DEF View, Contract!Becomes
  <2>4. isBusy' \in {isBusy, FALSE}
    BY <2>1, StillBusy
  <2>5. Contract!LastEvent(r)
    BY <1>2, <2>3, <2>4 DEF Contract!LastEvent, Contract!MayEnd, Contract!Idle, Resting
  <2> QED
    BY <2>5 DEF Contract!Step
<1>8. CASE StartCheck(r) /\ x.pc = "check"
  <2>1. me.pc = "checks" /\ x.pc = "check" /\ ~me.aborted /\ state' = state
    BY <1>8 DEF StartCheck, Goto, shared
  <2> HIDE DEF me, x
  <2>2. views[r] = View("open", FALSE, Resting)
        /\ Seen(x) = View("open", FALSE, <<"check", x.left>>)
    BY <1>1, <1>2, <1>3, <2>1, SeenAs DEF Inside, PCs
  <2>3. Contract!StartCheck(r, x.left)
    BY <1>1, <1>2, <2>1, <2>2
       DEF Contract!StartCheck, Contract!Goes, Contract!Becomes, Contract!Idle, View, Resting,
           isBusy
  <2> QED
    BY <1>3, <1>4, <2>3 DEF Contract!Step
<1>9. CASE EndCheck(r) /\ x.pc = "checks"
  <2>1. me.pc = "check" /\ x.pc = "checks" /\ state' = state
    BY <1>9 DEF EndCheck, Goto, shared
  <2> HIDE DEF me, x
  <2>2. views[r] = View("open", me.aborted, <<"check", me.left>>)
        /\ Seen(x) = View("open", me.aborted, Resting)
    BY <1>1, <1>2, <2>1, SeenAs DEF Inside, PCs
  <2>3. /\ views[r].pc = "open" /\ views[r].doing = <<"check", me.left>>
        /\ Contract!Becomes(r, "open", views[r].cancelled, Resting)
    BY <1>1, <2>2 DEF View, Contract!Becomes
  <2>4. Contract!EndItem(r)
    BY <1>2, <2>1, <2>3 DEF Contract!EndItem, Contract!Idle, Resting, isBusy
  <2> QED
    BY <2>4 DEF Contract!Step
<1> QED
  BY <1>5, <1>6, <1>7, <1>8, <1>9 DEF ItemStep

\* Every other step of a run: it is over, nothing is seen of it, or it is the
\* last event.
LEMMA RunContract ==
  ASSUME IInv, NEW r \in Runs, RunStep(r)
  PROVE  Contract!Step(r) \/ UNCHANGED <<isBusy, active, views>>
<1> DEFINE me == run[r]
           x  == run'[r]
<1>1. /\ views[r] = Seen(me) /\ views' = [views EXCEPT ![r] = Seen(x)]
      /\ me \in Local /\ x \in Local /\ views = [views EXCEPT ![r] = Seen(me)]
  BY ViewsMove
<1>2. (Ends(r) /\ me.pc \notin {"tool", "check"}) \/ GoesOn(r)
  BY StepShape DEF IInv, Shared
<1>3. CASE Ends(r) /\ me.pc \notin {"tool", "check"}
  <2>1. /\ me.pc \in Inside \cup {"closing", "planOnly"} /\ x.pc = "done"
        /\ x.aborted = me.aborted /\ ~isBusy' /\ active' = NoRun
    BY <1>1, <1>3 DEF Ends, Executing, isBusy, Inside, Local
  <2> HIDE DEF me, x
  <2>2. PICK p \in {"open", "last"} :
          views[r] = View(p, me.aborted, Resting) /\ Seen(x) = View("done", me.aborted, Resting)
    BY <1>1, <2>1, SeenAs
  <2>3. /\ views[r].pc \in {"open", "last"} /\ views[r].doing = Resting
        /\ Contract!Becomes(r, "done", views[r].cancelled, Resting)
    BY <1>1, <2>2 DEF View, Contract!Becomes
  <2>4. Contract!End(r)
    BY <2>1, <2>3 DEF Contract!End, Contract!Free, Contract!MayEnd, Contract!Idle, Resting, isBusy
  <2> QED
    BY <2>4 DEF Contract!Step
<1>4. CASE GoesOn(r) /\ ItemStep(r)
  BY <1>4, ItemContract
<1>5. CASE GoesOn(r) /\ ~ItemStep(r)
  <2>1. /\ me.pc \in Inside /\ x.pc \in Inside \cup {"closing", "planOnly"}
        /\ x.aborted = me.aborted /\ active' = active
        /\ state' = state \/ (state' \notin Busy /\ x.pc = "closing")
    BY <1>5 DEF GoesOn
  <2> HIDE DEF me, x
  <2>2. CASE x.pc \in Inside
    <3>1. Seen(x) = Seen(me)
      BY <2>1, <2>2, SeenAs
    <3>2. state' = state
      BY <2>1, <2>2 DEF Inside
    <3> QED
      BY <1>1, <2>1, <3>1, <3>2 DEF isBusy
  <2>3. CASE x.pc \in {"closing", "planOnly"}
    <3>1. views[r] = View("open", me.aborted, Resting)
          /\ Seen(x) = View("last", me.aborted, Resting)
      BY <1>1, <2>1, <2>3, SeenAs
    <3>2. /\ views[r].pc = "open" /\ views[r].doing = Resting
          /\ Contract!Becomes(r, "last", views[r].cancelled, Resting)
      BY <1>1, <3>1 DEF View, Contract!Becomes
    <3>3. isBusy' \in {isBusy, FALSE}
      BY <2>1, StillBusy
    <3>4. Contract!LastEvent(r)
      BY <2>1, <3>2, <3>3 DEF Contract!LastEvent, Contract!MayEnd, Contract!Idle, Resting
    <3> QED
      BY <3>4 DEF Contract!Step
  <2> QED
    BY <2>1, <2>2, <2>3
<1> QED
  BY <1>2, <1>3, <1>4, <1>5

LEMMA CallerContract ==
  ASSUME IInv, NEW r \in Runs, CallerStep(r)
  PROVE  Contract!Step(r)
<1> DEFINE me == run[r]
           x  == run'[r]
<1>1. /\ views[r] = Seen(me) /\ views' = [views EXCEPT ![r] = Seen(x)]
      /\ me \in Local /\ x \in Local
  BY ViewsMove
<1>2. \A y : Become(r, y) => x = y
  BY DEF Become, IInv
<1>3. CASE RunStream(r)
  <2>1. PICK v \in BOOLEAN, a \in BOOLEAN :
          Become(r, [me EXCEPT !.pc = "begin", !.verify = v, !.aborted = a])
    BY <1>3 DEF RunStream
  <2>2. x = [me EXCEPT !.pc = "begin", !.verify = v, !.aborted = a]
    BY <1>2, <2>1
  <2>3. /\ x.pc = "begin" /\ x.aborted = a /\ me.pc = "new"
        /\ ~isBusy /\ isBusy' /\ active' = r
    BY <1>1, <1>3, <2>2 DEF RunStream, Local, isBusy, Busy
  <2> HIDE DEF me, x
  <2>4. /\ views[r] = View("new", me.aborted, Resting)
        /\ Seen(x) = View("open", a, Resting)
    BY <1>1, <2>3, SeenAs DEF Inside, PCs
  <2>5. views[r].pc = "new" /\ Contract!Becomes(r, "open", a, Resting)
    BY <1>1, <2>4 DEF View, Contract!Becomes
  <2>6. Contract!Submit(r, a)
    BY <2>3, <2>5 DEF Contract!Submit, Contract!Idle, Resting
  <2> QED
    BY <2>6 DEF Contract!Step
<1>4. CASE ExternalAbort(r)
  <2>1. x = [me EXCEPT !.aborted = TRUE] /\ UNCHANGED <<isBusy, active>>
        /\ me.pc \notin {"new", "done"}
    BY <1>2, <1>4 DEF ExternalAbort, Goto, shared, isBusy, Executing
  <2>2. /\ x.pc = me.pc /\ x.aborted /\ x.calls = me.calls /\ x.left = me.left
        /\ me.pc \in Inside \cup {"closing", "planOnly", "tool", "check"}
        /\ me.aborted \in BOOLEAN
    BY <1>1, <2>1 DEF Local, Inside
  <2> HIDE DEF me, x
  <2>3. PICK p \in {"open", "last"} : \E d :
          views[r] = View(p, me.aborted, d) /\ Seen(x) = View(p, x.aborted, d)
    BY <1>1, <2>2, SeenOpen
  <2>4. /\ views[r].pc \in {"open", "last"}
        /\ Contract!Becomes(r, views[r].pc, TRUE, views[r].doing)
    BY <1>1, <2>2, <2>3 DEF View, Contract!Becomes
  <2>5. Contract!Abort(r)
    BY <2>1, <2>4 DEF Contract!Abort
  <2> QED
    BY <2>5 DEF Contract!Step
<1>5. CASE Ends(r)
  <2>1. /\ me.pc \in Inside \cup {"closing", "planOnly", "tool", "check"} /\ x.pc = "done"
        /\ x.aborted = me.aborted /\ ~isBusy' /\ active' = NoRun
    BY <1>1, <1>5 DEF Ends, Executing, isBusy, Inside, Local
  <2> HIDE DEF me, x
  <2>2. Seen(x) = View("done", me.aborted, Resting)
    BY <2>1, SeenAs
  <2>5. PICK p \in {"open", "last"} : \E d : views[r] = View(p, me.aborted, d)
    BY <1>1, <2>1, SeenOpen
  <2>3. /\ views[r].pc \in {"open", "last"}
        /\ Contract!Becomes(r, "done", views[r].cancelled, Resting)
    BY <1>1, <2>2, <2>5 DEF View, Contract!Becomes
  <2>4. Contract!Abandon(r)
    BY <2>1, <2>3 DEF Contract!Abandon, Contract!Free, Contract!Idle, Resting, isBusy
  <2> QED
    BY <2>4 DEF Contract!Step
<1> QED
  BY <1>3, <1>4, <1>5, CallerShape DEF IInv, Shared

\* cancel() is seen as an abort of the run whose controller the runtime holds.
LEMMA CancelContract ==
  ASSUME IInv, Cancel
  PROVE  Contract!Cancel
<1>1. ASSUME NEW r \in Runs
      PROVE  views'[r] = [views[r] EXCEPT !.cancelled = @ \/ r = active]
  <2> DEFINE me == run[r]
             x  == run'[r]
             b  == me.aborted \/ r = active
  <2>1. me \in Local
    BY DEF IInv
  <2>2. \E p : x = [me EXCEPT !.plan = p, !.aborted = b]
    <3>1. x = [me EXCEPT !.plan = IF r = activePlan THEN Cancelled(@) ELSE @,
                         !.aborted = @ \/ r = active]
      BY DEF Cancel
    <3> HIDE DEF me
    <3> QED
      BY <2>1, <3>1 DEF Local
  <2> HIDE DEF b
  <2>3. x.pc = me.pc /\ x.aborted = b /\ x.calls = me.calls /\ x.left = me.left
    BY <2>1, <2>2 DEF Local
  <2>4. me.pc \in Inside \cup {"new", "done", "closing", "planOnly", "tool", "check"}
    BY <2>1 DEF Local, Inside
  <2>5. views[r] = Seen(me) /\ views'[r] = Seen(x)
    BY DEF views
  <2> HIDE DEF me, x
  <2>6. PICK p, d : views[r] = View(p, me.aborted, d) /\ views'[r] = View(p, b, d)
    BY <2>3, <2>4, <2>5, SeenAs
  <2> QED
    BY <2>6 DEF View, b
<1>2. views' = [r \in Runs |-> [views[r] EXCEPT !.cancelled = @ \/ r = active]]
  BY <1>1 DEF views
<1>3. active' = active /\ (active = NoRun => state' = state) /\ (active # NoRun => ~isBusy')
  BY DEF Cancel, isBusy, Busy
<1>4. isBusy' = (isBusy /\ active = NoRun)
  BY <1>3 DEF isBusy
<1> QED
  BY <1>2, <1>3, <1>4 DEF Contract!Cancel

\* Whatever happens inside of runs, however they overlap, and whoever cancels,
\* aborts or leaves them, callers see a behaviour of RuntimeContract: so what
\* Session shows of a session holds of the runtime as it is.
THEOREM ImplementsContract == Spec => KeepsContract
<1>1. Init => Contract!Init
  BY DEF Init, Contract!Init, Contract!Idle, views, isBusy, Busy, Seen, Fresh
<1>2. IInv /\ [Next]_vars => [Contract!Next]_<<isBusy, active, views>>
  <2> SUFFICES ASSUME IInv, [Next]_vars
               PROVE  Contract!Next \/ UNCHANGED <<isBusy, active, views>>
    OBVIOUS
  <2>1. CASE UNCHANGED vars
    BY <2>1 DEF vars, isBusy, views
  <2>2. CASE Cancel
    BY <2>2, CancelContract DEF Contract!Next
  <2>3. ASSUME NEW r \in Runs, RunStep(r) \/ CallerStep(r)
        PROVE  Contract!Next \/ UNCHANGED <<isBusy, active, views>>
    BY <2>3, RunContract, CallerContract DEF Contract!Next
  <2> QED
    BY <2>1, <2>2, <2>3 DEF Next
<1> QED
  BY <1>1, <1>2, Invariance, PTL DEF Spec, KeepsContract, Contract!Spec, Contract!rcVars

----------------------------------------------------------------------------
(***************************************************************************)
(* What is told of a plan: the last event of a planned run that nobody     *)
(* aborted, and the verdict that run() folds, agree with the plan.  Where  *)
(* several runs are called, cancel() is excluded: it may then change the   *)
(* plan of one run and abort another.                                      *)
(***************************************************************************)

\* The points at which a plan is being carried out.
AtWork == {"select", "loop", "tool", "turnOver", "turnFailed", "checks", "check",
           "verdict", "recover", "correct", "exhausted", "final"}

\* The last event and the verdict of a run agree with its plan.
Agrees(x) ==
  /\ \/ x.told = "plan_completed" /\ x.plan.status = "completed"
     \/ x.told = "plan_failed" /\ x.plan.status \in {"failed", "blocked"}
  /\ x.report = "success" <=> x.plan.status = "completed"

\* Only planned runs have a plan; one that nobody aborted is in progress until
\* a step fails or is blocked, which leaves a step undone, or it closes.
Truthful(x) ==
  /\ x.pc \in {"new", "begin", "planned"} => x.plan = NoPlan
  /\ x.pc \in {"loop", "tool"} /\ x.phase = "plain" => x.plan = NoPlan
  /\ x.plan # NoPlan /\ ~x.aborted =>
       /\ x.pc \in AtWork => x.plan.status = "in_progress"
       /\ x.pc = "halted" => x.plan.status \in {"failed", "blocked"} /\ ~AllDone(x.plan)
       /\ x.pc = "closing" => Agrees(x)

AllTruthful == \A r \in Runs : Truthful(run[r])

----------------------------------------------------------------------------
(* Plans *)

\* Of a plan without trouble a step can be executed, or all are done.
LEMMA SomeStepLeft ==
  ASSUME NEW p, NEW e, PlanInv(p, e), Trouble(p) = {}, p.status = "in_progress",
         NextExecutable(p) = NoStep
  PROVE  AllDone(p)
<1> DEFINE open == WithStatus(p, {"pending"})
<1>1. p \in Plan /\ p.order \in Seq(StepIds) /\ ToSet(p.order) = Ids(p)
  BY DEF PlanInv, Sound, WellFormed, Plan
<1>2. Ids(p) = open \cup WithStatus(p, {"completed", "skipped"})
  BY <1>1 DEF Ids, WithStatus, Trouble, Plan, StepStatus
<1>3. ASSUME open # {} PROVE FALSE
  <2>1. PICK s \in open : p.deps[s] \cap open = {}
    <3>1. open \subseteq Searched(p)
      BY <1>2, RuntimeAssumption DEF Searched, Ids
    <3> QED
      BY <1>3, <3>1 DEF PlanInv, Sound, DependenciesOK, Acyclic
  <2>2. p.deps[s] \subseteq Ids(p)
    BY <1>2, <2>1 DEF PlanInv, Sound, DependenciesOK
  <2>3. s \in Executable(p)
    BY <1>2, <2>1, <2>2 DEF Executable, DepsSatisfied, WithStatus
  <2>4. ToSet(p.order) \cap Executable(p) # {}
    BY <1>1, <1>2, <2>1, <2>3
  <2>5. FirstOf(p, Executable(p)) \in StepIds
    BY <1>1, <2>4, FirstOfCorrect DEF Ids, WithStatus, Executable
  <2> QED
    BY <2>5, PlanAssumption DEF NextExecutable
<1> QED
  BY <1>2, <1>3 DEF AllDone

\* A step that failed or was blocked keeps the plan from being done.
LEMMA TroubleLeft ==
  ASSUME NEW p, NEW e, PlanInv(p, e), NEW s \in StepIds, p.step[s] = "in_progress",
         NEW q \in {StepFailed(p, s), StepBlocked(p, s)}
  PROVE  q.status \in {"failed", "blocked"} /\ ~AllDone(q)
<1>1. p \in Plan /\ p.step \in [StepIds -> StepStatus \cup {"absent"}]
  BY DEF PlanInv, Sound, WellFormed, Plan
<1>2. /\ StepBlocked(p, s).step = [p.step EXCEPT ![s] = "blocked"]
      /\ StepBlocked(p, s).status = "blocked"
      /\ StepFailed(p, s).step = [p.step EXCEPT ![s] = "failed"]
      /\ StepFailed(p, s).status = "failed"
  BY <1>1 DEF StepFailed, StepBlocked, Plan
<1>3. q.status \in {"failed", "blocked"} /\ q.step[s] \in {"failed", "blocked"}
  BY <1>1, <1>2
<1>4. s \in Ids(q) /\ s \notin WithStatus(q, {"completed", "skipped"})
  BY <1>3 DEF Ids, WithStatus
<1> QED
  BY <1>3, <1>4 DEF AllDone

\* The status each method of PlanState leaves.
LEMMA Statuses ==
  ASSUME NEW p \in Plan, NEW s
  PROVE  /\ Started(p).status = "in_progress" /\ StepStarted(p, s).status = "in_progress"
         /\ StepCompleted(p, s).status = p.status
         /\ Completed(p).status = "completed" /\ Failed(p).status = "failed"
BY DEF Started, StepStarted, StepCompleted, Completed, Failed, Plan

----------------------------------------------------------------------------
(* Runs *)

LEMMA Became ==
  ASSUME IInv, NEW r \in Runs, NEW x, Become(r, x)
  PROVE  run'[r] = x
BY DEF IInv, Become

\* finally and what a PlanState method throws end the run with its plan.
LEMMA DoneTruthful ==
  ASSUME IInv, NEW r \in Runs, NEW y, y.pc \in PCs, Finally(r, y), DOMAIN y = DOMAIN run[r]
  PROVE  Truthful(run'[r])
<1>1. run'[r] = [y EXCEPT !.pc = "done"]
  BY Became DEF Finally
<1>2. "pc" \in DOMAIN y
  BY DEF IInv, Local
<1>3. run'[r].pc = "done"
  BY <1>1, <1>2
<1> QED
  BY <1>3 DEF Truthful, AtWork

LEMMA ThrewTruthful ==
  ASSUME IInv, NEW r \in Runs, NEW t, Finally(r, [run[r] EXCEPT !.told = t])
  PROVE  Truthful(run'[r])
<1>1. run[r] \in Local
  BY DEF IInv
<1>2. [run[r] EXCEPT !.told = t].pc \in PCs
  BY <1>1 DEF Local
<1> QED
  BY <1>2, DoneTruthful

\* What a caller does ends a run, aborts it, or starts it without a plan.
LEMMA CallerTruthful ==
  ASSUME IInv, NEW r \in Runs, Truthful(run[r]), CallerStep(r)
  PROVE  Truthful(run'[r])
<1> DEFINE me == run[r]
<1>0. me \in Local
  BY DEF IInv
<1>1. CASE RunStream(r)
  <2>1. PICK v \in BOOLEAN, a \in BOOLEAN :
          Become(r, [me EXCEPT !.pc = "begin", !.verify = v, !.aborted = a])
    BY <1>1 DEF RunStream
  <2>2. run'[r] = [me EXCEPT !.pc = "begin", !.verify = v, !.aborted = a] /\ me.pc = "new"
    BY <1>1, <2>1, Became DEF RunStream
  <2>3. run'[r].pc = "begin" /\ run'[r].plan = NoPlan
    BY <1>0, <2>2 DEF Local, Truthful
  <2> QED
    BY <2>3 DEF Truthful
<1>2. CASE ExternalAbort(r)
  <2>1. run'[r] = [me EXCEPT !.aborted = TRUE]
    BY <1>2, Became DEF ExternalAbort, Goto
  <2>2. run'[r].aborted /\ run'[r].pc = me.pc /\ run'[r].plan = me.plan
        /\ run'[r].phase = me.phase
    BY <1>0, <2>1 DEF Local
  <2> QED
    BY <2>2 DEF Truthful
<1>3. CASE Abandon(r)
  BY <1>3, ThrewTruthful DEF Abandon
<1> QED
  BY <1>1, <1>2, <1>3 DEF CallerStep

\* A run that goes on with its plan as it is.
LEMMA SameTruthful ==
  ASSUME NEW me, Truthful(me), NEW x, x.plan = me.plan, x.aborted = me.aborted,
         me.pc \in AtWork, x.pc \in AtWork,
         x.pc \in {"loop", "tool"} /\ x.phase = "plain" =>
           me.pc \in {"loop", "tool"} /\ me.phase = "plain"
  PROVE  Truthful(x)
BY DEF Truthful, AtWork

\* complete() as the last word of a run.
LEMMA CompleteTruthful ==
  ASSUME IInv, NEW r \in Runs, NEW y \in Local, CompletePlan(r, y), y.plan \in Plan
  PROVE  Truthful(run'[r])
<1>1. CASE ~MayComplete(y.plan)
  BY <1>1, ThrewTruthful DEF CompletePlan, Attempt
<1>2. CASE MayComplete(y.plan)
  <2> DEFINE x == [y EXCEPT !.plan = Completed(y.plan), !.told = "plan_completed",
                            !.report = "success", !.pc = "closing"]
  <2>1. run'[r] = x
    BY <1>2, Became DEF CompletePlan, Attempt, Goto
  <2>2. /\ x.pc = "closing" /\ x.told = "plan_completed" /\ x.report = "success"
        /\ x.plan = Completed(y.plan)
    BY DEF Local
  <2>3. x.plan.status = "completed"
    BY <2>2, Statuses
  <2> QED
    BY <2>1, <2>2, <2>3 DEF Truthful, Agrees, AtWork
<1> QED
  BY <1>1, <1>2

\* completeStep leaves the plan in progress.
LEMMA CompleteStepTruthful ==
  ASSUME IInv, NEW r \in Runs, NEW y \in Local, CompleteCurrentStep(r, y), y.plan \in Plan,
         ~y.aborted => y.plan.status = "in_progress"
  PROVE  Truthful(run'[r])
<1>1. CASE ~MayCompleteStep(y.plan, y.step)
  BY <1>1, ThrewTruthful DEF CompleteCurrentStep, Attempt
<1>2. CASE MayCompleteStep(y.plan, y.step)
  <2> DEFINE x == [y EXCEPT !.plan = StepCompleted(y.plan, y.step), !.pc = "select"]
  <2>1. run'[r] = x
    BY <1>2, Became DEF CompleteCurrentStep, Attempt, Goto
  <2>2. x.pc = "select" /\ x.plan = StepCompleted(y.plan, y.step) /\ x.aborted = y.aborted
    BY DEF Local
  <2>3. x.plan.status = y.plan.status
    BY <2>2, Statuses
  <2> QED
    BY <2>1, <2>2, <2>3 DEF Truthful
<1> QED
  BY <1>1, <1>2

----------------------------------------------------------------------------
(* Every action of a run keeps it truthful *)

\* At its last event, a run agrees with its plan, has none or was aborted.
LEMMA ClosingTruthful ==
  ASSUME IInv, NEW r \in Runs, NEW x, Become(r, x), x.pc = "closing",
         x.plan # NoPlan /\ ~x.aborted => Agrees(x)
  PROVE  Truthful(run'[r])
BY Became DEF Truthful, AtWork

\* A run that goes on, with its plan as it is.
LEMMA GoesOnTruthful ==
  ASSUME IInv, NEW r \in Runs, Truthful(run[r]), NEW x, Become(r, x),
         x.plan = run[r].plan, x.aborted = run[r].aborted,
         run[r].pc \in AtWork, x.pc \in AtWork,
         x.pc \in {"loop", "tool"} /\ x.phase = "plain" =>
           run[r].pc \in {"loop", "tool"} /\ run[r].phase = "plain"
  PROVE  Truthful(run'[r])
BY Became, SameTruthful

\* The checks start.
LEMMA StartChecksTruthful ==
  ASSUME IInv, NEW r \in Runs, Truthful(run[r]), run[r].pc \in AtWork,
         NEW y \in Local, NEW n, StartChecks(r, y, n),
         y.plan = run[r].plan, y.aborted = run[r].aborted
  PROVE  Truthful(run'[r])
<1> DEFINE x == [y EXCEPT !.checks = n, !.left = n, !.fails = "none",
                          !.evidence[y.step] = "none", !.pc = "checks"]
<1>1. Become(r, x)
  BY DEF StartChecks, Goto
<1>2. x.pc = "checks" /\ x.plan = y.plan /\ x.aborted = y.aborted
  BY DEF Local
<1> HIDE DEF x
<1> QED
  BY <1>1, <1>2, GoesOnTruthful DEF AtWork

\* A step failed or was blocked.
LEMMA HaltedTruthful ==
  ASSUME IInv, NEW r \in Runs, NEW x, Become(r, x), x.pc = "halted",
         x.plan.status \in {"failed", "blocked"}, ~AllDone(x.plan)
  PROVE  Truthful(run'[r])
BY Became DEF Truthful, AtWork

LEMMA PlanningTruthful ==
  ASSUME IInv, NEW r \in Runs, Truthful(run[r]),
         SkipPlanning(r) \/ FailPlanning(r) \/ GeneratePlan(r) \/ AdoptPlan(r)
           \/ ClosePlanOnly(r)
  PROVE  Truthful(run'[r])
<1> DEFINE me == run[r]
<1>0. me \in Local
  BY RunFacts
<1>1. CASE SkipPlanning(r) \/ FailPlanning(r) \/ GeneratePlan(r)
  <2>1. PICK x : /\ Become(r, x) /\ me.pc = "begin"
                 /\ x \in {[me EXCEPT !.pc = "loop", !.phase = "plain"],
                          [me EXCEPT !.pc = "loop", !.phase = "plain", !.report = "failure"],
                          [me EXCEPT !.pc = "planned"]}
    BY <1>1 DEF SkipPlanning, FailPlanning, GeneratePlan, Goto
  <2>2. x.plan = NoPlan /\ x.pc \in {"loop", "planned"}
    BY <1>0, <2>1 DEF Local, Truthful
  <2> QED
    BY <2>1, <2>2, Became DEF Truthful
<1>2. CASE AdoptPlan(r)
  <2>1. PICK o \in Orders, D \in [StepIds -> SUBSET StepIds] :
          LET p == NewPlan(o, D) IN
            /\ Valid(p)
            /\ \/ Become(r, [me EXCEPT !.plan = p, !.told = "agent_completed",
                                       !.report = "success", !.pc = "planOnly"])
               \/ Become(r, [me EXCEPT !.plan = Started(p), !.pc = "select"])
    BY <1>2 DEF AdoptPlan
  <2> DEFINE p == NewPlan(o, D)
             x == [me EXCEPT !.plan = p, !.told = "agent_completed",
                             !.report = "success", !.pc = "planOnly"]
             y == [me EXCEPT !.plan = Started(p), !.pc = "select"]
  <2>2. p \in Plan
    BY <2>1, NewPlanSound DEF Sound, WellFormed
  <2> HIDE DEF p
  <2>3. /\ x.pc = "planOnly"
        /\ y.pc = "select" /\ y.plan.status = "in_progress"
    BY <1>0, <2>2, Statuses DEF Local
  <2>4. Become(r, x) \/ Become(r, y)
    BY <2>1 DEF p
  <2> HIDE DEF x, y
  <2>5. Truthful(x) /\ Truthful(y)
    BY <2>3 DEF Truthful, AtWork
  <2> QED
    BY <2>4, <2>5, Became
<1>3. CASE ClosePlanOnly(r)
  <2>1. run'[r] = [me EXCEPT !.pc = "done"]
    BY <1>3, Became DEF ClosePlanOnly
  <2>2. run'[r].pc = "done"
    BY <1>0, <2>1 DEF Local
  <2> QED
    BY <2>2 DEF Truthful, AtWork
<1> QED
  BY <1>1, <1>2, <1>3

LEMMA SelectTruthful ==
  ASSUME IInv, NEW r \in Runs, SelectStep(r)
  PROVE  Truthful(run'[r])
<1> DEFINE me == run[r]
           s  == NextExecutable(me.plan)
           x  == [me EXCEPT !.plan = StepStarted(@, s), !.step = s, !.calls = 0,
                            !.phase = "step", !.pc = "loop"]
<1>1. me \in Local /\ me.pc = "select" /\ PlanInv(me.plan, me.evidence)
  BY RunFacts DEF SelectStep, Planned
<1>2. CASE ~MayStartStep(me.plan, s)
  BY <1>2, ThrewTruthful DEF SelectStep, Attempt
<1>3. CASE MayStartStep(me.plan, s)
  <2>1. run'[r] = x
    BY <1>3, Became DEF SelectStep, Attempt, Goto
  <2>2. x.pc = "loop" /\ x.phase = "step" /\ x.plan = StepStarted(me.plan, s)
    BY <1>1 DEF Local
  <2>3. StepStarted(me.plan, s).status = "in_progress"
    BY <1>1, PlanThere, Statuses
  <2> HIDE DEF x
  <2> QED
    BY <2>1, <2>2, <2>3 DEF Truthful
<1> QED
  BY <1>2, <1>3

LEMMA EndStepsTruthful ==
  ASSUME IInv, NEW r \in Runs, Truthful(run[r]), EndSteps(r)
  PROVE  Truthful(run'[r])
<1> DEFINE me == run[r]
           y  == [me EXCEPT !.step = NoStep, !.phase = "final"]
<1>1. /\ me \in Local /\ me.pc \in {"select", "halted"} /\ PlanInv(me.plan, me.evidence)
      /\ me.pc = "select" => Trouble(me.plan) = {}
      /\ me.pc = "select" => me.aborted \/ NextExecutable(me.plan) = NoStep
  BY RunFacts DEF EndSteps, Planned, Placed
<1>2. me.plan \in Plan /\ me.plan # NoPlan
  BY <1>1, PlanThere
\* What the run knows of its plan when it leaves the step loop.
<1>3. ~me.aborted =>
        \/ me.plan.status = "in_progress" /\ AllDone(me.plan)
        \/ me.plan.status \in {"failed", "blocked"} /\ ~AllDone(me.plan)
  BY <1>1, <1>2, SomeStepLeft DEF Truthful, AtWork
<1>4. y \in Local /\ y.plan = me.plan /\ y.aborted = me.aborted
  BY <1>1 DEF Local
<1>5. \/ y.aborted /\ Goto(r, [y EXCEPT !.plan = Cancelled(@),
                                        !.told = "plan_cancelled", !.pc = "closing"])
      \/ /\ ~y.aborted /\ AllDone(y.plan)
         /\ \/ Goto(r, [y EXCEPT !.pc = "final"])
            \/ CompletePlan(r, [y EXCEPT !.evidence[NoStep] = "unchecked"])
      \/ /\ ~y.aborted /\ ~AllDone(y.plan)
         /\ Goto(r, [y EXCEPT !.told = "plan_failed", !.report = "failure",
                              !.pc = "closing"])
  BY DEF EndSteps, LeaveSteps
<1> HIDE DEF y
<1>6. CASE y.aborted
  <2> DEFINE x == [y EXCEPT !.plan = Cancelled(@), !.told = "plan_cancelled", !.pc = "closing"]
  <2>1. Become(r, x)
    BY <1>5, <1>6 DEF Goto
  <2>2. x.aborted /\ x.pc = "closing"
    BY <1>4, <1>6 DEF Local
  <2> HIDE DEF x
  <2> QED
    BY <2>1, <2>2, ClosingTruthful
<1>7. CASE ~y.aborted /\ AllDone(y.plan) /\ Goto(r, [y EXCEPT !.pc = "final"])
  <2> DEFINE x == [y EXCEPT !.pc = "final"]
  <2>1. Become(r, x)
    BY <1>7 DEF Goto
  <2>2. x.pc = "final" /\ x.plan.status = "in_progress"
    BY <1>3, <1>4, <1>7 DEF Local
  <2> HIDE DEF x
  <2> QED
    BY <2>1, <2>2, Became DEF Truthful
<1>8. CASE CompletePlan(r, [y EXCEPT !.evidence[NoStep] = "unchecked"])
  <2> DEFINE z == [y EXCEPT !.evidence[NoStep] = "unchecked"]
  <2>1. CompletePlan(r, z)
    BY <1>8
  <2>2. z \in Local /\ z.plan \in Plan
    <3> DEFINE f == [y.evidence EXCEPT ![NoStep] = "unchecked"]
    <3>1. f \in [Subjects -> Evidence]
      BY <1>4 DEF Local, Evidence
    <3> HIDE DEF f
    <3>2. [y EXCEPT !.evidence = f] \in Local
      BY <1>4, <3>1, SetField
    <3>3. [y EXCEPT !.evidence = f].plan \in Plan
      BY <1>2, <1>4 DEF Local
    <3> QED
      BY <3>2, <3>3 DEF f
  <2> QED
    BY <2>1, <2>2, CompleteTruthful
<1>9. CASE ~y.aborted /\ ~AllDone(y.plan)
  <2> DEFINE x == [y EXCEPT !.told = "plan_failed", !.report = "failure", !.pc = "closing"]
  <2>1. Become(r, x)
    BY <1>5, <1>9 DEF Goto
  <2>2. /\ x.pc = "closing" /\ x.told = "plan_failed" /\ x.report = "failure"
        /\ x.plan.status \in {"failed", "blocked"}
    BY <1>3, <1>4, <1>9 DEF Local
  <2> HIDE DEF x
  <2> QED
    BY <2>1, <2>2, ClosingTruthful DEF Agrees
<1> QED
  BY <1>5, <1>6, <1>7, <1>8, <1>9

\* The tool calls and the end of a loop.
LEMMA LoopTruthful ==
  ASSUME IInv, NEW r \in Runs, Truthful(run[r]),
         \/ StartTool(r) \/ EndTool(r) \/ LoopCancelled(r)
         \/ (\E ok \in BOOLEAN : LoopEnded(r, ok)) \/ FailTurn(r) \/ GiveUp(r)
  PROVE  Truthful(run'[r])
<1> DEFINE me == run[r]
<1>1. /\ me \in Local /\ Placed(me)
      /\ Planned(me) => PlanInv(me.plan, me.evidence)
  BY RunFacts
<1>2. CASE StartTool(r) \/ EndTool(r)
  <2>1. PICK x \in {[me EXCEPT !.pc = "tool", !.calls = @ + 1], [me EXCEPT !.pc = "loop"]} :
          me.pc \in {"loop", "tool"} /\ Become(r, x)
    BY <1>2 DEF StartTool, EndTool
  <2>2. /\ x.pc \in {"loop", "tool"} /\ x.phase = me.phase
        /\ x.plan = me.plan /\ x.aborted = me.aborted
    BY <1>1, <2>1 DEF Local
  <2> QED
    BY <2>1, <2>2, GoesOnTruthful DEF AtWork
<1>3. CASE LoopCancelled(r)
  <2> DEFINE x == [me EXCEPT !.plan = IF me.phase = "plain" THEN @ ELSE Cancelled(@),
                             !.told = "agent_cancelled", !.report = "cancelled",
                             !.pc = "closing"]
  <2>1. me.aborted /\ Become(r, x)
    BY <1>3 DEF LoopCancelled
  <2>2. x.aborted /\ x.pc = "closing"
    BY <1>1, <2>1 DEF Local
  <2> HIDE DEF x
  <2> QED
    BY <2>1, <2>2, ClosingTruthful
<1>4. ASSUME NEW ok \in BOOLEAN, LoopEnded(r, ok) PROVE Truthful(run'[r])
  <2> DEFINE y == [me EXCEPT !.report = IF ok THEN "success" ELSE "failure"]
             a == [y EXCEPT !.told = IF ok THEN "agent_completed" ELSE "agent_error",
                            !.pc = "closing"]
             b == [y EXCEPT !.pc = IF ok THEN "turnOver" ELSE "turnFailed"]
  <2>1. y \in Local /\ y.phase = me.phase /\ y.plan = me.plan /\ y.aborted = me.aborted
        /\ y.pc = me.pc
    BY <1>1 DEF Local
  <2>2. /\ y.pc = "loop"
        /\ \/ y.phase = "plain" /\ Become(r, a)
           \/ Goto(r, b)
           \/ StartChecks(r, y, y.checks)
    BY <1>4 DEF LoopEnded
  <2> HIDE DEF y
  <2>3. CASE y.phase = "plain" /\ Become(r, a)
    <3>1. a.pc = "closing" /\ a.plan = NoPlan
      BY <2>1, <2>2, <2>3 DEF Local, Truthful
    <3> HIDE DEF a
    <3> QED
      BY <2>3, <3>1, ClosingTruthful
  <2>4. CASE Goto(r, b)
    <3>1. b.pc \in {"turnOver", "turnFailed"} /\ b.plan = me.plan /\ b.aborted = me.aborted
      BY <2>1 DEF Local
    <3> HIDE DEF b
    <3> QED
      BY <2>1, <2>2, <2>4, <3>1, GoesOnTruthful DEF AtWork, Goto
  <2>5. CASE StartChecks(r, y, y.checks)
    BY <2>1, <2>2, <2>5, StartChecksTruthful DEF AtWork
  <2> QED
    BY <2>2, <2>3, <2>4, <2>5
<1>5. CASE FailTurn(r) \/ GiveUp(r)
  <2> DEFINE p == StepFailed(me.plan, me.step)
             x == [me EXCEPT !.plan = p, !.report = "failure", !.pc = "halted"]
  <2>1. me.pc \in {"turnFailed", "exhausted"} /\ Become(r, x)
    BY <1>5 DEF FailTurn, GiveUp, Goto
  <2>2. /\ PlanInv(me.plan, me.evidence) /\ me.step \in StepIds
        /\ me.plan.step[me.step] = "in_progress"
    BY <1>1, <2>1 DEF Placed, Planned, AtStep
  <2>3. p.status \in {"failed", "blocked"} /\ ~AllDone(p)
    BY <2>2, TroubleLeft
  <2>4. x.pc = "halted" /\ x.plan = p
    BY <1>1 DEF Local
  <2> HIDE DEF x, p
  <2> QED
    BY <2>1, <2>3, <2>4, HaltedTruthful
<1> QED
  BY <1>2, <1>3, <1>4, <1>5

\* The choice of checks, and the checks.
LEMMA ChecksTruthful ==
  ASSUME IInv, NEW r \in Runs, Truthful(run[r]),
         ChooseChecks(r) \/ ChooseFinalChecks(r) \/ StartCheck(r) \/ EndCheck(r)
  PROVE  Truthful(run'[r])
<1> DEFINE me == run[r]
           y(s) == [me EXCEPT !.evidence = [me.evidence EXCEPT ![s] = "unchecked"]]
<1>1. /\ me \in Local
      /\ Planned(me) => PlanInv(me.plan, me.evidence)
  BY RunFacts
<1>2. CASE ChooseChecks(r) \/ ChooseFinalChecks(r)
  <2>1. /\ me.pc \in {"turnOver", "final"}
        /\ \/ CompleteCurrentStep(r, y(me.step)) \/ CompletePlan(r, y(NoStep))
           \/ \E n : StartChecks(r, me, n)
    BY <1>2 DEF ChooseChecks, ChooseFinalChecks
  <2>2. me.plan \in Plan /\ me.plan # NoPlan
    BY <1>1, <2>1, PlanThere DEF Planned, AtStep, AtFinal
  <2>3. ASSUME NEW s
        PROVE  y(s) \in Local /\ y(s).plan = me.plan /\ y(s).aborted = me.aborted
    <3> DEFINE f == [me.evidence EXCEPT ![s] = "unchecked"]
    <3>1. f \in [Subjects -> Evidence]
      BY <1>1 DEF Local, Evidence
    <3> HIDE DEF f
    <3>2. LET z == [me EXCEPT !.evidence = f]
          IN  z \in Local /\ z.plan = me.plan /\ z.aborted = me.aborted
      BY <1>1, <3>1 DEF Local
    <3> QED
      BY <3>2 DEF f
  <2>4. ~me.aborted => me.plan.status = "in_progress"
    BY <2>1, <2>2 DEF Truthful, AtWork
  <2> HIDE DEF y
  <2>5. CASE CompleteCurrentStep(r, y(me.step))
    BY <2>2, <2>3, <2>4, <2>5, CompleteStepTruthful
  <2>6. CASE CompletePlan(r, y(NoStep))
    BY <2>2, <2>3, <2>6, CompleteTruthful
  <2>7. ASSUME NEW n, StartChecks(r, me, n) PROVE Truthful(run'[r])
    BY <1>1, <2>1, <2>7, StartChecksTruthful DEF AtWork
  <2> QED
    BY <2>1, <2>5, <2>6, <2>7
<1>3. CASE StartCheck(r)
  <2> DEFINE x == [me EXCEPT !.pc = "check"]
  <2>1. me.pc = "checks" /\ Become(r, x)
    BY <1>3 DEF StartCheck, Goto
  <2>2. x.pc = "check" /\ x.plan = me.plan /\ x.aborted = me.aborted
    BY <1>1 DEF Local
  <2> HIDE DEF x
  <2> QED
    BY <2>1, <2>2, GoesOnTruthful DEF AtWork
<1>4. CASE EndCheck(r)
  <2>1. PICK a, b, c : /\ me.pc = "check"
                       /\ Become(r, [me EXCEPT !.pc = "checks", !.left = a,
                                               !.fails = b, !.evidence[me.step] = c])
    BY <1>1, <1>4 DEF EndCheck, Goto, Local
  <2> DEFINE x == [me EXCEPT !.pc = "checks", !.left = a, !.fails = b,
                             !.evidence[me.step] = c]
  <2>2. x.pc = "checks" /\ x.plan = me.plan /\ x.aborted = me.aborted
    BY <1>1 DEF Local
  <2> HIDE DEF x
  <2> QED
    BY <2>1, <2>2, GoesOnTruthful DEF AtWork, x
<1> QED
  BY <1>2, <1>3, <1>4

\* What is made of the outcome of the checks, and the end.
LEMMA RecoveringTruthful ==
  ASSUME IInv, NEW r \in Runs, Truthful(run[r]), run[r].pc \in AtWork,
         NEW y \in Local, Recovering(r, y),
         y.plan = run[r].plan, y.aborted = run[r].aborted
  PROVE  Truthful(run'[r])
<1> DEFINE a == [y EXCEPT !.attempt = @ + 1, !.pc = "correct"]
           b == [y EXCEPT !.pc = "exhausted"]
           c == [y EXCEPT !.plan = Cancelled(@), !.told = "plan_cancelled",
                          !.step = NoStep, !.pc = "closing"]
<1>1. Become(r, a) \/ Become(r, b) \/ (y.aborted /\ Become(r, c))
  BY DEF Recovering, Goto
<1>2. /\ a.pc = "correct" /\ a.plan = y.plan /\ a.aborted = y.aborted
      /\ b.pc = "exhausted" /\ b.plan = y.plan /\ b.aborted = y.aborted
      /\ c.pc = "closing" /\ c.aborted = y.aborted
  BY DEF Local
<1> HIDE DEF a, b, c
<1>3. CASE Become(r, a)
  BY <1>2, <1>3, GoesOnTruthful DEF AtWork
<1>4. CASE Become(r, b)
  BY <1>2, <1>4, GoesOnTruthful DEF AtWork
<1>5. CASE y.aborted /\ Become(r, c)
  BY <1>2, <1>5, ClosingTruthful
<1> QED
  BY <1>1, <1>3, <1>4, <1>5

LEMMA EndChecksTruthful ==
  ASSUME IInv, NEW r \in Runs, Truthful(run[r]), EndChecks(r)
  PROVE  Truthful(run'[r])
<1> DEFINE me == run[r]
           v  == VerificationStatus(me)
           y  == [me EXCEPT !.verdict = v, !.left = 0]
           a  == [y EXCEPT !.attempt = 0, !.pc = "recover"]
           b  == [y EXCEPT !.pc = "verdict",
                           !.report = IF me.phase = "final" /\ v # "passed"
                                      THEN "failure" ELSE @]
<1>1. me \in Local /\ 0 \in 0 .. MaxChecks
  BY RunFacts
<1>2. me.pc = "checks" /\ (Goto(r, a) \/ Recovering(r, y) \/ Goto(r, b))
  BY DEF EndChecks
<1>3. v \in {"passed", "failed", "blocked"}
  <2>1. me.aborted \in BOOLEAN /\ me.fails \in {"none", "failed", "blocked"}
    BY <1>1 DEF Local
  <2> QED
    BY <2>1 DEF VerificationStatus
<1> HIDE DEF v
<1>4. y \in Local
  BY <1>1, <1>3, SetField
<1>5. y.plan = me.plan /\ y.aborted = me.aborted
  BY <1>1 DEF Local
<1> HIDE DEF y
<1>6. /\ a.pc = "recover" /\ a.plan = y.plan /\ a.aborted = y.aborted
      /\ b.pc = "verdict" /\ b.plan = y.plan /\ b.aborted = y.aborted
  BY <1>4 DEF Local
<1> HIDE DEF a, b
<1>7. CASE Goto(r, a)
  BY <1>2, <1>5, <1>6, <1>7, GoesOnTruthful DEF AtWork, Goto
<1>8. CASE Goto(r, b)
  BY <1>2, <1>5, <1>6, <1>8, GoesOnTruthful DEF AtWork, Goto
<1>9. CASE Recovering(r, y)
  BY <1>2, <1>4, <1>5, <1>9, RecoveringTruthful DEF AtWork
<1> QED
  BY <1>2, <1>7, <1>8, <1>9

LEMMA VerdictTruthful ==
  ASSUME IInv, NEW r \in Runs, Truthful(run[r]),
         StepVerdict(r) \/ PlanVerdict(r) \/ Recover(r) \/ Correct(r) \/ Close(r)
  PROVE  Truthful(run'[r])
<1> DEFINE me == run[r]
<1>1. /\ me \in Local /\ Placed(me)
      /\ Planned(me) => PlanInv(me.plan, me.evidence)
  BY RunFacts
<1>2. ASSUME me.pc = "verdict"
      PROVE  /\ PlanInv(me.plan, me.evidence) /\ me.plan \in Plan
             /\ ~me.aborted => me.plan.status = "in_progress"
             /\ me.phase # "final" =>
                  me.step \in StepIds /\ me.plan.step[me.step] = "in_progress"
  <2>1. AtFinal(me) \/ AtStep(me)
    BY <1>1, <1>2 DEF Placed, AtFinal, AtStep, Local
  <2>2. PlanInv(me.plan, me.evidence) /\ me.plan # NoPlan /\ me.plan \in Plan
    BY <1>1, <2>1, PlanThere DEF Planned
  <2> QED
    BY <1>1, <1>2, <2>1, <2>2 DEF Placed, Truthful, AtWork, AtFinal
<1>3. CASE StepVerdict(r)
  <2> DEFINE p == StepBlocked(me.plan, me.step)
             x == [me EXCEPT !.plan = p, !.pc = "halted"]
  <2>1. /\ me.pc = "verdict" /\ me.phase # "final"
        /\ \/ CompleteCurrentStep(r, me) \/ Become(r, x)
           \/ Finally(r, [me EXCEPT !.told = "threw"])
    BY <1>3 DEF StepVerdict, Attempt, Goto
  <2>2. p.status \in {"failed", "blocked"} /\ ~AllDone(p)
    BY <1>2, <2>1, TroubleLeft
  <2>3. x.pc = "halted" /\ x.plan = p
    BY <1>1 DEF Local
  <2> HIDE DEF x, p
  <2>4. CASE CompleteCurrentStep(r, me)
    BY <1>1, <1>2, <2>1, <2>4, CompleteStepTruthful
  <2> QED
    BY <2>1, <2>2, <2>3, <2>4, HaltedTruthful, ThrewTruthful
<1>4. CASE PlanVerdict(r)
  <2> DEFINE p == Failed(me.plan)
             x == [me EXCEPT !.plan = p, !.told = "plan_failed",
                             !.report = "failure", !.pc = "closing"]
  <2>1. me.pc = "verdict" /\ (CompletePlan(r, me) \/ Become(r, x))
    BY <1>4 DEF PlanVerdict, Goto
  <2>2. p.status = "failed"
    BY <1>2, <2>1, Statuses
  <2>3. /\ x.pc = "closing" /\ x.plan = p /\ x.told = "plan_failed"
        /\ x.report = "failure"
    BY <1>1 DEF Local
  <2> HIDE DEF x, p
  <2>4. CASE CompletePlan(r, me)
    BY <1>1, <1>2, <2>1, <2>4, CompleteTruthful
  <2>5. CASE Become(r, x)
    BY <2>2, <2>3, <2>5, ClosingTruthful DEF Agrees
  <2> QED
    BY <2>1, <2>4, <2>5
<1>5. CASE Recover(r)
  BY <1>1, <1>5, RecoveringTruthful DEF Recover, AtWork
<1>6. CASE Correct(r)
  <2> DEFINE x == [me EXCEPT !.phase = "correction", !.calls = 0, !.pc = "loop"]
  <2>1. me.pc = "correct" /\ Become(r, x)
    BY <1>6 DEF Correct, Goto
  <2>2. /\ x.pc = "loop" /\ x.phase = "correction"
        /\ x.plan = me.plan /\ x.aborted = me.aborted
    BY <1>1 DEF Local
  <2> HIDE DEF x
  <2> QED
    BY <2>1, <2>2, GoesOnTruthful DEF AtWork
<1>7. CASE Close(r)
  BY <1>1, <1>7, DoneTruthful DEF Close, Local
<1> QED
  BY <1>3, <1>4, <1>5, <1>6, <1>7

----------------------------------------------------------------------------
(* The theorems *)

LEMMA RunTruthful ==
  ASSUME IInv, NEW r \in Runs, Truthful(run[r]), RunStep(r) \/ CallerStep(r)
  PROVE  Truthful(run'[r])
<1>1. ASSUME RunStep(r) PROVE Truthful(run'[r])
  BY <1>1, PlanningTruthful, SelectTruthful, EndStepsTruthful, LoopTruthful,
     ChecksTruthful, EndChecksTruthful, VerdictTruthful DEF RunStep
<1> QED
  BY <1>1, CallerTruthful

\* A single call of runStream holds the controller from its first step to its
\* end, whoever calls cancel().
Held == \A r \in Runs : Executing(r) => active = r

LEMMA Holding ==
  ASSUME \A r, q \in Runs : r = q
  PROVE  Spec => []Held
<1>1. Init => Held
  BY DEF Init, Held, Executing, Fresh
<1>2. IInv /\ Held /\ [Next]_vars => Held'
  <2> SUFFICES ASSUME IInv, Held, [Next]_vars, NEW r \in Runs, Executing(r)'
               PROVE  active' = r
    BY DEF Held
  <2>0. run \in [Runs -> Local] /\ state \in AgentState
    BY DEF IInv, Shared
  <2>1. CASE UNCHANGED vars
    BY <2>1 DEF vars, Held, Executing
  <2>2. CASE Cancel
    BY <2>2, CancelMoves DEF Cancel, Held, Executing
  <2>3. CASE RunStep(r)
    BY <2>0, <2>3, StepShape DEF Ends, GoesOn, Held, Executing
  <2>4. CASE CallerStep(r)
    BY <2>0, <2>4, CallerShape DEF Ends, RunStream, ExternalAbort, Goto, shared,
       Held, Executing
  <2> QED
    BY <2>1, <2>2, <2>3, <2>4 DEF Next
<1> QED
  BY <1>1, <1>2, Invariance, PTL DEF Spec

\* cancel() then aborts the run whose plan it cancels.
LEMMA CancelTruthful ==
  ASSUME IInv, Held, Cancel, NEW r \in Runs, Truthful(run[r])
  PROVE  Truthful(run'[r])
<1> DEFINE me == run[r]
           x  == [me EXCEPT !.plan = IF r = activePlan THEN Cancelled(@) ELSE @,
                            !.aborted = @ \/ r = active]
<1>1. me \in Local /\ run'[r] = x
  BY RunFacts DEF Cancel
<1>2. /\ x.pc = me.pc /\ x.phase = me.phase /\ x.aborted = (me.aborted \/ r = active)
      /\ x.plan = IF r = activePlan THEN Cancelled(me.plan) ELSE me.plan
  BY <1>1 DEF Local
<1> HIDE DEF x
<1>3. me.plan = NoPlan => x.plan = NoPlan
  BY <1>2 DEF IInv, Shared, HasPlan
<1>4. CASE Executing(r)
  <2>1. x.aborted
    BY <1>2, <1>4 DEF Held
  <2> QED
    BY <1>1, <1>2, <1>3, <2>1 DEF Truthful
<1>5. CASE ~Executing(r)
  BY <1>1, <1>2, <1>3, <1>5 DEF Executing, Truthful, AtWork
<1> QED
  BY <1>4, <1>5

LEMMA Truth ==
  ASSUME CancelCalls => \A r, q \in Runs : r = q
  PROVE  Spec => []AllTruthful
<1>1. Init => AllTruthful
  BY DEF Init, AllTruthful, Fresh, Truthful, AtWork
<1>2. IInv /\ (CancelCalls => Held) /\ AllTruthful /\ [Next]_vars => AllTruthful'
  <2> SUFFICES ASSUME IInv, CancelCalls => Held, AllTruthful, [Next]_vars, NEW q \in Runs
               PROVE  Truthful(run'[q])
    BY DEF AllTruthful
  <2>1. CASE UNCHANGED vars
    BY <2>1 DEF vars, AllTruthful
  <2>2. CASE Cancel
    BY <2>2, CancelTruthful DEF Cancel, AllTruthful
  <2>3. ASSUME NEW r \in Runs, RunStep(r) \/ CallerStep(r)
        PROVE  Truthful(run'[q])
    <3>1. CASE q = r
      BY <2>3, <3>1, RunTruthful DEF AllTruthful
    <3>2. CASE q # r
      <4>1. run'[q] = run[q]
        BY <2>3, <3>2, StepMoves DEF Moves, IInv
      <4> QED
        BY <4>1 DEF AllTruthful
    <3> QED
      BY <3>1, <3>2
  <2> QED
    BY <2>1, <2>2, <2>3 DEF Next
<1>3. CASE CancelCalls
  <2>1. Spec => []Held
    BY <1>3, Holding
  <2>2. IInv /\ Held /\ AllTruthful /\ [Next]_vars => AllTruthful'
    BY <1>2
  <2> QED
    BY <1>1, <2>1, <2>2, Invariance, PTL DEF Spec
<1>4. CASE ~CancelCalls
  <2>1. IInv /\ AllTruthful /\ [Next]_vars => AllTruthful'
    BY <1>2, <1>4
  <2> QED
    BY <1>1, <2>1, Invariance, PTL DEF Spec
<1> QED
  BY <1>3, <1>4

\* Where one run is called, or no one calls cancel(), the last event of a
\* planned run that nobody aborted says of the plan what the plan says of
\* itself: runStream leaves its step loop with every step done, or after one
\* that failed or was blocked, and never because nothing was left to select.
THEOREM LastEventRight ==
  ASSUME CancelCalls => \A r, q \in Runs : r = q
  PROVE  Spec => []LastEventAgreesWithPlan
<1>1. AllTruthful => LastEventAgreesWithPlan
  BY DEF AllTruthful, Truthful, Agrees, LastEventAgreesWithPlan, HasPlan
<1> QED
  BY <1>1, Truth, PTL

\* And run() then folds the events into success exactly when the plan
\* completed, whatever turns and corrections succeeded or failed on the way.
THEOREM ReportRight ==
  ASSUME CancelCalls => \A r, q \in Runs : r = q
  PROVE  Spec => []ReportAgreesWithPlan
<1>1. AllTruthful => ReportAgreesWithPlan
  BY DEF AllTruthful, Truthful, Agrees, ReportAgreesWithPlan, HasPlan
<1> QED
  BY <1>1, Truth, PTL
=============================================================================
