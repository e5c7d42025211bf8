---------------------------- MODULE AgentRuntime ----------------------------
(***************************************************************************)
(* AgentRuntime (packages/agent/src/runtime/agent.runtime.ts): the calls   *)
(* of runStream made on one runtime object, cancel(), and the callers'     *)
(* abort signals.                                                          *)
(*                                                                         *)
(* runStream is an async generator.  Between two suspension points (an     *)
(* await, or a yield whose event the consumer is handling) it runs         *)
(* atomically, so an action is the code from one suspension point to the   *)
(* next; suspension points between which nothing shared is read or written *)
(* are one point.  pc names the point a run is suspended at:               *)
(*                                                                         *)
(*   new        not called yet                                             *)
(*   begin      agent_started, context build, generatePlan                 *)
(*   planned    plan_created, plan_ready                                   *)
(*   planOnly   agent_completed of a plan-only request                     *)
(*   select     plan_started or step_completed; the step loop's head next  *)
(*   loop       inside an AgentLoop, no tool running                       *)
(*   tool       inside an AgentLoop, tool_call_started to the tool's end   *)
(*   turnOver   agent_completed of a step's loop, await selectChecks       *)
(*   turnFailed agent_error of a step's loop                               *)
(*   checks     between two checks of executeVerificationChecks            *)
(*   check      await runCheck                                             *)
(*   verdict    verification_passed or verification_failed                 *)
(*   recover    verification_failed of a failed, recoverable verification  *)
(*   correct    recovery_started                                           *)
(*   exhausted  recovery_exhausted                                         *)
(*   halted     step_failed or step_blocked, before the break              *)
(*   final      await selectChecks for the whole plan                      *)
(*   closing    the last event of the run                                  *)
(*   done       the finally block has run                                  *)
(*                                                                         *)
(* AgentLoop is reduced to what runStream sees of it (its own module has   *)
(* the detail): tool calls within the budget, then one of agent_completed, *)
(* agent_error, agent_cancelled, the last exactly when it finds its signal *)
(* aborted.  The verifier's choice of checks and every check's outcome are *)
(* nondeterministic.                                                       *)
(***************************************************************************)
EXTENDS PlanModel

CONSTANTS Runs,             \* the calls of runStream
          NoRun,            \* null, for the runtime's references
          NoPlan,           \* a run that has adopted no plan
          MaxAttempts,      \* recoveryPolicy.maxVerificationAttempts
          MaxToolCalls,     \* config.maxToolCalls, per AgentLoop
          MaxChecks,        \* bound: most checks a verification selects
          CancelCalls,      \* whether cancel() is ever called
          ExternalSignals,  \* whether callers abort the signals they passed
          Abandons,         \* whether a consumer may stop iterating early
          PromptConsumers   \* whether each consumer drains its stream before
                            \* another call is made, as run() and the CLI do

\* parsePlanResponse trims the ids of the steps, and the runtime adds none.
ASSUME RuntimeAssumption ==
  /\ \A s \in StepIds : Trim[s] = s
  /\ NoRun \notin Runs /\ NoPlan \notin Plan
  /\ MaxAttempts \in Nat /\ MaxToolCalls \in Nat /\ MaxChecks \in Nat \ {0}
  /\ {CancelCalls, ExternalSignals, Abandons, PromptConsumers} \subseteq BOOLEAN

VARIABLES
  state,       \* this.state
  active,      \* the run that owns this.activeAbortController
  activePlan,  \* the run that created this.activePlanState
  run          \* the local state of each runStream call

vars == <<state, active, activePlan, run>>
shared == <<state, active, activePlan>>

AgentState == {"idle", "running", "waiting_for_tool",
               "completed", "failed", "cancelled"}
Busy == {"running", "waiting_for_tool"}

\* History: what the checks have shown of a step or, under NoStep, of the
\* whole plan since it was last worked on.  "passed" says that every selected
\* check ran and succeeded, "unchecked" that none was selected.
Evidence == {"none", "unchecked", "passed", "failed", "blocked"}
Subjects == StepIds \cup {NoStep}

Fresh ==
  [pc       |-> "new",    phase   |-> "plain",
   aborted  |-> FALSE,    verify  |-> FALSE,
   plan     |-> NoPlan,   step    |-> NoStep,
   calls    |-> 0,        attempt |-> 0,
   checks   |-> 0,        left    |-> 0,
   fails    |-> "none",   verdict |-> "none",
   evidence |-> [s \in Subjects |-> "none"],
   told     |-> "none",   report  |-> "none"]

Init ==
  /\ state = "idle"
  /\ active = NoRun
  /\ activePlan = NoRun
  /\ run = [r \in Runs |-> Fresh]

----------------------------------------------------------------------------
(* Helpers *)

Executing(r) == run[r].pc \notin {"new", "done"}

AllDone(p) ==
  Ids(p) = WithStatus(p, {"completed", "skipped"})

\* The run moves on, and with Goto the runtime's fields stay.
Become(r, x) == run' = [run EXCEPT ![r] = x]
Goto(r, x) == Become(r, x) /\ UNCHANGED shared

\* Mutation: finally resets a run caught in `running` only.
MutFinally(r, x) ==
  /\ Become(r, [x EXCEPT !.pc = "done"])
  /\ active' = NoRun
  /\ state' = IF state = "running" THEN "idle" ELSE state
  /\ UNCHANGED activePlan

\* The finally block, and the end of the generator.
Finally(r, x) ==
  /\ Become(r, [x EXCEPT !.pc = "done"])
  /\ active' = NoRun
  /\ state' = IF state \in Busy THEN "idle" ELSE state
  /\ UNCHANGED activePlan

\* A PlanState method: either it returns, or what it throws leaves runStream.
Attempt(r, allowed, x) ==
  \/ allowed /\ Goto(r, x)
  \/ ~allowed /\ Finally(r, [run[r] EXCEPT !.told = "threw"])

CompleteCurrentStep(r, x) ==
  Attempt(r, MayCompleteStep(x.plan, x.step),
    [x EXCEPT !.plan = StepCompleted(@, x.step), !.pc = "select"])

CompletePlan(r, x) ==
  Attempt(r, MayComplete(x.plan),
    [x EXCEPT !.plan = Completed(@), !.told = "plan_completed",
              !.report = "success", !.pc = "closing"])

----------------------------------------------------------------------------
(* The caller *)

\* Mutation: the busy test forgets waiting_for_tool.
MutRunStream(r) ==
  /\ run[r].pc = "new"
  /\ state # "running"
  /\ PromptConsumers => \A q \in Runs : run[q].pc \notin {"closing", "planOnly"}
  /\ Become(r, [run[r] EXCEPT !.pc = "begin"])
  /\ state' = "running"
  /\ active' = r
  /\ UNCHANGED activePlan

\* Mutation: the controller of the new run is not stored.
MutNoController(r) ==
  /\ run[r].pc = "new"
  /\ state \notin Busy
  /\ Become(r, [run[r] EXCEPT !.pc = "begin"])
  /\ state' = "running"
  /\ UNCHANGED <<active, activePlan>>

\* First next() of runStream with a nonempty input; otherwise it throws
\* AgentBusyError, or returns, and changes nothing.
RunStream(r) ==
  /\ run[r].pc = "new"
  /\ state \notin Busy
  /\ PromptConsumers => \A q \in Runs : run[q].pc \notin {"closing", "planOnly"}
  /\ \E v \in BOOLEAN, a \in IF ExternalSignals THEN BOOLEAN ELSE {FALSE} :
       Become(r, [run[r] EXCEPT !.pc = "begin", !.verify = v, !.aborted = a])
  /\ state' = "running"
  /\ active' = r
  /\ UNCHANGED activePlan

Cancel ==
  /\ CancelCalls
  /\ run' = [r \in Runs |->
       [run[r] EXCEPT !.plan = IF r = activePlan THEN Cancelled(@) ELSE @,
                      !.aborted = @ \/ r = active]]
  /\ state' = IF active # NoRun THEN "cancelled" ELSE state
  /\ UNCHANGED <<active, activePlan>>

\* The signal the caller passed in is aborted; finally drops the listener.
ExternalAbort(r) ==
  /\ ExternalSignals
  /\ Executing(r)
  /\ Goto(r, [run[r] EXCEPT !.aborted = TRUE])

\* The consumer leaves its for-await: return() runs the finally block.  The
\* one point with no event to leave at is the await of the final selectChecks.
Abandon(r) ==
  /\ Abandons
  /\ Executing(r)
  /\ run[r].pc # "final"
  /\ Finally(r, [run[r] EXCEPT !.told = "abandoned"])

----------------------------------------------------------------------------
(* Planning *)

\* No planner, a simple request, or skipPlanning: the unguided loop.
SkipPlanning(r) ==
  /\ run[r].pc = "begin"
  /\ Goto(r, [run[r] EXCEPT !.pc = "loop", !.phase = "plain"])

\* generatePlan rejects (provider, parser, validator or abort): plan_failed,
\* then the unguided loop.
FailPlanning(r) ==
  /\ run[r].pc = "begin"
  /\ Goto(r, [run[r] EXCEPT !.pc = "loop", !.phase = "plain",
                            !.report = "failure"])

\* generatePlan does not look at its signal itself, so it may also deliver
\* a plan to an aborted run.
GeneratePlan(r) ==
  /\ run[r].pc = "begin"
  /\ Goto(r, [run[r] EXCEPT !.pc = "planned"])

AdoptPlan(r) ==
  /\ run[r].pc = "planned"
  /\ \E o \in Orders, D \in [StepIds -> SUBSET StepIds] :
       LET p == NewPlan(o, D) IN
         /\ Valid(p)
         /\ \/ Become(r, [run[r] EXCEPT !.plan = p, !.told = "agent_completed",
                                        !.report = "success", !.pc = "planOnly"])
            \/ Become(r, [run[r] EXCEPT !.plan = Started(p), !.pc = "select"])
  /\ activePlan' = r
  /\ UNCHANGED <<state, active>>

ClosePlanOnly(r) ==
  /\ run[r].pc = "planOnly"
  /\ Become(r, [run[r] EXCEPT !.pc = "done"])
  /\ state' = "completed"
  /\ active' = NoRun
  /\ UNCHANGED activePlan

----------------------------------------------------------------------------
(* The step loop *)

\* Mutation: the loop condition does not look at the signal.
MutSelectStep(r) ==
  LET me == run[r]
      s  == NextExecutable(me.plan)
  IN  /\ me.pc = "select"
      /\ s # NoStep
      /\ Attempt(r, MayStartStep(me.plan, s),
           [me EXCEPT !.plan = StepStarted(@, s), !.step = s, !.calls = 0,
                      !.phase = "step", !.pc = "loop"])

SelectStep(r) ==
  LET me == run[r]
      s  == NextExecutable(me.plan)
  IN  /\ me.pc = "select"
      /\ s # NoStep
      /\ ~me.aborted
      /\ Attempt(r, MayStartStep(me.plan, s),
           [me EXCEPT !.plan = StepStarted(@, s), !.step = s, !.calls = 0,
                      !.phase = "step", !.pc = "loop"])

\* Mutation: run() overlooks the plan_failed of incomplete steps.
MutLeaveSteps(r) ==
  LET me == [run[r] EXCEPT !.step = NoStep, !.phase = "final"] IN
    IF me.aborted THEN
      Goto(r, [me EXCEPT !.plan = Cancelled(@), !.told = "plan_cancelled",
                         !.pc = "closing"])
    ELSE IF ~AllDone(me.plan) THEN
      Goto(r, [me EXCEPT !.told = "plan_failed", !.pc = "closing"])
    ELSE IF me.verify THEN Goto(r, [me EXCEPT !.pc = "final"])
    ELSE CompletePlan(r, [me EXCEPT !.evidence[NoStep] = "unchecked"])

\* The code after the step loop: cancelled, all steps done, or incomplete.
LeaveSteps(r) ==
  LET me == [run[r] EXCEPT !.step = NoStep, !.phase = "final"] IN
    \/ /\ me.aborted
       /\ Goto(r, [me EXCEPT !.plan = Cancelled(@), !.told = "plan_cancelled",
                             !.pc = "closing"])
    \/ /\ ~me.aborted /\ AllDone(me.plan) /\ me.verify
       /\ Goto(r, [me EXCEPT !.pc = "final"])
    \/ /\ ~me.aborted /\ AllDone(me.plan) /\ ~me.verify
       /\ CompletePlan(r, [me EXCEPT !.evidence[NoStep] = "unchecked"])
    \/ /\ ~me.aborted /\ ~AllDone(me.plan)
       /\ Goto(r, [me EXCEPT !.told = "plan_failed", !.report = "failure",
                             !.pc = "closing"])

EndSteps(r) ==
  /\ \/ run[r].pc = "halted"
     \/ /\ run[r].pc = "select"
        /\ run[r].aborted \/ NextExecutable(run[r].plan) = NoStep
  /\ LeaveSteps(r)

----------------------------------------------------------------------------
(* The AgentLoop inside a run *)

\* Mutation: the tool call budget is not checked.
MutStartTool(r) ==
  /\ run[r].pc = "loop"
  /\ ~run[r].aborted
  /\ run[r].calls <= MaxToolCalls
  /\ Become(r, [run[r] EXCEPT !.pc = "tool", !.calls = @ + 1])
  /\ state' = "waiting_for_tool"
  /\ UNCHANGED <<active, activePlan>>

StartTool(r) ==
  /\ run[r].pc = "loop"
  /\ ~run[r].aborted
  /\ run[r].calls < MaxToolCalls
  /\ Become(r, [run[r] EXCEPT !.pc = "tool", !.calls = @ + 1])
  /\ state' = "waiting_for_tool"
  /\ UNCHANGED <<active, activePlan>>

\* tool_call_completed or tool_call_failed.
EndTool(r) ==
  /\ run[r].pc = "tool"
  /\ ~run[r].aborted
  /\ Become(r, [run[r] EXCEPT !.pc = "loop"])
  /\ state' = "running"
  /\ UNCHANGED <<active, activePlan>>

\* agent_cancelled: the loop's next look at the signal after an abort.
LoopCancelled(r) ==
  LET me == run[r] IN
    /\ me.pc \in {"loop", "tool"}
    /\ me.aborted
    /\ Become(r, [me EXCEPT
         !.plan = IF me.phase = "plain" THEN @ ELSE Cancelled(@),
         !.told = "agent_cancelled", !.report = "cancelled", !.pc = "closing"])
    /\ state' = IF me.phase = "plain" THEN "cancelled" ELSE state
    /\ UNCHANGED <<active, activePlan>>

StartChecks(r, x, n) ==
  Goto(r, [x EXCEPT !.checks = n, !.left = n, !.fails = "none",
                    !.evidence[x.step] = "none", !.pc = "checks"])

\* agent_completed or agent_error, by the loop's place in the run.
LoopEnded(r, ok) ==
  LET me == [run[r] EXCEPT !.report = IF ok THEN "success" ELSE "failure"] IN
    /\ me.pc = "loop"
    /\ ~me.aborted
    /\ \/ /\ me.phase = "plain"
          /\ Become(r, [me EXCEPT
               !.told = IF ok THEN "agent_completed" ELSE "agent_error",
               !.pc = "closing"])
          /\ state' = IF ok THEN "completed" ELSE "failed"
          /\ UNCHANGED <<active, activePlan>>
       \/ /\ me.phase = "step"
          /\ Goto(r, [me EXCEPT !.pc = IF ok THEN "turnOver" ELSE "turnFailed"])
       \/ /\ me.phase = "correction"     \* either way: verify again
          /\ StartChecks(r, me, me.checks)

FailTurn(r) ==
  /\ run[r].pc = "turnFailed"
  /\ Goto(r, [run[r] EXCEPT !.plan = StepFailed(@, run[r].step),
                            !.report = "failure", !.pc = "halted"])

----------------------------------------------------------------------------
(* Verification and recovery of a step, verification of the plan *)

\* selectChecks answers for the step; without a verifier it is not asked.
ChooseChecks(r) ==
  /\ run[r].pc = "turnOver"
  /\ \/ CompleteCurrentStep(r,
          [run[r] EXCEPT !.evidence[run[r].step] = "unchecked"])
     \/ run[r].verify /\ \E n \in 1 .. MaxChecks : StartChecks(r, run[r], n)

ChooseFinalChecks(r) ==
  /\ run[r].pc = "final"
  /\ \/ CompletePlan(r, [run[r] EXCEPT !.evidence[NoStep] = "unchecked"])
     \/ \E n \in 1 .. MaxChecks : StartChecks(r, run[r], n)

StartCheck(r) ==
  /\ run[r].pc = "checks"
  /\ run[r].left > 0
  /\ ~run[r].aborted
  /\ Goto(r, [run[r] EXCEPT !.pc = "check"])

\* An environment failure that is not recoverable stops the sequence.
EndCheck(r) ==
  LET me == run[r] IN
    /\ me.pc = "check"
    /\ \E outcome \in {"passed", "failed", "blocked"} :
         Goto(r, [me EXCEPT
           !.pc = "checks",
           !.left = IF outcome = "blocked" THEN 0 ELSE @ - 1,
           !.fails = IF outcome = "passed" THEN @ ELSE outcome,
           !.evidence[me.step] =
             IF outcome # "passed" \/ (@ = "none" /\ me.left = 1)
             THEN outcome ELSE @])

\* Mutation: a verification cut short by an abort counts as passed.
MutVerificationStatus(x) ==
  IF x.fails = "none" THEN "passed" ELSE x.fails

\* The status executeVerificationChecks returns, once no check is to be run.
\* Checks left over by an abort are skipped.
VerificationStatus(x) ==
  CASE x.aborted \/ x.fails = "blocked"  -> "blocked"
    [] ~x.aborted /\ x.fails = "failed" -> "failed"
    [] OTHER                            -> "passed"

\* Mutation: the attempt counter is not incremented.
MutRecovering(r, x) ==
  \/ x.attempt < MaxAttempts /\ ~x.aborted /\ Goto(r, [x EXCEPT !.pc = "correct"])
  \/ x.attempt >= MaxAttempts /\ ~x.aborted /\ Goto(r, [x EXCEPT !.pc = "exhausted"])

\* Head of the recovery loop: another attempt, give up, or, after an abort,
\* leave the step loop through the next test of its condition.
Recovering(r, x) ==
  \/ /\ x.attempt < MaxAttempts /\ ~x.aborted
     /\ Goto(r, [x EXCEPT !.attempt = @ + 1, !.pc = "correct"])
  \/ /\ x.attempt >= MaxAttempts /\ ~x.aborted
     /\ Goto(r, [x EXCEPT !.pc = "exhausted"])
  \/ /\ x.aborted
     /\ Goto(r, [x EXCEPT !.plan = Cancelled(@), !.told = "plan_cancelled",
                          !.step = NoStep, !.pc = "closing"])

EndChecks(r) ==
  LET me == run[r]
      v  == VerificationStatus(me)
      x  == [me EXCEPT !.verdict = v, !.left = 0]
  IN  /\ me.pc = "checks"
      /\ me.left = 0 \/ me.aborted
      /\ \/ /\ me.phase = "step" /\ v = "failed"
            /\ Goto(r, [x EXCEPT !.attempt = 0, !.pc = "recover"])
         \/ /\ me.phase = "correction" /\ v # "passed"
            /\ Recovering(r, x)
         \/ /\ v = "passed" \/ me.phase = "final" \/ (me.phase = "step" /\ v = "blocked")
            /\ Goto(r, [x EXCEPT !.pc = "verdict",
                                 !.report = IF me.phase = "final" /\ v # "passed"
                                            THEN "failure" ELSE @])

\* Mutation: no break after step_blocked.
MutStepVerdict(r) ==
  LET me == run[r] IN
    /\ me.pc = "verdict"
    /\ me.phase # "final"
    /\ \/ me.verdict = "passed" /\ CompleteCurrentStep(r, me)
       \/ /\ me.verdict = "blocked"
          /\ Goto(r, [me EXCEPT !.plan = StepBlocked(@, me.step), !.pc = "select"])

StepVerdict(r) ==
  LET me == run[r] IN
    /\ me.pc = "verdict"
    /\ me.phase # "final"
    /\ \/ /\ me.verdict = "passed"
          /\ CompleteCurrentStep(r, me)
       \/ /\ me.verdict = "blocked"
          /\ Attempt(r, MayBlockStep(me.plan, me.step),
               [me EXCEPT !.plan = StepBlocked(@, me.step), !.pc = "halted"])

\* Mutation: plan_failed is emitted, planState.fail is not called.
MutPlanVerdict(r) ==
  LET me == run[r] IN
    /\ me.pc = "verdict"
    /\ me.phase = "final"
    /\ \/ me.verdict = "passed" /\ CompletePlan(r, me)
       \/ /\ me.verdict # "passed"
          /\ Goto(r, [me EXCEPT !.told = "plan_failed", !.report = "failure",
                                !.pc = "closing"])

PlanVerdict(r) ==
  LET me == run[r] IN
    /\ me.pc = "verdict"
    /\ me.phase = "final"
    /\ \/ /\ me.verdict = "passed"
          /\ CompletePlan(r, me)
       \/ /\ me.verdict # "passed"
          /\ Goto(r, [me EXCEPT !.plan = Failed(@), !.told = "plan_failed",
                                !.report = "failure", !.pc = "closing"])

Recover(r) == run[r].pc = "recover" /\ Recovering(r, run[r])

\* The failure context goes into the conversation and a new loop runs.
Correct(r) ==
  /\ run[r].pc = "correct"
  /\ Goto(r, [run[r] EXCEPT !.phase = "correction", !.calls = 0, !.pc = "loop"])

GiveUp(r) ==
  /\ run[r].pc = "exhausted"
  /\ Goto(r, [run[r] EXCEPT !.plan = StepFailed(@, run[r].step),
                            !.report = "failure", !.pc = "halted"])

Close(r) == run[r].pc = "closing" /\ Finally(r, run[r])

----------------------------------------------------------------------------

\* What a run does by itself.
RunStep(r) ==
  \/ SkipPlanning(r) \/ FailPlanning(r) \/ GeneratePlan(r) \/ AdoptPlan(r)
  \/ ClosePlanOnly(r)
  \/ SelectStep(r)   \/ EndSteps(r)
  \/ StartTool(r)    \/ EndTool(r)      \/ LoopCancelled(r)
  \/ (\E ok \in BOOLEAN : LoopEnded(r, ok))
  \/ FailTurn(r)     \/ ChooseChecks(r) \/ ChooseFinalChecks(r)
  \/ StartCheck(r)   \/ EndCheck(r)     \/ EndChecks(r)
  \/ StepVerdict(r)  \/ PlanVerdict(r)
  \/ Recover(r)      \/ Correct(r)      \/ GiveUp(r)
  \/ Close(r)

CallerStep(r) == RunStream(r) \/ ExternalAbort(r) \/ Abandon(r)

Next == Cancel \/ \E r \in Runs : RunStep(r) \/ CallerStep(r)

Spec == Init /\ [][Next]_vars

\* The provider, the tools and the checks answer, and consumers keep pulling.
FairSpec == Spec /\ \A r \in Runs : WF_vars(RunStep(r))

----------------------------------------------------------------------------
(* Correctness *)

PCs == {"new", "begin", "planned", "planOnly", "select", "loop", "tool",
        "turnOver", "turnFailed", "checks", "check", "verdict", "recover",
        "correct", "exhausted", "halted", "final", "closing", "done"}

Local == [pc       : PCs,
          phase    : {"plain", "step", "correction", "final"},
          aborted  : BOOLEAN,
          verify   : BOOLEAN,
          plan     : Plan \cup {NoPlan},
          step     : StepIds \cup {NoStep},
          calls    : 0 .. MaxToolCalls,
          attempt  : 0 .. MaxAttempts,
          checks   : 0 .. MaxChecks,
          left     : 0 .. MaxChecks,
          fails    : {"none", "failed", "blocked"},
          verdict  : {"none", "passed", "failed", "blocked"},
          evidence : [Subjects -> Evidence],
          told     : {"none", "plan_completed", "plan_cancelled", "plan_failed",
                      "agent_completed", "agent_cancelled", "agent_error",
                      "threw", "abandoned"},
          report   : {"none", "success", "failure", "cancelled"}]

\* The fields have their types; in particular no loop exceeds its tool call
\* budget and no step its recovery attempts.
TypeOK ==
  /\ state \in AgentState
  /\ active \in Runs \cup {NoRun}
  /\ activePlan \in Runs \cup {NoRun}
  /\ run \in [Runs -> Local]

HasPlan(r) == run[r].plan # NoPlan

\* Whatever fails, recovers or is cancelled on the way, a step leaves
\* `pending` only after everything it depends on was completed.
StepsInDependencyOrder ==
  \A r \in Runs : HasPlan(r) =>
    \A s \in Ids(run[r].plan) :
      run[r].plan.step[s] # "pending" =>
        \A d \in run[r].plan.deps[s] : run[r].plan.step[d] = "completed"

\* The plan stops at its first trouble: of all its steps at most one is in
\* progress, blocked or failed, so no step is worked on after one that was
\* blocked, failed or interrupted.
StopsAtFirstTrouble ==
  \A r \in Runs : HasPlan(r) =>
    \A s, t \in WithStatus(run[r].plan, {"in_progress", "blocked", "failed"}) : s = t

\* Work counts as done only on evidence gathered after the last change to it:
\* every check selected for it ran and passed, or none was selected.  It holds
\* for a step and for a whole plan, and a completed plan has no open step.
CompletedOnEvidence ==
  \A r \in Runs : HasPlan(r) =>
    /\ \A s \in WithStatus(run[r].plan, {"completed"}) :
         run[r].evidence[s] \in {"passed", "unchecked"}
    /\ run[r].plan.status = "completed" =>
         /\ AllDone(run[r].plan)
         /\ run[r].evidence[NoStep] \in {"passed", "unchecked"}

\* When a planned run that nobody aborted emits its last event, that event
\* and the plan agree; incomplete steps are always explained by one that
\* failed or was blocked, never by a plan with nothing left to select.
LastEventAgreesWithPlan ==
  \A r \in Runs :
    run[r].pc = "closing" /\ HasPlan(r) /\ ~run[r].aborted =>
      \/ run[r].told = "plan_completed" /\ run[r].plan.status = "completed"
      \/ run[r].told = "plan_failed" /\ run[r].plan.status \in {"failed", "blocked"}

\* run() folds the events of a planned run into success exactly when the plan
\* completed, although every successful turn and correction on the way emits
\* an agent_completed.
ReportAgreesWithPlan ==
  \A r \in Runs :
    run[r].pc = "closing" /\ HasPlan(r) /\ ~run[r].aborted =>
      (run[r].report = "success" <=> run[r].plan.status = "completed")

\* Once its signal is aborted, a run starts no step, tool call, check or
\* correction any more, wherever the abort caught it.
AbortStopsWork ==
  [][\A r \in Runs : run[r].aborted =>
       /\ run'[r].calls <= run[r].calls
       /\ run'[r].attempt <= run[r].attempt
       /\ run'[r].pc = "check" => run[r].pc = "check"
       /\ HasPlan(r) => WithStatus(run'[r].plan, {"in_progress"})
                          \subseteq WithStatus(run[r].plan, {"in_progress"})]_vars

\* When no run is executing the runtime is free: neither an exception, an
\* abandoned stream nor an abort leaves it busy or holding a controller.
LockReleased ==
  (\A r \in Runs : ~Executing(r)) => state \notin Busy /\ active = NoRun

\* At most one run executes at a time (the concurrency lock of runStream).
MutualExclusion ==
  \A r, q \in Runs : Executing(r) /\ Executing(q) => r = q

\* cancel() reaches every run that is executing and not yet aborted.
CancelReachesRun ==
  \A r \in Runs : Executing(r) /\ ~run[r].aborted => active = r

\* Every run that has started ends: the recovery loop, the step loop and the
\* tool calls are bounded, and no path forgets the end.
RunEnds == \A r \in Runs : Executing(r) ~> run[r].pc = "done"

----------------------------------------------------------------------------
(* What callers see of the runtime *)

Seen(x) ==
  [pc        |-> CASE x.pc \in {"new", "done"}         -> x.pc
                   [] x.pc \in {"closing", "planOnly"} -> "last"
                   [] OTHER                            -> "open",
   cancelled |-> x.aborted,
   doing     |-> CASE x.pc = "tool"  -> <<"tool", x.calls>>
                   [] x.pc = "check" -> <<"check", x.left>>
                   [] OTHER          -> <<"idle", 0>>]

isBusy == state \in Busy
views  == [r \in Runs |-> Seen(run[r])]

Contract == INSTANCE RuntimeContract WITH
  busy  <- isBusy,
  run   <- views,
  Names <- 0 .. MaxToolCalls + MaxChecks

\* Whatever happens inside of a run, however runs overlap and whoever cancels
\* or leaves them, callers see what the screen is built on: a lock that only
\* a new run, a tool call or its end takes and every end of a run gives back, an
\* abort that stops all work, tool calls and checks one at a time, each ended
\* before the run goes on.
KeepsContract == Contract!Spec

----------------------------------------------------------------------------
(* What the documentation says and the code does not do *)

\* verification-and-self-correction.md: an environment failure blocks execution
\* instead of letting the model modify code.
CorrectsOnlyFailures ==
  \A r \in Runs : run[r].pc = "correct" => run[r].verdict = "failed"
=============================================================================
