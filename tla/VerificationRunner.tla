-------------------------- MODULE VerificationRunner --------------------------
(***************************************************************************)
(* VerificationRunner.runAll and runCheck, as VerifierService.verify calls *)
(* them: a list of checks run one after another through ToolExecutor and   *)
(* execute_command, each on a process of ProcessExecutor, until the list   *)
(* ends or an environment failure stops it.  How the end of a process      *)
(* becomes a passed, failed or skipped check, and how the checks become a  *)
(* verdict.                                                                *)
(***************************************************************************)
EXTENDS ProcessExecutor, Sequences, SequencesExt

CONSTANT MaxChecks  \* bound: checks in one verification

ASSUME RunnerAssumption == MaxChecks \in Nat

VARIABLES
  checks,    \* the checks given: for each, whether it has a command
  executed,  \* executedChecks, with what is known of the process behind each
  phase,     \* where runAll is: before a check, in one, or returned
  verdict    \* status of the VerificationResult

verifyVars == <<executorVars, checks, executed, phase, verdict>>
runnerVars == <<checks, executed, phase, verdict>>

\* environment: a failure of category environment_failure, never recoverable.
\* code, timedOut, truncated are history: how the process behind it ended.
Check ==
  [status : {"passed", "failed", "skipped"}, environment : BOOLEAN, ran : BOOLEAN,
   code : {"unknown", "zero", "nonzero", "null"}, timedOut : BOOLEAN, truncated : BOOLEAN]

NotRun(status) ==
  [status |-> status, environment |-> FALSE, ran |-> FALSE, code |-> "unknown",
   timedOut |-> FALSE, truncated |-> FALSE]

Verdicts == {"none", "passed", "failed", "blocked", "unable_to_verify"}

RunnerInit ==
  /\ ExecutorInit
  /\ checks \in SeqOf(BOOLEAN, MaxChecks)
  /\ executed = <<>>
  /\ phase = "before"
  /\ verdict = "none"

Stopped == \E i \in DOMAIN executed : executed[i].environment
Failed == \E i \in DOMAIN executed : executed[i].status = "failed"
ChecksLeft == Len(executed) < Len(checks) /\ ~Stopped
NextCheck == checks[Len(executed) + 1]

\* exitCode ?? 0: the null of a process that died by a signal counts as zero
ExitCode == IF child.code = "null" THEN "zero" ELSE child.code
IsSuccess == ExitCode = "zero" /\ ~call.timedOut

-----------------------------------------------------------------------------
(* runAll from one await to the next. *)

Record(check) == executed' = Append(executed, check)

\* an abort before a check skips it and goes on to skip the others
SkipCheck ==
  /\ phase = "before" /\ ChecksLeft
  /\ aborted
  /\ Record(NotRun("skipped"))
  /\ UNCHANGED <<executorVars, checks, phase, verdict>>

PassWithoutCommand ==
  /\ phase = "before" /\ ChecksLeft
  /\ ~aborted
  /\ ~NextCheck
  /\ Record(NotRun("passed"))
  /\ UNCHANGED <<executorVars, checks, phase, verdict>>

StartCommand ==
  /\ phase = "before" /\ ChecksLeft
  /\ ~aborted
  /\ NextCheck
  /\ Execute
  /\ phase' = "running"
  /\ UNCHANGED <<checks, executed, verdict>>

\* the tool's promise is settled: a rejection is a failed tool call; the
\* analysis of a failure may find, in the text of its output or error, that
\* the environment is to blame
EndCommand ==
  /\ phase = "running"
  /\ call.outcome # "pending"
  /\ \E environment \in BOOLEAN :
       LET succeeded == call.outcome = "resolved" /\ IsSuccess
       IN /\ succeeded => ~environment
          /\ Record([status |-> IF succeeded THEN "passed" ELSE "failed",
                     environment |-> environment, ran |-> TRUE, code |-> child.code,
                     timedOut |-> call.timedOut, truncated |-> call.truncated])
  /\ phase' = "before"
  /\ UNCHANGED <<executorVars, checks, verdict>>

\* Mutation: the signal is not looked at when the verdict is formed.
MutVerdict ==
  CASE Stopped -> "blocked"
    [] ~Stopped /\ Failed -> "failed"
    [] OTHER -> "passed"

Verdict ==
  CASE aborted \/ Stopped -> "blocked"
    [] ~aborted /\ ~Stopped /\ Failed -> "failed"
    [] OTHER -> "passed"

Return ==
  /\ phase = "before" /\ ~ChecksLeft
  /\ verdict' = IF checks = <<>> THEN "unable_to_verify" ELSE Verdict
  /\ phase' = "returned"
  /\ UNCHANGED <<executorVars, checks, executed>>

Runner == SkipCheck \/ PassWithoutCommand \/ StartCommand \/ EndCommand \/ Return

\* the verification does not use ExecutorNext: only StartCommand executes
Shell == (Begin \/ SignalAborts \/ Callback \/ Process) /\ UNCHANGED runnerVars

RunnerNext == Runner \/ Shell

RunnerSpec == RunnerInit /\ [][RunnerNext]_verifyVars

RunnerFairness == WF_verifyVars(Runner) /\ ExecutorFairness

FairRunner == RunnerSpec /\ RunnerFairness

-----------------------------------------------------------------------------
RunnerTypeOK ==
  /\ ExecutorTypeOK
  /\ executed \in Seq(Check) /\ Len(executed) <= Len(checks)
  /\ phase \in {"before", "running", "returned"}
  /\ verdict \in Verdicts

(***************************************************************************)
(* The abort may come while a check's command is being resolved, run or    *)
(* classified, or between checks, and an environment failure may come      *)
(* first: no process is spawned afterwards, whichever of the three places  *)
(* that look at the signal is passed last.                                 *)
(***************************************************************************)
SpawnsNothingAfterStop ==
  [][child'.phase = "alive" /\ child.phase # "alive" => ~aborted /\ ~Stopped]_verifyVars

(***************************************************************************)
(* A verification passes only if every check of the list was looked at and *)
(* passed, none was skipped by an abort or cut off by an environment       *)
(* failure, a command was run for each check that has one, and none of     *)
(* them ran out of its time or ended with a code other than zero.  Whether *)
(* it ended with the code zero is the claim of PassedMeansExitZero.        *)
(***************************************************************************)
PassedOnEvidence ==
  verdict = "passed" =>
    /\ Len(executed) = Len(checks) /\ checks # <<>>
    /\ \A i \in DOMAIN executed :
         /\ executed[i].status = "passed"
         /\ executed[i].ran <=> checks[i]
         /\ executed[i].code # "nonzero" /\ ~executed[i].timedOut

(***************************************************************************)
(* docs/architecture/verification-and-self-correction.md says of passed:   *)
(* "All required checks ran and passed with exit code 0 and concrete       *)
(* evidence", and that the verifier inspects signals.  A command that died *)
(* by a signal has the exit code null, which the tool reports as zero.     *)
(***************************************************************************)
PassedMeansExitZero ==
  verdict = "passed" => \A i \in DOMAIN executed : executed[i].ran => executed[i].code = "zero"

\* the commands nothing in the code can end: without a timeout, deaf to
\* SIGTERM, or with a descendant that keeps the pipes open
Stubborn ==
  \/ child.phase = "alive" /\ (~call.timed \/ ~child.obeys)
  \/ child.phase = "exited" /\ child.inherited

(***************************************************************************)
(* Every verification returns, whatever fails, times out, writes without   *)
(* end or is aborted, unless it waits for a stubborn command for ever.     *)
(***************************************************************************)
VerificationReturns == <>(phase = "returned") \/ <>[]Stubborn

=============================================================================
