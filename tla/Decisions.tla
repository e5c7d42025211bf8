------------------------------ MODULE Decisions ------------------------------
(***************************************************************************)
(* The parts of the project that judge or translate what they are given    *)
(* and share no state with others: the judgement of a plan and the stream  *)
(* of an answer step by step, the functions as a question and its answer.  *)
(* A behaviour is one of them at work.                                     *)
(***************************************************************************)
EXTENDS PlanJudgement, VerificationDecisions, ProviderStream, FileLines

VARIABLES topic, question, answer

vars == <<topic, question, answer, judgeVars, streamVars>>

ChecksQuestions == [project : Projects, text : SUBSET Words, isFinal : BOOLEAN]

Init ==
  /\ JudgeInit /\ StreamInit
  /\ answer = <<>>
  /\ \/ topic \in {"plan", "stream"} /\ question = <<>>
     \/ topic = "checks" /\ question \in ChecksQuestions
     \/ topic = "failure" /\ question \in Failures
     \/ topic = "lines" /\ question \in Ranges

Decides(decision) ==
  /\ answer = <<>> /\ answer' = <<decision>>
  /\ UNCHANGED <<topic, question, judgeVars, streamVars>>

Choose ==
  /\ topic = "checks"
  /\ Decides(SelectedChecks(question.project, question.text, question.isFinal))

Blame == topic = "failure" /\ Decides(Blamed(question))

Read == topic = "lines" /\ Decides(ReadLines(question))

Judge ==
  /\ topic = "plan"
  /\ JudgeNext
  /\ UNCHANGED <<topic, question, answer, streamVars>>

Stream ==
  /\ topic = "stream"
  /\ StreamNext
  /\ UNCHANGED <<topic, question, answer, judgeVars>>

Next == Choose \/ Blame \/ Read \/ Judge \/ Stream

Spec == Init /\ [][Next]_vars

Answered(asked) == topic = asked /\ answer # <<>>

(***************************************************************************)
(* selectChecks gives a step that says nothing of inspection, or that says *)
(* fix, the checks it names or the change implies, leaves out no suite at  *)
(* the end of a plan, and gives a step of mere inspection none.            *)
(***************************************************************************)
ChecksFit == Answered("checks") =>
  ChoiceFits(question.project, question.text, question.isFinal, answer[1])

(***************************************************************************)
(* docs/architecture/verification-and-self-correction.md says of targeted  *)
(* verification: "Code implementation / refactoring: Selects compiler      *)
(* typechecks and relevant tests."  Patch, migrate and remove change code  *)
(* to selectChecks and do not keep a step from being informational, and    *)
(* read is found in thread: patch the thread is given no check.            *)
(***************************************************************************)
CodeChangesVerified == Answered("checks") /\ ~question.isFinal =>
  ChangeVerified(question.project, question.text, answer[1])

(***************************************************************************)
(* analyze blames the environment, and so stops all corrections, exactly   *)
(* when output or error has a sign of it; otherwise a check is blamed for  *)
(* its own type unless its output looks like another's.                    *)
(***************************************************************************)
FailuresBlamed == Answered("failure") => BlameFits(question, answer[1])

(***************************************************************************)
(* readFile refuses a range or returns the lines it says it returned, at   *)
(* either end of a file and past it; a negative end counts from the back.  *)
(***************************************************************************)
LinesRead == Answered("lines") => LinesFit(question, answer[1])
=============================================================================
