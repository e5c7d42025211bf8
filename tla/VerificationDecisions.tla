------------------------ MODULE VerificationDecisions ------------------------
(***************************************************************************)
(* VerificationPolicy and FailureAnalyzer: which checks a project offers,  *)
(* which of them a step is given, and what a failed check is blamed on.    *)
(* Texts are sets: of words, each with what the regular expressions and    *)
(* the includes() of the code find in it, or of signs found in an output.  *)
(***************************************************************************)
EXTENDS Naturals, Sequences, SequencesExt, FiniteSets

Types == {"typecheck", "test", "lint", "build"}

\* scripts of package.json, which counts as one without scripts if it is
\* absent or invalid; what pyproject.toml mentions, or "absent".  Of a project
\* with scripts the rest matters little.
Projects ==
  {p \in [scripts : SUBSET Types,
          pyproject : {{"absent"}} \cup SUBSET {"pytest", "mypy", "ruff"}, pytestIni : BOOLEAN,
          cargo : BOOLEAN, goMod : BOOLEAN, pubspec : BOOLEAN] :
     p.scripts # {} => p.pyproject = {"absent"} /\ ~p.pytestIni /\ ~p.goMod /\ ~p.pubspec}

\* a list with x, if the condition holds
OnlyIf(condition, x) == IF condition THEN <<x>> ELSE <<>>

\* A check is its type: no kind of project has two checks of one type.
NodeChecks(p) ==
  OnlyIf("typecheck" \in p.scripts, "typecheck") \o OnlyIf("test" \in p.scripts, "test") \o
  OnlyIf("lint" \in p.scripts, "lint") \o OnlyIf("build" \in p.scripts, "build")

\* pytest is named in pyproject.toml, or has an ini file of its own
PythonChecks(p) ==
  OnlyIf("pytest" \in p.pyproject \/ p.pytestIni, "test") \o
  OnlyIf("mypy" \in p.pyproject, "typecheck") \o OnlyIf("ruff" \in p.pyproject, "lint")

CargoChecks(p) == OnlyIf(p.cargo, "typecheck") \o OnlyIf(p.cargo, "test")
GoChecks(p) == OnlyIf(p.goMod, "lint") \o OnlyIf(p.goMod, "test")
DartChecks(p) == OnlyIf(p.pubspec, "typecheck") \o OnlyIf(p.pubspec, "test")

\* discoverChecks: the first kind of project that offers any check
DiscoveredChecks(p) ==
  LET offers == <<NodeChecks(p), PythonChecks(p), CargoChecks(p), GoChecks(p), DartChecks(p)>>
      kinds  == {k \in DOMAIN offers : offers[k] # <<>>}
  IN IF kinds = {} THEN <<>> ELSE offers[Min(kinds)]

-----------------------------------------------------------------------------
(* selectChecks.  Verbs are looked for inside words, mentions as words. *)

Words == {"inspect", "thread", "fix", "address", "patch", "tests", "types", "lint", "build"}

InfoWords == {"inspect", "thread"}           \* "thread" has "read" in it
ModWords == {"fix", "address"}               \* "address" has "add" in it
ChangeWords == {"fix", "patch"}
MentionOf == [typecheck |-> "types", test |-> "tests", lint |-> "lint", build |-> "build"]

\* Mutation: a step that has a verb of inspection is informational.
MutInformational(text) == text \cap InfoWords # {}

Informational(text) == text \cap InfoWords # {} /\ text \cap ModWords = {}

\* A selection is the set of the places in the list of what was discovered: no
\* check twice, and without the order in which the code lists it.
OfType(checks, types) == {i \in DOMAIN checks : checks[i] \in types}
Mentioned(checks, text) == {i \in DOMAIN checks : MentionOf[checks[i]] \in text}
FirstCheck(places) == {i \in places : \A j \in places : i <= j}
FirstTwo(checks) == DOMAIN checks \cap {1, 2}

FinalChecks(checks) ==
  LET suites == OfType(checks, {"typecheck", "test", "build"})
  IN IF suites # {} THEN suites ELSE DOMAIN checks

StepChecks(checks, text) ==
  LET mentioned == Mentioned(checks, text)
      changed   == FirstCheck(OfType(checks, {"typecheck"})) \cup FirstCheck(OfType(checks, {"test"}))
      selected  == IF text \cap ChangeWords # {} /\ mentioned = {} THEN changed ELSE mentioned
  IN IF selected # {} THEN selected ELSE FirstTwo(checks)

SelectedChecks(project, text, isFinal) ==
  LET checks == DiscoveredChecks(project)
  IN CASE isFinal -> FinalChecks(checks)
       [] ~isFinal /\ Informational(text) -> {}
       [] OTHER -> StepChecks(checks, text)

(***************************************************************************)
(* At the end of a plan no suite is left out for lack of a word.  A step   *)
(* without a word that hides a verb of inspection is never without a check *)
(* if the project offers one, and neither is one that says fix, whatever   *)
(* else it says: what such a step names is run, and if it names nothing    *)
(* but changes code, the types and the tests are looked at.  A step that   *)
(* says inspect and has no verb of change is given none.                   *)
(***************************************************************************)
ChoiceFits(project, text, isFinal, selected) ==
  LET offered == DiscoveredChecks(project)
      owed    == text \cap InfoWords = {} \/ "fix" \in text
      IsNamed(i) == MentionOf[offered[i]] \in text
      Implied(i) == /\ offered[i] \in {"typecheck", "test"} /\ text \cap ChangeWords # {}
                    /\ ~\E j \in DOMAIN offered : IsNamed(j)
  IN /\ selected \subseteq DOMAIN offered
     /\ selected = {} /\ (isFinal \/ owed) => offered = <<>>
     /\ \A i \in DOMAIN offered :
          (IF isFinal THEN offered[i] # "lint" ELSE owed /\ (IsNamed(i) \/ Implied(i)))
            => i \in selected
     /\ ~isFinal /\ "inspect" \in text /\ text \cap (ModWords \cup ChangeWords) = {} => selected = {}

\* a step that changes code and names no check is given the types and the tests
ChangeVerified(project, text, selected) ==
  LET offered == DiscoveredChecks(project)
  IN text \cap ChangeWords # {} /\ Mentioned(offered, text) = {} =>
       OfType(offered, {"typecheck", "test"}) \subseteq selected

-----------------------------------------------------------------------------
(* FailureAnalyzer.analyze.  Signs of the output, and of the error text.   *)

Signs ==
  {"environment",   \* permission, network, variable or executable missing
   "tsText",        \* isTypeScriptOutput
   "property",      \* one of the texts above: a property that does not exist
   "tsPlace",       \* a JavaScript or TypeScript file with line and column
   "testText", "lintText", "buildText",  \* isTestOutput, isLintOutput, isBuildOutput
   "enoent"}        \* a file that does not exist

CheckTypes == Types \cup {"command", "file"}

Failures ==
  {f \in [type : CheckTypes, command : BOOLEAN, code : {"none", "zero", "nonzero"},
          output : SUBSET Signs, error : SUBSET {"environment"}] :
     "property" \in f.output => "tsText" \in f.output}

Candidate(f, type, text) == f.type = type \/ text \in f.output

\* detectTypeFailure returns null when it finds nothing to point at
PointsAtType(f) == f.output \cap {"tsPlace", "property"} # {} \/ f.type = "typecheck"

\* Mutation: only the output is looked at.
MutOfEnvironment(f) == "environment" \in f.output

OfEnvironment(f) == "environment" \in f.output \cup f.error

\* what applies, in the order in which it is looked for
Categories(f) ==
  OnlyIf(OfEnvironment(f), "environment_failure") \o
  OnlyIf(Candidate(f, "typecheck", "tsText") /\ PointsAtType(f), "type_error") \o
  OnlyIf(Candidate(f, "test", "testText"), "test_failure") \o
  OnlyIf(Candidate(f, "lint", "lintText"), "lint_error") \o
  OnlyIf(Candidate(f, "build", "buildText"), "build_failure") \o
  OnlyIf("enoent" \in f.output, "missing_file") \o
  OnlyIf(f.command \/ f.code = "nonzero", "command_failure")

Blamed(f) ==
  LET category == Head(Append(Categories(f), "unknown"))
  IN [category |-> category, recoverable |-> category # "environment_failure"]

CategoryOf == [typecheck |-> "type_error", test |-> "test_failure",
               lint |-> "lint_error", build |-> "build_failure"]

(***************************************************************************)
(* The environment is blamed when there is a sign of it and only then, and *)
(* nothing else stops the corrections.  A check of a known type whose      *)
(* output has no sign of another is blamed on its own type, and the        *)
(* failure of a command, which is all VerificationRunner hands on, is      *)
(* never unknown.                                                          *)
(***************************************************************************)
BlameFits(f, blame) ==
  /\ ~blame.recoverable <=> "environment" \in f.output \cup f.error
  /\ f.type \in Types /\ f.output = {} /\ f.error = {} => blame.category = CategoryOf[f.type]
  /\ f.command => blame.category # "unknown"
  /\ blame.category \in Range(CategoryOf) /\ f.type \in Types =>
       blame.category = CategoryOf[f.type] \/ f.output # {}
=============================================================================
