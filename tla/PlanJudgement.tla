---------------------------- MODULE PlanJudgement ----------------------------
(***************************************************************************)
(* From the text a model answers with to a plan: parsePlanResponse and     *)
(* PlanValidator.validate as PlanGenerator.generate calls them, with the   *)
(* depth-first search for a cycle one step at a time, in whatever order    *)
(* the arrays list the steps and the dependencies of each.                 *)
(*                                                                         *)
(* The n-th step is named n if it has no id of its own.  The parser trims  *)
(* ids, so that here the validator meets none with spaces around it; the   *)
(* ids a step depends on it does not: one with spaces is a Stray.          *)
(***************************************************************************)
EXTENDS PlanModel

CONSTANTS NoId,    \* a step without a usable id
          Stray,   \* an id no step has
          Answers  \* what the model may answer

RawStep == [id : StepIds \cup {NoId}, deps : SUBSET (StepIds \cup {Stray})]

(***************************************************************************)
(* readable: the text holds an object with a goal and an array of objects; *)
(* worded: goal, titles and descriptions are given and within their limits. *)
(***************************************************************************)
ASSUME JudgementAssumption ==
  /\ NoId \notin StepIds /\ Stray \notin StepIds
  /\ \A s \in StepIds : Trim[s] = s
  /\ \A a \in Answers :
       /\ a.readable \in BOOLEAN /\ a.worded \in BOOLEAN
       /\ a.steps \in Seq(RawStep) /\ DOMAIN a.steps \subseteq StepIds

VARIABLES judged,  \* where generate is: waiting for the text, in the search,
                   \* or at its end
          raw,     \* the text
          colour,  \* state: of each id, how far the search has come
          path     \* pathStack: the calls of checkCycle that are open

judgeVars == <<judged, raw, colour, path>>

JudgeInit ==
  /\ judged = "asked"
  /\ raw = [readable |-> FALSE, worded |-> FALSE, steps |-> <<>>]
  /\ colour = <<>>
  /\ path = <<>>

\* parsePlanResponse, on a text that is readable
ParsedSteps(answer) ==
  [i \in DOMAIN answer.steps |->
     [answer.steps[i] EXCEPT !.id = IF @ = NoId THEN i ELSE @]]

IdOf(steps) == [i \in DOMAIN steps |-> steps[i].id]

\* stepMap, once the ids are known to be distinct
DepsOf(steps) ==
  [id \in Range(IdOf(steps)) |-> steps[CHOOSE i \in DOMAIN steps : steps[i].id = id].deps]

LinksKnown(deps) == \A id \in DOMAIN deps : deps[id] \subseteq DOMAIN deps \ {id}

\* what validate looks at before the search: each check is reached if those
\* before it pass
PassesChecks(answer) ==
  LET steps == ParsedSteps(answer)
  IN /\ answer.readable
     /\ answer.worded
     /\ Len(steps) \in 1 .. MaxSteps
     /\ IsInjective(IdOf(steps))
     /\ LinksKnown(DepsOf(steps))

\* parsePlanResponse and the first checks, on the whole text
Judged(answer) ==
  /\ raw' = answer
  /\ \/ /\ PassesChecks(answer)
        /\ judged' = "searching"
        /\ colour' = [id \in Range(IdOf(ParsedSteps(answer))) |-> "unvisited"]
     \/ /\ ~PassesChecks(answer)
        /\ judged' = "refused"
        /\ UNCHANGED colour
  /\ UNCHANGED path

Receive == judged = "asked" /\ \E answer \in Answers : Judged(answer)

----------------------------------------------------------------------------
(* checkCycle *)

Links == DepsOf(ParsedSteps(raw))

\* a call of checkCycle
Enter(id) ==
  /\ colour[id] = "unvisited"
  /\ colour' = [colour EXCEPT ![id] = "visiting"]
  /\ path' = Append(path, id)
  /\ UNCHANGED <<judged, raw>>

Begin == judged = "searching" /\ path = <<>> /\ \E id \in DOMAIN Links : Enter(id)

Descend ==
  /\ judged = "searching" /\ path # <<>>
  /\ \E d \in Links[Last(path)] : Enter(d)

FindCycle ==
  /\ judged = "searching" /\ path # <<>>
  /\ \E d \in Links[Last(path)] : colour[d] = "visiting"
  /\ judged' = "refused"
  /\ UNCHANGED <<raw, colour, path>>

\* Mutation: a step is not marked as visited when its call returns.
MutReturned == colour

Returned == [colour EXCEPT ![Last(path)] = "visited"]

Leave ==
  /\ judged = "searching" /\ path # <<>>
  /\ \A d \in Links[Last(path)] : colour[d] = "visited"
  /\ colour' = Returned
  /\ path' = Front(path)
  /\ UNCHANGED <<judged, raw>>

Accept ==
  /\ judged = "searching" /\ path = <<>>
  /\ \A id \in DOMAIN Links : colour[id] # "unvisited"
  /\ judged' = "accepted"
  /\ UNCHANGED <<raw, colour, path>>

JudgeNext ==
  \/ Receive \/ Begin \/ Descend \/ FindCycle \/ Leave \/ Accept

JudgeSpec == JudgeInit /\ [][JudgeNext]_judgeVars

----------------------------------------------------------------------------
\* what an accepted plan has to be
Usable(answer) ==
  LET steps == ParsedSteps(answer)
      links == DepsOf(steps)
  IN /\ answer.readable /\ answer.worded
     /\ IsInjective(IdOf(steps))
     /\ UNION Range(links) \subseteq StepIds
     /\ Valid(NewPlan(IdOf(steps),
                      [s \in StepIds |-> IF s \in DOMAIN links THEN links[s] ELSE {}]))

(***************************************************************************)
(* parsePlanResponse and the validator's depth-first search accept exactly *)
(* the plans of which every step can be executed some time: whole texts,   *)
(* distinct ids after the defaults are filled in, known dependencies and   *)
(* no cycle, in whatever order the search meets the steps.                 *)
(***************************************************************************)
PlansJudged ==
  /\ judged = "accepted" => Usable(raw)
  /\ judged = "refused" => ~Usable(raw)
=============================================================================
