---------------------------- MODULE DecisionProofs ----------------------------
(***************************************************************************)
(* What the validator, the selection of checks, the failure analyzer, the  *)
(* provider's stream and readFile decide, for all constants and all that   *)
(* they may be given.  The search of the validator keeps three facts: what *)
(* is visited is closed under dependencies and without a cycle, what is    *)
(* being visited is the path, and each step on the path depends on the     *)
(* next.  The stream keeps that what is collected of each call is what was *)
(* read of it.                                                             *)
(***************************************************************************)
EXTENDS Decisions, SequenceTheorems, TLAPS

(***************************************************************************)
(* Graphs.  The steps that the search is done with and one that depends on *)
(* no others still have no cycle.  A path on which the last step depends   *)
(* on one of the path holds a cycle.                                       *)
(***************************************************************************)
LEMMA SinkAdded ==
  ASSUME NEW f, NEW V, NEW v, v \notin V, f[v] \subseteq V,
         \A u \in V : f[u] \subseteq V, Acyclic(V, f)
  PROVE  Acyclic(V \cup {v}, f)
<1> SUFFICES ASSUME NEW S \in SUBSET (V \cup {v}), S # {}
             PROVE  \E s \in S : f[s] \cap S = {}
  BY DEF Acyclic
<1>1. CASE S \cap V = {}
  <2>1. S = {v}
    BY <1>1
  <2> QED BY <2>1
<1>2. CASE S \cap V # {}
  <2>1. PICK s \in S \cap V : f[s] \cap (S \cap V) = {}
    BY <1>2 DEF Acyclic
  <2> QED BY <2>1
<1> QED BY <1>1, <1>2

LEMMA PathClosed ==
  ASSUME NEW X, NEW f, NEW p \in Seq(X), NEW k \in 1 .. Len(p),
         \A i \in 1 .. Len(p) - 1 : p[i + 1] \in f[p[i]],
         p[k] \in f[p[Len(p)]]
  PROVE  ~Acyclic(X, f)
<1> DEFINE S == {p[i] : i \in k .. Len(p)}
<1>1. S \in SUBSET X /\ p[k] \in S
  OBVIOUS
<1>2. ASSUME NEW s \in S PROVE f[s] \cap S # {}
  <2>1. PICK i \in k .. Len(p) : s = p[i]
    OBVIOUS
  <2>2. CASE i = Len(p)
    BY <1>1, <2>1, <2>2
  <2>3. CASE i < Len(p)
    <3>1. i + 1 \in k .. Len(p) /\ p[i + 1] \in f[s]
      BY <2>1, <2>3
    <3> QED BY <3>1
  <2> QED BY <2>2, <2>3
<1> QED BY <1>1, <1>2 DEF Acyclic

----------------------------------------------------------------------------
(* What is judged. *)

StepsOf(a) == Range(IdOf(ParsedSteps(a)))
LinksOf(a) == DepsOf(ParsedSteps(a))

\* The ids of an answer, with the defaults filled in, are ids; the array of
\* ids is one of as many.
LEMMA ParsedAnswer ==
  ASSUME NEW a \in Answers
  PROVE  /\ ParsedSteps(a) \in Seq(RawStep)
         /\ IdOf(ParsedSteps(a)) \in Seq(StepIds)
         /\ Len(IdOf(ParsedSteps(a))) = Len(ParsedSteps(a))
         /\ StepsOf(a) \subseteq StepIds
         /\ DOMAIN LinksOf(a) = StepsOf(a)
<1> DEFINE n == Len(a.steps)
<1>1. n \in Nat /\ DOMAIN a.steps = 1 .. n /\ 1 .. n \subseteq StepIds
      /\ \A i \in 1 .. n : a.steps[i] \in RawStep
  BY JudgementAssumption
<1>2. \A i \in 1 .. n : [a.steps[i] EXCEPT !.id = IF @ = NoId THEN i ELSE @] \in RawStep
                        /\ [a.steps[i] EXCEPT !.id = IF @ = NoId THEN i ELSE @].id \in StepIds
  BY <1>1 DEF RawStep
<1> HIDE DEF n
<1>3. ParsedSteps(a) = [i \in 1 .. n |-> [a.steps[i] EXCEPT !.id = IF @ = NoId THEN i ELSE @]]
  BY <1>1 DEF ParsedSteps
<1> DEFINE p == ParsedSteps(a)
<1>a. DOMAIN p = 1 .. n /\ \A i \in 1 .. n : p[i] = [a.steps[i] EXCEPT !.id = IF @ = NoId THEN i ELSE @]
  BY <1>3
<1>b. p = [i \in 1 .. n |-> p[i]]
  BY <1>3
<1> HIDE DEF p
<1>c. \A i \in 1 .. n : p[i] \in RawStep /\ p[i].id \in StepIds
  BY <1>2, <1>a
<1>4. p \in Seq(RawStep) /\ Len(p) = n /\ DOMAIN p = 1 .. n /\ \A i \in 1 .. n : p[i].id \in StepIds
  BY <1>1, <1>a, <1>b, <1>c
<1>5. IdOf(p) = [i \in 1 .. n |-> p[i].id]
  BY <1>4 DEF IdOf
<1>6. IdOf(p) \in Seq(StepIds) /\ Len(IdOf(p)) = n /\ DOMAIN IdOf(p) = 1 .. n
  BY <1>1, <1>4, <1>5
<1>7. Range(IdOf(p)) \subseteq StepIds
  BY <1>4, <1>5, <1>6 DEF Range
<1>8. DOMAIN DepsOf(p) = Range(IdOf(p))
  BY DEF DepsOf
<1> QED BY <1>4, <1>6, <1>7, <1>8 DEF p, StepsOf, LinksOf

\* What Usable says of an answer beyond the checks is that it has no cycle.
LEMMA UsableMeans ==
  ASSUME NEW a \in Answers
  PROVE  Usable(a) <=> PassesChecks(a) /\ Acyclic(StepsOf(a), LinksOf(a))
<1> DEFINE o == IdOf(ParsedSteps(a))
           D == LinksOf(a)
           F == [s \in StepIds |-> IF s \in DOMAIN D THEN D[s] ELSE {}]
           p == NewPlan(o, F)
<1>1. /\ o \in Seq(StepIds) /\ Len(o) = Len(ParsedSteps(a))
      /\ StepsOf(a) \subseteq StepIds /\ DOMAIN D = StepsOf(a)
      /\ StepsOf(a) = Range(o)
  BY ParsedAnswer DEF StepsOf
<1>2. Range(o) = ToSet(o)
  BY DEF Range, ToSet
<1> HIDE DEF o, D
<1>3. Ids(p) = StepsOf(a) /\ p.order = o
  BY <1>1, <1>2 DEF Ids, NewPlan
<1>4. p.deps = [s \in StepIds |-> IF s \in StepsOf(a) THEN D[s] ELSE {}]
  BY <1>1, <1>2 DEF NewPlan
<1>5. \A s \in StepsOf(a) : p.deps[s] = D[s]
  BY <1>1, <1>4
<1> HIDE DEF p
<1>6. Acyclic(StepsOf(a), p.deps) <=> Acyclic(StepsOf(a), D)
  BY <1>5 DEF Acyclic
<1>7. Valid(p) <=> /\ Len(o) \in 1 .. MaxSteps
                   /\ \A s \in StepsOf(a) : D[s] \subseteq StepsOf(a) \ {s}
                   /\ Acyclic(StepsOf(a), D)
  <2>1. \A s \in StepIds : Trim[s] = s
    BY JudgementAssumption
  <2>2. Ids(p) \subseteq StepIds
    BY DEF Ids
  <2>3. IdsDistinct(p)
    BY <2>1, <2>2 DEF IdsDistinct
  <2>4. Searched(p) = StepsOf(a)
    BY <1>3, <2>1, <2>2 DEF Searched
  <2> QED
    BY <1>3, <1>5, <1>6, <2>3, <2>4 DEF Valid, DependenciesOK
<1>8. LinksKnown(D) <=> \A s \in StepsOf(a) : D[s] \subseteq StepsOf(a) \ {s}
  BY <1>1 DEF LinksKnown
<1>9. LinksKnown(D) => UNION Range(D) \subseteq StepIds
  BY <1>1, <1>8 DEF Range
<1>10. Usable(a) <=> /\ a.readable /\ a.worded /\ IsInjective(o)
                     /\ UNION Range(D) \subseteq StepIds /\ Valid(p)
  BY DEF Usable, o, D, p, LinksOf
<1>11. PassesChecks(a) <=> /\ a.readable /\ a.worded /\ Len(o) \in 1 .. MaxSteps
                           /\ IsInjective(o) /\ LinksKnown(D)
  BY <1>1 DEF PassesChecks, o, D, LinksOf
<1>12. /\ a.readable \in BOOLEAN /\ a.worded \in BOOLEAN
       /\ D = LinksOf(a)
  BY JudgementAssumption DEF D
<1> QED BY <1>7, <1>8, <1>9, <1>10, <1>11, <1>12

----------------------------------------------------------------------------
(***************************************************************************)
(* The search on steps X with dependencies f, at colours c and with the    *)
(* open calls p: a step is being visited exactly if a call for it is open, *)
(* each open call but the first was made for a dependency of the one       *)
(* before it, and the steps it is done with depend on each other only, and *)
(* have no cycle.                                                          *)
(***************************************************************************)
Done(X, c) == {s \in X : c[s] = "visited"}

Explored(X, f, c, p) ==
  /\ c \in [X -> {"unvisited", "visiting", "visited"}]
  /\ p \in Seq(X)
  /\ \A i, k \in 1 .. Len(p) : p[i] = p[k] => i = k
  /\ \A s \in X : c[s] = "visiting" <=> \E i \in 1 .. Len(p) : p[i] = s
  /\ \A i \in 1 .. Len(p) - 1 : p[i + 1] \in f[p[i]]
  /\ \A s \in Done(X, c) : f[s] \subseteq Done(X, c)
  /\ Acyclic(Done(X, c), f)

LEMMA SearchEnters ==
  ASSUME NEW X, NEW f, NEW c, NEW p, Explored(X, f, c, p),
         NEW id \in X, c[id] = "unvisited",
         p # <<>> => id \in f[p[Len(p)]]
  PROVE  Explored(X, f, [c EXCEPT ![id] = "visiting"], Append(p, id))
<1> DEFINE d == [c EXCEPT ![id] = "visiting"]
           q == Append(p, id)
<1>1. /\ c \in [X -> {"unvisited", "visiting", "visited"}]
      /\ p \in Seq(X)
  BY DEF Explored
<1>2. /\ d \in [X -> {"unvisited", "visiting", "visited"}]
      /\ \A s \in X : d[s] = IF s = id THEN "visiting" ELSE c[s]
  BY <1>1
<1>3. /\ q \in Seq(X) /\ Len(q) = Len(p) + 1 /\ q[Len(p) + 1] = id
      /\ \A i \in 1 .. Len(p) : q[i] = p[i]
      /\ Len(p) \in Nat
  BY <1>1
<1> HIDE DEF d, q
<1>4. Done(X, d) = Done(X, c)
  BY <1>2 DEF Done
<1>5. \A i \in 1 .. Len(p) : p[i] \in X /\ p[i] # id
  <2> SUFFICES ASSUME NEW i \in 1 .. Len(p) PROVE p[i] \in X /\ p[i] # id
    OBVIOUS
  <2>1. p[i] \in X
    BY <1>1
  <2>2. c[p[i]] = "visiting"
    BY <2>1 DEF Explored
  <2> QED BY <2>1, <2>2
<1>6. \A i, k \in 1 .. Len(q) : q[i] = q[k] => i = k
  <2>1. \A i, k \in 1 .. Len(p) : p[i] = p[k] => i = k
    BY DEF Explored
  <2> QED BY <1>3, <1>5, <2>1
<1>7. ASSUME NEW s \in X PROVE d[s] = "visiting" <=> \E i \in 1 .. Len(q) : q[i] = s
  <2>1. c[s] = "visiting" <=> \E i \in 1 .. Len(p) : p[i] = s
    BY DEF Explored
  <2>2. (\E i \in 1 .. Len(q) : q[i] = s) <=> s = id \/ \E i \in 1 .. Len(p) : p[i] = s
    BY <1>3
  <2>3. d[s] = "visiting" <=> s = id \/ c[s] = "visiting"
    BY <1>2
  <2> QED BY <2>1, <2>2, <2>3
<1>8. ASSUME NEW i \in 1 .. Len(q) - 1 PROVE q[i + 1] \in f[q[i]]
  <2>1. CASE i = Len(p)
    BY <1>3, <2>1
  <2>2. CASE i < Len(p)
    <3>1. i \in 1 .. Len(p) - 1 /\ i + 1 \in 1 .. Len(p)
      BY <1>3, <2>2
    <3>2. p[i + 1] \in f[p[i]]
      BY <3>1 DEF Explored
    <3> QED BY <1>3, <3>1, <3>2
  <2> QED BY <1>3, <2>1, <2>2
<1>9. /\ \A s \in Done(X, d) : f[s] \subseteq Done(X, d)
      /\ Acyclic(Done(X, d), f)
  BY <1>4 DEF Explored
<1> HIDE DEF Explored
<1> QED
  <2>1. Explored(X, f, d, q)
    BY <1>2, <1>3, <1>6, <1>7, <1>8, <1>9 DEF Explored
  <2> QED BY <2>1 DEF d, q

LEMMA SearchLeaves ==
  ASSUME NEW X, NEW f, NEW c, NEW p, Explored(X, f, c, p), p # <<>>,
         f[p[Len(p)]] \subseteq X,
         \A s \in f[p[Len(p)]] : c[s] = "visited"
  PROVE  Explored(X, f, [c EXCEPT ![p[Len(p)]] = "visited"], Front(p))
<1> DEFINE v == p[Len(p)]
           d == [c EXCEPT ![v] = "visited"]
           q == Front(p)
<1>1. /\ c \in [X -> {"unvisited", "visiting", "visited"}]
      /\ p \in Seq(X) /\ Len(p) \in Nat /\ Len(p) # 0 /\ v \in X
  BY DEF Explored
<1>2. /\ d \in [X -> {"unvisited", "visiting", "visited"}]
      /\ \A s \in X : d[s] = IF s = v THEN "visited" ELSE c[s]
  BY <1>1
<1>3. /\ q \in Seq(X) /\ Len(q) = Len(p) - 1
      /\ \A i \in 1 .. Len(p) - 1 : q[i] = p[i]
  <2> DEFINE n == Len(p) - 1
  <2>1. q = SubSeq(p, 1, n) /\ n \in Nat /\ \A i \in 1 .. n : p[i] \in X
    BY <1>1 DEF Front
  <2> HIDE DEF q, n
  <2>2. q \in Seq(X) /\ Len(q) = (IF 1 <= n THEN n - 1 + 1 ELSE 0)
        /\ \A i \in 1 .. n - 1 + 1 : q[i] = p[1 + i - 1]
    BY <2>1, SubSeqProperties
  <2>3. Len(q) = n /\ n - 1 + 1 = n
    BY <2>1, <2>2
  <2>4. \A i \in 1 .. n : q[i] = p[1 + i - 1] /\ 1 + i - 1 = i
    BY <2>1, <2>2, <2>3
  <2>5. \A i \in 1 .. n : q[i] = p[i]
    BY <2>4
  <2> QED BY <2>2, <2>3, <2>5 DEF n
<1>4. c[v] = "visiting"
  BY <1>1 DEF Explored
<1>a. \A i \in 1 .. Len(p) - 1 : p[i] # v
  BY <1>1 DEF Explored
<1>b. f[v] \subseteq Done(X, c)
  BY DEF Done
<1> HIDE DEF v, d, q
<1>5. Done(X, d) = Done(X, c) \cup {v} /\ v \notin Done(X, c)
  BY <1>1, <1>2, <1>4 DEF Done
<1>6. \A i, k \in 1 .. Len(q) : q[i] = q[k] => i = k
  <2>1. \A i, k \in 1 .. Len(p) : p[i] = p[k] => i = k
    BY DEF Explored
  <2> QED BY <1>1, <1>3, <2>1
<1>7. ASSUME NEW s \in X PROVE d[s] = "visiting" <=> \E i \in 1 .. Len(q) : q[i] = s
  <2>1. c[s] = "visiting" <=> \E i \in 1 .. Len(p) : p[i] = s
    BY DEF Explored
  <2>2. (\E i \in 1 .. Len(p) : p[i] = s) <=> s = v \/ \E i \in 1 .. Len(q) : q[i] = s
    <3>1. /\ Len(p) \in 1 .. Len(p) /\ p[Len(p)] = v
          /\ 1 .. Len(q) = (1 .. Len(p)) \ {Len(p)}
      BY <1>1, <1>3 DEF v
    <3>2. \A i \in 1 .. Len(q) : q[i] = p[i]
      BY <1>3
    <3> QED BY <3>1, <3>2
  <2>3. d[s] = "visiting" <=> s # v /\ c[s] = "visiting"
    BY <1>2
  <2>4. \A i \in 1 .. Len(q) : q[i] # v
    BY <1>1, <1>3, <1>a
  <2> QED BY <2>1, <2>2, <2>3, <2>4
<1>8. ASSUME NEW i \in 1 .. Len(q) - 1 PROVE q[i + 1] \in f[q[i]]
  <2>1. i \in 1 .. Len(p) - 1 /\ i + 1 \in 1 .. Len(p) - 1
    BY <1>1, <1>3
  <2>2. p[i + 1] \in f[p[i]]
    BY <2>1 DEF Explored
  <2> QED BY <1>3, <2>1, <2>2
<1>9. \A s \in Done(X, c) : f[s] \subseteq Done(X, c)
  BY DEF Explored
<1>10. \A s \in Done(X, d) : f[s] \subseteq Done(X, d)
  BY <1>5, <1>9, <1>b
<1>11. Acyclic(Done(X, d), f)
  <2>1. Acyclic(Done(X, c), f)
    BY DEF Explored
  <2> QED BY <1>5, <1>9, <1>b, <2>1, SinkAdded
<1> QED
  <2>1. Explored(X, f, d, q)
    BY <1>2, <1>3, <1>6, <1>7, <1>8, <1>10, <1>11 DEF Explored
  <2> QED BY <2>1 DEF d, q, v

----------------------------------------------------------------------------
(* The judgement. *)

JudgeInv ==
  /\ judged \in {"asked", "searching", "accepted", "refused"}
  /\ judged = "asked" => path = <<>>
  /\ judged # "asked" => raw \in Answers
  /\ judged = "searching" =>
       PassesChecks(raw) /\ Explored(StepsOf(raw), LinksOf(raw), colour, path)
  /\ PlansJudged

LEMMA JudgeStarts == JudgeInit => JudgeInv
  BY DEF JudgeInit, JudgeInv, PlansJudged

LEMMA JudgeSteps == JudgeInv /\ [JudgeNext]_judgeVars => JudgeInv'
<1> SUFFICES ASSUME JudgeInv, [JudgeNext]_judgeVars PROVE JudgeInv'
  OBVIOUS
<1> DEFINE X == StepsOf(raw)
           f == LinksOf(raw)
<1> USE DEF JudgeInv
<1>1. CASE UNCHANGED judgeVars
  BY <1>1 DEF judgeVars, PlansJudged
<1>2. CASE Receive
  <2>1. PICK a \in Answers : Judged(a)
    BY <1>2 DEF Receive
  <2>2. raw' = a /\ path' = <<>> /\ judged' \in {"searching", "refused"}
    BY <1>2, <2>1 DEF Receive, Judged
  <2>3. CASE PassesChecks(a)
    <3>1. judged' = "searching" /\ colour' = [s \in StepsOf(a) |-> "unvisited"]
      BY <2>1, <2>3 DEF Judged, StepsOf
    <3>2. Explored(StepsOf(a), LinksOf(a), [s \in StepsOf(a) |-> "unvisited"], <<>>)
      <4> DEFINE Y == StepsOf(a)
                 g == LinksOf(a)
                 c == [s \in Y |-> "unvisited"]
      <4> HIDE DEF Y, g
      <4>1. c \in [Y -> {"unvisited", "visiting", "visited"}] /\ \A s \in Y : c[s] = "unvisited"
        OBVIOUS
      <4> HIDE DEF c
      <4>2. Done(Y, c) = {}
        BY <4>1 DEF Done
      <4>3. Acyclic(Done(Y, c), g)
        BY <4>2 DEF Acyclic
      <4>4. Explored(Y, g, c, <<>>)
        BY <4>1, <4>2, <4>3 DEF Explored
      <4> QED BY <4>4 DEF Y, g, c
    <3> QED BY <2>2, <2>3, <3>1, <3>2 DEF PlansJudged
  <2>4. CASE ~PassesChecks(a)
    <3>1. judged' = "refused"
      BY <2>1, <2>4 DEF Judged
    <3>2. ~Usable(a)
      BY <2>4, UsableMeans
    <3> QED BY <2>2, <3>1, <3>2 DEF PlansJudged
  <2> QED BY <2>3, <2>4
<1>3. CASE \/ Begin \/ Descend \/ FindCycle \/ Leave \/ Accept
  <2>1. /\ judged = "searching" /\ raw' = raw /\ raw \in Answers /\ PassesChecks(raw)
        /\ Explored(X, f, colour, path)
        /\ Links = f /\ DOMAIN f = X
    BY <1>3, ParsedAnswer
       DEF Begin, Descend, FindCycle, Leave, Accept, Enter, Links, LinksOf
  <2>2. \A s \in X : f[s] \subseteq X
    BY <2>1 DEF PassesChecks, LinksKnown, LinksOf
  <2>3. /\ path \in Seq(X) /\ colour \in [X -> {"unvisited", "visiting", "visited"}]
    BY <2>1 DEF Explored
  <2>4. path # <<>> => Len(path) \in 1 .. Len(path) /\ Last(path) = path[Len(path)] /\ Last(path) \in X
    BY <2>3 DEF Last
  <2>5. ASSUME NEW s \in X, Enter(s), path # <<>> => s \in f[path[Len(path)]]
        PROVE  JudgeInv'
    <3>1. Explored(X, f, colour', path')
      BY <2>1, <2>5, SearchEnters DEF Enter
    <3>2. judged' = "searching"
      BY <2>1, <2>5 DEF Enter
    <3> QED BY <2>1, <3>1, <3>2 DEF PlansJudged
  <2>6. CASE Begin
    BY <2>1, <2>5, <2>6 DEF Begin
  <2>7. CASE Descend
    BY <2>1, <2>2, <2>4, <2>5, <2>7 DEF Descend
  <2>8. CASE FindCycle
    <3>1. PICK s \in f[path[Len(path)]] : colour[s] = "visiting"
      BY <2>1, <2>4, <2>8 DEF FindCycle
    <3>2. s \in X /\ path # <<>>
      BY <2>2, <2>4, <2>8, <3>1 DEF FindCycle
    <3>3. PICK k \in 1 .. Len(path) : path[k] = s
      BY <2>1, <3>1, <3>2 DEF Explored
    <3>4. \A i \in 1 .. Len(path) - 1 : path[i + 1] \in f[path[i]]
      BY <2>1 DEF Explored
    <3>5. path[k] \in f[path[Len(path)]]
      BY <3>1, <3>3
    <3> HIDE DEF X, f
    <3>6. ~Acyclic(X, f)
      BY <2>3, <3>4, <3>5, PathClosed
    <3>7. ~Usable(raw)
      BY <2>1, <3>6, UsableMeans DEF X, f
    <3> QED BY <2>1, <2>8, <3>7 DEF FindCycle, PlansJudged
  <2>9. CASE Leave
    <3>1. /\ path # <<>> /\ f[path[Len(path)]] \subseteq X
          /\ \A s \in f[path[Len(path)]] : colour[s] = "visited"
          /\ colour' = [colour EXCEPT ![path[Len(path)]] = "visited"]
          /\ path' = Front(path) /\ judged' = judged
      BY <2>1, <2>2, <2>4, <2>9 DEF Leave, Returned
    <3>2. Explored(X, f, colour', path')
      BY <2>1, <3>1, SearchLeaves
    <3> QED BY <2>1, <3>1, <3>2 DEF PlansJudged
  <2>10. CASE Accept
    <3>1. path = <<>> /\ judged' = "accepted" /\ \A s \in X : colour[s] # "unvisited"
      BY <2>1, <2>10 DEF Accept
    <3>2. \A s \in X : colour[s] = "visited"
      BY <2>1, <2>3, <3>1 DEF Explored
    <3>3. Done(X, colour) = X
      BY <3>2 DEF Done
    <3>4. Acyclic(X, f)
      BY <2>1, <3>3 DEF Explored
    <3>5. Usable(raw)
      BY <2>1, <3>4, UsableMeans
    <3> QED BY <2>1, <3>1, <3>5 DEF PlansJudged
  <2> QED BY <1>3, <2>6, <2>7, <2>8, <2>9, <2>10
<1> QED BY <1>1, <1>2, <1>3 DEF JudgeNext

----------------------------------------------------------------------------
(* The stream of an answer: what one chunk more changes. *)

ToldCalls == [index : Nat, named : BOOLEAN, parts : Seq(Nat)]

LEMMA ChunkIndex ==
  ASSUME NEW c \in Chunks
  PROVE  /\ IndexOf(c) \in Nat /\ c.named \in BOOLEAN /\ c.kind \in {"text", "call"}
<1>1. CASE c = TextChunk
  BY <1>1 DEF TextChunk, IndexOf
<1>2. CASE c \in [kind : {"call"}, index : {None} \cup 0 .. Calls - 1, named : BOOLEAN]
  <2>1. c.kind = "call" /\ c.named \in BOOLEAN /\ c.index \in {None} \cup 0 .. Calls - 1
    BY <1>2
  <2> QED BY <2>1, StreamAssumption DEF IndexOf
<1> QED BY <1>1, <1>2 DEF Chunks

LEMMA FragmentAdded ==
  ASSUME NEW s \in Seq(Chunks), NEW c \in Chunks, NEW x
  PROVE  /\ FragmentsOf(Append(s, c), x) =
              FragmentsOf(s, x) \cup
                (IF c.kind = "call" /\ IndexOf(c) = x THEN {Len(s) + 1} ELSE {})
         /\ Begun(Append(s, c)) =
              Begun(s) \cup (IF c.kind = "call" THEN {IndexOf(c)} ELSE {})
<1> DEFINE t == Append(s, c)
<1>1. /\ DOMAIN s = 1 .. Len(s) /\ DOMAIN t = 1 .. Len(s) + 1 /\ Len(s) \in Nat
      /\ t[Len(s) + 1] = c /\ \A i \in 1 .. Len(s) : t[i] = s[i]
  OBVIOUS
<1> HIDE DEF t
<1>2. 1 .. Len(s) + 1 = (1 .. Len(s)) \cup {Len(s) + 1} /\ Len(s) + 1 \notin 1 .. Len(s)
  BY <1>1
<1>3. FragmentsOf(t, x) = FragmentsOf(s, x) \cup
                            (IF c.kind = "call" /\ IndexOf(c) = x THEN {Len(s) + 1} ELSE {})
  BY <1>1, <1>2 DEF FragmentsOf
<1>4. Begun(t) = Begun(s) \cup (IF c.kind = "call" THEN {IndexOf(c)} ELSE {})
  BY <1>1, <1>2 DEF Begun
<1> QED BY <1>3, <1>4 DEF t

LEMMA FragmentsRead ==
  ASSUME NEW s \in Seq(Chunks), NEW x
  PROVE  /\ FragmentsOf(s, x) \subseteq 1 .. Len(s)
         /\ FragmentsOf(s, x) # {} <=> x \in Begun(s)
<1>1. DOMAIN s = 1 .. Len(s)
  OBVIOUS
<1> QED BY <1>1 DEF FragmentsOf, Begun

\* A chunk of text or of another call leaves a call as it is.
LEMMA WholeKept ==
  ASSUME NEW s \in Seq(Chunks), NEW c \in Chunks, NEW call \in ToldCalls,
         Whole(s, call), c.kind = "call" => IndexOf(c) # call.index
  PROVE  Whole(Append(s, c), call)
<1> DEFINE t == Append(s, c)
           F == FragmentsOf(s, call.index)
<1>a. FragmentsOf(t, call.index) =
        F \cup (IF c.kind = "call" /\ IndexOf(c) = call.index THEN {Len(s) + 1} ELSE {})
  BY FragmentAdded
<1>1. FragmentsOf(t, call.index) = F
  BY <1>a
<1>2. \A i \in F : t[i] = s[i]
  BY FragmentsRead
<1> HIDE DEF t
<1>3. (\E k \in FragmentsOf(t, call.index) : t[k].named) <=> (\E k \in F : s[k].named)
  BY <1>1, <1>2
<1>4. call.named \in BOOLEAN
  BY DEF ToldCalls
<1>5. call.named = \E k \in F : s[k].named
  BY DEF Whole
<1>6. call.named = \E k \in FragmentsOf(t, call.index) : t[k].named
  BY <1>3, <1>5
<1>7. Whole(t, call)
  BY <1>1, <1>6 DEF Whole
<1> QED BY <1>7 DEF t

\* A fragment of a call extends it to all its parts.
LEMMA WholeExtended ==
  ASSUME NEW s \in Seq(Chunks), NEW c \in Chunks, NEW call \in ToldCalls,
         Whole(s, call), c.kind = "call", IndexOf(c) = call.index
  PROVE  /\ Extended(call, c, Len(s) + 1) \in ToldCalls
         /\ Whole(Append(s, c), Extended(call, c, Len(s) + 1))
         /\ Extended(call, c, Len(s) + 1).index = call.index
         /\ Extended(call, c, Len(s) + 1).parts # <<>>
         /\ Head(Extended(call, c, Len(s) + 1).parts) =
              IF call.parts = <<>> THEN Len(s) + 1 ELSE Head(call.parts)
<1> DEFINE t == Append(s, c)
           n == Len(s) + 1
           F == FragmentsOf(s, call.index)
           p == call.parts
           q == Append(p, n)
           e == Extended(call, c, n)
<1>1. /\ p \in Seq(Nat) /\ call.index \in Nat /\ call.named \in BOOLEAN
      /\ c.named \in BOOLEAN /\ Len(s) \in Nat
  BY ChunkIndex DEF ToldCalls
<1>2. e.index = call.index /\ e.parts = q
      /\ e.named = (call.named \/ c.named) /\ e.named \in BOOLEAN
  BY <1>1 DEF Extended
<1>3. e \in ToldCalls
  BY <1>1 DEF Extended, ToldCalls
<1>4. FragmentsOf(t, call.index) = F \cup {n}
  BY FragmentAdded
<1>5. F \subseteq 1 .. Len(s) /\ \A i \in F : t[i] = s[i]
  BY FragmentsRead
<1>6. t[n] = c
  OBVIOUS
<1>7. ToSet(p) = F /\ \A k, m \in 1 .. Len(p) : k < m => p[k] < p[m]
  BY <1>1 DEF Whole
<1>8. /\ Len(q) = Len(p) + 1 /\ q[Len(p) + 1] = n /\ Len(p) \in Nat
      /\ \A i \in 1 .. Len(p) : q[i] = p[i]
      /\ DOMAIN q = 1 .. Len(p) + 1 /\ DOMAIN p = 1 .. Len(p)
  BY <1>1
<1>a. call.named = \E k \in F : s[k].named
  BY DEF Whole
<1> HIDE DEF t, n, F, p, q, e
<1>9. ToSet(q) = F \cup {n}
  <2>1. ToSet(p) = {p[i] : i \in 1 .. Len(p)} /\ ToSet(q) = {q[i] : i \in 1 .. Len(p) + 1}
    BY <1>8 DEF ToSet
  <2> QED BY <1>7, <1>8, <2>1
<1>10. \A k \in 1 .. Len(p) : p[k] \in Nat /\ p[k] < n
  <2>1. \A k \in 1 .. Len(p) : p[k] \in F
    BY <1>7, <1>8 DEF ToSet
  <2> QED BY <1>1, <1>5, <2>1 DEF n
<1>11. \A k, m \in DOMAIN q : k < m => q[k] < q[m]
  BY <1>7, <1>8, <1>10
<1>12. (\E k \in F \cup {n} : t[k].named) <=> (\E k \in F : s[k].named) \/ c.named
  BY <1>5, <1>6
<1>13. e.named = \E k \in F \cup {n} : t[k].named
  BY <1>1, <1>2, <1>12, <1>a
<1>14. Whole(t, e)
  BY <1>2, <1>4, <1>9, <1>11, <1>13 DEF Whole
<1>15. q # <<>> /\ Head(q) = IF p = <<>> THEN n ELSE Head(p)
  <2>1. Head(q) = q[1] /\ q # <<>>
    BY <1>1, <1>8 DEF q
  <2>2. CASE p = <<>>
    BY <1>8, <2>1, <2>2
  <2>3. CASE p # <<>>
    BY <1>1, <1>8, <2>1, <2>3
  <2> QED BY <2>1, <2>2, <2>3
<1> QED BY <1>2, <1>3, <1>14, <1>15 DEF t, n, e, p

----------------------------------------------------------------------------
(***************************************************************************)
(* The calls cs that are put together from the chunks s: one for each that *)
(* was begun, whole, in the order of their first fragments.                *)
(***************************************************************************)
Collected(s, cs) ==
  /\ cs \in Seq(ToldCalls)
  /\ \A i \in 1 .. Len(cs) :
       cs[i].parts # <<>> /\ Whole(s, cs[i]) /\ cs[i].index \in Begun(s)
  /\ \A i, k \in 1 .. Len(cs) : i < k => Head(cs[i].parts) < Head(cs[k].parts)
  /\ \A i, k \in 1 .. Len(cs) : cs[i].index = cs[k].index => i = k
  /\ \A x \in Begun(s) : \E i \in 1 .. Len(cs) : cs[i].index = x

LEMMA TextCollected ==
  ASSUME NEW s \in Seq(Chunks), NEW cs, Collected(s, cs)
  PROVE  Collected(Append(s, TextChunk), cs)
<1>1. TextChunk \in Chunks /\ TextChunk.kind = "text"
  BY DEF Chunks, TextChunk
<1>2. Begun(Append(s, TextChunk)) = Begun(s)
  <2>1. Begun(Append(s, TextChunk)) =
          Begun(s) \cup (IF TextChunk.kind = "call" THEN {IndexOf(TextChunk)} ELSE {})
    BY <1>1, FragmentAdded
  <2> QED BY <1>1, <2>1
<1>3. cs \in Seq(ToldCalls)
  BY DEF Collected
<1>4. \A i \in 1 .. Len(cs) : Whole(Append(s, TextChunk), cs[i])
  <2> SUFFICES ASSUME NEW i \in 1 .. Len(cs) PROVE Whole(Append(s, TextChunk), cs[i])
    OBVIOUS
  <2>1. cs[i] \in ToldCalls /\ Whole(s, cs[i])
    BY <1>3 DEF Collected
  <2> QED BY <1>1, <2>1, WholeKept
<1> QED BY <1>2, <1>4 DEF Collected

LEMMA FragmentCollected ==
  ASSUME NEW s \in Seq(Chunks), NEW c \in Chunks, c.kind = "call", Collected(s, calls)
  PROVE  Collected(Append(s, c), Assembled(c, Len(s) + 1))
<1> DEFINE t == Append(s, c)
           n == Len(s) + 1
           x == IndexOf(c)
           known == \E i \in DOMAIN calls : calls[i].index = x
           ds == Assembled(c, n)
<1>1. calls \in Seq(ToldCalls) /\ DOMAIN calls = 1 .. Len(calls) /\ Len(calls) \in Nat
  BY DEF Collected
<1>2. Begun(t) = Begun(s) \cup {x}
  BY FragmentAdded
<1>3. x \in Nat /\ n \in Nat
  BY ChunkIndex
<1>4. \A i \in 1 .. Len(calls) :
        /\ calls[i] \in ToldCalls /\ calls[i].parts # <<>> /\ Whole(s, calls[i])
        /\ calls[i].index \in Begun(s)
  BY <1>1 DEF Collected
<1>5. \A i \in 1 .. Len(calls) : Head(calls[i].parts) \in Nat /\ Head(calls[i].parts) < n
  <2> SUFFICES ASSUME NEW i \in 1 .. Len(calls)
               PROVE  Head(calls[i].parts) \in Nat /\ Head(calls[i].parts) < n
    OBVIOUS
  <2> DEFINE p == calls[i].parts
  <2>1. p \in Seq(Nat) /\ p # <<>> /\ ToSet(p) = FragmentsOf(s, calls[i].index)
    BY <1>4 DEF ToldCalls, Whole
  <2>2. FragmentsOf(s, calls[i].index) \subseteq 1 .. Len(s)
    BY FragmentsRead
  <2> HIDE DEF p
  <2>3. Head(p) = p[1] /\ 1 \in DOMAIN p
    BY <2>1
  <2>4. Head(p) \in ToSet(p)
    BY <2>3 DEF ToSet
  <2>5. Head(p) \in 1 .. Len(s)
    BY <2>1, <2>2, <2>4
  <2> QED BY <2>5 DEF p
<1>6. \A i \in 1 .. Len(calls) : calls[i].index # x => Whole(t, calls[i])
  BY <1>4, WholeKept
<1>7. ASSUME NEW call \in ToldCalls, Whole(s, call), call.index = x
      PROVE  /\ Extended(call, c, n) \in ToldCalls /\ Whole(t, Extended(call, c, n))
             /\ Extended(call, c, n).index = x
             /\ Extended(call, c, n).parts # <<>>
             /\ Head(Extended(call, c, n).parts) = IF call.parts = <<>> THEN n ELSE Head(call.parts)
  BY <1>7, WholeExtended
<1>8. /\ \A i, k \in 1 .. Len(calls) : i < k => Head(calls[i].parts) < Head(calls[k].parts)
      /\ \A i, k \in 1 .. Len(calls) : calls[i].index = calls[k].index => i = k
      /\ \A y \in Begun(s) : \E i \in 1 .. Len(calls) : calls[i].index = y
  BY DEF Collected
<1> HIDE DEF t, n, x
<1>9. CASE known
  <2>1. ds = [i \in 1 .. Len(calls) |->
                IF calls[i].index = x THEN Extended(calls[i], c, n) ELSE calls[i]]
    BY <1>1, <1>9 DEF Assembled, x, known
  <2> HIDE DEF ds
  <2>2. \A i \in 1 .. Len(calls) :
          /\ ds[i] \in ToldCalls /\ ds[i].parts # <<>> /\ Whole(t, ds[i])
          /\ ds[i].index = calls[i].index
          /\ Head(ds[i].parts) = Head(calls[i].parts)
    <3> SUFFICES ASSUME NEW i \in 1 .. Len(calls)
                 PROVE  /\ ds[i] \in ToldCalls /\ ds[i].parts # <<>> /\ Whole(t, ds[i])
                        /\ ds[i].index = calls[i].index
                        /\ Head(ds[i].parts) = Head(calls[i].parts)
      OBVIOUS
    <3>1. CASE calls[i].index = x
      <4>1. ds[i] = Extended(calls[i], c, n)
        BY <2>1, <3>1
      <4> QED BY <1>4, <1>7, <3>1, <4>1
    <3>2. CASE calls[i].index # x
      <4>1. ds[i] = calls[i]
        BY <2>1, <3>2
      <4> QED BY <1>4, <1>6, <3>2, <4>1
    <3> QED BY <3>1, <3>2
  <2>3. ds \in Seq(ToldCalls) /\ Len(ds) = Len(calls)
    BY <1>1, <2>1, <2>2
  <2>4. \A y \in Begun(t) : \E i \in 1 .. Len(ds) : ds[i].index = y
    BY <1>1, <1>2, <1>8, <1>9, <2>2, <2>3
  <2>5. \A i \in 1 .. Len(ds) : ds[i].index \in Begun(t)
    BY <1>2, <1>4, <2>2, <2>3
  <2>6. /\ \A i, k \in 1 .. Len(ds) : i < k => Head(ds[i].parts) < Head(ds[k].parts)
        /\ \A i, k \in 1 .. Len(ds) : ds[i].index = ds[k].index => i = k
    BY <1>8, <2>2, <2>3
  <2>7. Collected(t, ds)
    BY <2>2, <2>3, <2>4, <2>5, <2>6 DEF Collected
  <2> QED BY <2>7 DEF t, n, ds
<1>10. CASE ~known
  <2> DEFINE new == Extended(Call(x), c, n)
  <2>1. \A i \in 1 .. Len(calls) : calls[i].index # x
    BY <1>1, <1>10
  <2>2. Call(x) \in ToldCalls /\ Call(x).index = x /\ Call(x).parts = <<>> /\ Call(x).named = FALSE
    BY <1>3 DEF Call, ToldCalls
  <2>3. FragmentsOf(s, x) = {}
    BY <1>8, <2>1, FragmentsRead
  <2>4. Whole(s, Call(x))
    <3> DEFINE call == Call(x)
    <3>1. ToSet(call.parts) = {} /\ DOMAIN call.parts = {}
      BY <2>2 DEF ToSet
    <3>2. FragmentsOf(s, call.index) = {} /\ call.named = FALSE
      BY <2>2, <2>3
    <3> HIDE DEF call
    <3>3. Whole(s, call)
      BY <3>1, <3>2 DEF Whole
    <3> QED BY <3>3 DEF call
  <2>5. /\ new \in ToldCalls /\ Whole(t, new) /\ new.index = x /\ new.parts # <<>>
        /\ Head(new.parts) = n
    BY <1>7, <2>2, <2>4
  <2>6. ds = Append(calls, new)
    BY <1>10 DEF Assembled, x
  <2> HIDE DEF ds, new
  <2>7. /\ ds \in Seq(ToldCalls) /\ Len(ds) = Len(calls) + 1 /\ ds[Len(calls) + 1] = new
        /\ \A i \in 1 .. Len(calls) : ds[i] = calls[i]
    BY <1>1, <2>5, <2>6
  <2>8. \A i \in 1 .. Len(ds) : ds[i].parts # <<>> /\ Whole(t, ds[i]) /\ ds[i].index \in Begun(t)
    <3> SUFFICES ASSUME NEW i \in 1 .. Len(ds)
                 PROVE  ds[i].parts # <<>> /\ Whole(t, ds[i]) /\ ds[i].index \in Begun(t)
      OBVIOUS
    <3>1. CASE i = Len(calls) + 1
      BY <1>2, <2>5, <2>7, <3>1
    <3>2. CASE i \in 1 .. Len(calls)
      BY <1>2, <1>4, <1>6, <2>1, <2>7, <3>2
    <3> QED BY <1>1, <2>7, <3>1, <3>2
  <2>9. \A i, k \in 1 .. Len(ds) : i < k => Head(ds[i].parts) < Head(ds[k].parts)
    <3> SUFFICES ASSUME NEW i \in 1 .. Len(ds), NEW k \in 1 .. Len(ds), i < k
                 PROVE  Head(ds[i].parts) < Head(ds[k].parts)
      OBVIOUS
    <3>1. i \in 1 .. Len(calls) /\ (k = Len(calls) + 1 \/ k \in 1 .. Len(calls))
      BY <1>1, <2>7
    <3> QED BY <1>5, <1>8, <2>5, <2>7, <3>1
  <2>10. \A i, k \in 1 .. Len(ds) : ds[i].index = ds[k].index => i = k
    <3> SUFFICES ASSUME NEW i \in 1 .. Len(ds), NEW k \in 1 .. Len(ds), ds[i].index = ds[k].index
                 PROVE  i = k
      OBVIOUS
    <3>1. /\ i = Len(calls) + 1 \/ i \in 1 .. Len(calls)
          /\ k = Len(calls) + 1 \/ k \in 1 .. Len(calls)
      BY <1>1, <2>7
    <3> QED BY <1>8, <2>1, <2>5, <2>7, <3>1
  <2>11. \A y \in Begun(t) : \E i \in 1 .. Len(ds) : ds[i].index = y
    <3>1. 1 .. Len(ds) = 1 .. Len(calls) \cup {Len(calls) + 1}
      BY <1>1, <2>7
    <3> QED BY <1>2, <1>8, <2>5, <2>7, <3>1
  <2>12. Collected(t, ds)
    BY <2>7, <2>8, <2>9, <2>10, <2>11 DEF Collected
  <2> QED BY <2>12 DEF t, n, ds
<1> QED BY <1>9, <1>10

----------------------------------------------------------------------------
(* The events of the stream. *)

Events == [type : {"text_delta", "tool_call", "completed", "error"}, call : ToldCalls \cup {None}]

ToldIn(es) == {i \in 1 .. Len(es) : es[i].type = "tool_call"}

\* The first n of the calls cs are told by the events es, in their order.
TellsFirst(es, cs, n) ==
  /\ \A i \in ToldIn(es) : \E k \in 1 .. n : es[i].call = cs[k]
  /\ \A k \in 1 .. n : \E i \in ToldIn(es) : es[i].call = cs[k]
  /\ \A i, k \in ToldIn(es) : i < k => Head(es[i].call.parts) < Head(es[k].call.parts)

Ended(es) == {i \in 1 .. Len(es) : es[i].type \in {"error", "completed"}}

EndsRightly(es, s) ==
  \A i \in Ended(es) :
    /\ i = Len(es)
    /\ es[i].type = "error" => ToldIn(es) = {}
    /\ es[i].type = "completed" =>
         \A x \in Begun(s) : \E k \in ToldIn(es) : es[k].call.index = x

StreamInv ==
  /\ streaming \in {"new", "reading", "telling", "over"}
  /\ chunks \in Seq(Chunks)
  /\ Collected(chunks, calls)
  /\ told \in 0 .. Len(calls)
  /\ streaming \in {"new", "reading"} => told = 0
  /\ streaming = "new" => calls = <<>>
  /\ events \in Seq(Events)
  /\ TellsFirst(events, calls, told)
  /\ streaming # "over" => Ended(events) = {}
  /\ EndsRightly(events, chunks)

LEMMA EventAdded ==
  ASSUME NEW es \in Seq(Events), NEW e \in Events
  PROVE  /\ Append(es, e) \in Seq(Events) /\ Len(Append(es, e)) = Len(es) + 1
         /\ Append(es, e)[Len(es) + 1] = e /\ \A i \in 1 .. Len(es) : Append(es, e)[i] = es[i]
         /\ ToldIn(Append(es, e)) =
              ToldIn(es) \cup (IF e.type = "tool_call" THEN {Len(es) + 1} ELSE {})
         /\ Ended(Append(es, e)) =
              Ended(es) \cup (IF e.type \in {"error", "completed"} THEN {Len(es) + 1} ELSE {})
<1> DEFINE t == Append(es, e)
<1>1. /\ t \in Seq(Events) /\ Len(t) = Len(es) + 1 /\ Len(es) \in Nat
      /\ t[Len(es) + 1] = e /\ \A i \in 1 .. Len(es) : t[i] = es[i]
  OBVIOUS
<1> HIDE DEF t
<1>2. 1 .. Len(es) + 1 = (1 .. Len(es)) \cup {Len(es) + 1}
  BY <1>1
<1>3. ToldIn(t) = ToldIn(es) \cup (IF e.type = "tool_call" THEN {Len(es) + 1} ELSE {})
  BY <1>1, <1>2 DEF ToldIn
<1>4. Ended(t) = Ended(es) \cup (IF e.type \in {"error", "completed"} THEN {Len(es) + 1} ELSE {})
  BY <1>1, <1>2 DEF Ended
<1> QED BY <1>1, <1>3, <1>4 DEF t

\* An event that tells no call.
LEMMA PlainEvent ==
  ASSUME NEW es \in Seq(Events), NEW cs, NEW n, NEW e \in Events,
         e.type # "tool_call", TellsFirst(es, cs, n)
  PROVE  TellsFirst(Append(es, e), cs, n)
<1> DEFINE t == Append(es, e)
<1>1. ToldIn(t) = ToldIn(es) /\ \A i \in ToldIn(es) : t[i] = es[i]
  BY EventAdded DEF ToldIn
<1> HIDE DEF t
<1>2. TellsFirst(t, cs, n)
  BY <1>1 DEF TellsFirst
<1> QED BY <1>2 DEF t

\* The event that tells the next call.
LEMMA NextTold ==
  ASSUME NEW es \in Seq(Events), NEW s, NEW cs, Collected(s, cs),
         NEW n \in Nat, n < Len(cs), TellsFirst(es, cs, n)
  PROVE  TellsFirst(Append(es, Event("tool_call", cs[n + 1])), cs, n + 1)
<1> DEFINE e == Event("tool_call", cs[n + 1])
           t == Append(es, e)
           m == Len(es) + 1
<1>1. cs \in Seq(ToldCalls) /\ Len(cs) \in Nat /\ n + 1 \in 1 .. Len(cs)
  BY DEF Collected
<1>2. e \in Events /\ e.type = "tool_call" /\ e.call = cs[n + 1]
  BY <1>1 DEF Event, Events
<1> HIDE DEF e
<1>3. /\ ToldIn(t) = ToldIn(es) \cup {m} /\ m \in Nat /\ t[m] = e
      /\ \A i \in ToldIn(es) : t[i] = es[i] /\ i < m /\ i \in Nat
  BY <1>2, EventAdded DEF ToldIn
<1> HIDE DEF t, m
<1>4. \A i \in ToldIn(t) : \E k \in 1 .. n + 1 : t[i].call = cs[k]
  <2> SUFFICES ASSUME NEW i \in ToldIn(t) PROVE \E k \in 1 .. n + 1 : t[i].call = cs[k]
    OBVIOUS
  <2>1. CASE i = m
    BY <1>1, <1>2, <1>3, <2>1
  <2>2. CASE i \in ToldIn(es)
    <3>1. PICK k \in 1 .. n : es[i].call = cs[k]
      BY <2>2 DEF TellsFirst
    <3> QED BY <1>3, <2>2, <3>1
  <2> QED BY <1>3, <2>1, <2>2
<1>5. \A k \in 1 .. n + 1 : \E i \in ToldIn(t) : t[i].call = cs[k]
  <2> SUFFICES ASSUME NEW k \in 1 .. n + 1 PROVE \E i \in ToldIn(t) : t[i].call = cs[k]
    OBVIOUS
  <2>1. CASE k = n + 1
    BY <1>2, <1>3, <2>1
  <2>2. CASE k \in 1 .. n
    <3>1. PICK i \in ToldIn(es) : es[i].call = cs[k]
      BY <2>2 DEF TellsFirst
    <3> QED BY <1>3, <3>1
  <2> QED BY <2>1, <2>2
<1>6. \A i, k \in ToldIn(t) : i < k => Head(t[i].call.parts) < Head(t[k].call.parts)
  <2> SUFFICES ASSUME NEW i \in ToldIn(t), NEW k \in ToldIn(t), i < k
               PROVE  Head(t[i].call.parts) < Head(t[k].call.parts)
    OBVIOUS
  <2>1. i \in ToldIn(es)
    BY <1>3
  <2>2. CASE k = m
    <3>1. PICK j \in 1 .. n : es[i].call = cs[j]
      BY <2>1 DEF TellsFirst
    <3>2. j \in 1 .. Len(cs) /\ j < n + 1
      BY <1>1
    <3>3. Head(cs[j].parts) < Head(cs[n + 1].parts)
      BY <1>1, <3>2 DEF Collected
    <3> QED BY <1>2, <1>3, <2>1, <2>2, <3>1, <3>3
  <2>3. CASE k \in ToldIn(es)
    BY <1>3, <2>1, <2>3 DEF TellsFirst
  <2> QED BY <1>3, <2>2, <2>3
<1>7. TellsFirst(t, cs, n + 1)
  BY <1>4, <1>5, <1>6 DEF TellsFirst
<1> QED BY <1>7 DEF t, e

LEMMA StreamMeans == StreamInv => CallsAssembled
<1> SUFFICES ASSUME StreamInv PROVE CallsAssembled
  OBVIOUS
<1>1. DOMAIN events = 1 .. Len(events) /\ Told = ToldIn(events) /\ Len(calls) \in Nat
  BY DEF StreamInv, Told, ToldIn, Collected
<1>2. \A i \in Told : events[i].call.index \in Begun(chunks) /\ Whole(chunks, events[i].call)
  <2> SUFFICES ASSUME NEW i \in Told
               PROVE  events[i].call.index \in Begun(chunks) /\ Whole(chunks, events[i].call)
    OBVIOUS
  <2>1. PICK k \in 1 .. told : events[i].call = calls[k]
    BY <1>1 DEF StreamInv, TellsFirst
  <2>2. k \in 1 .. Len(calls)
    BY <1>1 DEF StreamInv
  <2> QED BY <2>1, <2>2 DEF StreamInv, Collected
<1>3. \A i, k \in Told : i < k => Head(events[i].call.parts) < Head(events[k].call.parts)
  BY <1>1 DEF StreamInv, TellsFirst
<1>4. \A i \in DOMAIN events :
        /\ events[i].type \in {"error", "completed"} => i = Len(events)
        /\ events[i].type = "error" => Told = {}
        /\ events[i].type = "completed" =>
             \A x \in Begun(chunks) : \E k \in Told : events[k].call.index = x
  <2> SUFFICES ASSUME NEW i \in 1 .. Len(events), events[i].type \in {"error", "completed"}
               PROVE  /\ i = Len(events)
                      /\ events[i].type = "error" => Told = {}
                      /\ events[i].type = "completed" =>
                           \A x \in Begun(chunks) : \E k \in Told : events[k].call.index = x
    BY <1>1
  <2>1. i \in Ended(events)
    BY DEF Ended
  <2> QED BY <1>1, <2>1 DEF StreamInv, EndsRightly
<1> QED BY <1>2, <1>3, <1>4 DEF CallsAssembled

LEMMA StreamStarts == StreamInit => StreamInv
<1> SUFFICES ASSUME StreamInit PROVE StreamInv
  OBVIOUS
<1>1. /\ streaming = "new" /\ chunks = <<>> /\ calls = <<>> /\ told = 0 /\ events = <<>>
  BY DEF StreamInit
<1>2. Begun(chunks) = {}
  BY <1>1 DEF Begun
<1>3. Collected(chunks, calls)
  BY <1>1, <1>2 DEF Collected
<1>4. ToldIn(events) = {} /\ Ended(events) = {}
  BY <1>1 DEF ToldIn, Ended
<1>5. TellsFirst(events, calls, told) /\ EndsRightly(events, chunks)
  BY <1>1, <1>4 DEF TellsFirst, EndsRightly
<1> QED BY <1>1, <1>3, <1>4, <1>5 DEF StreamInv

LEMMA StreamSteps == StreamInv /\ [StreamNext]_streamVars => StreamInv'
<1> SUFFICES ASSUME StreamInv, [StreamNext]_streamVars PROVE StreamInv'
  OBVIOUS
<1>0. /\ streaming \in {"new", "reading", "telling", "over"}
      /\ chunks \in Seq(Chunks) /\ Collected(chunks, calls)
      /\ told \in 0 .. Len(calls) /\ events \in Seq(Events)
      /\ TellsFirst(events, calls, told)
      /\ streaming # "over" => Ended(events) = {}
      /\ Len(calls) \in Nat
  BY DEF StreamInv, Collected
<1>a. \A type \in {"text_delta", "completed", "error"} :
        /\ Event(type, None) \in Events /\ Event(type, None).type = type
  BY DEF Event, Events
<1>b. told = 0 => ToldIn(events) = {}
  BY <1>0 DEF TellsFirst
<1>1. CASE UNCHANGED streamVars
  BY <1>1 DEF streamVars, StreamInv
<1>2. ASSUME streaming \in {"new", "reading"}, Tells(Event("error", None)), streaming' = "over",
             UNCHANGED <<chunks, calls, told>>
      PROVE  StreamInv'
  <2>1. told = 0
    BY <1>2 DEF StreamInv
  <2>2. /\ events' \in Seq(Events) /\ Len(events') = Len(events) + 1
        /\ ToldIn(events') = {} /\ Ended(events') = {Len(events')}
    BY <1>0, <1>2, <1>a, <1>b, <2>1, EventAdded DEF Tells
  <2>3. TellsFirst(events', calls, told)
    BY <1>0, <1>2, <1>a, PlainEvent DEF Tells
  <2>4. EndsRightly(events', chunks)
    <3>1. events'[Len(events')].type = "error"
      BY <1>0, <1>2, <1>a, EventAdded DEF Tells
    <3> QED BY <2>2, <3>1 DEF EndsRightly
  <2> QED BY <1>0, <1>2, <2>1, <2>2, <2>3, <2>4 DEF StreamInv
<1>3. CASE Refuse
  BY <1>2, <1>3 DEF Refuse
<1>4. CASE Fail
  BY <1>2, <1>4 DEF Fail
<1>5. CASE Open \/ End \/ LeaveStream
  BY <1>5 DEF Open, End, LeaveStream, StreamInv
<1>6. CASE ReadText
  <2>1. /\ streaming = "reading" /\ chunks' = Append(chunks, TextChunk)
        /\ events' = Append(events, Event("text_delta", None))
        /\ UNCHANGED <<streaming, calls, told>>
    BY <1>6 DEF ReadText, Tells
  <2>2. chunks' \in Seq(Chunks) /\ Collected(chunks', calls)
    BY <1>0, <2>1, TextCollected DEF Chunks
  <2>3. events' \in Seq(Events) /\ Ended(events') = {} /\ TellsFirst(events', calls, told)
    BY <1>0, <1>a, <2>1, EventAdded, PlainEvent
  <2>4. EndsRightly(events', chunks')
    BY <2>3 DEF EndsRightly
  <2> QED BY <1>0, <2>1, <2>2, <2>3, <2>4 DEF StreamInv
<1>7. ASSUME NEW c \in Chunks, ReadFragment(c) PROVE StreamInv'
  <2>1. /\ streaming = "reading" /\ c.kind = "call"
        /\ chunks' = Append(chunks, c) /\ UNCHANGED <<streaming, told, events>>
        /\ Len(chunks') = Len(chunks) + 1
        /\ calls' = Assembled(c, Len(chunks'))
    BY <1>0, <1>7 DEF ReadFragment
  <2>2. chunks' \in Seq(Chunks) /\ Collected(chunks', calls')
    BY <1>0, <2>1, FragmentCollected
  <2>3. told = 0 /\ Ended(events) = {}
    BY <1>0, <2>1 DEF StreamInv
  <2>4. TellsFirst(events, calls', 0)
    BY <1>b, <2>3 DEF TellsFirst
  <2>5. EndsRightly(events', chunks')
    BY <2>1, <2>3 DEF EndsRightly
  <2>6. Len(calls') \in Nat
    BY <2>2 DEF Collected
  <2> QED BY <1>0, <2>1, <2>2, <2>3, <2>4, <2>5, <2>6 DEF StreamInv
<1>8. CASE Tell
  <2>1. /\ streaming = "telling" /\ told < Len(calls) /\ told' = told + 1
        /\ events' = Append(events, Event("tool_call", calls[told + 1]))
        /\ UNCHANGED <<streaming, chunks, calls>>
    BY <1>8 DEF Tell, Tells
  <2>2. /\ Event("tool_call", calls[told + 1]) \in Events
        /\ Event("tool_call", calls[told + 1]).type = "tool_call"
    <3>1. calls[told + 1] \in ToldCalls
      BY <1>0, <2>1 DEF Collected
    <3> QED BY <3>1 DEF Event, Events
  <2>3. events' \in Seq(Events) /\ Ended(events') = {}
    <3> DEFINE e == Event("tool_call", calls[told + 1])
    <3>1. e \in Events /\ e.type = "tool_call" /\ events' = Append(events, e)
      BY <2>1, <2>2
    <3> HIDE DEF e
    <3>2. Ended(Append(events, e)) =
            Ended(events) \cup (IF e.type \in {"error", "completed"} THEN {Len(events) + 1} ELSE {})
      BY <1>0, <3>1, EventAdded
    <3>3. Ended(events) = {}
      BY <1>0, <2>1
    <3> QED BY <1>0, <3>1, <3>2, <3>3, EventAdded
  <2>4. TellsFirst(events', calls, told + 1) /\ told + 1 \in 0 .. Len(calls)
    BY <1>0, <2>1, NextTold
  <2>5. EndsRightly(events', chunks')
    BY <2>3 DEF EndsRightly
  <2> QED BY <1>0, <2>1, <2>3, <2>4, <2>5 DEF StreamInv
<1>9. CASE Complete
  <2>1. /\ streaming = "telling" /\ told = Len(calls) /\ streaming' = "over"
        /\ events' = Append(events, Event("completed", None))
        /\ UNCHANGED <<chunks, calls, told>>
    BY <1>9 DEF Complete, Tells
  <2>2. /\ events' \in Seq(Events) /\ Len(events') = Len(events) + 1
        /\ Ended(events') = {Len(events')} /\ events'[Len(events')].type = "completed"
    BY <1>0, <1>a, <2>1, EventAdded
  <2>3. TellsFirst(events', calls, told)
    BY <1>0, <1>a, <2>1, PlainEvent
  <2>4. ASSUME NEW x \in Begun(chunks) PROVE \E k \in ToldIn(events') : events'[k].call.index = x
    <3>1. PICK i \in 1 .. Len(calls) : calls[i].index = x
      BY <1>0 DEF Collected
    <3>2. PICK k \in ToldIn(events') : events'[k].call = calls[i]
      BY <2>1, <2>3 DEF TellsFirst
    <3> QED BY <3>1, <3>2
  <2>5. EndsRightly(events', chunks)
    BY <2>2, <2>4 DEF EndsRightly
  <2> QED BY <1>0, <2>1, <2>2, <2>3, <2>5 DEF StreamInv
<1> QED BY <1>1, <1>3, <1>4, <1>5, <1>6, <1>7, <1>8, <1>9 DEF StreamNext

----------------------------------------------------------------------------
(* Lines of a file. *)

LEMMA LinesRight == \A r \in Ranges : LinesFit(r, ReadLines(r))
<1> SUFFICES ASSUME NEW r \in Ranges, ~Refused(r)
               PROVE  LinesFit(r, ReadLines(r))
  BY DEF LinesFit, ReadLines
<1>1. /\ r.total \in Nat \ {0} /\ r.startLine \in {Unset} \cup Nat
        /\ r.endLine \in {Unset} \cup Int /\ Unset \notin Int
  BY LinesAssumption DEF Ranges
<1> DEFINE first == IF r.startLine = Unset THEN 1 ELSE r.startLine
<1> DEFINE last == IF r.endLine \in {Unset, 0} THEN r.total ELSE Least(r.total, r.endLine)
<1>2. /\ ReadLines(r).lines = Slice(first, last, r.total) /\ ReadLines(r).ok
        /\ ReadLines(r).startLine = first /\ ReadLines(r).endLine = last
  BY DEF ReadLines
<1>3. first \in Nat /\ first >= 1 /\ (r.startLine # Unset => r.startLine = first)
  BY <1>1 DEF Refused
<1>4. r.startLine = Unset => first = 1
  OBVIOUS
<1>5. CASE r.endLine # Unset /\ r.endLine < 0
  <2>1. r.startLine = Unset /\ first = 1
    BY <1>1, <1>3, <1>5 DEF Refused
  <2>2. last = r.endLine /\ last \in Int /\ last < 0
    BY <1>1, <1>5 DEF Least
  <2> HIDE DEF first, last
  <2>3. Slice(first, last, r.total) = {n \in 1 .. r.total : n <= r.total + r.endLine}
    BY <1>1, <2>1, <2>2 DEF Slice
  <2> QED BY <1>1, <1>2, <1>5, <2>1, <2>2, <2>3 DEF LinesFit
<1>6. CASE r.endLine = Unset \/ r.endLine >= 0
  <2>1. last \in Nat
    BY <1>1, <1>6 DEF Least
  <2>2. ASSUME r.endLine # Unset, r.endLine > 0
        PROVE  \A n \in 1 .. r.total : n <= last <=> n <= r.endLine
    BY <1>1, <2>2 DEF Least
  <2> HIDE DEF first, last
  <2>3. Slice(first, last, r.total) = {n \in 1 .. r.total : n >= first /\ n <= last}
    BY <1>3, <2>1 DEF Slice
  <2>4. ASSUME r.endLine # Unset, r.endLine > 0
        PROVE  Slice(first, last, r.total) =
                 {n \in 1..r.total : n <= r.endLine /\ (r.startLine # Unset => n >= r.startLine)}
    BY <1>3, <1>4, <2>2, <2>3, <2>4
  <2>5. ~(r.endLine # Unset /\ r.endLine < 0)
    BY <1>1, <1>6
  <2> QED BY <1>2, <1>3, <2>3, <2>4, <2>5 DEF LinesFit
<1> QED BY <1>1, <1>5, <1>6

----------------------------------------------------------------------------
(* What a failure is blamed on. *)

\* what Categories can name
Named == {"environment_failure", "type_error", "test_failure", "lint_error", "build_failure",
          "missing_file", "command_failure"}

First(categories) == Head(Append(categories, "unknown"))

\* A category that is looked for last is the first one only if there is no other.
LEMMA LookedForLast ==
  ASSUME NEW s \in Seq(Named), NEW x \in Named
  PROVE  /\ s \o <<x>> \in Seq(Named) /\ s \o <<x>> # <<>> /\ s \o <<>> = s
         /\ First(s \o <<x>>) = IF s = <<>> THEN x ELSE First(s)
         /\ First(<<>>) = "unknown" /\ First(<<x>>) = x
<1>1. /\ s \o <<x>> \in Seq(Named) /\ s \o <<x>> # <<>> /\ s \o <<>> = s
      /\ Head(Append(s \o <<x>>, "unknown")) = IF s = <<>> THEN x ELSE s[1]
  OBVIOUS
<1>2. s # <<>> => Head(Append(s, "unknown")) = s[1]
  OBVIOUS
<1>3. Head(Append(<<>>, "unknown")) = "unknown" /\ Head(Append(<<x>>, "unknown")) = x
  OBVIOUS
<1> QED BY <1>1, <1>2, <1>3 DEF First

\* t is s and, on the condition c, x looked for after it
LookedFor(t, s, c, x) ==
  /\ t \in Seq(Named) /\ (t = <<>> <=> s = <<>> /\ ~c)
  /\ First(t) = IF s # <<>> THEN First(s) ELSE IF c THEN x ELSE "unknown"

LEMMA NextLookedFor ==
  ASSUME NEW s \in Seq(Named), NEW x \in Named, NEW c \in BOOLEAN
  PROVE  LookedFor(s \o OnlyIf(c, x), s, c, x)
<1> DEFINE t == s \o OnlyIf(c, x)
<1>0. t = s \o OnlyIf(c, x)
  OBVIOUS
<1> HIDE DEF t
<1> SUFFICES LookedFor(t, s, c, x)
  BY <1>0
<1>1. CASE c
  <2>1. t = s \o <<x>>
    BY <1>0, <1>1 DEF OnlyIf
  <2> QED BY <1>1, <2>1, LookedForLast DEF LookedFor
<1>2. CASE ~c
  <2>1. t = s \o <<>>
    BY <1>0, <1>2 DEF OnlyIf
  <2>2. t = s
    BY <2>1, LookedForLast
  <2> QED BY <1>2, <2>2, LookedForLast DEF LookedFor
<1> QED BY <1>1, <1>2

\* The category, as the code returns from one test after another.
LEMMA FirstCategory ==
  ASSUME NEW f \in Failures
  PROVE  Blamed(f).category =
           IF OfEnvironment(f) THEN "environment_failure"
           ELSE IF Candidate(f, "typecheck", "tsText") /\ PointsAtType(f) THEN "type_error"
           ELSE IF Candidate(f, "test", "testText") THEN "test_failure"
           ELSE IF Candidate(f, "lint", "lintText") THEN "lint_error"
           ELSE IF Candidate(f, "build", "buildText") THEN "build_failure"
           ELSE IF "enoent" \in f.output THEN "missing_file"
           ELSE IF f.command \/ f.code = "nonzero" THEN "command_failure"
           ELSE "unknown"
<1> DEFINE c1 == OfEnvironment(f)
           c2 == Candidate(f, "typecheck", "tsText") /\ PointsAtType(f)
           c3 == Candidate(f, "test", "testText")
           c4 == Candidate(f, "lint", "lintText")
           c5 == Candidate(f, "build", "buildText")
           c6 == "enoent" \in f.output
           c7 == f.command \/ f.code = "nonzero"
           s1 == OnlyIf(c1, "environment_failure")
           s2 == s1 \o OnlyIf(c2, "type_error")
           s3 == s2 \o OnlyIf(c3, "test_failure")
           s4 == s3 \o OnlyIf(c4, "lint_error")
           s5 == s4 \o OnlyIf(c5, "build_failure")
           s6 == s5 \o OnlyIf(c6, "missing_file")
           s7 == s6 \o OnlyIf(c7, "command_failure")
<1>0. /\ <<>> \in Seq(Named)
      /\ "environment_failure" \in Named /\ "type_error" \in Named /\ "test_failure" \in Named
      /\ "lint_error" \in Named /\ "build_failure" \in Named /\ "missing_file" \in Named
      /\ "command_failure" \in Named
  BY DEF Named
<1>1. /\ c1 \in BOOLEAN /\ c2 \in BOOLEAN /\ c3 \in BOOLEAN /\ c4 \in BOOLEAN
      /\ c5 \in BOOLEAN /\ c6 \in BOOLEAN /\ c7 \in BOOLEAN
  BY DEF OfEnvironment, Candidate, PointsAtType
<1>2. Blamed(f).category = First(s7)
  BY DEF Blamed, Categories, First
<1> HIDE DEF c1, c2, c3, c4, c5, c6, c7
<1>3. LookedFor(s1, <<>>, c1, "environment_failure")
  <2>1. s1 = <<>> \o OnlyIf(c1, "environment_failure")
    BY <1>1 DEF OnlyIf
  <2> HIDE DEF s1
  <2> QED BY <1>0, <1>1, <2>1, NextLookedFor
<1> HIDE DEF s1
<1>4. LookedFor(s2, s1, c2, "type_error")
  <2>1. s1 \in Seq(Named)
    BY <1>3 DEF LookedFor
  <2> QED BY <1>0, <1>1, <2>1, NextLookedFor
<1> HIDE DEF s2
<1>5. LookedFor(s3, s2, c3, "test_failure")
  <2>1. s2 \in Seq(Named)
    BY <1>4 DEF LookedFor
  <2> QED BY <1>0, <1>1, <2>1, NextLookedFor
<1> HIDE DEF s3
<1>6. LookedFor(s4, s3, c4, "lint_error")
  <2>1. s3 \in Seq(Named)
    BY <1>5 DEF LookedFor
  <2> QED BY <1>0, <1>1, <2>1, NextLookedFor
<1> HIDE DEF s4
<1>7. LookedFor(s5, s4, c5, "build_failure")
  <2>1. s4 \in Seq(Named)
    BY <1>6 DEF LookedFor
  <2> QED BY <1>0, <1>1, <2>1, NextLookedFor
<1> HIDE DEF s5
<1>8. LookedFor(s6, s5, c6, "missing_file")
  <2>1. s5 \in Seq(Named)
    BY <1>7 DEF LookedFor
  <2> QED BY <1>0, <1>1, <2>1, NextLookedFor
<1> HIDE DEF s6
<1>9. LookedFor(s7, s6, c7, "command_failure")
  <2>1. s6 \in Seq(Named)
    BY <1>8 DEF LookedFor
  <2> QED BY <1>0, <1>1, <2>1, NextLookedFor
<1> HIDE DEF s7
<1>10. First(s7) = IF c1 THEN "environment_failure" ELSE IF c2 THEN "type_error"
                   ELSE IF c3 THEN "test_failure" ELSE IF c4 THEN "lint_error"
                   ELSE IF c5 THEN "build_failure" ELSE IF c6 THEN "missing_file"
                   ELSE IF c7 THEN "command_failure" ELSE "unknown"
  BY <1>3, <1>4, <1>5, <1>6, <1>7, <1>8, <1>9 DEF LookedFor
<1> QED BY <1>2, <1>10 DEF c1, c2, c3, c4, c5, c6, c7

LEMMA BlameRight == ASSUME NEW f \in Failures PROVE BlameFits(f, Blamed(f))
<1> DEFINE b == Blamed(f).category
           CategoryNames == {"type_error", "test_failure", "lint_error", "build_failure"}
<1>1. /\ f.type \in CheckTypes /\ f.command \in BOOLEAN
      /\ f.output \subseteq Signs /\ f.error \subseteq {"environment"}
  BY DEF Failures
<1>2. Blamed(f).recoverable <=> b # "environment_failure"
  BY DEF Blamed
<1>3. b = "environment_failure" <=> OfEnvironment(f)
  BY FirstCategory
<1>4. ~Blamed(f).recoverable <=> "environment" \in f.output \cup f.error
  BY <1>2, <1>3 DEF OfEnvironment
<1>5. ASSUME f.type \in Types, f.output = {}, f.error = {}
      PROVE  b = CategoryOf[f.type]
  BY <1>5, FirstCategory DEF OfEnvironment, Candidate, PointsAtType, CategoryOf, Types
<1>6. f.command => b # "unknown"
  BY FirstCategory
<1>7. Range(CategoryOf) = CategoryNames
  BY DEF Range, CategoryOf
<1>8. ASSUME b \in CategoryNames, f.type \in Types, f.output = {}
      PROVE  b = CategoryOf[f.type]
  BY <1>8, FirstCategory DEF OfEnvironment, Candidate, PointsAtType, CategoryOf, Types
<1> QED BY <1>4, <1>5, <1>6, <1>7, <1>8 DEF BlameFits

----------------------------------------------------------------------------
(* Which checks a step is given. *)

\* a list of checks of T, none twice
Offered(s, T) == s \in Seq(T) /\ \A i, j \in DOMAIN s : s[i] = s[j] => i = j

LEMMA NextOffered ==
  ASSUME NEW T, NEW s, Offered(s, T), NEW x, x \notin T, NEW c \in BOOLEAN
  PROVE  Offered(s \o OnlyIf(c, x), T \cup {x})
<1>1. s \in Seq(T) /\ s \in Seq(T \cup {x}) /\ \A i, j \in DOMAIN s : s[i] = s[j] => i = j
  BY DEF Offered
<1>2. CASE c
  <2>1. s \o OnlyIf(c, x) = Append(s, x)
    BY <1>1, <1>2 DEF OnlyIf
  <2>2. Append(s, x) \in Seq(T \cup {x})
    BY <1>1
  <2>3. ASSUME NEW i \in DOMAIN Append(s, x), NEW j \in DOMAIN Append(s, x),
               Append(s, x)[i] = Append(s, x)[j]
        PROVE  i = j
    BY <1>1, <2>3
  <2> QED BY <2>1, <2>2, <2>3 DEF Offered
<1>3. CASE ~c
  <2>1. s \o OnlyIf(c, x) = s
    BY <1>1, <1>3 DEF OnlyIf
  <2> QED BY <1>1, <2>1 DEF Offered
<1> QED BY <1>2, <1>3

LEMMA MoreOffered ==
  ASSUME NEW T, NEW s, Offered(s, T), NEW U, T \subseteq U
  PROVE  Offered(s, U)
  BY DEF Offered

LEMMA NodeOffers == ASSUME NEW p \in Projects PROVE Offered(NodeChecks(p), Types)
<1> DEFINE c1 == "typecheck" \in p.scripts
           c2 == "test" \in p.scripts
           c3 == "lint" \in p.scripts
           c4 == "build" \in p.scripts
           s1 == <<>> \o OnlyIf(c1, "typecheck")
           s2 == s1 \o OnlyIf(c2, "test")
           s3 == s2 \o OnlyIf(c3, "lint")
           s4 == s3 \o OnlyIf(c4, "build")
<1>1. c1 \in BOOLEAN /\ c2 \in BOOLEAN /\ c3 \in BOOLEAN /\ c4 \in BOOLEAN
  BY DEF Projects
<1>2. NodeChecks(p) = s4
  BY <1>1 DEF NodeChecks, OnlyIf
<1> HIDE DEF c1, c2, c3, c4
<1>3. Offered(<<>>, {})
  BY DEF Offered
<1>4. Offered(s1, {"typecheck"})
  <2>1. /\ "typecheck" \notin {}
        /\ {"typecheck"} = {} \cup {"typecheck"}
    OBVIOUS
  <2>2. Offered(s1, {} \cup {"typecheck"})
    BY <1>1, <1>3, NextOffered
  <2> QED BY <2>1, <2>2
<1> HIDE DEF s1
<1>5. Offered(s2, {"typecheck", "test"})
  <2>1. /\ "test" \notin {"typecheck"}
        /\ {"typecheck", "test"} = {"typecheck"} \cup {"test"}
    OBVIOUS
  <2> QED BY <1>1, <1>4, <2>1, NextOffered
<1> HIDE DEF s2
<1>6. Offered(s3, {"typecheck", "test", "lint"})
  <2>1. /\ "lint" \notin {"typecheck", "test"}
        /\ {"typecheck", "test", "lint"} = {"typecheck", "test"} \cup {"lint"}
    OBVIOUS
  <2> QED BY <1>1, <1>5, <2>1, NextOffered
<1> HIDE DEF s3
<1>7. Offered(s4, {"typecheck", "test", "lint", "build"})
  <2>1. /\ "build" \notin {"typecheck", "test", "lint"}
        /\ {"typecheck", "test", "lint", "build"} = {"typecheck", "test", "lint"} \cup {"build"}
    OBVIOUS
  <2> QED BY <1>1, <1>6, <2>1, NextOffered
<1> HIDE DEF s4
<1>8. {"typecheck", "test", "lint", "build"} \subseteq Types
  BY DEF Types
<1> QED BY <1>2, <1>7, <1>8, MoreOffered

LEMMA PythonOffers == ASSUME NEW p \in Projects PROVE Offered(PythonChecks(p), Types)
<1> DEFINE c1 == "pytest" \in p.pyproject \/ p.pytestIni
           c2 == "mypy" \in p.pyproject
           c3 == "ruff" \in p.pyproject
           s1 == <<>> \o OnlyIf(c1, "test")
           s2 == s1 \o OnlyIf(c2, "typecheck")
           s3 == s2 \o OnlyIf(c3, "lint")
<1>1. c1 \in BOOLEAN /\ c2 \in BOOLEAN /\ c3 \in BOOLEAN
  BY DEF Projects
<1>2. PythonChecks(p) = s3
  BY <1>1 DEF PythonChecks, OnlyIf
<1> HIDE DEF c1, c2, c3
<1>3. Offered(<<>>, {})
  BY DEF Offered
<1>4. Offered(s1, {"test"})
  <2>1. /\ "test" \notin {}
        /\ {"test"} = {} \cup {"test"}
    OBVIOUS
  <2>2. Offered(s1, {} \cup {"test"})
    BY <1>1, <1>3, NextOffered
  <2> QED BY <2>1, <2>2
<1> HIDE DEF s1
<1>5. Offered(s2, {"test", "typecheck"})
  <2>1. /\ "typecheck" \notin {"test"}
        /\ {"test", "typecheck"} = {"test"} \cup {"typecheck"}
    OBVIOUS
  <2> QED BY <1>1, <1>4, <2>1, NextOffered
<1> HIDE DEF s2
<1>6. Offered(s3, {"test", "typecheck", "lint"})
  <2>1. /\ "lint" \notin {"test", "typecheck"}
        /\ {"test", "typecheck", "lint"} = {"test", "typecheck"} \cup {"lint"}
    OBVIOUS
  <2> QED BY <1>1, <1>5, <2>1, NextOffered
<1> HIDE DEF s3
<1>7. {"test", "typecheck", "lint"} \subseteq Types
  BY DEF Types
<1> QED BY <1>2, <1>6, <1>7, MoreOffered


\* A project that offers two checks, on one condition.
LEMMA PairOffers ==
  ASSUME NEW c \in BOOLEAN, NEW x \in Types, NEW y \in Types, x # y
  PROVE  Offered(OnlyIf(c, x) \o OnlyIf(c, y), Types)
<1> DEFINE s == <<>> \o OnlyIf(c, x)
<1>1. s = OnlyIf(c, x)
  BY DEF OnlyIf
<1> HIDE DEF s
<1>2. Offered(<<>>, {})
  BY DEF Offered
<1>3. Offered(s, {} \cup {x})
  BY <1>2, NextOffered DEF s
<1>4. y \notin {} \cup {x} /\ {} \cup {x} \cup {y} \subseteq Types
  OBVIOUS
<1>5. Offered(s \o OnlyIf(c, y), {} \cup {x} \cup {y})
  BY <1>3, <1>4, NextOffered
<1> QED BY <1>1, <1>4, <1>5, MoreOffered

LEMMA ProjectOffers == ASSUME NEW p \in Projects PROVE Offered(DiscoveredChecks(p), Types)
<1> DEFINE offers == <<NodeChecks(p), PythonChecks(p), CargoChecks(p), GoChecks(p), DartChecks(p)>>
           kinds == {k \in DOMAIN offers : offers[k] # <<>>}
<1>1. p.cargo \in BOOLEAN /\ p.goMod \in BOOLEAN /\ p.pubspec \in BOOLEAN
  BY DEF Projects
<1>2. "typecheck" \in Types /\ "test" \in Types /\ "lint" \in Types
      /\ "typecheck" # "test" /\ "lint" # "test"
  BY DEF Types
<1>3. Offered(CargoChecks(p), Types) /\ Offered(GoChecks(p), Types) /\ Offered(DartChecks(p), Types)
  BY <1>1, <1>2, PairOffers DEF CargoChecks, GoChecks, DartChecks
<1>4. \A k \in DOMAIN offers : Offered(offers[k], Types)
  BY <1>3, NodeOffers, PythonOffers
<1>5. DOMAIN offers = 1 .. 5
  OBVIOUS
<1>6. kinds # {} => Min(kinds) \in kinds
  <2>1. kinds \subseteq 1 .. 5
    BY <1>5
  <2> HIDE DEF kinds
  <2>2. ASSUME kinds # {} PROVE \E k \in kinds : \A l \in kinds : k <= l
    <3>1. PICK k \in kinds : TRUE
      BY <2>2
    <3> DEFINE Smallest(n) == n \in kinds /\ \A l \in kinds : n <= l
    <3>2. 1 \in kinds => Smallest(1)
      BY <2>1
    <3>3. 1 \notin kinds /\ 2 \in kinds => Smallest(2)
      BY <2>1
    <3>4. 1 \notin kinds /\ 2 \notin kinds /\ 3 \in kinds => Smallest(3)
      BY <2>1
    <3>5. 1 \notin kinds /\ 2 \notin kinds /\ 3 \notin kinds /\ 4 \in kinds => Smallest(4)
      BY <2>1
    <3>6. 1 \notin kinds /\ 2 \notin kinds /\ 3 \notin kinds /\ 4 \notin kinds => Smallest(k)
      BY <2>1, <3>1
    <3> QED BY <3>2, <3>3, <3>4, <3>5, <3>6
  <2> QED BY <2>2 DEF Min
<1>7. Offered(<<>>, Types)
  BY DEF Offered
<1>8. DiscoveredChecks(p) = IF kinds = {} THEN <<>> ELSE offers[Min(kinds)]
  BY DEF DiscoveredChecks
<1> HIDE DEF offers
<1> QED BY <1>4, <1>6, <1>7, <1>8

LEMMA ChoiceRight ==
  ASSUME NEW p \in Projects, NEW text \in SUBSET Words, NEW isFinal \in BOOLEAN
  PROVE  ChoiceFits(p, text, isFinal, SelectedChecks(p, text, isFinal))
<1> DEFINE offered == DiscoveredChecks(p)
           selected == SelectedChecks(p, text, isFinal)
           owed == text \cap InfoWords = {} \/ "fix" \in text
           silent == Informational(text)
           IsNamed(i) == MentionOf[offered[i]] \in text
           Implied(i) == /\ offered[i] \in {"typecheck", "test"} /\ text \cap ChangeWords # {}
                         /\ ~\E j \in DOMAIN offered : IsNamed(j)
<1>1. offered \in Seq(Types) /\ \A i, j \in DOMAIN offered : offered[i] = offered[j] => i = j
  BY ProjectOffers DEF Offered
<1>2. SelectedChecks(p, text, isFinal) =
        IF isFinal THEN FinalChecks(offered)
        ELSE IF silent THEN {} ELSE StepChecks(offered, text)
  BY DEF SelectedChecks
<1>3. ASSUME isFinal
      PROVE  /\ selected \subseteq DOMAIN offered
             /\ selected = {} => offered = <<>>
             /\ \A i \in DOMAIN offered : offered[i] # "lint" => i \in selected
  <2>1. selected = FinalChecks(offered)
    BY <1>2, <1>3
  <2>2. offered # <<>> => 1 \in DOMAIN offered
    BY <1>1
  <2>3. \A i \in DOMAIN offered : offered[i] \in {"typecheck", "test", "lint", "build"}
    BY <1>1 DEF Types
  <2> HIDE DEF offered, selected
  <2> QED BY <2>1, <2>2, <2>3 DEF FinalChecks, OfType
<1>4. ASSUME ~isFinal, ~silent
      PROVE  /\ selected \subseteq DOMAIN offered
             /\ selected = {} => offered = <<>>
             /\ \A i \in DOMAIN offered : IsNamed(i) \/ Implied(i) => i \in selected
  <2>1. selected = StepChecks(offered, text)
    BY <1>2, <1>4
  <2>2. DOMAIN offered \subseteq Nat /\ (offered # <<>> => 1 \in DOMAIN offered)
    BY <1>1
  <2> DEFINE mentioned == {i \in DOMAIN offered : IsNamed(i)}
             OfOne(type) == {i \in DOMAIN offered : offered[i] = type}
             changed == OfOne("typecheck") \cup OfOne("test")
  <2>3. \A type : FirstCheck(OfType(offered, {type})) = OfOne(type)
    <3> TAKE type
    <3>1. OfType(offered, {type}) = OfOne(type)
      BY DEF OfType
    <3>2. \A i, j \in OfOne(type) : i = j
      BY <1>1
    <3>3. \A i \in OfOne(type) : i <= i
      BY <2>2
    <3> HIDE DEF OfOne
    <3> QED BY <3>1, <3>2, <3>3 DEF FirstCheck
  <2>4. Mentioned(offered, text) = mentioned
    BY DEF Mentioned
  <2>5. selected = LET some == IF text \cap ChangeWords # {} /\ mentioned = {}
                                THEN changed ELSE mentioned
                   IN IF some # {} THEN some ELSE DOMAIN offered \cap {1, 2}
    BY <2>1, <2>3, <2>4 DEF StepChecks, FirstTwo
  <2> HIDE DEF offered, selected
  <2> QED BY <2>2, <2>5
<1>5. ASSUME ~isFinal, silent PROVE selected = {}
  BY <1>2, <1>5
<1>6. owed => ~silent
  BY DEF Informational, ModWords
<1>7. "inspect" \in text /\ text \cap (ModWords \cup ChangeWords) = {} => silent
  BY DEF Informational, InfoWords
<1> HIDE DEF silent, selected, owed
<1>8. CASE isFinal
  BY <1>3, <1>8 DEF ChoiceFits, selected
<1>9. CASE ~isFinal /\ silent
  BY <1>5, <1>6, <1>9 DEF ChoiceFits, selected, owed
<1>10. CASE ~isFinal /\ ~silent
  BY <1>4, <1>6, <1>7, <1>10 DEF ChoiceFits, selected, owed
<1> QED BY <1>8, <1>9, <1>10

----------------------------------------------------------------------------
(* Decisions *)

\* what selectChecks returns for a question
Chosen(q) == SelectedChecks(q.project, q.text, q.isFinal)

DecisionInv ==
  /\ JudgeInv /\ StreamInv
  /\ topic = "checks" => question \in ChecksQuestions /\ answer \in {<<>>, <<Chosen(question)>>}
  /\ topic = "lines" => question \in Ranges /\ answer \in {<<>>, <<ReadLines(question)>>}
  /\ topic = "failure" => question \in Failures /\ answer \in {<<>>, <<Blamed(question)>>}

LEMMA DecisionStarts == Init => DecisionInv
  BY JudgeStarts, StreamStarts DEF Init, DecisionInv

LEMMA DecisionSteps == DecisionInv /\ [Next]_vars => DecisionInv'
<1> SUFFICES ASSUME DecisionInv, [Next]_vars PROVE DecisionInv'
  OBVIOUS
<1>1. CASE UNCHANGED vars \/ Choose \/ Blame \/ Read
  <2>1. UNCHANGED <<judgeVars, streamVars, topic, question>>
    BY <1>1 DEF vars, Choose, Blame, Read, Decides
  <2>2. JudgeInv' /\ StreamInv'
    BY <2>1, JudgeSteps, StreamSteps DEF DecisionInv
  <2>3. topic = "lines" => answer' \in {answer, <<ReadLines(question)>>}
    BY <1>1 DEF vars, Choose, Blame, Read, Decides
  <2>4. topic = "failure" => answer' \in {answer, <<Blamed(question)>>}
    BY <1>1 DEF vars, Choose, Blame, Read, Decides
  <2>5. topic = "checks" => answer' \in {answer, <<Chosen(question)>>}
    BY <1>1 DEF vars, Choose, Blame, Read, Decides, Chosen
  <2> QED BY <2>1, <2>2, <2>3, <2>4, <2>5 DEF DecisionInv
<1>2. CASE Judge
  <2>1. UNCHANGED <<topic, question, answer, streamVars>>
    BY <1>2 DEF Judge
  <2>2. JudgeInv' /\ StreamInv'
    BY <1>2, <2>1, JudgeSteps, StreamSteps DEF Judge, DecisionInv
  <2> QED BY <2>1, <2>2 DEF DecisionInv
<1>3. CASE Stream
  <2>1. UNCHANGED <<topic, question, answer, judgeVars>>
    BY <1>3 DEF Stream
  <2>2. JudgeInv' /\ StreamInv'
    BY <1>3, <2>1, JudgeSteps, StreamSteps DEF Stream, DecisionInv
  <2> QED BY <2>1, <2>2 DEF DecisionInv
<1> QED BY <1>1, <1>2, <1>3 DEF Next

\* For every set of ids and every limit, whatever the model answers: the checks and
\* the depth-first search (plan-validator.ts 24-175) accept a plan exactly if its ids
\* are distinct, its dependencies known and without a cycle, and its texts whole.
THEOREM JudgedRight == Spec => []PlansJudged
<1>1. DecisionInv => PlansJudged
  BY DEF DecisionInv, JudgeInv
<1> QED BY <1>1, DecisionStarts, DecisionSteps, PTL DEF Spec

\* For streams of any length, with any number of calls, in every order of their
\* fragments: what is told of each call is all that was read of it, and nothing is
\* told of the calls of a stream that fails (groq.provider.ts 73-131).
THEOREM AssembledRight == Spec => []CallsAssembled
<1>1. DecisionInv => CallsAssembled
  BY StreamMeans DEF DecisionInv
<1> QED BY <1>1, DecisionStarts, DecisionSteps, PTL DEF Spec

\* Whatever range of a file of any length is asked for, it is refused or read
\* whole, and what is reported is what was read, but for a negative end, which
\* counts from the back (filesystem.service.ts 185-222).
THEOREM ReadRight == Spec => []LinesRead
<1>1. DecisionInv => LinesRead
  BY LinesRight DEF DecisionInv, LinesRead, Answered
<1> QED BY <1>1, DecisionStarts, DecisionSteps, PTL DEF Spec

\* Whatever is found in the output of a failed check, the environment is blamed, and
\* corrections stop, only on a sign of it (failure-analyzer.ts 20-98).
THEOREM BlamedRight == Spec => []FailuresBlamed
<1>1. DecisionInv => FailuresBlamed
  BY BlameRight DEF DecisionInv, FailuresBlamed, Answered
<1> QED BY <1>1, DecisionStarts, DecisionSteps, PTL DEF Spec

\* Whatever kind of project it is and whatever words a step has: the end of a plan
\* leaves out no suite, a step that says fix, or has no word with a verb of inspection
\* in it, is given what it names or its change implies, and one of mere inspection is
\* given no check (verification-policy.ts 22-324).
THEOREM ChosenRight == Spec => []ChecksFit
<1>1. DecisionInv => ChecksFit
  BY ChoiceRight DEF DecisionInv, ChecksFit, Answered, Chosen, ChecksQuestions
<1> QED BY <1>1, DecisionStarts, DecisionSteps, PTL DEF Spec

=============================================================================
