-------------------------- MODULE PlanModelProofs --------------------------
(***************************************************************************)
(* Facts about the operators of PlanModel that the proofs of its users     *)
(* rest on: what find and splice do with the step array, and that every    *)
(* method keeps a plan well formed and its dependencies acyclic.           *)
(***************************************************************************)
EXTENDS PlanModel, SequenceTheorems, WellFoundedInduction, TLAPS

\* A set of naturals that has a member has a least one.
LEMMA LeastNat ==
  ASSUME NEW T, T \subseteq Nat, T # {}
  PROVE  \E m \in T : \A n \in T : m <= n
<1> DEFINE R == OpToRel(<, Nat)
<1>1. IsWellFoundedOn(R, Nat)
  BY NatLessThanWellFounded
<1>2. \A m, n \in Nat : <<m, n>> \in R <=> m < n
  BY DEF OpToRel
<1> HIDE DEF R
<1>3. PICK m \in T : \A n \in T : <<n, m>> \notin R
  BY <1>1, WFMin
<1>4. ASSUME NEW n \in T PROVE m <= n
  <2>1. m \in Nat /\ n \in Nat /\ ~(n < m)
    BY <1>2, <1>3
  <2> QED
    BY <2>1
<1> QED
  BY <1>4

\* IndexIn answers with an index of the set exactly when the array has one.
LEMMA IndexInCorrect ==
  ASSUME NEW o \in Seq(StepIds), NEW set
  PROVE  IF ToSet(o) \cap set = {} THEN IndexIn(o, set) = 0
         ELSE IndexIn(o, set) \in 1 .. Len(o) /\ o[IndexIn(o, set)] \in set
<1> DEFINE I == {i \in 1 .. Len(o) : o[i] \in set}
<1>1. IndexIn(o, set) = IF I # {} THEN Min(I) ELSE 0
  BY DEF IndexIn, SelectInSeq
<1>2. DOMAIN o = 1 .. Len(o) /\ Len(o) \in Nat
  BY LenProperties
<1>3. I = {} <=> ToSet(o) \cap set = {}
  BY <1>2 DEF ToSet
<1>4. ASSUME I # {} PROVE IndexIn(o, set) \in I
  <2>1. I \subseteq Nat
    BY <1>2
  <2> HIDE DEF I
  <2>2. \E m \in I : \A n \in I : m <= n
    BY <2>1, <1>4, LeastNat
  <2> QED
    BY <1>1, <1>4, <2>2 DEF Min
<1> QED
  BY <1>1, <1>3, <1>4

\* FirstOf answers with a member of the set exactly when the array has one.
LEMMA FirstOfCorrect ==
  ASSUME NEW p, p.order \in Seq(StepIds), NEW set
  PROVE  IF ToSet(p.order) \cap set = {}
         THEN FirstOf(p, set) = NoStep
         ELSE FirstOf(p, set) \in ToSet(p.order) \cap set
<1>1. DOMAIN p.order = 1 .. Len(p.order) /\ Len(p.order) \in Nat
  BY LenProperties
<1> QED
  BY <1>1, IndexInCorrect DEF FirstOf, ToSet

\* Inserting a new id keeps an array of distinct ids one, with the id added.
LEMMA InsertCorrect ==
  ASSUME NEW o \in Seq(StepIds), IsInjective(o),
         NEW s \in StepIds, s \notin ToSet(o), NEW at \in 1 .. Len(o) + 1
  PROVE  /\ InsertAt(o, at, s) \in Seq(StepIds)
         /\ IsInjective(InsertAt(o, at, s))
         /\ ToSet(InsertAt(o, at, s)) = ToSet(o) \cup {s}
<1> DEFINE n == Len(o)
           a == SubSeq(o, 1, at - 1)
           b == SubSeq(o, at, n)
           c == a \o <<s>>
           u == InsertAt(o, at, s)
<1>1. n \in Nat /\ DOMAIN o = 1 .. n /\ at \in Nat
  BY LenProperties
<1>2. /\ a \in Seq(StepIds) /\ Len(a) = at - 1
      /\ \A i \in 1 .. at - 1 : a[i] = o[i]
  <2>1. \A i \in 1 .. at - 1 : o[i] \in StepIds
    BY <1>1, ElementOfSeq
  <2> QED
    BY <1>1, <2>1, SubSeqProperties
<1>3. /\ b \in Seq(StepIds) /\ Len(b) = n + 1 - at
      /\ \A i \in 1 .. n + 1 - at : b[i] = o[at + i - 1]
  <2>1. \A i \in at .. n : o[i] \in StepIds
    BY <1>1, ElementOfSeq
  <2> QED
    BY <1>1, <2>1, SubSeqProperties
<1> HIDE DEF a, b
<1>4. /\ c \in Seq(StepIds) /\ Len(c) = at
      /\ \A i \in 1 .. at : c[i] = IF i < at THEN o[i] ELSE s
  <2>1. <<s>> \in Seq(StepIds) /\ Len(<<s>>) = 1 /\ <<s>>[1] = s
    OBVIOUS
  <2> QED
    BY <1>1, <1>2, <2>1, ConcatProperties
<1>5. u = c \o b
  BY DEF InsertAt, a, b
<1> HIDE DEF c, u
<1>6. /\ u \in Seq(StepIds) /\ Len(u) = n + 1
      /\ \A i \in 1 .. n + 1 :
           u[i] = IF i < at THEN o[i] ELSE IF i = at THEN s ELSE o[i - 1]
  <2>1. /\ u \in Seq(StepIds) /\ Len(u) = Len(c) + Len(b)
        /\ \A i \in 1 .. Len(c) + Len(b) :
             u[i] = IF i <= Len(c) THEN c[i] ELSE b[i - Len(c)]
    BY <1>3, <1>4, <1>5, ConcatProperties
  <2>2. Len(c) = at /\ Len(c) + Len(b) = n + 1
    BY <1>1, <1>3, <1>4
  <2>3. ASSUME NEW i \in 1 .. n + 1
        PROVE  u[i] = IF i < at THEN o[i] ELSE IF i = at THEN s ELSE o[i - 1]
    <3>1. CASE i <= at
      <4>1. u[i] = c[i] /\ i \in 1 .. at
        BY <1>1, <2>1, <2>2, <3>1
      <4> QED
        BY <1>1, <1>4, <4>1
    <3>2. CASE ~(i <= at)
      <4>1. u[i] = b[i - at]
        BY <1>1, <2>1, <2>2, <3>2
      <4>2. i - at \in 1 .. n + 1 - at /\ at + (i - at) - 1 = i - 1
        BY <1>1, <3>2
      <4>3. b[i - at] = o[at + (i - at) - 1]
        BY <1>3, <4>2
      <4> QED
        BY <1>1, <3>2, <4>1, <4>2, <4>3
    <3> QED
      BY <3>1, <3>2
  <2> QED
    BY <2>1, <2>2, <2>3
<1> HIDE DEF n
<1>7. DOMAIN u = 1 .. n + 1
  BY <1>6, LenProperties
<1>e. \A i \in 1 .. n : o[i] \in ToSet(o)
  BY <1>1 DEF ToSet
<1>8. IsInjective(u)
  <2> SUFFICES ASSUME NEW i \in 1 .. n + 1, NEW j \in 1 .. n + 1, u[i] = u[j]
               PROVE  i = j
    BY <1>7 DEF IsInjective
  <2> DEFINE old(k) == IF k < at THEN k ELSE k - 1
  <2>1. ASSUME NEW k \in 1 .. n + 1, k # at
        PROVE  old(k) \in 1 .. n /\ u[k] = o[old(k)]
    BY <1>1, <1>6, <2>1 DEF n
  <2>2. u[at] = s
    BY <1>1, <1>6 DEF n
  <2>3. CASE i # at /\ j # at
    <3>1. old(i) = old(j)
      BY <1>1, <2>1, <2>3 DEF IsInjective
    <3> QED
      BY <1>1, <2>3, <3>1
  <2>4. CASE i = at \/ j = at
    BY <1>e, <2>1, <2>2, <2>4
  <2> QED
    BY <2>3, <2>4
<1>9. ToSet(u) = ToSet(o) \cup {s}
  <2>1. ASSUME NEW i \in 1 .. n + 1 PROVE u[i] \in ToSet(o) \cup {s}
    <3>1. CASE i < at
      <4>1. u[i] = o[i] /\ i \in 1 .. n
        BY <1>1, <1>6, <3>1 DEF n
      <4> QED
        BY <1>e, <4>1
    <3>2. CASE i = at
      BY <1>6, <3>2, <1>1
    <3>3. CASE i > at
      <4>1. u[i] = o[i - 1] /\ i - 1 \in 1 .. n
        BY <1>1, <1>6, <3>3
      <4> QED
        BY <1>e, <4>1
    <3> QED
      BY <1>1, <3>1, <3>2, <3>3
  <2>2. ASSUME NEW i \in 1 .. n PROVE o[i] \in ToSet(u)
    <3>1. CASE i < at
      <4>1. i \in 1 .. n + 1 /\ u[i] = o[i]
        BY <1>1, <1>6, <3>1
      <4> QED
        BY <1>7, <4>1 DEF ToSet
    <3>2. CASE ~(i < at)
      <4>1. i + 1 \in 1 .. n + 1 /\ u[i + 1] = o[i]
        BY <1>1, <1>6, <3>2
      <4> QED
        BY <1>7, <4>1 DEF ToSet
    <3> QED
      BY <3>1, <3>2
  <2>3. at \in 1 .. n + 1 /\ u[at] = s
    BY <1>1, <1>6 DEF n
  <2>4. s \in ToSet(u)
    BY <1>7, <2>3 DEF ToSet
  <2> QED
    BY <1>1, <1>7, <2>1, <2>2, <2>4 DEF ToSet
<1> QED
  BY <1>6, <1>8, <1>9 DEF u

----------------------------------------------------------------------------
(* The methods keep a plan well formed and acyclic *)

Sound(p) == WellFormed(p) /\ DependenciesOK(p)

\* The dependencies of two plans that have the same steps and links.
LEMMA DependenciesAlike ==
  ASSUME NEW p, NEW q, Ids(p) = Ids(q), p.deps = q.deps, DependenciesOK(p)
  PROVE  DependenciesOK(q)
BY DEF DependenciesOK, Acyclic, Searched

\* A method that leaves the array, the ids and the dependencies alone.
LEMMA ShapeKept ==
  ASSUME NEW p, Sound(p), NEW q \in Plan,
         q.order = p.order, q.deps = p.deps, Ids(q) = Ids(p),
         q.current \in Ids(p) \cup {NoStep}
  PROVE  Sound(q)
BY DependenciesAlike DEF Sound, WellFormed

\* Assigning a status to a step of the plan changes no id.
LEMMA IdsKept ==
  ASSUME NEW p \in Plan, NEW s \in Ids(p), NEW st \in StepStatus, NEW q,
         q.step = [p.step EXCEPT ![s] = st]
  PROVE  Ids(q) = Ids(p)
BY DEF Ids, Plan, StepStatus

\* The methods that set the plan's status only.
LEMMA StatusSet ==
  ASSUME NEW p, Sound(p)
  PROVE  /\ Sound(Started(p)) /\ Sound(Completed(p))
         /\ Sound(Cancelled(p)) /\ Sound(Failed(p))
<1>0. p \in Plan /\ p.version + 1 \in Nat /\ p.current \in Ids(p) \cup {NoStep}
  BY DEF Sound, WellFormed, Plan
<1>1. ASSUME NEW st \in PlanStatus, NEW c \in Ids(p) \cup {NoStep}
      PROVE  Sound([p EXCEPT !.status = st, !.current = c, !.version = @ + 1])
  <2> DEFINE q == [p EXCEPT !.status = st, !.current = c, !.version = @ + 1]
  <2>1. q \in Plan
    BY <1>0 DEF Plan, Ids
  <2>2. q.order = p.order /\ q.deps = p.deps /\ q.step = p.step /\ q.current = c
    BY <1>0 DEF Plan
  <2>3. Ids(q) = Ids(p)
    BY <2>2 DEF Ids
  <2> QED
    BY <2>1, <2>2, <2>3, ShapeKept
<1>2. ASSUME NEW st \in PlanStatus
      PROVE  Sound([p EXCEPT !.status = st, !.version = @ + 1])
  <2>1. [p EXCEPT !.status = st, !.version = @ + 1]
          = [p EXCEPT !.status = st, !.current = p.current, !.version = @ + 1]
    BY <1>0 DEF Plan
  <2> QED
    BY <1>0, <1>1, <2>1
<1>3. Sound(Started(p))
  BY <1>2 DEF Started, PlanStatus
<1>4. Sound(Completed(p))
  BY <1>1 DEF Completed, PlanStatus
<1>5. Sound(Cancelled(p))
  BY <1>1 DEF Cancelled, PlanStatus
<1>6. Sound(Failed(p))
  BY <1>2 DEF Failed, PlanStatus
<1> QED
  BY <1>3, <1>4, <1>5, <1>6

\* The methods that give step s the status st.
LEMMA StepSet ==
  ASSUME NEW p, Sound(p), NEW s \in Ids(p)
  PROVE  /\ Sound(StepStarted(p, s)) /\ Sound(StepCompleted(p, s))
         /\ Sound(StepSkipped(p, s)) /\ Sound(StepBlocked(p, s))
         /\ Sound(StepFailed(p, s))
<1>0. /\ p \in Plan /\ p.version + 1 \in Nat /\ p.order \in Seq(StepIds)
      /\ p.current \in Ids(p) \cup {NoStep} /\ ToSet(p.order) = Ids(p)
      /\ s \in StepIds
  BY DEF Sound, WellFormed, Plan, Ids
<1>1. ASSUME NEW st \in StepStatus
      PROVE  [p.step EXCEPT ![s] = st] \in [StepIds -> StepStatus \cup {"absent"}]
  BY <1>0 DEF Plan
<1>2. ASSUME NEW st \in StepStatus, NEW q \in Plan,
             q.order = p.order, q.deps = p.deps,
             q.step = [p.step EXCEPT ![s] = st], q.current \in Ids(p) \cup {NoStep}
      PROVE  Sound(q)
  BY <1>0, <1>2, IdsKept, ShapeKept
<1>s. {"in_progress", "completed", "skipped", "blocked", "failed"} \subseteq StepStatus
  BY DEF StepStatus
<1>3. Sound(StepStarted(p, s))
  <2> DEFINE q == StepStarted(p, s)
  <2>1. q \in Plan
    BY <1>0, <1>1, <1>s DEF StepStarted, Plan, PlanStatus, Ids
  <2>2. /\ q.order = p.order /\ q.deps = p.deps /\ q.current = s
        /\ q.step = [p.step EXCEPT ![s] = "in_progress"]
    BY <1>0 DEF StepStarted, Plan
  <2> HIDE DEF q
  <2>3. Sound(q)
    BY <1>0, <1>2, <1>s, <2>1, <2>2
  <2> QED
    BY <2>3 DEF q
<1>4. Sound(StepCompleted(p, s))
  <2> DEFINE q == StepCompleted(p, s)
             c == FirstOf(p, WithStatus(p, {"pending"}) \ {s})
  <2>0. c \in Ids(p) \cup {NoStep}
    BY <1>0, FirstOfCorrect
  <2> HIDE DEF c
  <2>1. q \in Plan
    BY <2>0, <1>0, <1>1, <1>s DEF StepCompleted, Plan, PlanStatus, Ids, c
  <2>2. /\ q.order = p.order /\ q.deps = p.deps /\ q.current = c
        /\ q.step = [p.step EXCEPT ![s] = "completed"]
    BY <1>0 DEF StepCompleted, Plan, c
  <2> HIDE DEF q
  <2>3. Sound(q)
    BY <2>0, <1>0, <1>2, <1>s, <2>1, <2>2
  <2> QED
    BY <2>3 DEF q
<1>5. Sound(StepSkipped(p, s))
  <2> DEFINE q == StepSkipped(p, s)
             c == IF p.current = s THEN NoStep ELSE p.current
  <2>0. c \in Ids(p) \cup {NoStep}
    BY <1>0
  <2>1. q \in Plan
    BY <2>0, <1>0, <1>1, <1>s DEF StepSkipped, Plan, PlanStatus, Ids
  <2>2. /\ q.order = p.order /\ q.deps = p.deps /\ q.current = c
        /\ q.step = [p.step EXCEPT ![s] = "skipped"]
    BY <1>0 DEF StepSkipped, Plan
  <2> HIDE DEF q
  <2>3. Sound(q)
    BY <2>0, <1>0, <1>2, <1>s, <2>1, <2>2
  <2> QED
    BY <2>3 DEF q
<1>6. Sound(StepBlocked(p, s))
  <2> DEFINE q == StepBlocked(p, s)
  <2>1. q \in Plan
    BY <1>0, <1>1, <1>s DEF StepBlocked, Plan, PlanStatus, Ids
  <2>2. /\ q.order = p.order /\ q.deps = p.deps /\ q.current = p.current
        /\ q.step = [p.step EXCEPT ![s] = "blocked"]
    BY <1>0 DEF StepBlocked, Plan
  <2> HIDE DEF q
  <2>3. Sound(q)
    BY <1>0, <1>2, <1>s, <2>1, <2>2
  <2> QED
    BY <2>3 DEF q
<1>7. Sound(StepFailed(p, s))
  <2> DEFINE q == StepFailed(p, s)
  <2>1. q \in Plan
    BY <1>0, <1>1, <1>s DEF StepFailed, Plan, PlanStatus, Ids
  <2>2. /\ q.order = p.order /\ q.deps = p.deps /\ q.current = p.current
        /\ q.step = [p.step EXCEPT ![s] = "failed"]
    BY <1>0 DEF StepFailed, Plan
  <2> HIDE DEF q
  <2>3. Sound(q)
    BY <1>0, <1>2, <1>s, <2>1, <2>2
  <2> QED
    BY <2>3 DEF q
<1> QED
  BY <1>3, <1>4, <1>5, <1>6, <1>7

\* updateStep: the candidate passed the validator, whatever its status is.
LEMMA UpdateSound ==
  ASSUME NEW p, Sound(p), NEW s \in StepIds, NEW st \in StepStatus,
         NEW D \in SUBSET StepIds, MayUpdateStep(p, s, "pending", D)
  PROVE  Sound(StepUpdated(p, s, st, D))
<1> DEFINE q == StepUpdated(p, s, st, D)
           r == StepUpdated(p, s, "pending", D)
<1>r. /\ p \in Plan /\ s \in Ids(p) /\ p.version + 1 \in Nat
      /\ p.current \in Ids(p) \cup {NoStep} /\ ToSet(p.order) = Ids(p)
      /\ IsInjective(p.order) /\ DependenciesOK(r)
  BY DEF Sound, WellFormed, Plan, MayUpdateStep, Valid
<1>p. "pending" \in StepStatus
  BY DEF StepStatus
<1>i. \A t \in StepStatus :
        /\ Ids(StepUpdated(p, s, t, D)) = Ids(p)
        /\ StepUpdated(p, s, t, D).deps = [p.deps EXCEPT ![s] = D]
  <2> TAKE t \in StepStatus
  <2>1. /\ StepUpdated(p, s, t, D).step = [p.step EXCEPT ![s] = t]
        /\ StepUpdated(p, s, t, D).deps = [p.deps EXCEPT ![s] = D]
    BY <1>r DEF StepUpdated, Plan
  <2> QED
    BY <1>r, <2>1, IdsKept
<1>0. /\ p \in Plan /\ s \in Ids(p) /\ p.version + 1 \in Nat
      /\ p.current \in Ids(p) \cup {NoStep} /\ ToSet(p.order) = Ids(p)
      /\ IsInjective(p.order) /\ DependenciesOK(q)
  <2>1. Ids(r) = Ids(q) /\ r.deps = q.deps
    BY <1>i, <1>p
  <2> HIDE DEF q, r
  <2>2. DependenciesOK(q)
    BY <1>r, <2>1, DependenciesAlike
  <2> QED
    BY <1>r, <2>2
<1>1. /\ [p.step EXCEPT ![s] = st] \in [StepIds -> StepStatus \cup {"absent"}]
      /\ [p.deps EXCEPT ![s] = D] \in [StepIds -> SUBSET StepIds]
  BY <1>0 DEF Plan
<1>2. q = [p EXCEPT !.step = [p.step EXCEPT ![s] = st],
                    !.deps = [p.deps EXCEPT ![s] = D], !.version = @ + 1]
  BY <1>0 DEF StepUpdated, Plan
<1> HIDE DEF q
<1>3. q \in Plan
  BY <1>0, <1>1, <1>2 DEF Plan, Ids
<1>4. q.order = p.order /\ q.current = p.current /\ q.step = [p.step EXCEPT ![s] = st]
  BY <1>0, <1>2 DEF Plan
<1>5. Ids(q) = Ids(p)
  BY <1>0, <1>4, IdsKept
<1>6. Sound(q)
  BY <1>0, <1>3, <1>4, <1>5 DEF Sound, WellFormed
<1> QED
  BY <1>6 DEF q

\* addStep: the new id is not in the array, the candidate passed the validator,
\* whatever its status is.
LEMMA AddSound ==
  ASSUME NEW p, Sound(p), NEW s \in StepIds, NEW st \in StepStatus,
         NEW D \in SUBSET StepIds, NEW after \in StepIds \cup {NoStep},
         MayAddStep(p, s, "pending", D, after)
  PROVE  Sound(StepAdded(p, s, st, D, after))
<1> DEFINE q == StepAdded(p, s, st, D, after)
           r == StepAdded(p, s, "pending", D, after)
           at == IF after = NoStep THEN Len(p.order) + 1
                 ELSE IndexIn(p.order, {after}) + 1
           u == InsertAt(p.order, at, s)
<1>r. /\ p \in Plan /\ s \notin Ids(p) /\ p.version + 1 \in Nat
      /\ p.current \in Ids(p) \cup {NoStep} /\ ToSet(p.order) = Ids(p)
      /\ IsInjective(p.order) /\ p.order \in Seq(StepIds)
      /\ after \in Ids(p) \cup {NoStep} /\ DependenciesOK(r)
  BY DEF Sound, WellFormed, Plan, MayAddStep, Valid
<1>p. "pending" \in StepStatus
  BY DEF StepStatus
<1>i. \A t \in StepStatus :
        /\ Ids(StepAdded(p, s, t, D, after)) = Ids(p) \cup {s}
        /\ StepAdded(p, s, t, D, after).deps = [p.deps EXCEPT ![s] = D]
  <2> TAKE t \in StepStatus
  <2>1. /\ StepAdded(p, s, t, D, after).step = [p.step EXCEPT ![s] = t]
        /\ StepAdded(p, s, t, D, after).deps = [p.deps EXCEPT ![s] = D]
    BY <1>r DEF StepAdded, Plan
  <2> QED
    BY <1>r, <2>1 DEF Ids, Plan, StepStatus
<1>0. /\ p \in Plan /\ s \notin Ids(p) /\ p.version + 1 \in Nat
      /\ p.current \in Ids(p) \cup {NoStep} /\ ToSet(p.order) = Ids(p)
      /\ IsInjective(p.order) /\ p.order \in Seq(StepIds)
      /\ after \in Ids(p) \cup {NoStep} /\ DependenciesOK(q)
  <2>1. Ids(r) = Ids(q) /\ r.deps = q.deps
    BY <1>i, <1>p
  <2> HIDE DEF q, r
  <2>2. DependenciesOK(q)
    BY <1>r, <2>1, DependenciesAlike
  <2> QED
    BY <1>r, <2>2
<1>1. at \in 1 .. Len(p.order) + 1
  <2>1. Len(p.order) \in Nat
    BY <1>0, LenProperties
  <2>2. CASE after = NoStep
    BY <2>1, <2>2
  <2>3. CASE after # NoStep
    <3>1. ToSet(p.order) \cap {after} # {}
      BY <1>0, <2>3
    <3>2. IndexIn(p.order, {after}) \in 1 .. Len(p.order)
      BY <1>0, <3>1, IndexInCorrect
    <3> QED
      BY <2>1, <2>3, <3>2
  <2> QED
    BY <2>2, <2>3
<1> HIDE DEF at
<1>2. u \in Seq(StepIds) /\ IsInjective(u) /\ ToSet(u) = Ids(p) \cup {s}
  BY <1>0, <1>1, InsertCorrect
<1> HIDE DEF u
<1>3. /\ [p.step EXCEPT ![s] = st] \in [StepIds -> StepStatus \cup {"absent"}]
      /\ [p.deps EXCEPT ![s] = D] \in [StepIds -> SUBSET StepIds]
  BY <1>0 DEF Plan
<1>4. q = [p EXCEPT !.order = u, !.step = [p.step EXCEPT ![s] = st],
                    !.deps = [p.deps EXCEPT ![s] = D], !.version = @ + 1]
  BY <1>0 DEF StepAdded, Plan, u, at
<1> HIDE DEF q
<1>5. q \in Plan
  BY <1>0, <1>2, <1>3, <1>4 DEF Plan, Ids
<1>6. q.order = u /\ q.current = p.current /\ q.step = [p.step EXCEPT ![s] = st]
  BY <1>0, <1>4 DEF Plan
<1>7. Ids(q) = Ids(p) \cup {s}
  BY <1>0, <1>6 DEF Ids, Plan, StepStatus
<1>8. Sound(q)
  BY <1>0, <1>2, <1>5, <1>6, <1>7 DEF Sound, WellFormed
<1> QED
  BY <1>8 DEF q

\* A plan as the generator delivers it.
LEMMA NewPlanSound ==
  ASSUME NEW o \in Orders, NEW D \in [StepIds -> SUBSET StepIds],
         Valid(NewPlan(o, D))
  PROVE  Sound(NewPlan(o, D))
<1> DEFINE p == NewPlan(o, D)
<1>1. PICK n \in 1 .. MaxSteps : o \in [1 .. n -> StepIds]
  BY DEF Orders
<1>2. o \in Seq(StepIds) /\ IsInjective(o) /\ ToSet(o) \subseteq StepIds
  BY <1>1, PlanAssumption DEF Orders, ToSet
<1>3. p \in Plan
  BY <1>2, PlanAssumption DEF NewPlan, Plan, StepStatus, PlanStatus
<1>4. Ids(p) = ToSet(o) /\ p.order = o /\ p.current = NoStep
  BY <1>2 DEF NewPlan, Ids
<1> QED
  BY <1>2, <1>3, <1>4 DEF Sound, WellFormed, Valid
=============================================================================
