---------------------------- MODULE EngineProofs ----------------------------
(***************************************************************************)
(* Theorems about the evaluation engine, for any number of callers, users,  *)
(* activities and tiers.                                                    *)
(***************************************************************************)
EXTENDS Engine, FunctionTheorems, FiniteSetTheorems, TLAPS

-----------------------------------------------------------------------------
(* Sums and day totals: the operators of Criteria. *)

\* The image of a finite set under a function is finite.
LEMMA FiniteImage ==
  ASSUME NEW S, IsFiniteSet(S), NEW f, DOMAIN f = S
  PROVE  IsFiniteSet({f[x] : x \in S})
<1> DEFINE T == {f[x] : x \in S}
           g == [x \in S |-> f[x]]
<1>1. g \in Surjection(S, T)
  BY DEF Surjection
<1> QED
  BY <1>1, FS_Surjection

\* A finite set of weighted elements has finitely many units, and a sum is a
\* natural number.
LEMMA SumType ==
  ASSUME NEW S, IsFiniteSet(S), NEW w, \A s \in S : w[s] \in Nat
  PROVE  IsFiniteSet(Units(S, w)) /\ SumOver(S, w) \in Nat
<1> DEFINE F == [s \in S |-> {s} \X (1 .. w[s])]
<1>1. ASSUME NEW s \in S PROVE IsFiniteSet(F[s])
  <2>1. IsFiniteSet({s})
    BY FS_Singleton
  <2>2. IsFiniteSet(1 .. w[s])
    BY FS_Interval
  <2> QED
    BY <2>1, <2>2, FS_Product
<1>2. DOMAIN F = S /\ {F[s] : s \in S} = {{s} \X (1 .. w[s]) : s \in S}
  OBVIOUS
<1>3. IsFiniteSet({F[s] : s \in S})
  <2> HIDE DEF F
  <2> QED
    BY <1>2, FiniteImage
<1>4. \A T \in {F[s] : s \in S} : IsFiniteSet(T)
  BY <1>1
<1>5. IsFiniteSet(UNION {F[s] : s \in S})
  <2> HIDE DEF F
  <2> QED
    BY <1>3, <1>4, FS_UNION
<1>6. IsFiniteSet(Units(S, w))
  BY <1>2, <1>5 DEF Units
<1> QED
  BY <1>6, FS_CardinalityType DEF SumOver

\* Adding an element adds its weight.
LEMMA SumAdd ==
  ASSUME NEW S, IsFiniteSet(S), NEW x, x \notin S,
         NEW w, \A s \in S \cup {x} : w[s] \in Nat
  PROVE  SumOver(S \cup {x}, w) = SumOver(S, w) + w[x]
<1> DEFINE own == {x} \X (1 .. w[x])
<1>1. Units(S \cup {x}, w) = Units(S, w) \cup own
  BY DEF Units
<1>2. Units(S, w) \cap own = {}
  BY DEF Units
<1>3. IsFiniteSet(own) /\ Cardinality(own) = w[x]
  <2>1. Cardinality(1 .. w[x]) = w[x] /\ IsFiniteSet(1 .. w[x])
    <3>1. w[x] \in Nat
      OBVIOUS
    <3>2. \A n \in Nat : /\ IsFiniteSet(1 .. n)
                        /\ Cardinality(1 .. n) = IF 1 > n THEN 0 ELSE n - 1 + 1
      BY FS_Interval
    <3>3. \A n \in Nat : Cardinality(1 .. n) = n
      BY <3>2
    <3> QED
      BY <3>1, <3>2, <3>3
  <2>2. Cardinality({x}) = 1 /\ IsFiniteSet({x})
    BY FS_Singleton
  <2>3. /\ IsFiniteSet({x} \X (1 .. w[x]))
        /\ Cardinality({x} \X (1 .. w[x])) = Cardinality({x}) * Cardinality(1 .. w[x])
    BY <2>1, <2>2, FS_Product
  <2>4. w[x] \in Nat /\ 1 * w[x] = w[x]
    OBVIOUS
  <2> QED
    BY <2>1, <2>2, <2>3, <2>4
<1>4. IsFiniteSet(Units(S, w)) /\ SumOver(S, w) \in Nat
  BY SumType
<1> HIDE DEF own
<1>5. Cardinality(Units(S, w) \cup own)
        = Cardinality(Units(S, w)) + Cardinality(own) - Cardinality(Units(S, w) \cap own)
  BY <1>3, <1>4, FS_Union
<1>6. Cardinality(Units(S, w) \cap own) = 0
  BY <1>2, FS_EmptySet
<1>7. w[x] \in Nat
  OBVIOUS
<1>8. SumOver(S \cup {x}, w) = Cardinality(Units(S, w) \cup own)
  BY <1>1 DEF SumOver
<1>9. SumOver(S, w) = Cardinality(Units(S, w))
  BY DEF SumOver
<1> QED
  BY <1>3, <1>4, <1>5, <1>6, <1>7, <1>8, <1>9

\* The longest run of a finite set of days is a natural number.
LEMMA LongestRunType ==
  ASSUME NEW S, IsFiniteSet(S)
  PROVE  LongestRun(S) \in Nat
<1>1. Cardinality(S) \in Nat
  BY FS_CardinalityType
<1>2. IsFiniteSet(1 .. Cardinality(S))
  BY <1>1, FS_Interval
<1> QED
  BY <1>2, FS_Subset, FS_CardinalityType DEF LongestRun

\* Day totals are natural numbers.
LEMMA DayTotalsType ==
  ASSUME NEW days, NEW owl, NEW early,
         IsFiniteSet(days), IsFiniteSet(owl), IsFiniteSet(early), NEW c \in dayCriteria
  PROVE  computeDayTotals(days, owl, early)[c] \in Nat
BY LongestRunType, FS_CardinalityType DEF computeDayTotals, dayCriteria

\* Day totals never fall when the sets of days they are taken of grow: a
\* streak of the smaller set is a streak of the larger one.
LEMMA DayTotalsMonotone ==
  ASSUME NEW days, NEW owl, NEW early, NEW days2, NEW owl2, NEW early2,
         IsFiniteSet(days2), IsFiniteSet(owl2), IsFiniteSet(early2),
         days \subseteq days2, owl \subseteq owl2, early \subseteq early2,
         NEW c \in dayCriteria
  PROVE  computeDayTotals(days, owl, early)[c] <= computeDayTotals(days2, owl2, early2)[c]
<1> DEFINE Runs(D) == {n \in 1 .. Cardinality(D) : \E d \in D : d .. (d + n - 1) \subseteq D}
<1>1. Cardinality(days) <= Cardinality(days2)
  BY FS_Subset
<1>2. Cardinality(owl) <= Cardinality(owl2) /\ Cardinality(early) <= Cardinality(early2)
  BY FS_Subset
<1>3. LongestRun(days) <= LongestRun(days2)
  <2>1. Cardinality(days) \in Nat /\ Cardinality(days2) \in Nat
    BY FS_Subset, FS_CardinalityType
  <2>2. Runs(days) \subseteq Runs(days2)
    <3>1. 1 .. Cardinality(days) \subseteq 1 .. Cardinality(days2)
      BY <1>1, <2>1
    <3> QED
      BY <3>1
  <2>3. IsFiniteSet(Runs(days2))
    <3>1. IsFiniteSet(1 .. Cardinality(days2))
      BY <2>1, FS_Interval
    <3>2. Runs(days2) \subseteq 1 .. Cardinality(days2)
      OBVIOUS
    <3> HIDE DEF Runs
    <3> QED
      BY <3>1, <3>2, FS_Subset
  <2>4. Cardinality(Runs(days)) <= Cardinality(Runs(days2))
    <3> HIDE DEF Runs
    <3> QED
      BY <2>2, <2>3, FS_Subset
  <2> QED
    BY <2>4 DEF LongestRun
<1> QED
  BY <1>1, <1>2, <1>3 DEF computeDayTotals, dayCriteria

\* The criteria of a kind are cumulative ones.
LEMMA CriteriaForCumulative ==
  ASSUME NEW kind
  PROVE  criteriaFor(kind) \subseteq Cumulative
BY DEF criteriaFor, Cumulative

\* No cumulative criteria is one of those recomputed from a set.
LEMMA CumulativeNotDerived ==
  Cumulative \cap (dayCriteria \cup {"projects_contributed"}) = {}
BY DEF Cumulative, kindCriteria, dayCriteria

\* A sum over nothing is zero.
LEMMA SumNothing ==
  ASSUME NEW w
  PROVE  SumOver({}, w) = 0
<1>1. Units({}, w) = {}
  BY DEF Units
<1> QED
  BY <1>1, FS_EmptySet DEF SumOver

-----------------------------------------------------------------------------
(* Rows: what evaluating one activity makes of one user's. A row is sound    *)
(* when its awards are exactly the tiers its counters reach and its derived *)
(* counters are those of its sets.                                          *)

Derived(r) ==
  /\ \A c \in dayCriteria : r.count[c] = computeDayTotals(r.days, r.owl, r.early)[c]
  /\ r.count["projects_contributed"] = Cardinality(r.projects)

Complete(r)  == Reached(r.count, AllCriteria) \subseteq r.awards
Justified(r) == r.awards \subseteq Reached(r.count, AllCriteria)
Sound(r)     == Derived(r) /\ Complete(r) /\ Justified(r)

\* The counters of m are those of r, or higher for criteria in C.
Raised(r, m, C) ==
  /\ \A c \in AllCriteria : r.count[c] <= m.count[c]
  /\ \A c \in AllCriteria \ C : m.count[c] = r.count[c]

-----------------------------------------------------------------------------

\* The instance has finitely many days and projects.
LEMMA DaysAndProjectsFinite == IsFiniteSet(Days) /\ IsFiniteSet(Projects)
<1> DEFINE day == [s \in Sightings |-> s.day]
           project == [s \in Sightings |-> s.project]
<1>1. IsFiniteSet(Sightings)
  BY EngineAssumption
<1>2. IsFiniteSet({day[s] : s \in Sightings})
  <2>1. DOMAIN day = Sightings
    OBVIOUS
  <2> HIDE DEF day
  <2> QED
    BY <1>1, <2>1, FiniteImage
<1>3. IsFiniteSet({project[s] : s \in Sightings})
  <2>1. DOMAIN project = Sightings
    OBVIOUS
  <2> HIDE DEF project
  <2> QED
    BY <1>1, <2>1, FiniteImage
<1>4. Days \subseteq {day[s] : s \in Sightings} /\ Projects \subseteq {project[s] : s \in Sightings}
  BY DEF Days, Projects
<1> HIDE DEF day, project
<1> QED
  BY <1>2, <1>3, <1>4, FS_Subset

\* So the sets of a user's rows are finite.
LEMMA RowSetsFinite ==
  ASSUME NEW r \in UserRows
  PROVE  /\ IsFiniteSet(r.days) /\ IsFiniteSet(r.owl) /\ IsFiniteSet(r.early)
         /\ IsFiniteSet(r.projects)
<1>1. /\ r.days \subseteq Days /\ r.owl \subseteq Days /\ r.early \subseteq Days
      /\ r.projects \subseteq Projects
  BY DEF UserRows
<1> QED
  BY <1>1, DaysAndProjectsFinite, FS_Subset

\* What tiers are worth is a natural number.
LEMMA HeldExpType ==
  ASSUME NEW T \in SUBSET Tiers
  PROVE  heldExp(T) \in Nat
<1>1. IsFiniteSet(T) /\ \A t \in T : ExpReward[t] \in Nat
  BY EngineAssumption, FS_Subset
<1> QED
  BY <1>1, SumType DEF heldExp

\* Awarding touches the awards only.
LEMMA AwardingFields ==
  ASSUME NEW r \in UserRows, NEW C
  PROVE  LET n == awardReachedTiers(r, C) IN
         /\ n \in UserRows
         /\ n.count = r.count /\ n.days = r.days /\ n.owl = r.owl /\ n.early = r.early
         /\ n.projects = r.projects
         /\ n.awards = r.awards \cup Reached(r.count, C)
BY DEF awardReachedTiers, UserRows, Reached

\* Awarding the tiers of the criteria that were raised keeps the awards
\* complete and justified.
LEMMA AwardingSound ==
  ASSUME NEW r \in UserRows, NEW m \in UserRows, NEW C \in SUBSET AllCriteria,
         m.awards = r.awards, Raised(r, m, C), Complete(r), Justified(r)
  PROVE  LET n == awardReachedTiers(m, C) IN Complete(n) /\ Justified(n)
<1> DEFINE n == awardReachedTiers(m, C)
<1>1. n.count = m.count /\ n.awards = r.awards \cup Reached(m.count, C)
  BY AwardingFields
<1>2. \A t \in Tiers : /\ CriteriaKey[t] \in AllCriteria /\ Threshold[t] \in Nat
                       /\ m.count[CriteriaKey[t]] \in Nat /\ r.count[CriteriaKey[t]] \in Nat
  BY EngineAssumption DEF UserRows
<1>3. ASSUME NEW t \in Reached(m.count, AllCriteria) PROVE t \in n.awards
  <2>1. CASE CriteriaKey[t] \in C
    BY <1>1, <1>3, <2>1 DEF Reached
  <2>2. CASE CriteriaKey[t] \notin C
    <3>1. t \in Reached(r.count, AllCriteria)
      BY <1>2, <1>3, <2>2 DEF Reached, Raised
    <3> QED
      BY <1>1, <3>1 DEF Complete
  <2> QED
    BY <2>1, <2>2
<1>4. ASSUME NEW t \in n.awards PROVE t \in Reached(m.count, AllCriteria)
  <2>1. CASE t \in Reached(m.count, C)
    BY <2>1 DEF Reached
  <2>2. CASE t \in r.awards
    <3>1. t \in Reached(r.count, AllCriteria)
      BY <2>2 DEF Justified
    <3> QED
      BY <1>2, <3>1 DEF Reached, Raised
  <2> QED
    BY <1>1, <1>4, <2>1, <2>2
<1> HIDE DEF n
<1>5. Complete(n) /\ Justified(n)
  BY <1>1, <1>3, <1>4 DEF Complete, Justified
<1> QED
  BY <1>5 DEF n

\* An activity adds its weight to the criteria of its kind, and to no other.
LEMMA IncrementedEffect ==
  ASSUME NEW r \in UserRows, NEW k \in Activities
  PROVE  LET n == Incremented(r, k) IN
         /\ n \in UserRows
         /\ \A c \in AllCriteria :
              n.count[c] = r.count[c] + (IF c \in criteriaFor(Kind[k]) THEN Weight[k] ELSE 0)
         /\ r.awards \subseteq n.awards
         /\ Sound(r) => Sound(n)
<1> DEFINE C == criteriaFor(Kind[k])
           count == [c \in AllCriteria |-> r.count[c] + (IF c \in C THEN Weight[k] ELSE 0)]
           m == [r EXCEPT !.count = count]
           n == awardReachedTiers(m, C)
<1>1. Incremented(r, k) = n
  BY DEF Incremented
<1>2. count \in [AllCriteria -> Nat] /\ \A c \in AllCriteria : r.count[c] <= count[c]
  BY EngineAssumption DEF UserRows
<1>3. /\ m \in UserRows /\ m.count = count /\ m.awards = r.awards
      /\ m.days = r.days /\ m.owl = r.owl /\ m.early = r.early /\ m.projects = r.projects
  <2> HIDE DEF count
  <2> QED
    BY <1>2 DEF UserRows
<1>4. C \in SUBSET AllCriteria /\ C \subseteq Cumulative
  BY CriteriaForCumulative DEF AllCriteria
<1>5. /\ n \in UserRows /\ n.count = count /\ n.awards = r.awards \cup Reached(count, C)
      /\ n.days = r.days /\ n.owl = r.owl /\ n.early = r.early /\ n.projects = r.projects
  <2> HIDE DEF m
  <2> QED
    BY <1>3, AwardingFields
<1>6. ASSUME Sound(r) PROVE Sound(n)
  <2>1. Raised(r, m, C)
    BY <1>2, <1>3 DEF Raised, UserRows
  <2>2. Complete(n) /\ Justified(n)
    <3> HIDE DEF m, C
    <3> QED
      BY <1>3, <1>4, <1>6, <2>1, AwardingSound DEF Sound
  <2>3. \A c \in dayCriteria \cup {"projects_contributed"} : count[c] = r.count[c]
    BY <1>4, CumulativeNotDerived DEF UserRows, AllCriteria
  <2>4. Derived(n)
    <3> HIDE DEF n, count
    <3> QED
      BY <1>5, <1>6, <2>3 DEF Sound, Derived
  <2> QED
    BY <2>2, <2>4 DEF Sound
<1> HIDE DEF n
<1> QED
  BY <1>1, <1>5, <1>6

\* The days of an activity leave the cumulative counters alone.
LEMMA DaysEffect ==
  ASSUME NEW r \in UserRows, NEW s \in Sightings
  PROVE  LET n == evaluateDays(r, s) IN
         /\ n \in UserRows
         /\ \A c \in Cumulative : n.count[c] = r.count[c]
         /\ r.awards \subseteq n.awards
         /\ Sound(r) => Sound(n)
<1> DEFINE d == recordActivityDay(r, s)
           totals == computeDayTotals(d.days, d.owl, d.early)
           count == [c \in AllCriteria |-> IF c \in dayCriteria THEN totals[c] ELSE r.count[c]]
           m == [d EXCEPT !.count = count]
           n == awardReachedTiers(m, dayCriteria)
<1>1. /\ d \in UserRows /\ d.count = r.count /\ d.awards = r.awards /\ d.projects = r.projects
      /\ r.days \subseteq d.days /\ r.owl \subseteq d.owl /\ r.early \subseteq d.early
  <2>1. CASE s.day = NoDay
    BY <2>1 DEF recordActivityDay
  <2>2. CASE s.day # NoDay
    <3>1. s.day \in Days
      BY <2>2 DEF Days
    <3> QED
      BY <2>2, <3>1 DEF recordActivityDay, UserRows
  <2> QED
    BY <2>1, <2>2
<1> HIDE DEF d
<1>2. \A c \in dayCriteria : totals[c] \in Nat
  BY <1>1, RowSetsFinite, DayTotalsType
<1>3. dayCriteria \in SUBSET AllCriteria /\ Cumulative \in SUBSET AllCriteria
  BY DEF AllCriteria
<1>4. CASE d = r
  BY <1>4 DEF evaluateDays, d
<1>5. CASE d # r
  <2>1. evaluateDays(r, s) = n
    <3>1. d.count = r.count
      BY <1>1
    <3> QED
      BY <1>5, <3>1 DEF evaluateDays, d
  <2>2. count \in [AllCriteria -> Nat]
    BY <1>2 DEF UserRows
  <2>3. /\ m \in UserRows /\ m.count = count /\ m.awards = r.awards /\ m.projects = r.projects
        /\ m.days = d.days /\ m.owl = d.owl /\ m.early = d.early
    <3> HIDE DEF count
    <3> QED
      BY <1>1, <2>2 DEF UserRows
  <2>4. /\ n \in UserRows /\ n.count = count
        /\ n.awards = r.awards \cup Reached(count, dayCriteria) /\ n.projects = r.projects
        /\ n.days = d.days /\ n.owl = d.owl /\ n.early = d.early
    <3> HIDE DEF m, count
    <3> QED
      BY <2>3, AwardingFields
  <2>5. \A c \in Cumulative \cup {"projects_contributed"} : count[c] = r.count[c]
    BY <1>3, CumulativeNotDerived DEF AllCriteria, dayCriteria
  <2>6. ASSUME Sound(r) PROVE Sound(n)
    <3>1. \A c \in dayCriteria : r.count[c] <= totals[c]
      <4>1. \A c \in dayCriteria : r.count[c] = computeDayTotals(r.days, r.owl, r.early)[c]
        BY <2>6 DEF Sound, Derived
      <4>2. IsFiniteSet(d.days) /\ IsFiniteSet(d.owl) /\ IsFiniteSet(d.early)
        BY <1>1, RowSetsFinite
      <4> QED
        BY <1>1, <4>1, <4>2, DayTotalsMonotone
    <3>2. Raised(r, m, dayCriteria)
      <4>1. \A c \in AllCriteria : r.count[c] <= count[c]
        <5> HIDE DEF totals
        <5> QED
          BY <3>1 DEF UserRows
      <4>2. \A c \in AllCriteria \ dayCriteria : count[c] = r.count[c]
        OBVIOUS
      <4> HIDE DEF count, m
      <4> QED
        BY <2>3, <4>1, <4>2 DEF Raised
    <3>3. Complete(n) /\ Justified(n)
      <4> HIDE DEF m
      <4> QED
        BY <1>3, <2>3, <2>6, <3>2, AwardingSound DEF Sound
    <3>4. \A c \in dayCriteria : count[c] = totals[c]
      BY <1>3
    <3>5. Derived(n)
      <4> HIDE DEF n, count
      <4> QED
        BY <2>4, <2>5, <2>6, <3>4 DEF Sound, Derived
    <3> QED
      BY <3>3, <3>5 DEF Sound
  <2> HIDE DEF n, count
  <2> QED
    BY <2>1, <2>4, <2>5, <2>6
<1> QED
  BY <1>4, <1>5

\* The project of an activity advances one criteria, a derived one.
LEMMA ProjectsEffect ==
  ASSUME NEW r \in UserRows, NEW s \in Sightings
  PROVE  LET n == evaluateProjects(r, s) IN
         /\ n \in UserRows
         /\ \A c \in Cumulative : n.count[c] = r.count[c]
         /\ r.awards \subseteq n.awards
         /\ Sound(r) => Sound(n)
<1> DEFINE P == r.projects \cup {s.project}
           C == {"projects_contributed"}
           count == [r.count EXCEPT !["projects_contributed"] = Cardinality(P)]
           m == [r EXCEPT !.projects = P, !.count = count]
           n == awardReachedTiers(m, C)
<1>1. CASE s.project = NoProject \/ s.project \in r.projects
  BY <1>1 DEF evaluateProjects
<1>2. CASE ~(s.project = NoProject \/ s.project \in r.projects)
  <2>1. evaluateProjects(r, s) = n
    BY <1>2 DEF evaluateProjects
  <2>2. P \subseteq Projects /\ IsFiniteSet(r.projects)
    BY <1>2, RowSetsFinite DEF Projects, UserRows
  <2>3. Cardinality(P) \in Nat /\ Cardinality(P) = Cardinality(r.projects) + 1
        /\ Cardinality(r.projects) \in Nat
    BY <1>2, <2>2, FS_AddElement, FS_CardinalityType
  <2>4. C \in SUBSET AllCriteria /\ Cumulative \in SUBSET AllCriteria
    BY DEF AllCriteria
  <2>5. /\ count \in [AllCriteria -> Nat]
        /\ count["projects_contributed"] = Cardinality(P)
        /\ \A c \in AllCriteria \ C : count[c] = r.count[c]
    BY <2>3, <2>4 DEF UserRows
  <2>6. /\ m \in UserRows /\ m.count = count /\ m.awards = r.awards /\ m.projects = P
        /\ m.days = r.days /\ m.owl = r.owl /\ m.early = r.early
    <3> HIDE DEF count, P
    <3> QED
      BY <2>2, <2>5 DEF UserRows
  <2>7. /\ n \in UserRows /\ n.count = count
        /\ n.awards = r.awards \cup Reached(count, C) /\ n.projects = P
        /\ n.days = r.days /\ n.owl = r.owl /\ n.early = r.early
    <3> HIDE DEF m, count
    <3> QED
      BY <2>6, AwardingFields
  <2>8. ASSUME Sound(r) PROVE Sound(n)
    <3>1. Raised(r, m, C)
      <4>1. r.count["projects_contributed"] = Cardinality(r.projects)
        BY <2>8 DEF Sound, Derived
      <4> HIDE DEF count, m
      <4> QED
        BY <2>3, <2>5, <2>6, <4>1 DEF Raised, UserRows
    <3>2. Complete(n) /\ Justified(n)
      <4> HIDE DEF m
      <4> QED
        BY <2>4, <2>6, <2>8, <3>1, AwardingSound DEF Sound
    <3>3. Derived(n)
      <4>1. \A c \in dayCriteria : c \in AllCriteria \ C
        BY DEF AllCriteria, dayCriteria
      <4> HIDE DEF n, count
      <4> QED
        BY <2>5, <2>7, <2>8, <4>1 DEF Sound, Derived
    <3> QED
      BY <3>2, <3>3 DEF Sound
  <2>9. \A c \in Cumulative : c \in AllCriteria \ C
    BY <2>4, CumulativeNotDerived
  <2> HIDE DEF n, count
  <2> QED
    BY <2>1, <2>5, <2>7, <2>8, <2>9
<1> QED
  BY <1>1, <1>2

\* All of an evaluation: exactly the activity's weight is added, no award is
\* taken back, and a sound row stays sound.
LEMMA EvaluateEffect ==
  ASSUME NEW r \in UserRows, NEW s \in Sightings
  PROVE  LET n == evaluate(r, s) IN
         /\ n \in UserRows
         /\ \A c \in Cumulative :
              n.count[c] = r.count[c] + (IF c \in criteriaFor(Kind[s.key]) THEN Weight[s.key] ELSE 0)
         /\ r.awards \subseteq n.awards
         /\ Sound(r) => Sound(n)
<1> DEFINE a == Incremented(r, s.key)
           b == IF presentFor(Kind[s.key]) THEN evaluateDays(a, s) ELSE a
           n == evaluateProjects(b, s)
<1>1. evaluate(r, s) = n
  BY DEF evaluate, evaluateSets
<1>2. s.key \in Activities /\ Cumulative \subseteq AllCriteria
  BY EngineAssumption DEF AllCriteria
<1>3. /\ a \in UserRows
      /\ \A c \in Cumulative :
           a.count[c] = r.count[c] + (IF c \in criteriaFor(Kind[s.key]) THEN Weight[s.key] ELSE 0)
      /\ r.awards \subseteq a.awards
      /\ Sound(r) => Sound(a)
  BY <1>2, IncrementedEffect
<1> HIDE DEF a
<1>4. /\ b \in UserRows
      /\ \A c \in Cumulative : b.count[c] = a.count[c]
      /\ a.awards \subseteq b.awards
      /\ Sound(a) => Sound(b)
  BY <1>3, DaysEffect
<1> HIDE DEF b
<1>5. /\ n \in UserRows
      /\ \A c \in Cumulative : n.count[c] = b.count[c]
      /\ b.awards \subseteq n.awards
      /\ Sound(b) => Sound(n)
  BY <1>4, ProjectsEffect
<1> HIDE DEF n
<1> QED
  BY <1>1, <1>3, <1>4, <1>5

-----------------------------------------------------------------------------
(* The rows an earlier release left behind. *)

\* A tally is a natural number.
LEMMA TallyType ==
  ASSUME NEW K \in SUBSET Activities, NEW u, NEW c
  PROVE  Tally(K, u, c) \in Nat
<1>1. IsFiniteSet(Advancing(K, u, c)) /\ \A k \in Advancing(K, u, c) : Weight[k] \in Nat
  BY EngineAssumption, FS_Subset DEF Advancing
<1> QED
  BY <1>1, SumType DEF Tally

\* They are well typed and sound, and their cumulative counters are the weight
\* of the activities counted.
LEMMA OldRowsSound ==
  ASSUME NEW u \in Users
  PROVE  /\ OldRows(u) \in UserRows
         /\ \A c \in Cumulative : OldRows(u).count[c] = Tally(OldActivities, u, c)
         /\ Sound(OldRows(u))
<1> DEFINE r == OldRows(u)
           totals == computeDayTotals(r.days, r.owl, r.early)
<1>1. r.days \subseteq Days /\ r.owl \subseteq Days /\ r.early \subseteq Days
  BY EngineAssumption DEF OldRows, Days
<1>2. \A c \in dayCriteria : totals[c] \in Nat
  BY <1>1, DaysAndProjectsFinite, FS_Subset, DayTotalsType
<1>3. OldActivities \in SUBSET Activities
  BY EngineAssumption DEF OldActivities
<1>4. \A c \in AllCriteria : Tally(OldActivities, u, c) \in Nat
  BY <1>3, TallyType
<1>5. r.count = [c \in AllCriteria |-> IF c \in dayCriteria THEN totals[c]
                                       ELSE Tally(OldActivities, u, c)]
  BY DEF OldRows
<1>6. r.projects = {} /\ r.awards = Reached(r.count, AllCriteria)
  BY DEF OldRows
<1>7. DOMAIN r = {"count", "days", "owl", "early", "projects", "awards"}
  BY DEF OldRows
<1>8. r \in UserRows
  <2>1. r.count \in [AllCriteria -> Nat]
    <3> HIDE DEF totals, r
    <3> QED
      BY <1>2, <1>4, <1>5
  <2>2. r.awards \subseteq Tiers
    BY <1>6 DEF Reached
  <2>3. r = [count |-> r.count, days |-> r.days, owl |-> r.owl, early |-> r.early,
             projects |-> r.projects, awards |-> r.awards]
    BY DEF OldRows
  <2> HIDE DEF r
  <2> QED
    BY <1>1, <1>6, <2>1, <2>2, <2>3 DEF UserRows
<1> HIDE DEF r
<1>9. \A c \in Cumulative : r.count[c] = Tally(OldActivities, u, c)
  BY <1>5, CumulativeNotDerived DEF AllCriteria
<1>10. r.count["projects_contributed"] = 0
  <2>1. Advancing(OldActivities, u, "projects_contributed") = {}
    BY CriteriaForCumulative, CumulativeNotDerived DEF Advancing
  <2>2. Tally(OldActivities, u, "projects_contributed") = 0
    BY <2>1, SumNothing DEF Tally
  <2> QED
    BY <1>5, <2>2 DEF AllCriteria, dayCriteria
<1>11. Derived(r)
  BY <1>5, <1>6, <1>10, FS_EmptySet DEF Derived, AllCriteria
<1>12. Sound(r)
  BY <1>6, <1>11 DEF Sound, Complete, Justified
<1> QED
  BY <1>8, <1>9, <1>12 DEF r

-----------------------------------------------------------------------------
(* Type correctness, at either isolation level. *)

Snapshots == [known : BOOLEAN, excluded : BOOLEAN, rows : UserRows]

DbType ==
  /\ processed \subseteq Activities
  /\ known \subseteq Users
  /\ excluded \subseteq known
  /\ exp \in [Users -> Nat]
  /\ rows \in [Users -> UserRows]

CallerType ==
  /\ lock \in [Users -> Workers \cup {None}]
  /\ pc \in [Workers -> InTransaction \cup {"idle"}]
  /\ job \in [Workers -> Sightings \cup {None}]
  /\ fresh \in [Workers -> BOOLEAN]
  /\ snap \in [Workers -> Snapshots \cup {None}]

\* A caller inside Process has a tracked activity in hand, and past its first
\* read, under repeatable read, a snapshot.
InHand ==
  \A w \in Workers :
    /\ pc[w] # "idle" => job[w] \in Sightings /\ Tracked(job[w].key)
    /\ pc[w] \notin {"idle", "lookup"} /\ Isolation = "repeatable_read" => snap[w] \in Snapshots

TypeInv == DbType /\ CallerType /\ InHand

\* Every return from Process leaves the callers well typed.
LEMMA ReturnKeepsTypes ==
  ASSUME CallerType, InHand, NEW w \in Workers, Return(w)
  PROVE  (CallerType /\ InHand)'
BY DEF CallerType, InHand, Return, Unlocked, InTransaction, Tracked

\* So does every move on within a transaction.
LEMMA GotoKeepsTypes ==
  ASSUME CallerType, InHand, NEW w \in Workers, NEW label \in InTransaction,
         pc[w] \notin {"idle", "lookup"}, Goto(w, label),
         lock' \in [Users -> Workers \cup {None}]
  PROVE  (CallerType /\ InHand)'
BY DEF CallerType, InHand, Goto, InTransaction, Tracked

\* A caller inside Process works for one of the users.
LEMMA ActorInHand ==
  ASSUME InHand, NEW w \in Workers, pc[w] # "idle"
  PROVE  /\ job[w] \in Sightings /\ job[w].key \in Activities
         /\ Actor[job[w].key] \in Users
BY EngineAssumption DEF InHand, Tracked

\* What a transaction reads of its actor is well typed.
LEMMA ViewType ==
  ASSUME TypeInv, NEW w \in Workers, pc[w] \notin {"idle", "lookup"}
  PROVE  View(w).rows \in UserRows
<1>1. CASE Isolation = "repeatable_read"
  BY <1>1 DEF TypeInv, InHand, View, Snapshots
<1>2. CASE Isolation # "repeatable_read"
  BY <1>2, ActorInHand DEF TypeInv, DbType, View, Current
<1> QED
  BY <1>1, <1>2

\* So is what a commit makes of the rows.
LEMMA WriteBackType ==
  ASSUME NEW cur \in UserRows, NEW old \in UserRows, NEW new \in UserRows
  PROVE  WriteBack(cur, old, new) \in UserRows
BY DEF WriteBack, UserRows

\* A commit keeps everything well typed.
LEMMA CommitKeepsTypes ==
  ASSUME TypeInv, NEW w \in Workers, pc[w] \notin {"idle", "lookup"},
         NEW new \in UserRows, CommitRows(w, new)
  PROVE  /\ (CallerType /\ InHand)'
         /\ rows' \in [Users -> UserRows]
         /\ exp' \in [Users -> Nat]
<1> DEFINE u == Actor[job[w].key]
           stored == WriteBack(rows[u], View(w).rows, new)
<1>1. u \in Users /\ rows[u] \in UserRows
  BY ActorInHand DEF TypeInv, DbType
<1>2. stored \in UserRows
  BY <1>1, ViewType, WriteBackType
<1>3. heldExp(stored.awards) \in Nat
  <2>1. stored.awards \in SUBSET Tiers
    BY <1>2 DEF UserRows
  <2> HIDE DEF stored
  <2> QED
    BY <2>1, HeldExpType
<1>4. /\ rows' = [rows EXCEPT ![u] = stored]
      /\ exp' = [exp EXCEPT ![u] = IF new.awards # View(w).rows.awards
                                   THEN heldExp(stored.awards) ELSE @]
      /\ Return(w)
  BY DEF CommitRows
<1> HIDE DEF stored, u
<1>5. rows' \in [Users -> UserRows] /\ exp' \in [Users -> Nat]
  BY <1>1, <1>2, <1>3, <1>4 DEF TypeInv, DbType
<1> QED
  BY <1>4, <1>5, ReturnKeepsTypes DEF TypeInv

\* What is committed of a user can be a snapshot.
LEMMA CurrentType ==
  ASSUME DbType, NEW u \in Users
  PROVE  Current(u) \in Snapshots
BY DEF DbType, Current, Snapshots

\* The initial state is well typed.
LEMMA InitTypes == Init => TypeInv
<1> SUFFICES ASSUME Init PROVE TypeInv
  OBVIOUS
<1>1. OldActivities \subseteq Activities /\ {Actor[k] : k \in OldActivities} \subseteq Users
  BY EngineAssumption DEF OldActivities, Tracked
<1>2. \A u \in Users : OldRows(u) \in UserRows
  BY OldRowsSound
<1>3. \A u \in Users : OldRows(u).awards \in SUBSET Tiers
  BY <1>2 DEF UserRows
<1>4. \A u \in Users : heldExp(OldRows(u).awards) \in Nat
  BY <1>3, HeldExpType
<1>5. DbType
  BY <1>1, <1>2, <1>4 DEF Init, DbType
<1>6. CallerType /\ InHand
  BY DEF Init, CallerType, InHand
<1> QED
  BY <1>5, <1>6 DEF TypeInv

\* Every step keeps the state well typed.
LEMMA NextKeepsTypes == TypeInv /\ [Next]_vars => TypeInv'
<1> SUFFICES ASSUME TypeInv, [Next]_vars PROVE TypeInv'
  OBVIOUS
<1>t. DbType /\ CallerType /\ InHand
  BY DEF TypeInv
<1>1. ASSUME NEW w \in Workers, NEW s \in Sightings, Check(w, s) PROVE TypeInv'
  BY <1>1, <1>t DEF Check, TypeInv, DbType, CallerType, InHand, InTransaction, db, Tracked
<1>2. ASSUME NEW w \in Workers, LookUp(w) PROVE TypeInv'
  <2>1. pc[w] = "lookup"
    BY <1>2 DEF LookUp
  <2>2. Actor[job[w].key] \in Users
    BY <1>t, <2>1, ActorInHand
  <2>3. Current(Actor[job[w].key]) \in Snapshots
    BY <1>t, <2>2, CurrentType
  <2> QED
    BY <1>2, <1>t, <2>1, <2>3
       DEF LookUp, TypeInv, DbType, CallerType, InHand, InTransaction, db, Tracked
<1>3. ASSUME NEW w \in Workers, InsertMark(w) PROVE TypeInv'
  <2>1. pc[w] = "insert" /\ UNCHANGED db
    BY <1>3 DEF InsertMark
  <2>2. DbType'
    BY <1>t, <2>1 DEF db, DbType
  <2>3. CASE Return(w)
    BY <1>t, <2>2, <2>3, ReturnKeepsTypes DEF TypeInv
  <2>4. CASE Goto(w, "upsert") /\ UNCHANGED lock
    BY <1>t, <2>1, <2>2, <2>4, GotoKeepsTypes DEF TypeInv, InTransaction, CallerType
  <2> QED
    BY <1>3, <2>3, <2>4 DEF InsertMark
<1>4. ASSUME NEW w \in Workers, UpsertUser(w) PROVE TypeInv'
  <2>1. pc[w] = "upsert" /\ UNCHANGED db
    BY <1>4 DEF UpsertUser
  <2>2. DbType'
    BY <1>t, <2>1 DEF db, DbType
  <2>3. CASE Return(w)
    BY <1>t, <2>2, <2>3, ReturnKeepsTypes DEF TypeInv
  <2>4. CASE Goto(w, "claim")
    <3>1. lock' \in [Users -> Workers \cup {None}]
      BY <1>4, <1>t, <2>4 DEF UpsertUser, CallerType, Goto, Return, Unlocked
    <3> QED
      BY <1>t, <2>1, <2>2, <2>4, <3>1, GotoKeepsTypes DEF TypeInv, InTransaction
  <2> QED
    BY <1>4, <2>3, <2>4 DEF UpsertUser
<1>5. ASSUME NEW w \in Workers, ClaimParticipant(w) PROVE TypeInv'
  <2>1. pc[w] = "claim" /\ UNCHANGED db
    BY <1>5 DEF ClaimParticipant
  <2>2. DbType'
    BY <1>t, <2>1 DEF db, DbType
  <2>3. CASE Return(w)
    BY <1>t, <2>2, <2>3, ReturnKeepsTypes DEF TypeInv
  <2>4. CASE Goto(w, "evaluate") /\ lock' = [lock EXCEPT ![Actor[job[w].key]] = w]
    <3>1. lock' \in [Users -> Workers \cup {None}]
      BY <1>t, <2>4 DEF CallerType
    <3> QED
      BY <1>t, <2>1, <2>2, <2>4, <3>1, GotoKeepsTypes DEF TypeInv, InTransaction
  <2> QED
    BY <1>5, <2>3, <2>4 DEF ClaimParticipant
<1>6. ASSUME NEW w \in Workers, Evaluate(w) PROVE TypeInv'
  <2> DEFINE new == evaluate(View(w).rows, job[w])
  <2>1. pc[w] = "evaluate" /\ CommitRows(w, new)
    BY <1>6 DEF Evaluate
  <2>2. /\ job[w] \in Sightings /\ job[w].key \in Activities
        /\ Actor[job[w].key] \in Users
    BY <1>t, <2>1, ActorInHand
  <2>3. new \in UserRows
    BY <1>t, <2>1, <2>2, ViewType, EvaluateEffect
  <2>4. /\ (CallerType /\ InHand)'
        /\ rows' \in [Users -> UserRows]
        /\ exp' \in [Users -> Nat]
    <3> HIDE DEF new
    <3> QED
      BY <2>1, <2>3, CommitKeepsTypes
  <2>5. DbType'
    BY <1>6, <1>t, <2>2, <2>4 DEF Evaluate, DbType
  <2> QED
    BY <2>4, <2>5 DEF TypeInv
<1>7. ASSUME NEW w \in Workers, Repeat(w) PROVE TypeInv'
  <2>1. pc[w] = "repeat" /\ UNCHANGED db
    BY <1>7 DEF Repeat
  <2>2. DbType'
    BY <1>t, <2>1 DEF db, DbType
  <2>3. CASE Return(w)
    BY <1>t, <2>2, <2>3, ReturnKeepsTypes DEF TypeInv
  <2>4. CASE Goto(w, "claim") /\ UNCHANGED lock
    BY <1>t, <2>1, <2>2, <2>4, GotoKeepsTypes DEF TypeInv, InTransaction, CallerType
  <2> QED
    BY <1>7, <2>3, <2>4 DEF Repeat
<1>8. ASSUME NEW w \in Workers, EvaluateRepeat(w) PROVE TypeInv'
  <2> DEFINE new == evaluateProjects(View(w).rows, job[w])
  <2>1. pc[w] = "evaluate" /\ CommitRows(w, new)
    BY <1>8 DEF EvaluateRepeat
  <2>2. new \in UserRows
    BY <1>t, <2>1, ActorInHand, ViewType, ProjectsEffect
  <2>3. /\ (CallerType /\ InHand)'
        /\ rows' \in [Users -> UserRows]
        /\ exp' \in [Users -> Nat]
    <3> HIDE DEF new
    <3> QED
      BY <2>1, <2>2, CommitKeepsTypes
  <2>4. DbType'
    BY <1>8, <1>t, <2>3 DEF EvaluateRepeat, DbType
  <2> QED
    BY <2>3, <2>4 DEF TypeInv
<1>9. ASSUME NEW w \in Workers, Abort(w) PROVE TypeInv'
  <2>1. Return(w) /\ UNCHANGED db
    BY <1>9 DEF Abort
  <2>2. DbType'
    BY <1>t, <2>1 DEF db, DbType
  <2> QED
    BY <1>t, <2>1, <2>2, ReturnKeepsTypes DEF TypeInv
<1>10. ASSUME NEW u \in Users, Exclude(u) \/ Include(u) PROVE TypeInv'
  BY <1>10, <1>t DEF Exclude, Include, TypeInv, DbType, CallerType, InHand
<1>11. CASE UNCHANGED vars
  BY <1>11, <1>t DEF vars, db, TypeInv, DbType, CallerType, InHand
<1> QED
  BY <1>1, <1>2, <1>3, <1>4, <1>5, <1>6, <1>7, <1>8, <1>9, <1>10, <1>11 DEF Next, Step

\* Every reachable state is well typed, at either isolation level (TypeOK).
THEOREM TypeCorrect == Spec => []TypeOK
<1>1. TypeInv => TypeOK
  BY DEF TypeInv, DbType, CallerType, Snapshots, TypeOK
<1> QED
  BY <1>1, InitTypes, NextKeepsTypes, PTL DEF Spec

-----------------------------------------------------------------------------
(* Coordination between transactions, at either isolation level. *)

\* A caller evaluating holds its actor's row, and the actor takes part.
Claims ==
  \A w \in Workers : pc[w] = "evaluate" =>
    lock[Actor[job[w].key]] = w /\ Actor[job[w].key] \notin excluded

\* Between the insertion of a mark and its commit the activity is in nobody
\* else's hands, and in no log.
IsMarking(w) == pc[w] \in {"upsert", "claim", "evaluate"} /\ fresh[w]
Marks ==
  /\ \A w \in Workers : pc[w] = "repeat" => ~fresh[w]
  /\ \A w \in Workers : IsMarking(w) => job[w].key \notin processed
  /\ \A v, w \in Workers : IsMarking(v) /\ IsMarking(w) /\ v # w => job[v].key # job[w].key

Coordination == Claims /\ Marks

\* A caller that returns without touching the database disturbs nobody.
LEMMA ReturnKeepsCoordination ==
  ASSUME TypeInv, Coordination, NEW w \in Workers, Return(w), UNCHANGED <<excluded, processed>>
  PROVE  Coordination'
BY EngineAssumption
   DEF TypeInv, CallerType, InHand, Tracked, Coordination, Claims, Marks, IsMarking, Return, Unlocked

\* A commit keeps Claims; it keeps Marks if the mark it leaves is its own.
LEMMA CommitKeepsCoordination ==
  ASSUME TypeInv, Coordination, NEW w \in Workers, Return(w), UNCHANGED excluded,
         processed' = processed \/ (IsMarking(w) /\ processed' = processed \cup {job[w].key})
  PROVE  Coordination'
<1>1. Claims'
  BY EngineAssumption
     DEF TypeInv, CallerType, InHand, Tracked, Coordination, Claims, Return, Unlocked
<1>2. \A v \in Workers : IsMarking(v)' => IsMarking(v) /\ v # w /\ job'[v] = job[v]
  BY DEF TypeInv, CallerType, IsMarking, Return
<1>3. \A v \in Workers : pc'[v] = "repeat" => pc[v] = "repeat" /\ fresh'[v] = fresh[v]
  BY DEF TypeInv, CallerType, Return
<1>4. Marks'
  BY <1>2, <1>3 DEF Coordination, Marks
<1> QED
  BY <1>1, <1>4 DEF Coordination

\* Nobody is in a transaction to begin with.
LEMMA InitCoordination == Init => Coordination
BY DEF Init, Coordination, Claims, Marks, IsMarking

\* Every step keeps the transactions coordinated.
LEMMA NextKeepsCoordination == TypeInv /\ Coordination /\ [Next]_vars => Coordination'
<1> SUFFICES ASSUME TypeInv, Coordination, [Next]_vars PROVE Coordination'
  OBVIOUS
<1>t. CallerType /\ InHand
  BY DEF TypeInv
<1>1. ASSUME NEW w \in Workers, NEW s \in Sightings, Check(w, s) PROVE Coordination'
  BY <1>1, <1>t DEF Check, CallerType, Coordination, Claims, Marks, IsMarking, db
<1>2. ASSUME NEW w \in Workers, LookUp(w) PROVE Coordination'
  BY <1>2, <1>t DEF LookUp, CallerType, Coordination, Claims, Marks, IsMarking, db
<1>3. ASSUME NEW w \in Workers, InsertMark(w) PROVE Coordination'
  <2>1. pc[w] = "insert" /\ Marking(job[w].key) = {} /\ UNCHANGED db
    BY <1>3 DEF InsertMark
  <2>2. CASE Return(w)
    BY <2>1, <2>2, ReturnKeepsCoordination DEF db
  <2>3. CASE job[w].key \notin processed /\ Goto(w, "upsert") /\ UNCHANGED lock
    <3>1. \A v \in Workers : IsMarking(v) => job[v].key # job[w].key
      BY <2>1 DEF Marking, IsMarking
    <3>2. Claims'
      BY <2>1, <2>3, <1>t DEF Coordination, Claims, CallerType, Goto, db
    <3>3. \A v \in Workers : IsMarking(v)' => IsMarking(v) \/ v = w
      BY <2>3, <1>t DEF IsMarking, Goto, CallerType
    <3>4. Marks'
      BY <2>1, <2>3, <3>1, <3>3 DEF Coordination, Marks, Goto, db
    <3> QED
      BY <3>2, <3>4 DEF Coordination
  <2> QED
    BY <1>3, <2>2, <2>3 DEF InsertMark
<1>4. ASSUME NEW w \in Workers, UpsertUser(w) PROVE Coordination'
  <2>1. pc[w] = "upsert" /\ UNCHANGED db
    BY <1>4 DEF UpsertUser
  <2>2. CASE Return(w)
    BY <2>1, <2>2, ReturnKeepsCoordination DEF db
  <2>3. CASE Goto(w, "claim")
    <3>1. \/ lock' = lock
          \/ lock[Actor[job[w].key]] = None /\ lock' = [lock EXCEPT ![Actor[job[w].key]] = w]
      BY <1>4, <2>3, <2>1, <1>t DEF UpsertUser, Goto, Return, CallerType
    <3>2. Claims'
      BY <2>1, <2>3, <3>1, <1>t, EngineAssumption
         DEF Coordination, Claims, CallerType, InHand, Tracked, Goto, db
    <3>3. \A v \in Workers : IsMarking(v)' => IsMarking(v)
      BY <2>1, <2>3, <1>t DEF IsMarking, Goto, CallerType
    <3>4. Marks'
      BY <2>1, <2>3, <3>3 DEF Coordination, Marks, Goto, db
    <3> QED
      BY <3>2, <3>4 DEF Coordination
  <2> QED
    BY <1>4, <2>2, <2>3 DEF UpsertUser
<1>5. ASSUME NEW w \in Workers, ClaimParticipant(w) PROVE Coordination'
  <2> DEFINE u == Actor[job[w].key]
  <2>1. pc[w] = "claim" /\ UNCHANGED db /\ lock[u] \in {None, w}
    BY <1>5 DEF ClaimParticipant
  <2>2. CASE Return(w)
    BY <2>1, <2>2, ReturnKeepsCoordination DEF db
  <2>3. CASE u \notin excluded /\ Goto(w, "evaluate") /\ lock' = [lock EXCEPT ![u] = w]
    <3>1. u \in Users
      BY <2>1, <1>t, ActorInHand
    <3>2. Claims'
      BY <2>1, <2>3, <3>1, <1>t, EngineAssumption
         DEF Coordination, Claims, CallerType, InHand, Tracked, Goto, db
    <3>3. \A v \in Workers : IsMarking(v)' => IsMarking(v)
      BY <2>1, <2>3, <1>t DEF IsMarking, Goto, CallerType
    <3>4. Marks'
      BY <2>1, <2>3, <3>3 DEF Coordination, Marks, Goto, db
    <3> QED
      BY <3>2, <3>4 DEF Coordination
  <2> QED
    BY <1>5, <2>2, <2>3 DEF ClaimParticipant
<1>6. ASSUME NEW w \in Workers, Evaluate(w) PROVE Coordination'
  <2>1. /\ Return(w) /\ UNCHANGED excluded /\ IsMarking(w)
        /\ processed' = processed \cup {job[w].key}
    BY <1>6 DEF Evaluate, CommitRows, IsMarking
  <2> QED
    BY <2>1, CommitKeepsCoordination
<1>7. ASSUME NEW w \in Workers, Repeat(w) PROVE Coordination'
  <2>1. pc[w] = "repeat" /\ UNCHANGED db
    BY <1>7 DEF Repeat
  <2>2. CASE Return(w)
    BY <2>1, <2>2, ReturnKeepsCoordination DEF db
  <2>3. CASE Goto(w, "claim") /\ UNCHANGED lock
    <3>1. ~fresh[w]
      BY <2>1 DEF Coordination, Marks
    <3>2. Claims'
      BY <2>1, <2>3, <1>t DEF Coordination, Claims, CallerType, Goto, db
    <3>3. \A v \in Workers : IsMarking(v)' => IsMarking(v)
      BY <2>1, <2>3, <3>1, <1>t DEF IsMarking, Goto, CallerType
    <3>4. Marks'
      BY <2>1, <2>3, <3>3 DEF Coordination, Marks, Goto, db
    <3> QED
      BY <3>2, <3>4 DEF Coordination
  <2> QED
    BY <1>7, <2>2, <2>3 DEF Repeat
<1>8. ASSUME NEW w \in Workers, EvaluateRepeat(w) PROVE Coordination'
  <2>1. Return(w) /\ UNCHANGED <<excluded, processed>>
    BY <1>8 DEF EvaluateRepeat, CommitRows
  <2> QED
    BY <2>1, CommitKeepsCoordination
<1>9. ASSUME NEW w \in Workers, Abort(w) PROVE Coordination'
  BY <1>9, ReturnKeepsCoordination DEF Abort, db
<1>10. ASSUME NEW u \in Users, Exclude(u) \/ Include(u) PROVE Coordination'
  BY <1>10, <1>t, EngineAssumption
     DEF Exclude, Include, Coordination, Claims, Marks, IsMarking, CallerType
<1>11. CASE UNCHANGED vars
  BY <1>11 DEF vars, db, Coordination, Claims, Marks, IsMarking
<1> QED
  BY <1>1, <1>2, <1>3, <1>4, <1>5, <1>6, <1>7, <1>8, <1>9, <1>10, <1>11 DEF Next, Step

-----------------------------------------------------------------------------
(* The accounts, at read committed: what is committed for each user. *)

Accounts ==
  \A u \in Users :
    /\ Sound(rows[u])
    /\ exp[u] = heldExp(rows[u].awards)
    /\ \A c \in Cumulative : rows[u].count[c] = Tally(processed, u, c)

\* Adding an activity adds its weight to what it advances.
LEMMA TallyAdd ==
  ASSUME NEW K \in SUBSET Activities, NEW k \in Activities \ K, NEW u, NEW c
  PROVE  /\ Actor[k] = u /\ c \in criteriaFor(Kind[k]) =>
              Tally(K \cup {k}, u, c) = Tally(K, u, c) + Weight[k]
         /\ ~(Actor[k] = u /\ c \in criteriaFor(Kind[k])) =>
              Tally(K \cup {k}, u, c) = Tally(K, u, c)
<1>1. IsFiniteSet(Advancing(K, u, c)) /\ k \notin Advancing(K, u, c)
  BY EngineAssumption, FS_Subset DEF Advancing
<1>2. ASSUME Actor[k] = u /\ c \in criteriaFor(Kind[k])
      PROVE  Tally(K \cup {k}, u, c) = Tally(K, u, c) + Weight[k]
  <2>1. Advancing(K \cup {k}, u, c) = Advancing(K, u, c) \cup {k}
    BY <1>2 DEF Advancing
  <2>2. \A x \in Advancing(K, u, c) \cup {k} : Weight[x] \in Nat
    BY EngineAssumption DEF Advancing
  <2>3. SumOver(Advancing(K, u, c) \cup {k}, Weight) = SumOver(Advancing(K, u, c), Weight) + Weight[k]
    BY <1>1, <2>2, SumAdd
  <2> QED
    BY <2>1, <2>3 DEF Tally
<1>3. ASSUME ~(Actor[k] = u /\ c \in criteriaFor(Kind[k]))
      PROVE  Tally(K \cup {k}, u, c) = Tally(K, u, c)
  <2>1. Advancing(K \cup {k}, u, c) = Advancing(K, u, c)
    BY <1>3 DEF Advancing
  <2> QED
    BY <2>1 DEF Tally
<1> QED
  BY <1>2, <1>3

\* At read committed a transaction reads the last commit.
LEMMA ReadsCommitted ==
  ASSUME Isolation = "read_committed", NEW w \in Workers
  PROVE  View(w).rows = rows[Actor[job[w].key]]
BY DEF View, Current

\* What a commit writes is what the transaction made of the last commit.
LEMMA CommitOnCurrent ==
  ASSUME Isolation = "read_committed", TypeInv, NEW w \in Workers, pc[w] = "evaluate",
         NEW new, CommitRows(w, new)
  PROVE  LET u == Actor[job[w].key] IN
         /\ View(w).rows = rows[u]
         /\ rows' = [rows EXCEPT ![u] = new]
         /\ exp' = [exp EXCEPT ![u] = IF new.awards # rows[u].awards THEN heldExp(new.awards) ELSE @]
BY DEF CommitRows, View, Current, WriteBack

\* What an earlier release left behind is accounted for.
LEMMA InitAccounts == Init => Accounts
BY OldRowsSound DEF Init, Accounts

\* Every step keeps the accounts: only commits touch them.
LEMMA NextKeepsAccounts ==
  ASSUME Isolation = "read_committed"
  PROVE  TypeInv /\ Coordination /\ Accounts /\ [Next]_vars => Accounts'
<1> SUFFICES ASSUME TypeInv, Coordination, Accounts, [Next]_vars PROVE Accounts'
  OBVIOUS
<1>t. DbType /\ CallerType /\ InHand
  BY DEF TypeInv
<1>1. ASSUME NEW w \in Workers, Evaluate(w) PROVE Accounts'
  <2> DEFINE u == Actor[job[w].key]
             k == job[w].key
             new == evaluate(rows[u], job[w])
  <2>1. pc[w] = "evaluate" /\ IsMarking(w) /\ processed' = processed \cup {k}
    BY <1>1 DEF Evaluate, IsMarking
  <2>2. job[w] \in Sightings /\ k \in Activities /\ u \in Users
    BY <1>t, <2>1, ActorInHand
  <2>3. k \notin processed /\ processed \subseteq Activities
    BY <1>t, <2>1 DEF Coordination, Marks, DbType
  <2>4. View(w).rows = rows[u]
    BY <1>t, ReadsCommitted
  <2>5. CommitRows(w, new)
    BY <1>1, <2>4 DEF Evaluate
  <2>6. /\ rows' = [rows EXCEPT ![u] = new]
        /\ exp' = [exp EXCEPT ![u] = IF new.awards # rows[u].awards THEN heldExp(new.awards) ELSE @]
    <3> HIDE DEF new
    <3> QED
      BY <2>1, <2>5, CommitOnCurrent
  <2>7. /\ new \in UserRows /\ Sound(new)
        /\ \A c \in Cumulative :
             new.count[c] = rows[u].count[c] + (IF c \in criteriaFor(Kind[k]) THEN Weight[k] ELSE 0)
    BY <1>t, <2>2, EvaluateEffect DEF Accounts, DbType
  <2> HIDE DEF new
  <2>8. ASSUME NEW v \in Users, NEW c \in Cumulative
        PROVE  /\ u = v /\ c \in criteriaFor(Kind[k]) =>
                    Tally(processed', v, c) = Tally(processed, v, c) + Weight[k]
               /\ ~(u = v /\ c \in criteriaFor(Kind[k])) =>
                    Tally(processed', v, c) = Tally(processed, v, c)
    <3>1. processed \in SUBSET Activities /\ k \in Activities \ processed
      BY <2>2, <2>3
    <3>2. /\ Actor[k] = v /\ c \in criteriaFor(Kind[k]) =>
               Tally(processed \cup {k}, v, c) = Tally(processed, v, c) + Weight[k]
          /\ ~(Actor[k] = v /\ c \in criteriaFor(Kind[k])) =>
               Tally(processed \cup {k}, v, c) = Tally(processed, v, c)
      <4> HIDE DEF k
      <4> QED
        BY <3>1, TallyAdd
    <3> QED
      BY <2>1, <3>2
  <2>9. ASSUME NEW v \in Users, NEW c \in Cumulative PROVE Tally(processed, v, c) \in Nat
    BY <2>3, TallyType
  <2>10. ASSUME NEW v \in Users
         PROVE  /\ Sound(rows'[v])
                /\ exp'[v] = heldExp(rows'[v].awards)
                /\ \A c \in Cumulative : rows'[v].count[c] = Tally(processed', v, c)
    <3>1. CASE v = u
      <4>1. rows'[v] = new
        BY <1>t, <2>6, <3>1 DEF DbType
      <4>2. exp'[v] = heldExp(new.awards)
        BY <1>t, <2>2, <2>6, <3>1 DEF DbType, Accounts
      <4>3. \A c \in Cumulative : new.count[c] = Tally(processed', v, c)
        BY <2>2, <2>7, <2>8, <2>9, <3>1 DEF Accounts
      <4> QED
        BY <2>7, <4>1, <4>2, <4>3
    <3>2. CASE v # u
      <4>1. rows'[v] = rows[v] /\ exp'[v] = exp[v]
        BY <1>t, <2>6, <3>2 DEF DbType
      <4>2. \A c \in Cumulative : Tally(processed', v, c) = Tally(processed, v, c)
        BY <2>8, <2>9, <3>2
      <4> QED
        BY <4>1, <4>2 DEF Accounts
    <3> QED
      BY <3>1, <3>2
  <2> QED
    BY <2>10 DEF Accounts
<1>2. ASSUME NEW w \in Workers, EvaluateRepeat(w) PROVE Accounts'
  <2> DEFINE u == Actor[job[w].key]
             new == evaluateProjects(rows[u], job[w])
  <2>1. pc[w] = "evaluate" /\ processed' = processed
    BY <1>2 DEF EvaluateRepeat
  <2>2. job[w] \in Sightings /\ u \in Users
    BY <1>t, <2>1, ActorInHand
  <2>3. View(w).rows = rows[u]
    BY <1>t, ReadsCommitted
  <2>4. CommitRows(w, new)
    BY <1>2, <2>3 DEF EvaluateRepeat
  <2>5. /\ rows' = [rows EXCEPT ![u] = new]
        /\ exp' = [exp EXCEPT ![u] = IF new.awards # rows[u].awards THEN heldExp(new.awards) ELSE @]
    <3> HIDE DEF new
    <3> QED
      BY <2>1, <2>4, CommitOnCurrent
  <2>6. /\ Sound(new)
        /\ \A c \in Cumulative : new.count[c] = rows[u].count[c]
    BY <1>t, <2>2, ProjectsEffect DEF Accounts, DbType
  <2> HIDE DEF new
  <2>7. ASSUME NEW v \in Users
        PROVE  /\ Sound(rows'[v])
               /\ exp'[v] = heldExp(rows'[v].awards)
               /\ \A c \in Cumulative : rows'[v].count[c] = Tally(processed', v, c)
    BY <1>t, <2>1, <2>2, <2>5, <2>6 DEF DbType, Accounts
  <2> QED
    BY <2>7 DEF Accounts
<1>3. CASE UNCHANGED <<processed, rows, exp>>
  BY <1>3 DEF Accounts, Tally, Advancing
<1>4. ASSUME NEW w \in Workers,
             \/ \E s \in Sightings : Check(w, s)
             \/ LookUp(w) \/ InsertMark(w) \/ UpsertUser(w) \/ ClaimParticipant(w)
             \/ Repeat(w) \/ Abort(w)
      PROVE  UNCHANGED <<processed, rows, exp>>
  BY <1>4 DEF Check, LookUp, InsertMark, UpsertUser, ClaimParticipant, Repeat, Abort, db
<1>5. ASSUME NEW u \in Users, Exclude(u) \/ Include(u) PROVE UNCHANGED <<processed, rows, exp>>
  BY <1>5 DEF Exclude, Include
<1>6. CASE UNCHANGED vars
  BY <1>3, <1>6 DEF vars, db
<1> QED
  BY <1>1, <1>2, <1>3, <1>4, <1>5, <1>6 DEF Next, Step

-----------------------------------------------------------------------------
(* The theorems. *)

EngineInv == TypeInv /\ Coordination /\ Accounts

\* The three parts together are an inductive invariant.
LEMMA Inductive ==
  ASSUME Isolation = "read_committed"
  PROVE  Spec => []EngineInv
<1>1. Init => EngineInv
  BY InitTypes, InitCoordination, InitAccounts DEF EngineInv
<1>2. EngineInv /\ [Next]_vars => EngineInv'
  BY NextKeepsTypes, NextKeepsCoordination, NextKeepsAccounts DEF EngineInv
<1> QED
  BY <1>1, <1>2, PTL DEF Spec

\* Every cumulative counter is the weight of the processed activities that
\* advance it: however many callers present an activity, it counts once.
THEOREM CountedExactlyOnce ==
  ASSUME Isolation = "read_committed"
  PROVE  Spec => []ExactlyOnce
<1>1. EngineInv => ExactlyOnce
  BY DEF EngineInv, Accounts, ExactlyOnce
<1> QED
  BY <1>1, Inductive, PTL

\* The awards of every committed state are exactly the tiers its counters
\* reach: none is missing, none is held without being earned.
THEOREM AwardsAreTheTiersReached ==
  ASSUME Isolation = "read_committed"
  PROVE  Spec => []HeldTiersAreReached
<1>1. EngineInv => HeldTiersAreReached
  <2>1. \A t \in Tiers : CriteriaKey[t] \in AllCriteria
    BY EngineAssumption
  <2> QED
    BY <2>1 DEF EngineInv, Accounts, Sound, Complete, Justified, Reached,
                HeldTiersAreReached
<1> QED
  BY <1>1, Inductive, PTL

\* The exp_total column is the sum of the awards' ExpReward in every
\* committed state, though it is written by one of the statements only.
THEOREM ExpTotalsCorrect ==
  ASSUME Isolation = "read_committed"
  PROVE  Spec => []ExpMatchesAwards
<1>1. EngineInv => ExpMatchesAwards
  BY DEF EngineInv, Accounts, ExpMatchesAwards
<1> QED
  BY <1>1, Inductive, PTL

\* The counters recomputed from the active days and from the projects agree
\* with them in every committed state.
THEOREM DerivedCountersCorrect ==
  ASSUME Isolation = "read_committed"
  PROVE  Spec => []DerivedCountersCurrent
<1>1. EngineInv => DerivedCountersCurrent
  BY DEF EngineInv, Accounts, Sound, Derived, DerivedCountersCurrent
<1> QED
  BY <1>1, Inductive, PTL

\* Nothing is counted for a user who is excluded, from the commit that
\* excludes them on, even for activity whose check came before.
THEOREM ExclusionRespected == Spec => NothingCountedWhileExcluded
<1> DEFINE Respected ==
      \A u \in excluded :
        /\ rows'[u] = rows[u] /\ exp'[u] = exp[u]
        /\ \A k \in processed' \ processed : Actor[k] # u
<1>1. Init => TypeInv /\ Coordination
  BY InitTypes, InitCoordination
<1>2. TypeInv /\ Coordination /\ [Next]_vars => (TypeInv /\ Coordination)'
  BY NextKeepsTypes, NextKeepsCoordination
<1>3. ASSUME TypeInv, Coordination, [Next]_vars PROVE [Respected]_vars
  <2>1. ASSUME NEW w \in Workers, Evaluate(w) \/ EvaluateRepeat(w) PROVE Respected
    <3>1. pc[w] = "evaluate" /\ Actor[job[w].key] \notin excluded
      BY <1>3, <2>1 DEF Evaluate, EvaluateRepeat, Coordination, Claims
    <3>2. \A k \in processed' \ processed : k = job[w].key
      BY <2>1 DEF Evaluate, EvaluateRepeat
    <3>3. \A u \in excluded : rows'[u] = rows[u] /\ exp'[u] = exp[u]
      BY <1>3, <2>1, <3>1 DEF Evaluate, EvaluateRepeat, CommitRows, TypeInv, DbType
    <3> QED
      BY <3>1, <3>2, <3>3
  <2>2. ASSUME UNCHANGED <<processed, rows, exp>> PROVE Respected
    BY <2>2
  <2>3. ASSUME NEW w \in Workers,
               \/ \E s \in Sightings : Check(w, s)
               \/ LookUp(w) \/ InsertMark(w) \/ UpsertUser(w) \/ ClaimParticipant(w)
               \/ Repeat(w) \/ Abort(w)
        PROVE  UNCHANGED <<processed, rows, exp>>
    BY <2>3 DEF Check, LookUp, InsertMark, UpsertUser, ClaimParticipant, Repeat, Abort, db
  <2>4. ASSUME NEW u \in Users, Exclude(u) \/ Include(u) PROVE UNCHANGED <<processed, rows, exp>>
    BY <2>4 DEF Exclude, Include
  <2> HIDE DEF Respected
  <2> QED
    BY <1>3, <2>1, <2>2, <2>3, <2>4 DEF Next, Step
<1> QED
  BY <1>1, <1>2, <1>3, PTL DEF Spec, NothingCountedWhileExcluded

-----------------------------------------------------------------------------
(* The engine implements the ledger. *)

\* What the refinement mapping makes of the rows.
Score(R) == [u \in Users |-> [c \in Cumulative |-> R[u].count[c]]]
Held(R)  == [u \in Users |-> {t \in R[u].awards : CriteriaKey[t] \in Cumulative}]

\* The ledger's copies of the vocabulary of Criteria are the engine's.
LEMMA SameVocabulary ==
  /\ Promised!Cumulative = Cumulative
  /\ \A kind : Promised!criteriaFor(kind) = criteriaFor(kind)
  /\ \A K, u, c : Promised!Total(K, u, c) = Tally(K, u, c)
<1>1. Promised!kindCriteria = kindCriteria
  BY DEF Promised!kindCriteria, kindCriteria
<1>2. \A kind : Promised!criteriaFor(kind) = criteriaFor(kind)
  BY <1>1 DEF Promised!criteriaFor, criteriaFor
<1>3. Promised!Cumulative = Cumulative
  BY <1>1 DEF Promised!Cumulative, Cumulative
<1>4. ASSUME NEW K, NEW u, NEW c PROVE Promised!Total(K, u, c) = Tally(K, u, c)
  <2>1. Promised!Cardinality(Units({k \in K : Actor[k] = u /\ c \in criteriaFor(Kind[k])}, Weight))
          = Cardinality(Units({k \in K : Actor[k] = u /\ c \in criteriaFor(Kind[k])}, Weight))
    BY DEF Promised!Cardinality, Cardinality
  <2> QED
    BY <1>2, <2>1 DEF Promised!Total, Tally, Advancing, Promised!SumOver, SumOver, Promised!Units, Units
<1> QED
  BY <1>2, <1>3, <1>4

\* In sound rows the tiers held follow from the score.
LEMMA HeldFollowsScore ==
  ASSUME NEW R, \A u \in Users : Sound(R[u])
  PROVE  Held(R) = Promised!ReachedBy(Score(R))
<1>1. ASSUME NEW u \in Users
      PROVE  {t \in R[u].awards : CriteriaKey[t] \in Cumulative}
               = {t \in Tiers : /\ CriteriaKey[t] \in Cumulative
                                /\ Threshold[t] <= Score(R)[u][CriteriaKey[t]]}
  <2>1. R[u].awards = Reached(R[u].count, AllCriteria)
    BY DEF Sound, Complete, Justified
  <2>2. \A t \in Tiers : CriteriaKey[t] \in Cumulative =>
          Score(R)[u][CriteriaKey[t]] = R[u].count[CriteriaKey[t]]
    BY DEF Score
  <2> QED
    BY <2>1, <2>2, EngineAssumption DEF Reached
<1> QED
  BY <1>1, SameVocabulary DEF Held, Promised!ReachedBy

\* The engine implements the ledger: counting an activity, whole, is one
\* step, and all the rest of a transaction is invisible.
THEOREM EngineImplementsLedger ==
  ASSUME Isolation = "read_committed"
  PROVE  Spec => ImplementsLedger
<1>1. ASSUME Init PROVE Promised!Init
  <2>1. Accounts
    BY <1>1, InitAccounts
  <2>2. Held(rows) = Promised!ReachedBy(Score(rows))
    BY <2>1, HeldFollowsScore DEF Accounts
  <2>3. \A u \in Users : \A c \in Cumulative :
          rows[u].count[c] = Promised!Total(OldActivities, u, c)
    BY <1>1, <2>1, SameVocabulary DEF Init, Accounts
  <2> QED
    BY <1>1, <2>2, <2>3, SameVocabulary DEF Init, Promised!Init, Held, Score
<1>2. ASSUME EngineInv, EngineInv', [Next]_vars PROVE [Promised!Next]_(Promised!vars)
  <2>1. DbType /\ CallerType /\ InHand /\ Claims /\ Marks
    BY <1>2 DEF EngineInv, TypeInv, Coordination
  <2>2. Held(rows') = Promised!ReachedBy(Score(rows')) /\ Held(rows) = Promised!ReachedBy(Score(rows))
    BY <1>2, HeldFollowsScore DEF EngineInv, Accounts
  <2>3. ASSUME NEW w \in Workers, Evaluate(w), NEW k \in Activities, k = job[w].key
        PROVE  Promised!Count(k)
    <3> DEFINE u == Actor[k]
               new == evaluate(rows[u], job[w])
    <3>1. /\ pc[w] = "evaluate" /\ IsMarking(w) /\ processed' = processed \cup {k}
          /\ UNCHANGED excluded
      BY <2>3 DEF Evaluate, IsMarking
    <3>2. job[w] \in Sightings /\ k \in Activities /\ u \in Users
      BY <2>1, <2>3, <3>1, ActorInHand
    <3>3. k \notin processed /\ u \notin excluded
      BY <2>1, <2>3, <3>1 DEF Marks, Claims
    <3>4. CommitRows(w, new)
      BY <2>3, ReadsCommitted DEF Evaluate
    <3>5. rows' = [rows EXCEPT ![u] = new]
      <4> HIDE DEF new
      <4> QED
        BY <1>2, <2>3, <3>1, <3>4, CommitOnCurrent DEF EngineInv
    <3>6. \A c \in Cumulative :
            new.count[c] = rows[u].count[c] + (IF c \in criteriaFor(Kind[k]) THEN Weight[k] ELSE 0)
      BY <2>1, <2>3, <3>2, EvaluateEffect DEF DbType
    <3>7. Score(rows') = [Score(rows) EXCEPT ![u] =
            [c \in Cumulative |-> @[c] + (IF c \in criteriaFor(Kind[k]) THEN Weight[k] ELSE 0)]]
      <4> HIDE DEF new
      <4> QED
        BY <2>1, <3>2, <3>5, <3>6 DEF Score, DbType
    <3> QED
      BY <2>2, <2>3, <3>1, <3>2, <3>3, <3>7, SameVocabulary DEF Promised!Count, Score, Held
  <2>4. ASSUME NEW w \in Workers, EvaluateRepeat(w) PROVE UNCHANGED Promised!vars
    <3> DEFINE u == Actor[job[w].key]
               new == evaluateProjects(rows[u], job[w])
    <3>1. pc[w] = "evaluate" /\ UNCHANGED <<processed, excluded>>
      BY <2>4 DEF EvaluateRepeat
    <3>2. job[w] \in Sightings /\ u \in Users
      BY <2>1, <3>1, ActorInHand
    <3>3. CommitRows(w, new)
      BY <2>4, ReadsCommitted DEF EvaluateRepeat
    <3>4. rows' = [rows EXCEPT ![u] = new]
      <4> HIDE DEF new
      <4> QED
        BY <1>2, <3>1, <3>3, CommitOnCurrent DEF EngineInv
    <3>5. \A c \in Cumulative : new.count[c] = rows[u].count[c]
      BY <2>1, <3>2, ProjectsEffect DEF DbType
    <3>6. Score(rows') = Score(rows)
      <4> HIDE DEF new
      <4> QED
        BY <2>1, <3>2, <3>4, <3>5 DEF Score, DbType
    <3> QED
      BY <2>2, <3>1, <3>6, SameVocabulary DEF Promised!vars, Score, Held
  <2>5. ASSUME NEW u \in Users, Exclude(u) \/ Include(u) PROVE Promised!Exclude(u) \/ Promised!Include(u)
    BY <2>5, SameVocabulary DEF Exclude, Include, Promised!Exclude, Promised!Include
  <2>6. ASSUME UNCHANGED <<processed, excluded, rows>> PROVE UNCHANGED Promised!vars
    BY <2>6 DEF Promised!vars
  <2>7. ASSUME NEW w \in Workers,
               \/ \E s \in Sightings : Check(w, s)
               \/ LookUp(w) \/ InsertMark(w) \/ UpsertUser(w) \/ ClaimParticipant(w)
               \/ Repeat(w) \/ Abort(w)
        PROVE  UNCHANGED <<processed, excluded, rows>>
    BY <2>7 DEF Check, LookUp, InsertMark, UpsertUser, ClaimParticipant, Repeat, Abort, db
  <2>8. ASSUME NEW w \in Workers, Evaluate(w) PROVE Promised!Next
    <3>1. PICK k \in Activities : k = job[w].key
      BY <2>1, <2>8, ActorInHand DEF Evaluate
    <3>2. Promised!Count(k)
      BY <2>3, <2>8, <3>1
    <3> QED
      BY <3>1, <3>2 DEF Promised!Next
  <2>9. ASSUME NEW u \in Users, Exclude(u) \/ Include(u) PROVE Promised!Next
    BY <2>5, <2>9 DEF Promised!Next
  <2>10. CASE UNCHANGED vars
    BY <2>6, <2>10 DEF vars, db
  <2> QED
    BY <1>2, <2>4, <2>6, <2>7, <2>8, <2>9, <2>10 DEF Next, Step
<1> QED
  BY <1>1, <1>2, Inductive, PTL DEF Spec, ImplementsLedger, Promised!Spec

=============================================================================
