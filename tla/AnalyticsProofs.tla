---------------------------- MODULE AnalyticsProofs ----------------------------
(***************************************************************************)
(* Proofs about Analytics for every set of documents, sources and topics,  *)
(* every length of history, every setting of the detectors and every       *)
(* bound.                                                                  *)
(***************************************************************************)
EXTENDS Analytics, FiniteSetTheorems, TLAPS

-----------------------------------------------------------------------------
(* Finite sets and sums, as in CollectionProofs.                           *)

\* Among the subsets of a finite set with some property one is minimal.  It
\* stands for induction: a minimal counterexample is refuted.
LEMMA MinimalSet ==
  ASSUME NEW S, IsFiniteSet(S), NEW B, B # {}, \A T \in B : T \subseteq S
  PROVE  \E T \in B : \A U \in B : U \subseteq T => U = T
<1>1. IsWellFoundedOn(StrictSubsetOrdering(S), SUBSET S)
  BY FS_StrictSubsetOrderingWellFounded, FS_FiniteSubsetsOfFinite
<1>2. B \subseteq SUBSET S
  OBVIOUS
<1>3. \E T \in B : \A U \in B : ~ (<<U, T>> \in StrictSubsetOrdering(S))
  <2> HIDE DEF StrictSubsetOrdering
  <2> QED
    BY <1>1, <1>2, WFMin
<1> QED
  BY <1>3 DEF StrictSubsetOrdering

\* A finite set of numbers has a greatest and a least element.
LEMMA Extremes ==
  ASSUME NEW S, IsFiniteSet(S), S # {}, \A x \in S : x \in Nat
  PROVE  /\ \E x \in S : \A j \in S : j <= x
         /\ \E x \in S : \A j \in S : x <= j
<1>1. \E x \in S : \A j \in S : j <= x
  <2> DEFINE above(x) == {j \in S : j > x}
             B == {T \in SUBSET S : \E x \in S : T = above(x)}
  <2>1. B # {} /\ \A T \in B : T \subseteq S
    OBVIOUS
  <2>2. \E T \in B : \A U \in B : U \subseteq T => U = T
    <3> HIDE DEF B
    <3> QED
      BY <2>1, MinimalSet
  <2>3. PICK x \in S : \A U \in B : U \subseteq above(x) => U = above(x)
    BY <2>2
  <2>4. \A j \in S : j <= x
    <3> SUFFICES ASSUME NEW j \in S, j > x PROVE FALSE
      OBVIOUS
    <3>1. above(j) \subseteq above(x) /\ j \in above(x) /\ j \notin above(j)
      OBVIOUS
    <3>2. above(j) \in B
      OBVIOUS
    <3> QED
      BY <2>3, <3>1, <3>2
  <2> QED
    BY <2>4
<1>2. \E x \in S : \A j \in S : x <= j
  <2> DEFINE below(x) == {j \in S : j < x}
             B == {T \in SUBSET S : \E x \in S : T = below(x)}
  <2>1. B # {} /\ \A T \in B : T \subseteq S
    OBVIOUS
  <2>2. \E T \in B : \A U \in B : U \subseteq T => U = T
    <3> HIDE DEF B
    <3> QED
      BY <2>1, MinimalSet
  <2>3. PICK x \in S : \A U \in B : U \subseteq below(x) => U = below(x)
    BY <2>2
  <2>4. \A j \in S : x <= j
    <3> SUFFICES ASSUME NEW j \in S, j < x PROVE FALSE
      OBVIOUS
    <3>1. below(j) \subseteq below(x) /\ j \in below(x) /\ j \notin below(j)
      OBVIOUS
    <3>2. below(j) \in B
      OBVIOUS
    <3> QED
      BY <2>3, <3>1, <3>2
  <2> QED
    BY <2>4
<1> QED
  BY <1>1, <1>2

Some(T) == CHOOSE x \in T : TRUE

\* g adds F up over the subsets of S, the way the folds do.
Adds(g, F, S) ==
  g = [T \in SUBSET S |-> IF T = {} THEN 0 ELSE F[CHOOSE x \in T : TRUE] + g[T \ {CHOOSE x \in T : TRUE}]]

LEMMA AddsFacts ==
  ASSUME NEW g, NEW F, NEW S, Adds(g, F, S)
  PROVE  /\ g[{}] = 0
         /\ \A T : T \subseteq S /\ T # {} => Some(T) \in T /\ g[T] = F[Some(T)] + g[T \ {Some(T)}]
<1>1. {} \in SUBSET S /\ \A T : T \subseteq S => T \in SUBSET S
  OBVIOUS
<1>2. \A T \in SUBSET S : g[T] = IF T = {} THEN 0 ELSE F[Some(T)] + g[T \ {Some(T)}]
  BY DEF Adds, Some
<1>3. \A T : T # {} => Some(T) \in T
  BY DEF Some
<1> QED
  BY <1>1, <1>2, <1>3

\* Two such functions agree where both are defined.
LEMMA AddsAgree ==
  ASSUME NEW g, NEW h, NEW F, NEW S, NEW R, Adds(g, F, S), Adds(h, F, R), IsFiniteSet(S)
  PROVE  \A T : T \subseteq S /\ T \subseteq R => g[T] = h[T]
<1> DEFINE B == {T \in SUBSET S : T \subseteq R /\ g[T] # h[T]}
<1> SUFFICES ASSUME B # {} PROVE FALSE
  OBVIOUS
<1>1. \A T \in B : T \subseteq S
  OBVIOUS
<1>2. PICK T \in B : \A U \in B : U \subseteq T => U = T
  <2> HIDE DEF B
  <2> QED
    BY <1>1, MinimalSet
<1>3. T # {}
  BY AddsFacts
<1>4. Some(T) \in T /\ g[T] = F[Some(T)] + g[T \ {Some(T)}] /\ h[T] = F[Some(T)] + h[T \ {Some(T)}]
  BY <1>3, AddsFacts
<1>5. g[T \ {Some(T)}] = h[T \ {Some(T)}]
  BY <1>2, <1>4
<1> QED
  BY <1>4, <1>5

\* There is one for every finite set.
LEMMA AddsExists ==
  ASSUME NEW F, NEW S, IsFiniteSet(S)
  PROVE  \E g : Adds(g, F, S)
<1> DEFINE B == {T \in SUBSET S : ~ \E g : Adds(g, F, T)}
<1> SUFFICES ASSUME B # {} PROVE FALSE
  OBVIOUS
<1>1. \A T \in B : T \subseteq S
  OBVIOUS
<1>2. PICK T \in B : \A U \in B : U \subseteq T => U = T
  <2> HIDE DEF B
  <2> QED
    BY <1>1, MinimalSet
<1> DEFINE part(U) == CHOOSE g : Adds(g, F, U)
           below(U) == IF U = {} THEN 0 ELSE F[Some(U)] + part(U \ {Some(U)})[U \ {Some(U)}]
           whole == [U \in SUBSET T |-> below(U)]
<1>3. \A U : U \subseteq T /\ U # T => Adds(part(U), F, U) /\ IsFiniteSet(U)
  <2> SUFFICES ASSUME NEW U, U \subseteq T, U # T PROVE Adds(part(U), F, U) /\ IsFiniteSet(U)
    OBVIOUS
  <2>1. \E g : Adds(g, F, U)
    BY <1>2
  <2>2. U \subseteq S
    BY <1>2
  <2> HIDE DEF Adds
  <2> QED
    BY <2>1, <2>2, FS_Subset
<1>4. \A U : U \subseteq T /\ U # {} => Some(U) \in U
  BY DEF Some
\* The parts agree with the whole on what is smaller than T.
<1>5. \A U : U \subseteq T /\ U # T => whole[U] = part(U)[U]
  <2> SUFFICES ASSUME NEW U, U \subseteq T, U # T PROVE whole[U] = part(U)[U]
    OBVIOUS
  <2>1. Adds(part(U), F, U)
    BY <1>3
  <2>2. whole[U] = below(U)
    OBVIOUS
  <2>3. CASE U = {}
    <3>1. part(U)[{}] = 0
      BY <2>1, AddsFacts
    <3> QED
      BY <2>2, <2>3, <3>1
  <2>4. CASE U # {}
    <3> DEFINE V == U \ {Some(U)}
    <3>1. Some(U) \in U /\ V \subseteq U /\ V \subseteq T /\ V # T
      BY <1>4, <2>4
    <3>2. part(U)[U] = F[Some(U)] + part(U)[V]
      BY <2>1, <2>4, AddsFacts
    <3>3. part(V)[V] = part(U)[V]
      <4>1. Adds(part(V), F, V) /\ IsFiniteSet(V)
        BY <1>3, <3>1
      <4> HIDE DEF V, part
      <4> QED
        BY <2>1, <3>1, <4>1, AddsAgree
    <3>4. below(U) = F[Some(U)] + part(V)[V]
      BY <2>4
    <3> HIDE DEF V, part, below, whole
    <3> QED
      BY <2>2, <3>2, <3>3, <3>4
  <2> QED
    BY <2>3, <2>4
<1>6. Adds(whole, F, T)
  <2>1. \A U \in SUBSET T : below(U) = IF U = {} THEN 0 ELSE F[Some(U)] + whole[U \ {Some(U)}]
    <3> SUFFICES ASSUME NEW U \in SUBSET T
                 PROVE  below(U) = IF U = {} THEN 0 ELSE F[Some(U)] + whole[U \ {Some(U)}]
      OBVIOUS
    <3>1. U # {} => U \ {Some(U)} \subseteq T /\ U \ {Some(U)} # T
      BY <1>4
    <3>2. U # {} => whole[U \ {Some(U)}] = part(U \ {Some(U)})[U \ {Some(U)}]
      BY <1>5, <3>1
    <3> HIDE DEF part, whole
    <3> QED
      BY <3>2
  <2>2. whole = [U \in SUBSET T |-> IF U = {} THEN 0 ELSE F[Some(U)] + whole[U \ {Some(U)}]]
    <3> HIDE DEF below
    <3> QED
      BY <2>1
  <2> HIDE DEF whole
  <2> QED
    BY <2>2 DEF Adds, Some
<1> QED
  BY <1>2, <1>6

\* v is the sum of F over S.
SumsUp(v, F, S) == \E g : Adds(g, F, S) /\ v = g[S]

\* A sum of numbers is a number.
LEMMA SumIsNumber ==
  ASSUME NEW S, IsFiniteSet(S), NEW F, \A x \in S : F[x] \in Nat, NEW v, SumsUp(v, F, S)
  PROVE  v \in Nat
<1>1. PICK g : Adds(g, F, S) /\ v = g[S]
  BY DEF SumsUp
<1>2. g[{}] = 0 /\ \A T : T \subseteq S /\ T # {} => Some(T) \in T /\ g[T] = F[Some(T)] + g[T \ {Some(T)}]
  BY <1>1, AddsFacts
<1> DEFINE B == {T \in SUBSET S : g[T] \notin Nat}
<1>3. B = {}
  <2> SUFFICES ASSUME B # {} PROVE FALSE
    OBVIOUS
  <2>1. \A T \in B : T \subseteq S
    OBVIOUS
  <2>2. PICK T \in B : \A U \in B : U \subseteq T => U = T
    <3> HIDE DEF B
    <3> QED
      BY <2>1, MinimalSet
  <2>3. T # {}
    BY <1>2
  <2>4. Some(T) \in T /\ g[T] = F[Some(T)] + g[T \ {Some(T)}]
    BY <1>2, <2>1, <2>3
  <2>5. g[T \ {Some(T)}] \in Nat /\ F[Some(T)] \in Nat
    BY <2>1, <2>2, <2>4
  <2> QED
    BY <2>4, <2>5
<1> QED
  BY <1>1, <1>3

LEMMA SumOfOne ==
  ASSUME NEW x, NEW F, F[x] \in Nat, NEW v, SumsUp(v, F, {x})
  PROVE  v = F[x]
<1>1. PICK g : Adds(g, F, {x}) /\ v = g[{x}]
  BY DEF SumsUp
<1>2. g[{}] = 0 /\ Some({x}) \in {x} /\ g[{x}] = F[Some({x})] + g[{x} \ {Some({x})}]
  BY <1>1, AddsFacts
<1>3. Some({x}) = x /\ {x} \ {Some({x})} = {}
  BY <1>2
<1> QED
  BY <1>1, <1>2, <1>3

\* Sets that together hold C, of at most F[x] elements each, bound its size by
\* the sum.
LEMMA SumBoundsUnion ==
  ASSUME NEW S, IsFiniteSet(S), NEW F, \A x \in S : F[x] \in Nat, NEW v, SumsUp(v, F, S),
         NEW A, \A x \in S : IsFiniteSet(A[x]) /\ Cardinality(A[x]) <= F[x],
         NEW C, C \subseteq UNION {A[x] : x \in S}
  PROVE  IsFiniteSet(C) /\ Cardinality(C) <= v
<1>1. PICK g : Adds(g, F, S) /\ v = g[S]
  BY DEF SumsUp
<1>2. g[{}] = 0 /\ \A T : T \subseteq S /\ T # {} => Some(T) \in T /\ g[T] = F[Some(T)] + g[T \ {Some(T)}]
  BY <1>1, AddsFacts
<1> DEFINE All(T) == UNION {A[x] : x \in T}
           Right(T) == IsFiniteSet(All(T)) /\ g[T] \in Nat /\ Cardinality(All(T)) <= g[T]
           B == {T \in SUBSET S : ~Right(T)}
<1>3. B = {}
  <2> SUFFICES ASSUME B # {} PROVE FALSE
    OBVIOUS
  <2>1. \A T \in B : T \subseteq S
    OBVIOUS
  <2>2. PICK T \in B : \A U \in B : U \subseteq T => U = T
    <3> HIDE DEF B
    <3> QED
      BY <2>1, MinimalSet
  <2>3. T # {}
    <3>1. All({}) = {}
      OBVIOUS
    <3>2. IsFiniteSet({}) /\ Cardinality({}) = 0
      BY FS_EmptySet
    <3>3. IsFiniteSet(All({})) /\ Cardinality(All({})) = 0
      BY <3>1, <3>2
    <3>4. Right({})
      <4> HIDE DEF All, B
      <4> QED
        BY <1>2, <3>3
    <3> HIDE DEF Right
    <3> QED
      BY <2>2, <3>4
  <2> DEFINE y == Some(T)
             U == T \ {y}
  <2>4. y \in T /\ y \in S /\ g[T] = F[y] + g[U]
    BY <1>2, <2>1, <2>3
  <2>5. Right(U)
    <3>1. U \subseteq T /\ U # T /\ U \in SUBSET S
      BY <2>1, <2>4
    <3> HIDE DEF U, Right
    <3> QED
      BY <2>2, <3>1
  <2>6. All(T) = All(U) \cup A[y]
    BY <2>4
  <2> HIDE DEF y, U, All
  <2>7. /\ IsFiniteSet(A[y]) /\ Cardinality(A[y]) <= F[y] /\ F[y] \in Nat
        /\ Cardinality(A[y]) \in Nat /\ Cardinality(All(U)) \in Nat /\ Cardinality(All(U) \cap A[y]) \in Nat
    BY <2>4, <2>5, FS_CardinalityType, FS_Intersection
  <2>8. /\ IsFiniteSet(All(T))
        /\ Cardinality(All(T)) = Cardinality(All(U)) + Cardinality(A[y]) - Cardinality(All(U) \cap A[y])
    BY <2>5, <2>6, <2>7, FS_Union
  <2>9. Right(T)
    BY <2>4, <2>5, <2>7, <2>8
  <2> QED
    BY <2>9
<1>4. Right(S)
  BY <1>3
<1>5. C \subseteq All(S)
  OBVIOUS
<1> HIDE DEF B, All
<1>6. IsFiniteSet(C) /\ Cardinality(C) <= Cardinality(All(S))
  BY <1>4, <1>5, FS_Subset
<1>7. Cardinality(C) \in Nat /\ Cardinality(All(S)) \in Nat
  BY <1>4, <1>6, FS_CardinalityType
<1> QED
  BY <1>1, <1>4, <1>6, <1>7

\* The rollup's sums are such sums.
LEMMA KeptAdds ==
  ASSUME NEW D, NEW sample, NEW S, IsFiniteSet(S)
  PROVE  SumsUp(Row(D, sample, S).sample, sample.kept, S)
<1> DEFINE kept == sample.kept
           h == CHOOSE g : Adds(g, kept, S)
<1>1. Adds(h, kept, S)
  <2> HIDE DEF Adds
  <2> QED
    BY AddsExists
<1>2. MapThenSumSet(LAMBDA s : sample.kept[s], S) = h[S]
  BY DEF MapThenSumSet, MapThenFoldSet, Adds
<1>3. Row(D, sample, S).sample = h[S]
  BY <1>2 DEF Row
<1> QED
  BY <1>1, <1>3 DEF SumsUp

\* What the ledger's rows of the source s say was kept, by run.
KeptBy(s, S) == [r \in S |-> ledger[r][s]]

LEMMA LedgerAdds ==
  ASSUME NEW s, NEW S, IsFiniteSet(S)
  PROVE  SumsUp(MapThenSumSet(LAMBDA r : ledger[r][s], S), KeptBy(s, S), S)
<1> DEFINE Step(g) == g = [T \in SUBSET S |-> IF T = {} THEN 0
                             ELSE ledger[CHOOSE x \in T : TRUE][s] + g[T \ {CHOOSE x \in T : TRUE}]]
           h == CHOOSE g : Step(g)
<1>1. \A g : Adds(g, KeptBy(s, S), S) <=> Step(g)
  <2>1. \A T \in SUBSET S : T # {} => (CHOOSE x \in T : TRUE) \in S
    OBVIOUS
  <2>2. \A T \in SUBSET S : T # {} => KeptBy(s, S)[CHOOSE x \in T : TRUE] = ledger[CHOOSE x \in T : TRUE][s]
    BY <2>1 DEF KeptBy
  <2> DEFINE L(g) == [T \in SUBSET S |-> IF T = {} THEN 0
                        ELSE KeptBy(s, S)[CHOOSE x \in T : TRUE] + g[T \ {CHOOSE x \in T : TRUE}]]
             R(g) == [T \in SUBSET S |-> IF T = {} THEN 0
                        ELSE ledger[CHOOSE x \in T : TRUE][s] + g[T \ {CHOOSE x \in T : TRUE}]]
  <2>3. \A g : L(g) = R(g)
    <3> HIDE DEF KeptBy
    <3> QED
      BY <2>2
  <2>4. \A g : (Adds(g, KeptBy(s, S), S) <=> g = L(g)) /\ (Step(g) <=> g = R(g))
    BY DEF Adds
  <2> HIDE DEF L, R, Step
  <2> QED
    BY <2>3, <2>4
<1>2. Step(h)
  <2>1. \E g : Adds(g, KeptBy(s, S), S)
    BY AddsExists
  <2> HIDE DEF Step
  <2> QED
    BY <1>1, <2>1
<1>3. Adds(h, KeptBy(s, S), S)
  BY <1>1, <1>2
<1>4. MapThenSumSet(LAMBDA r : ledger[r][s], S) = h[S]
  BY DEF MapThenSumSet, MapThenFoldSet
<1> QED
  BY <1>3, <1>4 DEF SumsUp

-----------------------------------------------------------------------------
(* The invariants.                                                         *)

\* Sets of metric rows by key.
RowSets == UNION {[K -> MetricRows] : K \in SUBSET Keys}
Samples == [kept : [Sources -> Nat], of : SUBSET (RunIds \X Sources)]
Jobs == [stage : Stages, todo : SUBSET Day, bucket : Day, sample : Samples,
         rows : RowSets, events : SUBSET Events]

Typed ==
  /\ new \subseteq Topics
  /\ doc \in [Docs -> DocRows]
  /\ run \in [RunIds -> Statuses]
  /\ ledger \in [RunIds -> [Sources -> Nat \cup {None}]]
  /\ metric \in [Day -> RowSets]
  /\ event \subseteq Events /\ score \subseteq Scores /\ skip \subseteq Skips
  /\ insight \subseteq (Topics \cup {None}) \X Day
  /\ job \in [Workers -> Jobs]
  /\ today \in Day /\ lastDay \in Day /\ moves \in 0 .. MaxMoves /\ late \subseteq Day

\* What is written of a day: one event of a kind for a topic, with evidence,
\* and one score for a topic.  The events under way are those of the worker's
\* own day.
OneEach ==
  /\ \A e, f \in event : e.topic = f.topic /\ e.day = f.day /\ e.kind = f.kind => e = f
  /\ \A e \in event : e.evidence # {}
  /\ \A x, y \in score : x.topic = y.topic /\ x.day = y.day => x = y
  /\ \A w \in Workers : \A e \in job[w].events :
       e.day = w /\ job[w].stage = "events" /\ e.evidence # {}
  /\ \A w \in Workers : \A e, f \in job[w].events : e.topic = f.topic /\ e.kind = f.kind => e = f

TypeInv == Typed /\ OneEach

\* e is of the same kind and topic as f, of an earlier day within its cooldown.
Cools(e, f) == e.topic = f.topic /\ e.kind = f.kind /\ e.day < f.day /\ f.day - e.day < CooldownDays

\* A day with events has been detected, and what is about to be written is a
\* cooldown from what has been, but for what was written late.
Cooled ==
  /\ \A e \in event : job[e.day].stage \in {"score", "insights", "done"}
  /\ \A w \in Workers : \A f \in job[w].events : \A e \in event : Cools(e, f) => e.day \in late
  /\ \A e, f \in event : Cools(e, f) => e.day \in late

\* The rows of one bucket agree.
CountIn(rows, k) == IF k \in DOMAIN rows THEN rows[k].docs ELSE {}
Agree(rows) ==
  DOMAIN rows # {} =>
    /\ <<None, None>> \in DOMAIN rows
    /\ CountIn(rows, <<None, None>>) = UNION {CountIn(rows, <<s, None>>) : s \in Sources}
    /\ \A s \in Sources, t \in Topics : CountIn(rows, <<s, t>>) \subseteq CountIn(rows, <<s, None>>)
    /\ \A t \in Topics :
         /\ CountIn(rows, <<None, t>>) = UNION {CountIn(rows, <<s, t>>) : s \in Sources}
         /\ <<None, t>> \in DOMAIN rows => rows[<<None, t>>].sample = rows[<<None, None>>].sample

Agreed == /\ \A b \in Day : Agree(metric[b])
          /\ \A w \in Workers : Agree(job[w].rows)

\* No row counts more of the documents behind its sample than the sample has.
Fits(rows) == \A k \in DOMAIN rows : Cardinality(rows[k].measured) <= rows[k].sample

\* A ledger row counts the documents that it is said to count.
LedgerTrue ==
  \A r \in RunIds, s \in Sources : ledger[r][s] # None => ledger[r][s] = Cardinality(Awaiting(r, s))

\* The runs whose rows of the source a sample counts.
RunsOf(of, s) == {r \in RunIds : <<r, s>> \in of}

\* The sample adds up rows that are there.
AddsUp(sample) ==
  /\ \A s \in Sources : \A r \in RunsOf(sample.of, s) : ledger[r][s] # None
  /\ \A s \in Sources :
       SumsUp(sample.kept[s], KeptBy(s, RunsOf(sample.of, s)), RunsOf(sample.of, s))

\* A ledger row stays, so the sample of a rollup under way stays true.
SampleHolds(w) == job[w].stage = "rows" => AddsUp(job[w].sample)

Sampled ==
  /\ LedgerTrue
  /\ \A b \in Day : Fits(metric[b])
  /\ \A w \in Workers : Fits(job[w].rows) /\ SampleHolds(w)

-----------------------------------------------------------------------------
(* The shape of the rows that RowsOf makes.                                *)

\* What the bounds and the sets of days and workers are.
LEMMA Constants ==
  /\ MaxDay \in Nat /\ CooldownDays \in Nat /\ MaxMoves \in Nat /\ PeriodDays \in Nat /\ MaxLost \in Nat
  /\ IsFiniteSet(Docs) /\ IsFiniteSet(Sources)
  /\ None \notin Sources /\ None \notin Topics /\ None \notin Nat /\ None \notin RunIds /\ Rerun \notin Day
  /\ 0 \in Day /\ \A d \in Day : d \in Nat /\ d <= MaxDay
BY AnalyticsAssumption DEF AnalyticsAssumption, Day, RunIds, RunKinds

LEMMA OverFacts ==
  ASSUME NEW f, NEW g
  PROVE  /\ DOMAIN Over(f, g) = DOMAIN f \cup DOMAIN g
         /\ \A k \in DOMAIN f : Over(f, g)[k] = f[k]
         /\ \A k \in DOMAIN g \ DOMAIN f : Over(f, g)[k] = g[k]
BY DEF Over

SourceOf(D, s) == {d \in D : doc[d].source = s}
TopicOf(D, t, present) == {d \in D : doc[d].topic = t /\ doc[d].source \in present}
PairOf(D, s, t) == {d \in D : doc[d].source = s /\ doc[d].topic = t}
TotalOf(D, present) == UNION {SourceOf(D, s) : s \in present}

\* rows: the four breakdowns of D, with the keys that count something.
IsBreakdown(rows, D, sample, present) ==
  /\ \A k \in DOMAIN rows :
       \/ k = <<None, None>> /\ present # {}
       \/ \E t \in Topics : k = <<None, t>> /\ TopicOf(D, t, present) # {}
       \/ \E s \in present : k = <<s, None>> /\ SourceOf(D, s) # {}
       \/ \E s \in present, t \in Topics : k = <<s, t>> /\ PairOf(D, s, t) # {}
  /\ present # {} => /\ <<None, None>> \in DOMAIN rows
                     /\ rows[<<None, None>>] = Row(TotalOf(D, present), sample, present)
  /\ \A t \in Topics : TopicOf(D, t, present) # {} =>
       <<None, t>> \in DOMAIN rows /\ rows[<<None, t>>] = Row(TopicOf(D, t, present), sample, present)
  /\ \A s \in present : SourceOf(D, s) # {} =>
       <<s, None>> \in DOMAIN rows /\ rows[<<s, None>>] = Row(SourceOf(D, s), sample, {s})
  /\ \A s \in present, t \in Topics : PairOf(D, s, t) # {} =>
       <<s, t>> \in DOMAIN rows /\ rows[<<s, t>>] = Row(PairOf(D, s, t), sample, {s})

\* The rows of RowsOf are the four breakdowns, and of the two rows for a source
\* and no topic it keeps the one that counts the whole source.
LEMMA RowsOfFacts ==
  ASSUME NEW D, NEW sample
  PROVE  IsBreakdown(RowsOf(D, sample), D, sample, Present(sample))
<1> DEFINE present == Present(sample)
           rows == RowsOf(D, sample)
           pairs == {k \in present \X (Topics \cup {None}) : PairOf(D, k[1], k[2]) # {}}
           byPair == [k \in pairs |-> Row(PairOf(D, k[1], k[2]), sample, {k[1]})]
           bySource == [k \in {s \in present : SourceOf(D, s) # {}} \X {None} |->
                          Row(SourceOf(D, k[1]), sample, {k[1]})]
           byTopic == [k \in {None} \X {t \in Topics : TopicOf(D, t, present) # {}} |->
                         Row(TopicOf(D, k[2], present), sample, present)]
           monitor == [k \in IF present = {} THEN {} ELSE {<<None, None>>} |->
                         Row(TotalOf(D, present), sample, present)]
           lower == Over(bySource, byPair)
           middle == Over(byTopic, lower)
<1>1. rows = Over(monitor, middle)
  BY DEF RowsOf, SourceOf, TopicOf, PairOf, TotalOf, Present
<1>2. present \subseteq Sources /\ None \notin Sources /\ None \notin Topics
  BY Constants DEF Present
<1>3. /\ DOMAIN byPair = pairs
      /\ \A k \in pairs : byPair[k] = Row(PairOf(D, k[1], k[2]), sample, {k[1]})
  OBVIOUS
<1>4. /\ DOMAIN bySource = {s \in present : SourceOf(D, s) # {}} \X {None}
      /\ \A k \in DOMAIN bySource : bySource[k] = Row(SourceOf(D, k[1]), sample, {k[1]})
  OBVIOUS
<1>5. /\ DOMAIN byTopic = {None} \X {t \in Topics : TopicOf(D, t, present) # {}}
      /\ \A k \in DOMAIN byTopic : byTopic[k] = Row(TopicOf(D, k[2], present), sample, present)
  OBVIOUS
<1>6. /\ DOMAIN monitor = (IF present = {} THEN {} ELSE {<<None, None>>})
      /\ \A k \in DOMAIN monitor : monitor[k] = Row(TotalOf(D, present), sample, present)
  OBVIOUS
<1> HIDE DEF byPair, bySource, byTopic, monitor, rows, present
<1>7. /\ DOMAIN lower = DOMAIN bySource \cup DOMAIN byPair
      /\ \A k \in DOMAIN bySource : lower[k] = bySource[k]
      /\ \A k \in DOMAIN byPair \ DOMAIN bySource : lower[k] = byPair[k]
  BY OverFacts
<1> HIDE DEF lower
<1>8. /\ DOMAIN middle = DOMAIN byTopic \cup DOMAIN lower
      /\ \A k \in DOMAIN byTopic : middle[k] = byTopic[k]
      /\ \A k \in DOMAIN lower \ DOMAIN byTopic : middle[k] = lower[k]
  BY OverFacts
<1> HIDE DEF middle
<1>9. /\ DOMAIN rows = DOMAIN monitor \cup DOMAIN middle
      /\ \A k \in DOMAIN monitor : rows[k] = monitor[k]
      /\ \A k \in DOMAIN middle \ DOMAIN monitor : rows[k] = middle[k]
  <2>1. /\ DOMAIN Over(monitor, middle) = DOMAIN monitor \cup DOMAIN middle
        /\ \A k \in DOMAIN monitor : Over(monitor, middle)[k] = monitor[k]
        /\ \A k \in DOMAIN middle \ DOMAIN monitor : Over(monitor, middle)[k] = middle[k]
    BY OverFacts
  <2> QED
    BY <1>1, <2>1
<1>10. ASSUME NEW k \in DOMAIN rows
       PROVE  \/ k = <<None, None>> /\ present # {}
              \/ \E t \in Topics : k = <<None, t>> /\ TopicOf(D, t, present) # {}
              \/ \E s \in present : k = <<s, None>> /\ SourceOf(D, s) # {}
              \/ \E s \in present, t \in Topics : k = <<s, t>> /\ PairOf(D, s, t) # {}
  <2>1. CASE k \in DOMAIN monitor
    BY <1>6, <2>1
  <2>2. CASE k \in DOMAIN byTopic
    BY <1>5, <2>2
  <2>3. CASE k \in DOMAIN bySource
    BY <1>4, <2>3
  <2>4. CASE k \in DOMAIN byPair
    <3>1. k \in present \X (Topics \cup {None}) /\ PairOf(D, k[1], k[2]) # {}
      BY <1>3, <2>4
    <3>2. PICK s \in present, t \in Topics \cup {None} : k = <<s, t>> /\ PairOf(D, s, t) # {}
      BY <3>1
    <3>3. PairOf(D, s, t) \subseteq SourceOf(D, s)
      BY DEF PairOf, SourceOf
    <3>4. CASE t = None
      BY <3>2, <3>3, <3>4
    <3>5. CASE t # None
      BY <3>2, <3>5
    <3> QED
      BY <3>4, <3>5
  <2> QED
    BY <1>7, <1>8, <1>9, <2>1, <2>2, <2>3, <2>4
<1>11. present # {} => /\ <<None, None>> \in DOMAIN rows
                       /\ rows[<<None, None>>] = Row(TotalOf(D, present), sample, present)
  BY <1>6, <1>9
<1>12. ASSUME NEW t \in Topics, TopicOf(D, t, present) # {}
       PROVE  <<None, t>> \in DOMAIN rows /\ rows[<<None, t>>] = Row(TopicOf(D, t, present), sample, present)
  <2>1. <<None, t>> \in DOMAIN byTopic /\ byTopic[<<None, t>>] = Row(TopicOf(D, t, present), sample, present)
    BY <1>5, <1>12
  <2>2. <<None, t>> \notin DOMAIN monitor
    BY <1>2, <1>6
  <2> QED
    BY <1>8, <1>9, <2>1, <2>2
<1>13. ASSUME NEW s \in present, SourceOf(D, s) # {}
       PROVE  <<s, None>> \in DOMAIN rows /\ rows[<<s, None>>] = Row(SourceOf(D, s), sample, {s})
  <2>1. <<s, None>> \in DOMAIN bySource /\ bySource[<<s, None>>] = Row(SourceOf(D, s), sample, {s})
    <3>1. <<s, None>> \in DOMAIN bySource
      BY <1>4, <1>13
    <3>2. \A k \in DOMAIN bySource : k[1] = s => bySource[k] = Row(SourceOf(D, s), sample, {s})
      BY <1>4
    <3>3. <<s, None>>[1] = s
      OBVIOUS
    <3> QED
      BY <3>1, <3>2, <3>3
  <2>2. <<s, None>> \notin DOMAIN monitor /\ <<s, None>> \notin DOMAIN byTopic
    BY <1>2, <1>5, <1>6
  <2> QED
    BY <1>7, <1>8, <1>9, <2>1, <2>2
<1>14. ASSUME NEW s \in present, NEW t \in Topics, PairOf(D, s, t) # {}
       PROVE  <<s, t>> \in DOMAIN rows /\ rows[<<s, t>>] = Row(PairOf(D, s, t), sample, {s})
  <2>1. <<s, t>> \in pairs
    BY <1>14
  <2>2. <<s, t>> \in DOMAIN byPair /\ byPair[<<s, t>>] = Row(PairOf(D, s, t), sample, {s})
    BY <1>3, <2>1
  <2>3. <<s, t>> \notin DOMAIN monitor /\ <<s, t>> \notin DOMAIN byTopic /\ <<s, t>> \notin DOMAIN bySource
    BY <1>2, <1>4, <1>5, <1>6
  <2> QED
    BY <1>7, <1>8, <1>9, <2>2, <2>3
<1>15. IsBreakdown(rows, D, sample, present)
  BY <1>10, <1>11, <1>12, <1>13, <1>14 DEF IsBreakdown
<1> QED
  BY <1>15 DEF rows, present

\* A row of finitely many sources is a row.
LEMMA RowIsRow ==
  ASSUME NEW D, D \subseteq Docs, NEW sample, sample \in Samples, NEW S, S \subseteq Sources
  PROVE  Row(D, sample, S) \in MetricRows
<1>1. IsFiniteSet(S)
  BY Constants, FS_Subset
<1>2. \A s \in S : sample.kept[s] \in Nat
  BY DEF Samples
<1>3. Row(D, sample, S).sample \in Nat
  <2>1. SumsUp(Row(D, sample, S).sample, sample.kept, S)
    BY <1>1, KeptAdds
  <2> HIDE DEF Row
  <2> QED
    BY <1>1, <1>2, <2>1, SumIsNumber
<1> QED
  BY <1>3 DEF Row, MetricRows

LEMMA RowsAreRows ==
  ASSUME NEW D, D \subseteq Docs, NEW sample, sample \in Samples
  PROVE  RowsOf(D, sample) \in RowSets
<1> DEFINE present == Present(sample)
           rows == RowsOf(D, sample)
<1>1. present \subseteq Sources
  BY DEF Present
<1>2. /\ TotalOf(D, present) \subseteq Docs
      /\ \A t : TopicOf(D, t, present) \subseteq Docs
      /\ \A s : SourceOf(D, s) \subseteq Docs
      /\ \A s, t : PairOf(D, s, t) \subseteq Docs
  BY DEF TotalOf, TopicOf, SourceOf, PairOf
<1>3. rows = [k \in DOMAIN rows |-> rows[k]]
  BY DEF RowsOf, Over
<1> HIDE DEF present, rows
<1>4. ASSUME NEW k \in DOMAIN rows PROVE k \in Keys /\ rows[k] \in MetricRows
  <2>1. IsBreakdown(rows, D, sample, present)
    BY RowsOfFacts DEF present, rows
  <2>2. CASE k = <<None, None>> /\ present # {}
    BY <1>1, <1>2, <2>1, <2>2, RowIsRow DEF Keys, IsBreakdown
  <2>3. CASE \E t \in Topics : k = <<None, t>> /\ TopicOf(D, t, present) # {}
    BY <1>1, <1>2, <2>1, <2>3, RowIsRow DEF Keys, IsBreakdown
  <2>4. CASE \E s \in present : k = <<s, None>> /\ SourceOf(D, s) # {}
    <3>1. PICK s \in present : k = <<s, None>> /\ SourceOf(D, s) # {}
      BY <2>4
    <3>2. {s} \subseteq Sources
      BY <1>1
    <3>3. rows[k] = Row(SourceOf(D, s), sample, {s})
      BY <2>1, <3>1 DEF IsBreakdown
    <3>4. k \in Keys
      BY <1>1, <3>1 DEF Keys
    <3> HIDE DEF SourceOf
    <3> QED
      BY <1>2, <3>2, <3>3, <3>4, RowIsRow
  <2>5. CASE \E s \in present, t \in Topics : k = <<s, t>> /\ PairOf(D, s, t) # {}
    <3>1. PICK s \in present, t \in Topics : k = <<s, t>> /\ PairOf(D, s, t) # {}
      BY <2>5
    <3>2. {s} \subseteq Sources
      BY <1>1
    <3>3. rows[k] = Row(PairOf(D, s, t), sample, {s})
      BY <2>1, <3>1 DEF IsBreakdown
    <3>4. k \in Keys
      BY <1>1, <3>1 DEF Keys
    <3> QED
      BY <1>2, <3>2, <3>3, <3>4, RowIsRow
  <2> QED
    BY <2>1, <2>2, <2>3, <2>4, <2>5 DEF IsBreakdown
<1>5. DOMAIN rows \in SUBSET Keys /\ rows \in [DOMAIN rows -> MetricRows]
  BY <1>3, <1>4
<1> QED
  BY <1>5 DEF RowSets, rows

\* Rows made at once agree.
LEMMA RowsAgree ==
  ASSUME NEW D, NEW sample
  PROVE  Agree(RowsOf(D, sample))
<1> DEFINE present == Present(sample)
           rows == RowsOf(D, sample)
<1>1. present \subseteq Sources /\ None \notin Sources /\ None \notin Topics
  BY Constants DEF Present
<1>2. IsBreakdown(rows, D, sample, present)
  BY RowsOfFacts
<1>3. \A E, S : Row(E, sample, S).docs = E
  BY DEF Row
<1> DEFINE total(S) == MapThenSumSet(LAMBDA s : sample.kept[s], S)
<1>4. \A E, S : Row(E, sample, S).sample = total(S)
  BY DEF Row
<1> HIDE DEF present, rows, total
<1> SUFFICES ASSUME DOMAIN rows # {}
             PROVE  /\ <<None, None>> \in DOMAIN rows
                    /\ CountIn(rows, <<None, None>>) = UNION {CountIn(rows, <<s, None>>) : s \in Sources}
                    /\ \A s \in Sources, t \in Topics : CountIn(rows, <<s, t>>) \subseteq CountIn(rows, <<s, None>>)
                    /\ \A t \in Topics :
                         /\ CountIn(rows, <<None, t>>) = UNION {CountIn(rows, <<s, t>>) : s \in Sources}
                         /\ <<None, t>> \in DOMAIN rows => rows[<<None, t>>].sample = rows[<<None, None>>].sample
  BY DEF Agree, rows
<1>5. present # {}
  <2>1. PICK k \in DOMAIN rows : TRUE
    OBVIOUS
  <2>2. \A t : TopicOf(D, t, present) # {} => present # {}
    BY DEF TopicOf
  <2> QED
    BY <1>2, <2>1, <2>2 DEF IsBreakdown
<1>6. <<None, None>> \in DOMAIN rows /\ CountIn(rows, <<None, None>>) = TotalOf(D, present)
  BY <1>2, <1>3, <1>5 DEF IsBreakdown, CountIn
<1>7. \A s \in Sources : CountIn(rows, <<s, None>>) = IF s \in present THEN SourceOf(D, s) ELSE {}
  <2> SUFFICES ASSUME NEW s \in Sources
               PROVE  CountIn(rows, <<s, None>>) = IF s \in present THEN SourceOf(D, s) ELSE {}
    OBVIOUS
  <2>1. s # None
    BY <1>1
  <2>2. <<s, None>> \in DOMAIN rows => s \in present /\ SourceOf(D, s) # {}
    <3>1. <<s, None>> # <<None, None>> /\ \A t \in Topics : <<s, None>> # <<None, t>>
      BY <2>1
    <3>2. \A z : \A t \in Topics : <<s, None>> # <<z, t>>
      BY <1>1
    <3>3. \A z : <<s, None>> = <<z, None>> => z = s
      OBVIOUS
    <3> QED
      BY <1>2, <3>1, <3>2, <3>3 DEF IsBreakdown
  <2> QED
    BY <1>2, <1>3, <2>2 DEF IsBreakdown, CountIn
<1>8. \A s \in Sources, t \in Topics : CountIn(rows, <<s, t>>) = IF s \in present THEN PairOf(D, s, t) ELSE {}
  <2> SUFFICES ASSUME NEW s \in Sources, NEW t \in Topics
               PROVE  CountIn(rows, <<s, t>>) = IF s \in present THEN PairOf(D, s, t) ELSE {}
    OBVIOUS
  <2>1. s # None /\ t # None
    BY <1>1
  <2>2. <<s, t>> \in DOMAIN rows => s \in present /\ PairOf(D, s, t) # {}
    <3>1. <<s, t>> # <<None, None>> /\ \A u : <<s, t>> # <<None, u>>
      BY <2>1
    <3>2. \A z : <<s, t>> # <<z, None>>
      BY <2>1
    <3>3. \A z, u : <<s, t>> = <<z, u>> => z = s /\ u = t
      OBVIOUS
    <3> QED
      BY <1>2, <3>1, <3>2, <3>3 DEF IsBreakdown
  <2> QED
    BY <1>2, <1>3, <2>2 DEF IsBreakdown, CountIn
<1>9. \A t \in Topics : CountIn(rows, <<None, t>>) = TopicOf(D, t, present)
  <2> SUFFICES ASSUME NEW t \in Topics PROVE CountIn(rows, <<None, t>>) = TopicOf(D, t, present)
    OBVIOUS
  <2>1. <<None, t>> \in DOMAIN rows => TopicOf(D, t, present) # {}
    <3>1. <<None, t>> # <<None, None>> /\ \A u : <<None, t>> = <<None, u>> => t = u
      BY <1>1
    <3>2. \A s \in present : s # None
      BY <1>1
    <3>3. \A s \in present : \A u : <<None, t>> # <<s, u>>
      BY <3>2
    <3> QED
      BY <1>2, <3>1, <3>3 DEF IsBreakdown
  <2> QED
    BY <1>2, <1>3, <2>1 DEF IsBreakdown, CountIn
<1>10. \A t \in Topics : <<None, t>> \in DOMAIN rows => rows[<<None, t>>].sample = rows[<<None, None>>].sample
  <2> SUFFICES ASSUME NEW t \in Topics, <<None, t>> \in DOMAIN rows
               PROVE  rows[<<None, t>>].sample = rows[<<None, None>>].sample
    OBVIOUS
  <2>1. TopicOf(D, t, present) # {}
    <3>1. <<None, t>> # <<None, None>> /\ \A u : <<None, t>> = <<None, u>> => t = u
      BY <1>1
    <3>2. \A s \in present : s # None
      BY <1>1
    <3>3. \A s \in present : \A u : <<None, t>> # <<s, u>>
      BY <3>2
    <3> QED
      BY <1>2, <3>1, <3>3 DEF IsBreakdown
  <2>2. rows[<<None, t>>].sample = total(present) /\ rows[<<None, None>>].sample = total(present)
    BY <1>2, <1>4, <1>5, <2>1 DEF IsBreakdown
  <2> QED
    BY <2>2
<1>11. CountIn(rows, <<None, None>>) = UNION {CountIn(rows, <<s, None>>) : s \in Sources}
  <2>1. UNION {CountIn(rows, <<s, None>>) : s \in Sources} = UNION {IF s \in present THEN SourceOf(D, s) ELSE {} : s \in Sources}
    BY <1>7
  <2>2. TotalOf(D, present) = UNION {IF s \in present THEN SourceOf(D, s) ELSE {} : s \in Sources}
    BY <1>1 DEF TotalOf
  <2> QED
    BY <1>6, <2>1, <2>2
<1>12. \A s \in Sources, t \in Topics : CountIn(rows, <<s, t>>) \subseteq CountIn(rows, <<s, None>>)
  BY <1>7, <1>8 DEF PairOf, SourceOf
<1>13. \A t \in Topics : CountIn(rows, <<None, t>>) = UNION {CountIn(rows, <<s, t>>) : s \in Sources}
  <2> SUFFICES ASSUME NEW t \in Topics
               PROVE  CountIn(rows, <<None, t>>) = UNION {CountIn(rows, <<s, t>>) : s \in Sources}
    OBVIOUS
  <2>1. UNION {CountIn(rows, <<s, t>>) : s \in Sources} = UNION {IF s \in present THEN PairOf(D, s, t) ELSE {} : s \in Sources}
    BY <1>8
  <2>2. TopicOf(D, t, present) = UNION {IF s \in present THEN PairOf(D, s, t) ELSE {} : s \in Sources}
    BY <1>1 DEF TopicOf, PairOf
  <2> QED
    BY <1>9, <2>1, <2>2
<1> QED
  BY <1>6, <1>10, <1>11, <1>12, <1>13

LEMMA RunsAreFinite == IsFiniteSet(RunIds)
<1>1. IsFiniteSet(Day)
  BY Constants, FS_Interval DEF Day
<1>2. IsFiniteSet(RunKinds)
  <2>1. IsFiniteSet({"scheduled"})
    BY FS_Singleton
  <2>2. RunKinds = {"scheduled"} \cup {"backfill"}
    BY DEF RunKinds
  <2> QED
    BY <2>1, <2>2, FS_AddElement
<1> QED
  BY <1>1, <1>2, FS_Product DEF RunIds

\* The documents that the rows of a sample count of a source are no more than
\* the sample says.
LEMMA SourceFits ==
  ASSUME Typed, LedgerTrue, NEW s \in Sources, NEW of, of \subseteq RunIds,
         \A r \in of : ledger[r][s] # None,
         NEW v, SumsUp(v, KeptBy(s, of), of)
  PROVE  /\ IsFiniteSet({d \in Docs : Exists(d) /\ doc[d].source = s /\ doc[d].run \in of})
         /\ Cardinality({d \in Docs : Exists(d) /\ doc[d].source = s /\ doc[d].run \in of}) <= v
<1> DEFINE A == [r \in of |-> Awaiting(r, s)]
           C == {d \in Docs : Exists(d) /\ doc[d].source = s /\ doc[d].run \in of}
           F == KeptBy(s, of)
<1>1. IsFiniteSet(of)
  BY RunsAreFinite, FS_Subset
<1>2. \A r \in of : IsFiniteSet(A[r]) /\ Cardinality(A[r]) <= F[r] /\ F[r] \in Nat
  <2> SUFFICES ASSUME NEW r \in of PROVE IsFiniteSet(A[r]) /\ Cardinality(A[r]) <= F[r] /\ F[r] \in Nat
    OBVIOUS
  <2>1. A[r] = Awaiting(r, s) /\ F[r] = ledger[r][s]
    BY DEF KeptBy
  <2>2. ledger[r][s] = Cardinality(Awaiting(r, s))
    BY DEF LedgerTrue
  <2>3. IsFiniteSet(Awaiting(r, s))
    BY Constants, FS_Subset DEF Awaiting
  <2>4. Cardinality(Awaiting(r, s)) \in Nat
    BY <2>3, FS_CardinalityType
  <2> HIDE DEF A, F
  <2> QED
    BY <2>1, <2>2, <2>3, <2>4
<1>3. C \subseteq UNION {A[r] : r \in of}
  <2> SUFFICES ASSUME NEW d \in C PROVE \E r \in of : d \in A[r]
    OBVIOUS
  <2>1. doc[d].run \in of /\ d \in Awaiting(doc[d].run, s)
    BY DEF Awaiting
  <2> QED
    BY <2>1
<1>4. SumsUp(v, F, of)
  OBVIOUS
<1> HIDE DEF A, C, F
<1>5. IsFiniteSet(C) /\ Cardinality(C) <= v
  BY <1>1, <1>2, <1>3, <1>4, SumBoundsUnion
<1> QED
  BY <1>5 DEF C

\* So a row of some sources counts no more of them than its sample.
LEMMA RowFits ==
  ASSUME Typed, LedgerTrue, NEW sample \in Samples, AddsUp(sample),
         NEW S, S \subseteq Sources,
         NEW E, E \subseteq Docs, \A d \in E : Exists(d) /\ doc[d].source \in S
  PROVE  Cardinality(Row(E, sample, S).measured) <= Row(E, sample, S).sample
<1> DEFINE of(s) == RunsOf(sample.of, s)
           M(s) == {d \in Docs : Exists(d) /\ doc[d].source = s /\ doc[d].run \in of(s)}
           A == [s \in S |-> M(s)]
           C == {d \in E : <<doc[d].run, doc[d].source>> \in sample.of}
<1>1. IsFiniteSet(S)
  BY Constants, FS_Subset
<1>2. /\ sample.of \subseteq RunIds \X Sources /\ \A s \in S : sample.kept[s] \in Nat
      /\ \A s : of(s) \subseteq RunIds
  BY DEF Samples, RunsOf
<1>3. \A s \in S : IsFiniteSet(A[s]) /\ Cardinality(A[s]) <= sample.kept[s]
  <2> SUFFICES ASSUME NEW s \in S PROVE IsFiniteSet(A[s]) /\ Cardinality(A[s]) <= sample.kept[s]
    OBVIOUS
  <2>1. s \in Sources /\ SumsUp(sample.kept[s], KeptBy(s, of(s)), of(s)) /\ \A r \in of(s) : ledger[r][s] # None
    BY DEF AddsUp
  <2>2. of(s) \subseteq RunIds
    BY <1>2
  <2>3. A[s] = M(s)
    OBVIOUS
  <2> HIDE DEF A, of
  <2>4. IsFiniteSet(M(s)) /\ Cardinality(M(s)) <= sample.kept[s]
    BY <2>1, <2>2, SourceFits
  <2> HIDE DEF M
  <2> QED
    BY <2>3, <2>4
<1>4. C \subseteq UNION {A[s] : s \in S}
  <2> SUFFICES ASSUME NEW d \in C PROVE \E s \in S : d \in A[s]
    OBVIOUS
  <2>1. doc[d].run \in RunIds
    BY <1>2
  <2>2. doc[d].source \in S /\ d \in M(doc[d].source)
    BY <2>1 DEF RunsOf
  <2> QED
    BY <2>2
<1>5. SumsUp(Row(E, sample, S).sample, sample.kept, S)
  BY <1>1, KeptAdds
<1>6. Row(E, sample, S).measured = C
  BY DEF Row
<1> HIDE DEF A, C, Row
<1>7. Cardinality(C) <= Row(E, sample, S).sample
  BY <1>1, <1>2, <1>3, <1>4, <1>5, SumBoundsUnion
<1> QED
  BY <1>6, <1>7

LEMMA RowsFit ==
  ASSUME Typed, LedgerTrue, NEW sample \in Samples, AddsUp(sample),
         NEW D, D \subseteq Docs, \A d \in D : Exists(d)
  PROVE  Fits(RowsOf(D, sample))
<1> DEFINE present == Present(sample)
           rows == RowsOf(D, sample)
           Fit(E, S) == Cardinality(Row(E, sample, S).measured) <= Row(E, sample, S).sample
<1>1. present \subseteq Sources /\ \A s \in present : {s} \subseteq Sources
  BY DEF Present
<1>2. IsBreakdown(rows, D, sample, present)
  BY RowsOfFacts
<1>3. Fit(TotalOf(D, present), present)
  <2> DEFINE E == TotalOf(D, present)
  <2>1. E \subseteq Docs /\ \A d \in E : Exists(d) /\ doc[d].source \in present
    BY DEF TotalOf, SourceOf
  <2>2. Fit(E, present)
    <3> HIDE DEF E, present
    <3> QED
      BY <1>1, <2>1, RowFits
  <2> QED
    BY <2>2
<1>4. \A t \in Topics : Fit(TopicOf(D, t, present), present)
  <2> SUFFICES ASSUME NEW t \in Topics PROVE Fit(TopicOf(D, t, present), present)
    OBVIOUS
  <2> DEFINE E == TopicOf(D, t, present)
  <2>1. E \subseteq Docs /\ \A d \in E : Exists(d) /\ doc[d].source \in present
    BY DEF TopicOf
  <2>2. Fit(E, present)
    <3> HIDE DEF E, present
    <3> QED
      BY <1>1, <2>1, RowFits
  <2> QED
    BY <2>2
<1>5. \A s \in present : Fit(SourceOf(D, s), {s})
  <2> SUFFICES ASSUME NEW s \in present PROVE Fit(SourceOf(D, s), {s})
    OBVIOUS
  <2> DEFINE E == SourceOf(D, s)
             S == {s}
  <2>1. S \subseteq Sources /\ E \subseteq Docs /\ \A d \in E : Exists(d) /\ doc[d].source \in S
    BY <1>1 DEF SourceOf
  <2>2. Fit(E, S)
    <3> HIDE DEF E, S, present
    <3> QED
      BY <2>1, RowFits
  <2> QED
    BY <2>2
<1>6. \A s \in present, t \in Topics : Fit(PairOf(D, s, t), {s})
  <2> SUFFICES ASSUME NEW s \in present, NEW t \in Topics PROVE Fit(PairOf(D, s, t), {s})
    OBVIOUS
  <2> DEFINE E == PairOf(D, s, t)
             S == {s}
  <2>1. S \subseteq Sources /\ E \subseteq Docs /\ \A d \in E : Exists(d) /\ doc[d].source \in S
    BY <1>1 DEF PairOf
  <2>2. Fit(E, S)
    <3> HIDE DEF E, S, present
    <3> QED
      BY <2>1, RowFits
  <2> QED
    BY <2>2
<1> HIDE DEF present, rows
<1>7. ASSUME NEW k \in DOMAIN rows PROVE Cardinality(rows[k].measured) <= rows[k].sample
  <2> HIDE DEF Row
  <2>1. CASE k = <<None, None>> /\ present # {}
    BY <1>2, <1>3, <2>1 DEF IsBreakdown
  <2>2. CASE \E t \in Topics : k = <<None, t>> /\ TopicOf(D, t, present) # {}
    BY <1>2, <1>4, <2>2 DEF IsBreakdown
  <2>3. CASE \E s \in present : k = <<s, None>> /\ SourceOf(D, s) # {}
    BY <1>2, <1>5, <2>3 DEF IsBreakdown
  <2>4. CASE \E s \in present, t \in Topics : k = <<s, t>> /\ PairOf(D, s, t) # {}
    BY <1>2, <1>6, <2>4 DEF IsBreakdown
  <2> QED
    BY <1>2, <2>1, <2>2, <2>3, <2>4 DEF IsBreakdown
<1> QED
  BY <1>7 DEF Fits, rows

\* A sample is one, and adds up rows of the ledger.
LEMMA SampleIsSample ==
  ASSUME Typed, NEW b \in Day, NEW sample, sample = SampleOf(b)
  PROVE  sample \in Samples /\ AddsUp(sample)
<1> DEFINE L(s) == LedgerOf(b, s)
           sum(s) == MapThenSumSet(LAMBDA r : ledger[r][s], L(s))
<1>1. \A s : L(s) \subseteq RunIds /\ IsFiniteSet(L(s)) /\ \A r \in L(s) : ledger[r][s] # None
  <2> SUFFICES ASSUME NEW s PROVE L(s) \subseteq RunIds /\ IsFiniteSet(L(s)) /\ \A r \in L(s) : ledger[r][s] # None
    OBVIOUS
  <2>1. L(s) \subseteq RunIds /\ \A r \in L(s) : ledger[r][s] # None
    BY DEF LedgerOf, RunIds
  <2> QED
    BY <2>1, RunsAreFinite, FS_Subset
<1>2. /\ sample.kept = [s \in Sources |-> sum(s)]
      /\ sample.of = {x \in ({b} \X RunKinds) \X Sources : ledger[x[1]][x[2]] # None}
      /\ sample = [kept |-> sample.kept, of |-> sample.of]
  BY DEF SampleOf
<1>3. \A s \in Sources : RunsOf(sample.of, s) = L(s)
  <2> SUFFICES ASSUME NEW s \in Sources, NEW r \in RunIds
               PROVE  <<r, s>> \in sample.of <=> r \in L(s)
    BY <1>1 DEF RunsOf
  <2>1. <<r, s>>[1] = r /\ <<r, s>>[2] = s
    OBVIOUS
  <2> QED
    BY <1>2, <2>1 DEF LedgerOf
<1>4. \A s : SumsUp(sum(s), KeptBy(s, L(s)), L(s))
  <2> SUFFICES ASSUME NEW s PROVE SumsUp(sum(s), KeptBy(s, L(s)), L(s))
    OBVIOUS
  <2> DEFINE S == L(s)
  <2>1. IsFiniteSet(S)
    BY <1>1
  <2> HIDE DEF S
  <2>2. SumsUp(MapThenSumSet(LAMBDA r : ledger[r][s], S), KeptBy(s, S), S)
    BY <2>1, LedgerAdds
  <2> QED
    BY <2>2 DEF S
<1> HIDE DEF sum
<1>5. ASSUME NEW s \in Sources PROVE sum(s) \in Nat
  <2> DEFINE S == L(s)
             F == KeptBy(s, S)
  <2>1. \A r \in S : F[r] \in Nat
    <3> SUFFICES ASSUME NEW r \in S PROVE F[r] \in Nat
      OBVIOUS
    <3>1. r \in RunIds /\ ledger[r][s] # None
      BY <1>1
    <3>2. ledger[r][s] \in Nat
      BY <3>1 DEF Typed
    <3> HIDE DEF S
    <3> QED
      BY <3>2 DEF KeptBy
  <2>2. SumsUp(sum(s), F, S) /\ IsFiniteSet(S)
    BY <1>1, <1>4
  <2> HIDE DEF F, S
  <2> QED
    BY <2>1, <2>2, SumIsNumber
<1>6. sample \in Samples
  <2>1. sample.of \subseteq RunIds \X Sources
    BY <1>2 DEF RunIds
  <2>2. sample.kept \in [Sources -> Nat]
    BY <1>2, <1>5
  <2> HIDE DEF L
  <2> QED
    BY <1>2, <2>1, <2>2 DEF Samples
<1>7. AddsUp(sample)
  <2>1. \A s \in Sources : \A r \in RunsOf(sample.of, s) : ledger[r][s] # None
    BY <1>1, <1>3
  <2>2. ASSUME NEW s \in Sources
        PROVE  SumsUp(sample.kept[s], KeptBy(s, RunsOf(sample.of, s)), RunsOf(sample.of, s))
    <3>1. sample.kept[s] = sum(s) /\ RunsOf(sample.of, s) = L(s)
      BY <1>2, <1>3
    <3>2. SumsUp(sum(s), KeptBy(s, L(s)), L(s))
      BY <1>4
    <3> HIDE DEF L, SumsUp
    <3> QED
      BY <3>1, <3>2
  <2> QED
    BY <2>1, <2>2 DEF AddsUp
<1> QED
  BY <1>6, <1>7

-----------------------------------------------------------------------------
(* Types.                                                                  *)

LEMMA NoRowsFacts == NoRows \in RowSets /\ DOMAIN NoRows = {}
<1>1. NoRows \in [{} -> MetricRows] /\ DOMAIN NoRows = {}
  BY DEF NoRows
<1>2. {} \in SUBSET Keys
  OBVIOUS
<1> QED
  BY <1>1, <1>2 DEF RowSets

LEMMA IdleFacts ==
  /\ Idle \in Jobs
  /\ Idle.stage = "idle" /\ Idle.rows = NoRows /\ Idle.events = {}
<1>1. NoSample \in Samples
  BY DEF NoSample, Samples
<1>2. 0 \in Day
  BY Constants
<1> QED
  BY <1>1, <1>2, NoRowsFacts DEF Idle, Jobs, Stages

\* The jobs without rows or events.
LEMMA IdleExcept ==
  ASSUME NEW stage \in Stages, NEW todo, todo \subseteq Day, NEW bucket \in Day,
         NEW events, events \subseteq Events,
         NEW j, j = [Idle EXCEPT !.stage = stage, !.todo = todo, !.bucket = bucket, !.events = events]
  PROVE  j \in Jobs /\ j.stage = stage /\ j.rows = NoRows /\ j.events = events
<1>1. Idle \in Jobs /\ Idle.rows = NoRows
  BY IdleFacts
<1> HIDE DEF Idle, NoRows
<1> QED
  BY <1>1 DEF Jobs

LEMMA NextBucketFacts ==
  ASSUME NEW w \in Workers, NEW todo, todo \subseteq Day
  PROVE  /\ NextBucket(w, todo) \in Jobs
         /\ NextBucket(w, todo).stage \in {"rollup", "done", "detect"}
         /\ NextBucket(w, todo).rows = NoRows /\ NextBucket(w, todo).events = {}
<1>1. /\ Idle \in Jobs /\ Idle.rows = NoRows /\ Idle.events = {}
      /\ {"rollup", "done", "detect"} \subseteq Stages
  BY IdleFacts DEF Stages
<1>2. w # Rerun => w \in Day
  BY DEF Workers
<1> HIDE DEF Idle, NoRows, Stages, Samples, Day
<1>3. CASE todo # {}
  BY <1>1, <1>3 DEF Jobs, NextBucket
<1>4. CASE todo = {} /\ w = Rerun
  BY <1>1, <1>4 DEF Jobs, NextBucket
<1>5. CASE todo = {} /\ w # Rerun
  BY <1>1, <1>2, <1>5 DEF Jobs, NextBucket
<1> QED
  BY <1>3, <1>4, <1>5

LEMMA BecomeFacts ==
  ASSUME Typed, NEW w \in Workers, NEW j \in Jobs, Become(w, j)
  PROVE  /\ job' \in [Workers -> Jobs]
         /\ job'[w] = j
         /\ \A v \in Workers \ {w} : job'[v] = job[v]
<1>1. job \in [Workers -> Jobs] /\ job' = [job EXCEPT ![w] = j]
  BY DEF Typed, Become
<1> HIDE DEF Workers, Jobs
<1> QED
  BY <1>1

-----------------------------------------------------------------------------
(* The effects of the steps, as far as the invariants tell them apart.     *)

\* A step of the rollup moves one job that neither has found nor finds events.
Rolls(w, j) ==
  /\ j \in Jobs /\ Become(w, j)
  /\ job[w].stage \in {"idle", "rollup", "rows", "write"}
  /\ j.events = {}
  /\ UNCHANGED <<new, doc, run, ledger, lastDay, today, moves, event, score, skip, insight, late>>

\* All but the grouping and the write also leave the metrics alone.
RollsOn(w, j) ==
  /\ Rolls(w, j) /\ metric' = metric
  /\ Agree(j.rows) /\ Fits(j.rows)
  /\ j.stage = "rows" => AddsUp(j.sample)

LEMMA NoRowsAgree == Agree(NoRows) /\ Fits(NoRows)
BY NoRowsFacts DEF Agree, Fits

LEMMA NextBucketRollsOn ==
  ASSUME NEW w \in Workers, NEW todo, todo \subseteq Day, Become(w, NextBucket(w, todo)),
         job[w].stage \in {"idle", "rollup", "rows", "write"},
         UNCHANGED <<new, doc, run, ledger, lastDay, today, moves, event, score, skip, insight, late>>,
         metric' = metric
  PROVE  \E j : RollsOn(w, j)
<1> DEFINE j == NextBucket(w, todo)
<1>1. j \in Jobs /\ j.stage # "rows" /\ j.rows = NoRows /\ j.events = {}
  BY NextBucketFacts
<1>2. Agree(j.rows) /\ Fits(j.rows)
  BY <1>1, NoRowsAgree
<1>3. Become(w, j)
  OBVIOUS
<1> HIDE DEF j
<1>4. Rolls(w, j)
  BY <1>1, <1>3 DEF Rolls
<1> QED
  BY <1>1, <1>2, <1>4 DEF RollsOn

LEMMA StartPipelineRolls ==
  ASSUME TypeInv, NEW day \in Day, StartPipeline(day)
  PROVE  \E j : RollsOn(day, j)
<1>1. job[day].stage = "idle"
  BY IdleFacts DEF StartPipeline
<1>2. {day} \subseteq Day /\ day \in Workers
  BY DEF Workers
<1> QED
  BY <1>1, <1>2, NextBucketRollsOn DEF StartPipeline, inputs, results

LEMMA StartRerunRolls ==
  ASSUME TypeInv, StartRerun
  PROVE  \E j : RollsOn(Rerun, j)
<1>1. job[Rerun].stage = "idle"
  BY IdleFacts DEF StartRerun
<1>2. {b \in Day : Published(b) # {}} \subseteq Day /\ Rerun \in Workers
  BY DEF Workers
<1> QED
  BY <1>1, <1>2, NextBucketRollsOn DEF StartRerun, inputs, results

LEMMA DeadlockRolls ==
  ASSUME TypeInv, NEW w \in Workers, Deadlock(w)
  PROVE  \E j : RollsOn(w, j)
<1>1. job[w].todo \subseteq Day
  BY DEF TypeInv, Typed, Jobs
<1> QED
  BY <1>1, NextBucketRollsOn DEF Deadlock, inputs, results

LEMMA LoadContextRolls ==
  ASSUME TypeInv, Agreed, Sampled, NEW w \in Workers, NEW b \in Day, LoadContext(w, b)
  PROVE  \E j : RollsOn(w, j)
<1>1. /\ job[w] \in Jobs /\ job[w].stage = "rollup" /\ job[w].todo \subseteq Day
      /\ UNCHANGED <<new, doc, run, ledger, lastDay, today, moves, event, score, skip, insight, late>> /\ metric' = metric
  BY DEF TypeInv, Typed, Jobs, LoadContext, inputs, results
<1>2. CASE Unsupported(b) # {}
  <2>1. job[w].todo \ {b} \subseteq Day
    BY <1>1
  <2>2. Become(w, NextBucket(w, job[w].todo \ {b}))
    BY <1>2 DEF LoadContext
  <2> QED
    BY <1>1, <2>1, <2>2, NextBucketRollsOn
<1>3. CASE Unsupported(b) = {}
  <2> DEFINE j == [job[w] EXCEPT !.stage = "rows", !.todo = @ \ {b}, !.bucket = b, !.sample = SampleOf(b)]
  <2>1. Become(w, j)
    BY <1>3 DEF LoadContext
  <2>2. SampleOf(b) \in Samples /\ AddsUp(SampleOf(b))
    BY SampleIsSample DEF TypeInv
  <2>3. j \in Jobs /\ j.rows = job[w].rows /\ j.events = job[w].events /\ j.sample = SampleOf(b)
    <3>1. "rows" \in Stages
      BY DEF Stages
    <3> HIDE DEF Stages, Samples, RowSets, Events
    <3> QED
      BY <1>1, <2>2, <3>1 DEF Jobs
  <2>4. job[w].events = {}
    BY <1>1 DEF TypeInv, OneEach
  <2>5. Agree(job[w].rows) /\ Fits(job[w].rows)
    BY DEF Agreed, Sampled
  <2> HIDE DEF j
  <2>6. Rolls(w, j)
    BY <1>1, <2>1, <2>3, <2>4 DEF Rolls
  <2>7. RollsOn(w, j)
    BY <1>1, <2>2, <2>3, <2>5, <2>6 DEF RollsOn
  <2> QED
    BY <2>7
<1> QED
  BY <1>2, <1>3

LEMMA LoadRowsRolls ==
  ASSUME TypeInv, Sampled, NEW w \in Workers, LoadRows(w)
  PROVE  \E j : RollsOn(w, j)
<1> DEFINE D == {d \in Published(job[w].bucket) : doc[d].state = "relevant"}
           rows == RowsOf(D, job[w].sample)
           j == [job[w] EXCEPT !.stage = "write", !.rows = rows]
<1>1. /\ job[w] \in Jobs /\ job[w].stage = "rows" /\ Become(w, j)
      /\ UNCHANGED <<new, doc, run, ledger, lastDay, today, moves, event, score, skip, insight, late>> /\ metric' = metric
  BY DEF TypeInv, Typed, LoadRows, inputs, results
<1>2. job[w].sample \in Samples
  BY <1>1 DEF Jobs
<1>3. D \subseteq Docs /\ \A d \in D : Exists(d)
  BY DEF Published
<1>4. AddsUp(job[w].sample) /\ LedgerTrue /\ Typed
  BY <1>1 DEF Sampled, SampleHolds, TypeInv
<1> HIDE DEF D
<1>5. rows \in RowSets /\ Agree(rows) /\ Fits(rows)
  BY <1>2, <1>3, <1>4, RowsAreRows, RowsAgree, RowsFit
<1> HIDE DEF rows
<1>6. j \in Jobs /\ j.rows = rows /\ j.events = job[w].events /\ j.stage = "write"
  <2>1. "write" \in Stages
    BY DEF Stages
  <2> HIDE DEF Stages, Samples, RowSets, Events
  <2> QED
    BY <1>1, <1>5, <2>1 DEF Jobs
<1>7. job[w].events = {}
  BY <1>1 DEF TypeInv, OneEach
<1> HIDE DEF j
<1>8. Rolls(w, j)
  BY <1>1, <1>6, <1>7 DEF Rolls
<1>9. RollsOn(w, j)
  BY <1>1, <1>5, <1>6, <1>8 DEF RollsOn
<1> QED
  BY <1>9

\* The write replaces the rows of one bucket by those of the job.
LEMMA WriteRolls ==
  ASSUME TypeInv, NEW w \in Workers, Write(w)
  PROVE  \E j : /\ Rolls(w, j)
                /\ j.rows = NoRows /\ j.stage # "rows"
                /\ \E b \in Day : metric' = [metric EXCEPT ![b] = job[w].rows]
<1> DEFINE j == NextBucket(w, job[w].todo)
<1>1. /\ job[w].todo \subseteq Day /\ job[w].bucket \in Day
      /\ UNCHANGED <<new, doc, run, ledger, lastDay, today, moves, event, score, skip, insight, late>>
  BY DEF TypeInv, Typed, Jobs, Write, inputs, results
<1>2. j \in Jobs /\ j.stage # "rows" /\ j.rows = NoRows /\ j.events = {}
  BY <1>1, NextBucketFacts
<1>3. Become(w, j) /\ job[w].stage = "write"
  BY DEF Write
<1> HIDE DEF j
<1>4. Rolls(w, j)
  BY <1>1, <1>2, <1>3 DEF Rolls
<1> QED
  BY <1>1, <1>2, <1>4 DEF Write

\* Whoever is not cooling has no event of the kind within the cooldown.
LEMMA NotCooling ==
  ASSUME Typed, NEW t, NEW kind, NEW b \in Day, ~Cooling(t, kind, b),
         NEW e \in event, e.topic = t, e.kind = kind, e.day < b
  PROVE  ~(b - e.day < CooldownDays)
<1> DEFINE dates == {x.day : x \in {f \in event : /\ f.topic = t /\ f.kind = kind
                                                  /\ f.day < b /\ f.day + 4 * CooldownDays >= b}}
           last == CHOOSE x \in dates : \A y \in dates : y <= x
<1> SUFFICES ASSUME b - e.day < CooldownDays PROVE FALSE
  OBVIOUS
<1>1. e.day \in Nat /\ b \in Nat /\ CooldownDays \in Nat
  BY Constants DEF Typed, Events
<1>2. e.day + 4 * CooldownDays >= b
  BY <1>1
<1>3. e.day \in dates
  BY <1>2
<1>4. IsFiniteSet(dates) /\ \A x \in dates : x \in Nat
  <2>1. dates \subseteq Day
    BY DEF Typed, Events
  <2>2. IsFiniteSet(Day)
    BY Constants, FS_Interval DEF Day
  <2> HIDE DEF dates
  <2> QED
    BY <2>1, <2>2, Constants, FS_Subset
<1>5. dates # {} /\ b - last < CooldownDays => Cooling(t, kind, b)
  BY DEF Cooling
<1> HIDE DEF dates
<1>6. last \in dates /\ \A y \in dates : y <= last
  BY <1>3, <1>4, Extremes
<1> HIDE DEF last
<1>7. e.day <= last /\ last \in Nat
  BY <1>3, <1>4, <1>6
<1>8. b - last < CooldownDays
  BY <1>1, <1>7
<1> QED
  BY <1>3, <1>5, <1>8

\* Detection finds events of its own day, one of a kind for a topic, with
\* evidence, and a cooldown after what has been written.
Detects(day, j) ==
  /\ j \in Jobs /\ Become(day, j)
  /\ job[day].stage = "detect" /\ j.rows = NoRows /\ j.stage # "rows"
  /\ \A f \in j.events : /\ f.day = day /\ j.stage = "events" /\ f.evidence # {}
                         /\ \A e \in event : ~Cools(e, f)
  /\ \A e, f \in j.events : e.topic = f.topic /\ e.kind = f.kind => e = f
  /\ UNCHANGED <<new, doc, run, ledger, lastDay, today, moves, metric, event, score, skip, insight, late>>

LEMMA DetectDetects ==
  ASSUME TypeInv, NEW day \in Day, Detect(day)
  PROVE  \E j : Detects(day, j)
<1>1. PICK found \in [Topics -> SUBSET EventKinds] :
        LET kept == UNION {{<<t, k>> : k \in {l \in found[t] : ~Cooling(t, l, day)}} : t \in Topics} IN
          Become(day, IF \E x \in kept : EvidenceFor(x[1], x[2], day) = {}
                      THEN [Idle EXCEPT !.stage = "failed"]
                      ELSE [Idle EXCEPT !.stage = "events", !.bucket = day,
                              !.events = {[topic |-> x[1], day |-> day, kind |-> x[2],
                                           evidence |-> EvidenceFor(x[1], x[2], day)] : x \in kept}])
  BY DEF Detect
<1> DEFINE kept == UNION {{<<t, k>> : k \in {l \in found[t] : ~Cooling(t, l, day)}} : t \in Topics}
           ev(x) == [topic |-> x[1], day |-> day, kind |-> x[2], evidence |-> EvidenceFor(x[1], x[2], day)]
           evs == {ev(x) : x \in kept}
           failed == [Idle EXCEPT !.stage = "failed"]
           going == [Idle EXCEPT !.stage = "events", !.bucket = day, !.events = evs]
<1>2. job[day].stage = "detect" /\ UNCHANGED <<new, doc, run, ledger, lastDay, today, moves, metric, event, score, skip, insight, late>>
  BY DEF Detect, inputs, results
<1>3. Idle \in Jobs /\ Idle.rows = NoRows /\ Idle.events = {} /\ {"failed", "events"} \subseteq Stages
  BY IdleFacts DEF Stages
<1>4. \A x \in kept : x[1] \in Topics /\ x[2] \in EventKinds /\ x = <<x[1], x[2]>> /\ ~Cooling(x[1], x[2], day)
  OBVIOUS
<1>5. CASE \E x \in kept : EvidenceFor(x[1], x[2], day) = {}
  <2>1. Become(day, failed)
    BY <1>1, <1>5
  <2>2. failed \in Jobs /\ failed.rows = NoRows /\ failed.events = {} /\ failed.stage = "failed"
    <3> HIDE DEF Idle, NoRows, Stages, Samples, RowSets, Events, Day
    <3> QED
      BY <1>3 DEF Jobs
  <2> HIDE DEF failed, kept
  <2>3. Detects(day, failed)
    BY <1>2, <2>1, <2>2 DEF Detects
  <2> QED
    BY <2>3
<1>6. CASE \A x \in kept : EvidenceFor(x[1], x[2], day) # {}
  <2>1. Become(day, going)
    BY <1>1, <1>6
  <2>2. \A x \in kept : /\ ev(x) \in Events /\ ev(x).topic = x[1] /\ ev(x).kind = x[2] /\ ev(x).day = day
                        /\ ev(x).evidence = EvidenceFor(x[1], x[2], day)
    <3>1. \A x : EvidenceFor(x[1], x[2], day) \in SUBSET Docs
      BY DEF EvidenceFor
    <3> HIDE DEF kept, EvidenceFor
    <3> QED
      BY <1>4, <3>1 DEF Events
  <2>3. evs \subseteq Events
    <3> HIDE DEF ev
    <3> QED
      BY <2>2
  <2>4. going \in Jobs /\ going.rows = NoRows /\ going.events = evs /\ going.stage = "events"
    <3> HIDE DEF Idle, NoRows, Stages, Samples, RowSets, Events, evs, Day
    <3> QED
      BY <1>3, <2>3 DEF Jobs
  <2> HIDE DEF going, kept, ev
  <2>5. \A f \in evs : f.day = day /\ f.evidence # {}
    BY <1>6, <2>2
  <2>6. \A f \in evs : \A e \in event : ~Cools(e, f)
    <3> SUFFICES ASSUME NEW x \in kept, NEW e \in event, Cools(e, ev(x)) PROVE FALSE
      OBVIOUS
    <3>1. e.topic = x[1] /\ e.kind = x[2] /\ e.day < day /\ day - e.day < CooldownDays
      BY <2>2 DEF Cools
    <3> QED
      BY <1>4, <3>1, NotCooling DEF TypeInv
  <2>7. \A e, f \in evs : e.topic = f.topic /\ e.kind = f.kind => e = f
    BY <1>4, <2>2
  <2>8. Detects(day, going)
    BY <1>2, <2>1, <2>4, <2>5, <2>6, <2>7 DEF Detects
  <2> QED
    BY <2>8
<1> QED
  BY <1>5, <1>6

\* The steps after detection move one job on, without rows or events.
MovesOn(day, j, stage) ==
  /\ j \in Jobs /\ Become(day, j)
  /\ j.stage = stage /\ j.rows = NoRows /\ j.events = {}
  /\ UNCHANGED <<new, doc, run, ledger, lastDay, today, moves, metric>>

LEMMA IdleMovesOn ==
  ASSUME NEW day \in Day, NEW stage \in Stages,
         Become(day, [Idle EXCEPT !.stage = stage, !.bucket = day]) \/ Become(day, [Idle EXCEPT !.stage = stage]),
         UNCHANGED <<new, doc, run, ledger, lastDay, today, moves, metric>>
  PROVE  \E j : MovesOn(day, j, stage)
<1> DEFINE j == [Idle EXCEPT !.stage = stage, !.bucket = day]
           k == [Idle EXCEPT !.stage = stage]
<1>1. Idle \in Jobs /\ Idle.rows = NoRows /\ Idle.events = {}
  BY IdleFacts
<1>2. j \in Jobs /\ j.rows = NoRows /\ j.events = {} /\ j.stage = stage
  <2> HIDE DEF Idle, NoRows, Stages, Samples, RowSets, Events, Day
  <2> QED
    BY <1>1 DEF Jobs
<1>3. k \in Jobs /\ k.rows = NoRows /\ k.events = {} /\ k.stage = stage
  <2> HIDE DEF Idle, NoRows, Stages, Samples, RowSets, Events, Day
  <2> QED
    BY <1>1 DEF Jobs
<1>4. Become(day, j) \/ Become(day, k)
  OBVIOUS
<1> HIDE DEF j, k
<1>5. MovesOn(day, j, stage) \/ MovesOn(day, k, stage)
  BY <1>2, <1>3, <1>4 DEF MovesOn
<1> QED
  BY <1>5

\* The steps beside the pipeline leave its state alone, keep their own typed,
\* and take no ledger row back.
Inputs ==
  /\ UNCHANGED analytics
  /\ doc' \in [Docs -> DocRows] /\ run' \in [RunIds -> Statuses] /\ today' \in Day /\ moves' \in 0 .. MaxMoves
  /\ ledger' \in [RunIds -> [Sources -> Nat \cup {None}]]
  /\ \A r \in RunIds, s \in Sources : ledger[r][s] # None => ledger'[r][s] = ledger[r][s]
  /\ LedgerTrue'

\* Without a new row the ledger stays true if what its rows count stays.
LEMMA LedgerStaysTrue ==
  ASSUME LedgerTrue, ledger' = ledger,
         \A r \in RunIds, s \in Sources : ledger[r][s] # None => Awaiting(r, s)' = Awaiting(r, s)
  PROVE  LedgerTrue'
<1> SUFFICES ASSUME NEW r \in RunIds, NEW s \in Sources, ledger[r][s] # None
             PROVE  ledger[r][s] = Cardinality(Awaiting(r, s)')
  BY DEF LedgerTrue
<1>1. Awaiting(r, s)' = Awaiting(r, s) /\ ledger[r][s] = Cardinality(Awaiting(r, s))
  BY DEF LedgerTrue
<1> HIDE DEF Awaiting
<1> QED
  BY <1>1

\* What is compared of a document when its ledger row is.
LEMMA AwaitingSame ==
  ASSUME NEW r, NEW s,
         \A d \in Docs : (doc'[d].state # "absent" /\ doc'[d].run = r /\ doc'[d].source = s)
                     <=> (doc[d].state # "absent" /\ doc[d].run = r /\ doc[d].source = s)
  PROVE  Awaiting(r, s)' = Awaiting(r, s)
BY DEF Awaiting, Exists

LEMMA LedgerStands ==
  ASSUME LedgerTrue, UNCHANGED <<doc, ledger>>
  PROVE  LedgerTrue'
BY AwaitingSame, LedgerStaysTrue

LEMMA NextDayInputs ==
  ASSUME TypeInv, Sampled, NextDay
  PROVE  Inputs
<1>1. today \in Day /\ lastDay \in Day /\ today < lastDay /\ today' = today + 1
  BY DEF TypeInv, Typed, NextDay
<1>2. today' \in Day
  BY <1>1, Constants DEF Day
<1>3. UNCHANGED <<doc, run, ledger, moves, analytics>>
  BY DEF NextDay
<1>4. LedgerTrue'
  BY <1>3, AwaitingSame, LedgerStaysTrue DEF Sampled
<1> QED
  BY <1>2, <1>3, <1>4 DEF Inputs, TypeInv, Typed

LEMMA OpenInputs ==
  ASSUME TypeInv, Sampled, NEW r \in RunIds, Open(r)
  PROVE  Inputs
<1>1. run' = [run EXCEPT ![r] = "open"] /\ UNCHANGED <<doc, ledger, today, moves, analytics>>
  BY DEF Open
<1>2. run' \in [RunIds -> Statuses]
  BY <1>1 DEF TypeInv, Typed, Statuses
<1>3. LedgerTrue'
  BY <1>1, AwaitingSame, LedgerStaysTrue DEF Sampled
<1> QED
  BY <1>1, <1>2, <1>3 DEF Inputs, TypeInv, Typed

LEMMA FinaliseInputs ==
  ASSUME TypeInv, Sampled, NEW r \in RunIds, Finalise(r)
  PROVE  Inputs
<1>1. /\ \E status \in {"complete", "partial", "failed"} : run' = [run EXCEPT ![r] = status]
      /\ UNCHANGED <<doc, ledger, today, moves, analytics>>
  BY DEF Finalise
<1>2. run' \in [RunIds -> Statuses]
  BY <1>1 DEF TypeInv, Typed, Statuses
<1>3. LedgerTrue'
  BY <1>1, AwaitingSame, LedgerStaysTrue DEF Sampled
<1> QED
  BY <1>1, <1>2, <1>3 DEF Inputs, TypeInv, Typed

\* Whoever is to be refused its row adds to no row, and whoever is not adds to
\* one that is not there.
LEMMA PersistInputs ==
  ASSUME TypeInv, Sampled, NEW r \in RunIds, NEW s \in Sources, Persist(r, s)
  PROVE  Inputs
<1>1. /\ doc \in [Docs -> DocRows] /\ run \in [RunIds -> Statuses] /\ today \in Day /\ moves \in 0 .. MaxMoves
      /\ UNCHANGED <<run, ledger, today, moves, analytics>>
  BY DEF TypeInv, Typed, Persist
<1>2. PICK D \in (SUBSET {d \in Docs : doc[d].state = "absent"}) \ {{}} :
        \E slot \in [D -> {h \in Slot : UtcDay(h) <= today /\ BucketOf(h) <= lastDay}] :
          doc' = [d \in Docs |-> IF d \in D
                    THEN [state |-> "stored", slot |-> slot[d], topic |-> None, source |-> s,
                          run |-> IF ledger[r][s] = None THEN r ELSE None]
                    ELSE doc[d]]
  BY DEF Persist
<1>3. PICK slot \in [D -> {h \in Slot : UtcDay(h) <= today /\ BucketOf(h) <= lastDay}] :
          doc' = [d \in Docs |-> IF d \in D
                    THEN [state |-> "stored", slot |-> slot[d], topic |-> None, source |-> s,
                          run |-> IF ledger[r][s] = None THEN r ELSE None]
                    ELSE doc[d]]
  BY <1>2
<1> DEFINE by == IF ledger[r][s] = None THEN r ELSE None
<1>4. doc' \in [Docs -> DocRows]
  <2>1. (\A d \in D : slot[d] \in Slot) /\ by \in RunIds \cup {None}
    OBVIOUS
  <2> HIDE DEF Slot, RunIds, by
  <2>2. \A d \in D : [state |-> "stored", slot |-> slot[d], topic |-> None, source |-> s, run |-> by] \in DocRows
    BY <2>1 DEF DocRows
  <2> QED
    BY <1>1, <1>3, <2>2 DEF by
<1>5. ASSUME NEW q \in RunIds, NEW u \in Sources, ledger[q][u] # None
      PROVE  Awaiting(q, u)' = Awaiting(q, u)
  <2>1. by # q \/ s # u
    BY <1>5, Constants
  <2> HIDE DEF by
  <2>2. ASSUME NEW d \in Docs
        PROVE  (doc'[d].state # "absent" /\ doc'[d].run = q /\ doc'[d].source = u)
                 <=> (doc[d].state # "absent" /\ doc[d].run = q /\ doc[d].source = u)
    <3>1. CASE d \in D
      <4>1. doc'[d].run = by /\ doc'[d].source = s /\ doc[d].state = "absent"
        BY <1>2, <1>3, <3>1 DEF by
      <4> QED
        BY <2>1, <4>1
    <3>2. CASE d \notin D
      BY <1>3, <3>2
    <3> QED
      BY <3>1, <3>2
  <2> QED
    BY <2>2, AwaitingSame
<1>6. LedgerTrue'
  BY <1>1, <1>5, LedgerStaysTrue DEF Sampled
<1> QED
  BY <1>1, <1>4, <1>6 DEF Inputs, TypeInv, Typed

\* The row counts those documents that keep the run as the one that counts them.
LEMMA WriteRowInputs ==
  ASSUME TypeInv, Sampled, NEW r \in RunIds, NEW s \in Sources, WriteRow(r, s)
  PROVE  Inputs
<1>1. /\ doc \in [Docs -> DocRows] /\ ledger \in [RunIds -> [Sources -> Nat \cup {None}]]
      /\ run[r] = "open" /\ ledger[r][s] = None
      /\ UNCHANGED <<run, today, moves, analytics>>
  BY DEF TypeInv, Typed, WriteRow
<1>2. PICK D \in SUBSET Awaiting(r, s) :
        /\ ledger' = [ledger EXCEPT ![r][s] = Cardinality(D)]
        /\ doc' = [d \in Docs |-> IF d \in Awaiting(r, s) \ D THEN [doc[d] EXCEPT !.run = None] ELSE doc[d]]
  BY DEF WriteRow
<1> DEFINE lost == Awaiting(r, s) \ D
<1>3. D \subseteq Docs /\ Cardinality(D) \in Nat
  <2>1. D \subseteq Docs
    BY DEF Awaiting
  <2> QED
    BY <2>1, Constants, FS_Subset, FS_CardinalityType
<1>4. \A d \in Awaiting(r, s) : d \in Docs /\ doc[d].state # "absent" /\ doc[d].run = r /\ doc[d].source = s
  BY DEF Awaiting, Exists
<1>5. \A d \in Docs :
        /\ doc'[d] \in DocRows /\ doc'[d].state = doc[d].state /\ doc'[d].source = doc[d].source
        /\ doc'[d].run = IF d \in lost THEN None ELSE doc[d].run
  <2> SUFFICES ASSUME NEW d \in Docs
               PROVE  /\ doc'[d] \in DocRows /\ doc'[d].state = doc[d].state /\ doc'[d].source = doc[d].source
                      /\ doc'[d].run = IF d \in lost THEN None ELSE doc[d].run
    OBVIOUS
  <2>1. doc[d] \in DocRows /\ doc'[d] = IF d \in lost THEN [doc[d] EXCEPT !.run = None] ELSE doc[d]
    BY <1>1, <1>2
  <2> HIDE DEF lost, Slot, RunIds
  <2> QED
    BY <2>1 DEF DocRows
<1>6. doc' \in [Docs -> DocRows]
  <2>1. doc' = [d \in Docs |-> doc'[d]]
    BY <1>2
  <2> HIDE DEF lost, DocRows
  <2> QED
    BY <1>5, <2>1
<1>7. /\ ledger' \in [RunIds -> [Sources -> Nat \cup {None}]] /\ ledger'[r][s] = Cardinality(D)
      /\ \A q \in RunIds, u \in Sources : q # r \/ u # s => ledger'[q][u] = ledger[q][u]
  <2> HIDE DEF RunIds
  <2> QED
    BY <1>1, <1>2, <1>3
<1>8. LedgerTrue'
  <2> SUFFICES ASSUME NEW q \in RunIds, NEW u \in Sources, ledger'[q][u] # None
               PROVE  ledger'[q][u] = Cardinality(Awaiting(q, u)')
    BY DEF LedgerTrue
  <2>1. CASE q = r /\ u = s
    <3>1. Awaiting(r, s)' = {d \in Docs : doc'[d].state # "absent" /\ doc'[d].run = r /\ doc'[d].source = s}
      BY DEF Awaiting, Exists
    <3>2. ASSUME NEW d \in Docs
          PROVE  doc'[d].state # "absent" /\ doc'[d].run = r /\ doc'[d].source = s <=> d \in D
      <4>1. d \in D => d \in Awaiting(r, s) /\ d \notin lost
        OBVIOUS
      <4>2. d \notin D => d \in lost \/ d \notin Awaiting(r, s)
        OBVIOUS
      <4>3. d \in Awaiting(r, s) <=> doc[d].state # "absent" /\ doc[d].run = r /\ doc[d].source = s
        BY DEF Awaiting, Exists
      <4> HIDE DEF lost, Awaiting
      <4> QED
        BY <1>5, <4>1, <4>2, <4>3, Constants
    <3>3. Awaiting(r, s)' = D
      BY <1>3, <3>1, <3>2
    <3> QED
      BY <1>7, <2>1, <3>3
  <2>2. CASE q # r \/ u # s
    <3>1. ledger[q][u] # None /\ ledger'[q][u] = ledger[q][u] /\ ledger[q][u] = Cardinality(Awaiting(q, u))
      BY <1>7, <2>2 DEF Sampled, LedgerTrue
    <3>2. Awaiting(q, u)' = Awaiting(q, u)
      <4>1. ASSUME NEW d \in Docs
            PROVE  (doc'[d].state # "absent" /\ doc'[d].run = q /\ doc'[d].source = u)
                     <=> (doc[d].state # "absent" /\ doc[d].run = q /\ doc[d].source = u)
        <5>1. CASE d \in lost
          <6>1. doc[d].run = r /\ doc[d].source = s /\ doc'[d].run = None /\ None # q
            BY <1>4, <1>5, <5>1, Constants
          <6> QED
            BY <1>5, <2>2, <6>1
        <5>2. CASE d \notin lost
          BY <1>5, <5>2
        <5> QED
          BY <5>1, <5>2
      <4> QED
        BY <4>1, AwaitingSame
    <3> HIDE DEF Awaiting
    <3> QED
      BY <3>1, <3>2
  <2> QED
    BY <2>1, <2>2
<1>9. \A q \in RunIds, u \in Sources : ledger[q][u] # None => ledger'[q][u] = ledger[q][u]
  BY <1>1, <1>7
<1> QED
  BY <1>1, <1>6, <1>7, <1>8, <1>9 DEF Inputs, TypeInv, Typed

LEMMA AnnotateInputs ==
  ASSUME TypeInv, Sampled, NEW d \in Docs, Annotate(d)
  PROVE  Inputs
<1>1. /\ doc \in [Docs -> DocRows] /\ run \in [RunIds -> Statuses] /\ today \in Day /\ moves \in 0 .. MaxMoves
      /\ doc[d].state # "absent" /\ moves < MaxMoves /\ moves' = moves + 1
      /\ UNCHANGED <<run, ledger, today, analytics>>
  BY DEF TypeInv, Typed, Annotate, Exists
<1>2. PICK state \in {"stored", "relevant"}, t \in Topics \cup {None} :
        doc' = [doc EXCEPT ![d].state = state, ![d].topic = t]
  BY DEF Annotate
<1>3. /\ doc' \in [Docs -> DocRows]
      /\ \A x \in Docs : /\ doc'[x].run = doc[x].run /\ doc'[x].source = doc[x].source
                         /\ doc'[x].state = "absent" <=> doc[x].state = "absent"
  <2>1. doc[d] \in DocRows
    BY <1>1
  <2>2. /\ [[doc[d] EXCEPT !.state = state] EXCEPT !.topic = t] \in DocRows
        /\ [[doc[d] EXCEPT !.state = state] EXCEPT !.topic = t].run = doc[d].run
        /\ [[doc[d] EXCEPT !.state = state] EXCEPT !.topic = t].source = doc[d].source
        /\ [[doc[d] EXCEPT !.state = state] EXCEPT !.topic = t].state = state
    <3> HIDE DEF Slot, RunIds
    <3> QED
      BY <2>1 DEF DocRows
  <2>3. doc' = [doc EXCEPT ![d] = [[doc[d] EXCEPT !.state = state] EXCEPT !.topic = t]]
    <3> HIDE DEF DocRows
    <3> QED
      BY <1>1, <1>2
  <2> HIDE DEF DocRows
  <2> QED
    BY <1>1, <2>2, <2>3
<1>4. LedgerTrue'
  <2>1. \A q, s : Awaiting(q, s)' = Awaiting(q, s)
    BY <1>3, AwaitingSame
  <2> QED
    BY <1>1, <2>1, LedgerStaysTrue DEF Sampled
<1>5. moves' \in 0 .. MaxMoves
  BY <1>1, Constants
<1> QED
  BY <1>1, <1>3, <1>4, <1>5 DEF Inputs, TypeInv, Typed

\* A sample adds up the same rows as long as they stay.
LEMMA AddsUpStays ==
  ASSUME NEW sample, sample' = sample, AddsUp(sample),
         \A r \in RunIds, s \in Sources : ledger[r][s] # None => ledger'[r][s] = ledger[r][s]
  PROVE  AddsUp(sample)'
<1>1. ASSUME NEW s \in Sources
      PROVE  /\ \A r \in RunsOf(sample.of, s) : ledger'[r][s] # None
             /\ KeptBy(s, RunsOf(sample.of, s))' = KeptBy(s, RunsOf(sample.of, s))
             /\ RunsOf(sample.of, s)' = RunsOf(sample.of, s)
  <2>1. \A r \in RunsOf(sample.of, s) : r \in RunIds /\ ledger[r][s] # None
    BY DEF AddsUp, RunsOf
  <2>2. RunsOf(sample.of, s)' = RunsOf(sample.of, s)
    BY DEF RunsOf
  <2> HIDE DEF RunsOf
  <2> QED
    BY <2>1, <2>2 DEF KeptBy
<1>2. \A s \in Sources : SumsUp(sample.kept[s], KeptBy(s, RunsOf(sample.of, s)), RunsOf(sample.of, s))
  BY DEF AddsUp
<1> QED
  BY <1>1, <1>2 DEF AddsUp

\* Such a step keeps every invariant.
LEMMA InputsKeep ==
  ASSUME TypeInv, Cooled, Agreed, Sampled, Inputs
  PROVE  TypeInv' /\ Cooled' /\ Agreed' /\ Sampled'
<1>1. UNCHANGED <<new, lastDay, metric, event, score, skip, insight, job, late>>
  BY DEF Inputs, analytics
<1>2. Typed'
  BY <1>1 DEF Inputs, TypeInv, Typed
<1>3. OneEach'
  BY <1>1 DEF TypeInv, OneEach
<1>4. Cooled'
  BY <1>1 DEF Cooled
<1>5. Agreed'
  BY <1>1 DEF Agreed
<1>6. Sampled'
  <2>1. \A b \in Day : Fits(metric'[b])
    BY <1>1 DEF Sampled
  <2>2. ASSUME NEW w \in Workers PROVE Fits(job'[w].rows) /\ SampleHolds(w)'
    <3>1. Fits(job[w].rows) /\ SampleHolds(w) /\ job'[w] = job[w]
      BY <1>1 DEF Sampled
    <3>2. CASE job[w].stage = "rows"
      <4> DEFINE sample == job[w].sample
      <4>1. AddsUp(sample)
        BY <3>1, <3>2 DEF SampleHolds
      <4>2. AddsUp(sample)'
        BY <3>1, <4>1, AddsUpStays DEF Inputs
      <4> QED
        BY <3>1, <4>2 DEF SampleHolds
    <3>3. CASE job[w].stage # "rows"
      BY <3>1, <3>3 DEF SampleHolds
    <3> QED
      BY <3>1, <3>2, <3>3
  <2>3. LedgerTrue'
    BY DEF Inputs
  <2> QED
    BY <2>1, <2>2, <2>3 DEF Sampled
<1> QED
  BY <1>2, <1>3, <1>4, <1>5, <1>6 DEF TypeInv

-----------------------------------------------------------------------------
(* The steps of the pipeline keep the invariants.                          *)

\* A step of the rollup keeps what is written and what is under way.
LEMMA RollsKeep ==
  ASSUME TypeInv, Cooled, NEW w \in Workers, NEW j, Rolls(w, j), metric' \in [Day -> RowSets]
  PROVE  TypeInv' /\ Cooled'
<1>1. /\ job' \in [Workers -> Jobs] /\ job'[w] = j /\ \A v \in Workers \ {w} : job'[v] = job[v]
  BY BecomeFacts DEF Rolls, TypeInv
<1>2. /\ UNCHANGED <<new, doc, run, ledger, lastDay, today, moves, event, score, skip, insight, late>>
      /\ j.events = {} /\ job[w].stage \in {"idle", "rollup", "rows", "write"}
  BY DEF Rolls
<1>3. Typed'
  BY <1>1, <1>2 DEF TypeInv, Typed
<1>4. OneEach'
  <2>1. \A v \in Workers : job'[v].events = {} \/ job'[v] = job[v]
    BY <1>1, <1>2
  <2> QED
    BY <1>2, <2>1 DEF TypeInv, OneEach
<1>5. Cooled'
  <2>1. ASSUME NEW e \in event PROVE job'[e.day].stage \in {"score", "insights", "done"}
    <3>1. job[e.day].stage \in {"score", "insights", "done"} /\ e.day \in Workers
      BY DEF Cooled, TypeInv, Typed, Events, Workers
    <3>2. e.day # w
      BY <1>2, <3>1
    <3> QED
      BY <1>1, <3>1, <3>2
  <2>2. \A v \in Workers : job'[v].events = {} \/ job'[v] = job[v]
    BY <1>1, <1>2
  <2> QED
    BY <1>2, <2>1, <2>2 DEF Cooled
<1> QED
  BY <1>3, <1>4, <1>5 DEF TypeInv

\* The samples in use stay true while no ledger row changes and no job takes up
\* another.
LEMMA SamplesKeep ==
  ASSUME Sampled, NEW w \in Workers, UNCHANGED <<doc, run, ledger>>,
         \A v \in Workers \ {w} : job'[v] = job[v],
         job'[w].stage # "rows", NEW v \in Workers
  PROVE  SampleHolds(v)'
<1>1. CASE v = w
  BY <1>1 DEF SampleHolds
<1>2. CASE v # w
  <2>1. job'[v] = job[v] /\ SampleHolds(v)
    BY <1>2 DEF Sampled
  <2>2. job[v].stage = "rows" => AddsUp(job[v].sample)'
    BY <2>1, AddsUpStays DEF SampleHolds
  <2> QED
    BY <2>1, <2>2 DEF SampleHolds
<1> QED
  BY <1>1, <1>2

LEMMA RollsOnKeeps ==
  ASSUME TypeInv, Cooled, Agreed, Sampled, NEW w \in Workers, NEW j, RollsOn(w, j)
  PROVE  TypeInv' /\ Cooled' /\ Agreed' /\ Sampled'
<1>1. /\ job' \in [Workers -> Jobs] /\ job'[w] = j /\ \A v \in Workers \ {w} : job'[v] = job[v]
  BY BecomeFacts DEF RollsOn, Rolls, TypeInv
<1>2. UNCHANGED <<doc, run, ledger, metric>> /\ Agree(j.rows) /\ Fits(j.rows)
  BY DEF RollsOn, Rolls
<1>3. TypeInv' /\ Cooled'
  BY <1>2, RollsKeep DEF RollsOn, TypeInv, Typed
<1>4. Agreed'
  BY <1>1, <1>2 DEF Agreed
<1>5. \A v \in Workers : Fits(job'[v].rows)
  BY <1>1, <1>2 DEF Sampled
<1>6. ASSUME NEW v \in Workers PROVE SampleHolds(v)'
  <2>1. ledger' = ledger /\ \A s, S : KeptBy(s, S)' = KeptBy(s, S) /\ RunsOf(S, s)' = RunsOf(S, s)
    BY <1>2 DEF KeptBy, RunsOf
  <2>2. CASE v = w
    <3>1. j.stage = "rows" => AddsUp(j.sample)
      BY DEF RollsOn
    <3>2. job'[v] = j
      BY <1>1, <2>2
    <3> QED
      BY <2>1, <3>1, <3>2 DEF SampleHolds, AddsUp
  <2>3. CASE v # w
    <3>1. job'[v] = job[v] /\ SampleHolds(v)
      BY <1>1, <2>3 DEF Sampled
    <3> QED
      BY <2>1, <3>1 DEF SampleHolds, AddsUp
  <2> QED
    BY <2>2, <2>3
<1>7. Sampled'
  BY <1>2, <1>5, <1>6, LedgerStands DEF Sampled
<1> QED
  BY <1>3, <1>4, <1>7

LEMMA WriteKeeps ==
  ASSUME TypeInv, Cooled, Agreed, Sampled, NEW w \in Workers, Write(w)
  PROVE  TypeInv' /\ Cooled' /\ Agreed' /\ Sampled'
<1>1. PICK j : /\ Rolls(w, j) /\ j.rows = NoRows /\ j.stage # "rows"
               /\ \E b \in Day : metric' = [metric EXCEPT ![b] = job[w].rows]
  BY WriteRolls
<1>2. PICK b \in Day : metric' = [metric EXCEPT ![b] = job[w].rows]
  BY <1>1
<1>3. /\ job' \in [Workers -> Jobs] /\ job'[w] = j /\ \A v \in Workers \ {w} : job'[v] = job[v]
  BY <1>1, BecomeFacts DEF Rolls, TypeInv
<1>4. UNCHANGED <<doc, run, ledger>>
  BY <1>1 DEF Rolls
<1>5. job[w].rows \in RowSets /\ metric \in [Day -> RowSets]
  BY DEF TypeInv, Typed, Jobs
<1>6. metric' \in [Day -> RowSets]
  BY <1>2, <1>5
<1>7. \A c \in Day : metric'[c] = job[w].rows \/ metric'[c] = metric[c]
  BY <1>2, <1>5
<1>8. \A v \in Workers : job'[v].rows = job[v].rows \/ job'[v].rows = NoRows
  BY <1>1, <1>3
<1>9. TypeInv' /\ Cooled'
  BY <1>1, <1>6, RollsKeep
<1>10. Agreed'
  BY <1>7, <1>8, NoRowsAgree DEF Agreed
<1>11. Sampled'
  <2>1. \A v \in Workers : SampleHolds(v)'
    BY <1>1, <1>3, <1>4, SamplesKeep
  <2>2. (\A c \in Day : Fits(metric'[c])) /\ \A v \in Workers : Fits(job'[v].rows)
    BY <1>7, <1>8, NoRowsAgree DEF Sampled
  <2>3. LedgerTrue'
    BY <1>4, LedgerStands DEF Sampled
  <2> QED
    BY <2>1, <2>2, <2>3 DEF Sampled
<1> QED
  BY <1>9, <1>10, <1>11

\* What a step that leaves the metrics alone and takes up no sample keeps.
LEMMA RowsKeep ==
  ASSUME TypeInv, Agreed, Sampled, NEW w \in Workers, NEW j \in Jobs, Become(w, j),
         j.rows = NoRows, j.stage # "rows", UNCHANGED <<doc, run, ledger, metric>>
  PROVE  Agreed' /\ Sampled'
<1>1. /\ job' \in [Workers -> Jobs] /\ job'[w] = j /\ \A v \in Workers \ {w} : job'[v] = job[v]
  BY BecomeFacts DEF TypeInv
<1>2. \A v \in Workers : job'[v].rows = job[v].rows \/ job'[v].rows = NoRows
  BY <1>1
<1>3. Agreed'
  BY <1>2, NoRowsAgree DEF Agreed
<1>4. Sampled'
  <2>1. \A v \in Workers : SampleHolds(v)'
    BY <1>1, SamplesKeep
  <2>2. (\A c \in Day : Fits(metric'[c])) /\ \A v \in Workers : Fits(job'[v].rows)
    BY <1>2, NoRowsAgree DEF Sampled
  <2>3. LedgerTrue'
    BY LedgerStands DEF Sampled
  <2> QED
    BY <2>1, <2>2, <2>3 DEF Sampled
<1> QED
  BY <1>3, <1>4

LEMMA DetectsKeeps ==
  ASSUME TypeInv, Cooled, Agreed, Sampled, NEW day \in Day, NEW j, Detects(day, j)
  PROVE  TypeInv' /\ Cooled' /\ Agreed' /\ Sampled'
<1>0. day \in Workers
  BY DEF Workers
<1>1. /\ job' \in [Workers -> Jobs] /\ job'[day] = j /\ \A v \in Workers \ {day} : job'[v] = job[v]
  BY <1>0, BecomeFacts DEF Detects, TypeInv
<1>2. /\ UNCHANGED <<new, doc, run, ledger, lastDay, today, moves, metric, event, score, skip, insight, late>>
      /\ job[day].stage = "detect"
      /\ \A f \in j.events : /\ f.day = day /\ j.stage = "events" /\ f.evidence # {}
                             /\ \A e \in event : ~Cools(e, f)
      /\ \A e, f \in j.events : e.topic = f.topic /\ e.kind = f.kind => e = f
  BY DEF Detects
<1>3. Typed'
  BY <1>1, <1>2 DEF TypeInv, Typed
<1>4. OneEach'
  <2>1. \A v \in Workers : v = day \/ job'[v] = job[v]
    BY <1>1
  <2> QED
    BY <1>1, <1>2, <2>1 DEF TypeInv, OneEach
<1>5. Cooled'
  <2>1. ASSUME NEW e \in event PROVE job'[e.day].stage \in {"score", "insights", "done"}
    <3>1. job[e.day].stage \in {"score", "insights", "done"} /\ e.day \in Workers
      BY DEF Cooled, TypeInv, Typed, Events, Workers
    <3>2. e.day # day
      BY <1>2, <3>1
    <3> QED
      BY <1>1, <3>1, <3>2
  <2>2. ASSUME NEW v \in Workers, NEW f \in job'[v].events, NEW e \in event, Cools(e, f) PROVE e.day \in late
    <3>1. CASE v = day
      BY <1>1, <1>2, <2>2, <3>1
    <3>2. CASE v # day
      BY <1>1, <2>2, <3>2 DEF Cooled
    <3> QED
      BY <3>1, <3>2
  <2> QED
    BY <1>2, <2>1, <2>2 DEF Cooled
<1>6. Agreed' /\ Sampled'
  BY <1>0, RowsKeep DEF Detects
<1> QED
  BY <1>3, <1>4, <1>5, <1>6 DEF TypeInv

\* What is written replaces what was there of its topic and kind; a day that a
\* later one has overtaken is late.
LEMMA WriteEventsKeeps ==
  ASSUME TypeInv, Cooled, Agreed, Sampled, NEW day \in Day, WriteEvents(day)
  PROVE  TypeInv' /\ Cooled' /\ Agreed' /\ Sampled'
<1> DEFINE fresh == job[day].events
           Replaced(e) == \E f \in fresh : f.topic = e.topic /\ f.kind = e.kind /\ f.day = e.day
           old == {e \in event : ~Replaced(e)}
           Busy == {"events", "score", "insights", "done", "failed"}
<1>0. day \in Workers /\ \A d \in Day : d \in Nat /\ d \in Workers
  BY Constants DEF Workers
<1>1. PICK j : MovesOn(day, j, "score")
  <2>1. "score" \in Stages
    BY DEF Stages
  <2> QED
    BY <2>1, IdleMovesOn DEF WriteEvents, inputs
<1>2. /\ j \in Jobs /\ Become(day, j) /\ j.stage = "score" /\ j.rows = NoRows /\ j.events = {}
      /\ UNCHANGED <<new, doc, run, ledger, lastDay, today, moves, metric>>
  BY <1>1 DEF MovesOn
<1>3. /\ event' = old \cup fresh
      /\ UNCHANGED <<score, skip, insight>>
      /\ late' = IF \E later \in Day : later > day /\ job[later].stage \in Busy THEN late \cup {day} ELSE late
  BY DEF WriteEvents
<1>4. /\ job' \in [Workers -> Jobs] /\ job'[day] = j /\ \A v \in Workers \ {day} : job'[v] = job[v]
  BY <1>0, <1>2, BecomeFacts DEF TypeInv
<1>5. /\ fresh \subseteq Events /\ \A f \in fresh : f.day = day /\ f.evidence # {}
      /\ \A e, f \in fresh : e.topic = f.topic /\ e.kind = f.kind => e = f
  BY <1>0 DEF TypeInv, Typed, Jobs, OneEach
<1>6. late \subseteq late' /\ late' \subseteq Day
  BY <1>3 DEF TypeInv, Typed
<1>7. \A v \in Day : v > day /\ job[v].stage \in Busy => day \in late'
  BY <1>3
<1>8. old \subseteq event /\ \A e \in old, f \in fresh : ~(f.topic = e.topic /\ f.kind = e.kind /\ f.day = e.day)
  OBVIOUS
<1> HIDE DEF fresh, old
<1>9. Typed'
  BY <1>2, <1>3, <1>4, <1>5, <1>6, <1>8 DEF TypeInv, Typed
<1>10. OneEach'
  <2>1. \A e, f \in event' : e.topic = f.topic /\ e.day = f.day /\ e.kind = f.kind => e = f
    <3> SUFFICES ASSUME NEW e \in event', NEW f \in event', e.topic = f.topic, e.day = f.day, e.kind = f.kind
                 PROVE  e = f
      OBVIOUS
    <3>1. CASE e \in old /\ f \in old
      BY <1>8, <3>1 DEF TypeInv, OneEach
    <3>2. CASE e \in fresh /\ f \in fresh
      BY <1>5, <3>2
    <3>3. CASE e \in old /\ f \in fresh
      BY <1>8, <3>3
    <3>4. CASE f \in old /\ e \in fresh
      BY <1>8, <3>4
    <3> QED
      BY <1>3, <3>1, <3>2, <3>3, <3>4
  <2>2. \A e \in event' : e.evidence # {}
    BY <1>3, <1>5, <1>8 DEF TypeInv, OneEach
  <2>3. \A v \in Workers : job'[v].events = {} \/ job'[v] = job[v]
    BY <1>2, <1>4
  <2> QED
    BY <1>3, <2>1, <2>2, <2>3 DEF TypeInv, OneEach
<1>11. Cooled'
  <2>1. ASSUME NEW e \in event' PROVE job'[e.day].stage \in {"score", "insights", "done"}
    <3>1. CASE e.day = day
      BY <1>2, <1>4, <3>1
    <3>2. CASE e.day # day
      <4>1. e \in event
        BY <1>3, <1>5, <1>8, <3>2
      <4>2. job[e.day].stage \in {"score", "insights", "done"} /\ e.day \in Workers
        BY <4>1 DEF Cooled, TypeInv, Typed, Events, Workers
      <4> QED
        BY <1>4, <3>2, <4>2
    <3> QED
      BY <3>1, <3>2
  <2>2. ASSUME NEW v \in Workers, NEW f \in job'[v].events, NEW e \in event', Cools(e, f) PROVE e.day \in late'
    <3>1. v # day /\ job'[v] = job[v] /\ f \in job[v].events
      BY <1>2, <1>4, <2>2
    <3>2. f.day = v /\ job[v].stage = "events" /\ f \in Events
      BY <3>1 DEF TypeInv, Typed, Jobs, OneEach
    <3>3. CASE e \in event
      BY <1>6, <2>2, <3>1, <3>3 DEF Cooled
    <3>4. CASE e \in fresh
      <4>1. e.day = day /\ v \in Day /\ v > day
        BY <1>0, <1>5, <2>2, <3>2, <3>4 DEF Cools, Events
      <4> QED
        BY <1>7, <3>2, <4>1
    <3> QED
      BY <1>3, <1>8, <3>3, <3>4
  <2>3. ASSUME NEW e \in event', NEW f \in event', Cools(e, f) PROVE e.day \in late'
    <3>1. CASE e \in event /\ f \in event
      BY <1>6, <2>3, <3>1 DEF Cooled
    <3>2. CASE e \in event /\ f \in fresh
      <4>1. f \in job[day].events
        BY <3>2 DEF fresh
      <4> QED
        BY <1>0, <1>6, <2>3, <3>2, <4>1 DEF Cooled
    <3>3. CASE e \in fresh /\ f \in event
      <4>1. e.day = day /\ f.day \in Day /\ f.day > day
        BY <1>0, <1>5, <2>3, <3>3 DEF Cools, Events, TypeInv, Typed
      <4>2. job[f.day].stage \in Busy
        BY <3>3 DEF Cooled
      <4> QED
        BY <1>7, <4>1, <4>2
    <3>4. CASE e \in fresh /\ f \in fresh
      <4>1. e.day = day /\ f.day = day /\ e.day < f.day
        BY <1>5, <2>3, <3>4 DEF Cools
      <4> QED
        BY <1>0, <4>1
    <3> QED
      BY <1>3, <1>8, <3>1, <3>2, <3>3, <3>4
  <2> QED
    BY <2>1, <2>2, <2>3 DEF Cooled
<1>12. Agreed' /\ Sampled'
  BY <1>0, <1>2, RowsKeep
<1> QED
  BY <1>9, <1>10, <1>11, <1>12 DEF TypeInv

\* The steps after that leave the events alone.
LEMMA MovesOnKeeps ==
  ASSUME TypeInv, Cooled, Agreed, Sampled, NEW day \in Day, NEW j, NEW stage \in {"insights", "done"},
         MovesOn(day, j, stage), UNCHANGED <<event, late>>,
         score' \subseteq Scores, \A x, y \in score' : x.topic = y.topic /\ x.day = y.day => x = y,
         skip' \subseteq Skips, insight' \subseteq (Topics \cup {None}) \X Day
  PROVE  TypeInv' /\ Cooled' /\ Agreed' /\ Sampled'
<1>0. day \in Workers
  BY DEF Workers
<1>1. /\ j \in Jobs /\ Become(day, j) /\ j.stage = stage /\ j.rows = NoRows /\ j.events = {}
      /\ UNCHANGED <<new, doc, run, ledger, lastDay, today, moves, metric>>
  BY DEF MovesOn
<1>2. /\ job' \in [Workers -> Jobs] /\ job'[day] = j /\ \A v \in Workers \ {day} : job'[v] = job[v]
  BY <1>0, <1>1, BecomeFacts DEF TypeInv
<1>3. \A v \in Workers : job'[v].events = {} \/ job'[v] = job[v]
  BY <1>1, <1>2
<1>4. Typed'
  BY <1>1, <1>2 DEF TypeInv, Typed
<1>5. OneEach'
  BY <1>3 DEF TypeInv, OneEach
<1>6. Cooled'
  <2>1. ASSUME NEW e \in event PROVE job'[e.day].stage \in {"score", "insights", "done"}
    <3>1. job[e.day].stage \in {"score", "insights", "done"} /\ e.day \in Workers
      BY DEF Cooled, TypeInv, Typed, Events, Workers
    <3> QED
      BY <1>1, <1>2, <3>1
  <2> QED
    BY <1>3, <2>1 DEF Cooled
<1>7. Agreed' /\ Sampled'
  BY <1>0, <1>1, RowsKeep
<1> QED
  BY <1>4, <1>5, <1>6, <1>7 DEF TypeInv

LEMMA ScoreKeeps ==
  ASSUME TypeInv, Cooled, Agreed, Sampled, NEW day \in Day, Score(day)
  PROVE  TypeInv' /\ Cooled' /\ Agreed' /\ Sampled'
<1>1. PICK j : MovesOn(day, j, "insights")
  <2>1. "insights" \in Stages
    BY DEF Stages
  <2> QED
    BY <2>1, IdleMovesOn DEF Score, inputs
<1> DEFINE scored == {t \in Topics : Counted(t, day)}
           fresh(t) == [topic |-> t, day |-> day, withheld |-> "partial" \in StatusesOf(day)]
<1>2. /\ score' = {x \in score : x.day # day \/ x.topic \notin scored} \cup {fresh(t) : t \in scored}
      /\ UNCHANGED <<event, skip, insight, late>>
  BY DEF Score
<1>3. \A t \in scored : fresh(t) \in Scores /\ fresh(t).topic = t /\ fresh(t).day = day
  BY DEF Scores
<1> HIDE DEF fresh, scored
<1>4. score' \subseteq Scores
  BY <1>2, <1>3 DEF TypeInv, Typed
<1>5. \A x, y \in score' : x.topic = y.topic /\ x.day = y.day => x = y
  BY <1>2, <1>3 DEF TypeInv, OneEach
<1>6. skip' \subseteq Skips /\ insight' \subseteq (Topics \cup {None}) \X Day
  BY <1>2 DEF TypeInv, Typed
<1> QED
  BY <1>1, <1>2, <1>4, <1>5, <1>6, MovesOnKeeps

LEMMA InsightsKeeps ==
  ASSUME TypeInv, Cooled, Agreed, Sampled, NEW day \in Day, Insights(day)
  PROVE  TypeInv' /\ Cooled' /\ Agreed' /\ Sampled'
<1>1. PICK j : MovesOn(day, j, "done")
  <2>1. "done" \in Stages
    BY DEF Stages
  <2> QED
    BY <2>1, IdleMovesOn DEF Insights, inputs
<1>2. UNCHANGED <<event, score, late>>
  BY DEF Insights
<1>3. PICK outcome \in [Topics -> SkipReasons \cup {"written"}] :
        /\ skip' = skip \cup {[topic |-> t, day |-> day, reason |-> outcome[t]] :
                             t \in {u \in Topics : outcome[u] # "written"}}
        /\ LET written == {t \in Topics : outcome[t] = "written"} IN
          \E digest \in Digests(written) :
            insight' = insight \cup ((written \cup digest) \X {day})
  BY DEF Insights
<1>4. skip' \subseteq Skips
  <2>1. \A t \in {u \in Topics : outcome[u] # "written"} : [topic |-> t, day |-> day, reason |-> outcome[t]] \in Skips
    BY DEF Skips
  <2> QED
    BY <1>3, <2>1 DEF TypeInv, Typed
<1>5. insight' \subseteq (Topics \cup {None}) \X Day
  <2> DEFINE written == {t \in Topics : outcome[t] = "written"}
  <2>1. PICK digest \in Digests(written) : insight' = insight \cup ((written \cup digest) \X {day})
    BY <1>3
  <2>2. written \cup digest \subseteq Topics \cup {None}
    BY DEF Digests
  <2> QED
    BY <2>1, <2>2 DEF TypeInv, Typed
<1>6. score' \subseteq Scores /\ \A x, y \in score' : x.topic = y.topic /\ x.day = y.day => x = y
  BY <1>2 DEF TypeInv, Typed, OneEach
<1> QED
  BY <1>1, <1>2, <1>4, <1>5, <1>6, MovesOnKeeps

-----------------------------------------------------------------------------
(* The theorems.                                                           *)

Inv == TypeInv /\ Cooled /\ Agreed /\ Sampled

LEMMA InitKeeps == Init => Inv
<1> SUFFICES ASSUME Init PROVE Inv
  OBVIOUS
<1>1. /\ Idle \in Jobs /\ Idle.stage = "idle" /\ Idle.rows = NoRows /\ Idle.events = {}
      /\ NoRows \in RowSets /\ 0 \in Day
  BY IdleFacts, NoRowsFacts, Constants
<1>2. \A w \in Workers : job[w] = Idle
  BY DEF Init
<1>3. \A b \in Day : metric[b] = NoRows
  BY DEF Init
<1> HIDE DEF Idle, NoRows, Jobs, RowSets
<1>4. Typed
  <2>1. doc \in [Docs -> DocRows]
    <3>1. PICK s \in Sources : doc = [d \in Docs |->
            [state |-> "absent", slot |-> 0, topic |-> None, source |-> s, run |-> None]]
      BY DEF Init
    <3>2. 0 \in Slot
      BY <1>1, Constants DEF Slot
    <3>3. [state |-> "absent", slot |-> 0, topic |-> None, source |-> s, run |-> None] \in DocRows
      <4> HIDE DEF Slot, RunIds
      <4> QED
        BY <3>2 DEF DocRows
    <3> QED
      BY <3>1, <3>3
  <2>2. run \in [RunIds -> Statuses] /\ ledger \in [RunIds -> [Sources -> Nat \cup {None}]]
    BY DEF Init, Statuses
  <2>3. metric \in [Day -> RowSets] /\ job \in [Workers -> Jobs]
    BY <1>1 DEF Init
  <2>4. lastDay \in Day /\ today \in Day /\ moves \in 0 .. MaxMoves
    BY <1>1, Constants, AnalyticsAssumption DEF Init, AnalyticsAssumption, Day
  <2> QED
    BY <2>1, <2>2, <2>3, <2>4 DEF Init, Typed
<1>5. OneEach
  BY <1>1, <1>2 DEF Init, OneEach
<1>6. Cooled
  BY <1>1, <1>2 DEF Init, Cooled
<1>7. Agreed /\ Sampled
  <2>1. LedgerTrue
    BY DEF Init, LedgerTrue
  <2> QED
    BY <1>1, <1>2, <1>3, <2>1, NoRowsAgree DEF Agreed, Sampled, SampleHolds
<1> QED
  BY <1>4, <1>5, <1>6, <1>7 DEF Inv, TypeInv

LEMMA NextKeeps == Inv /\ [Next]_vars => Inv'
<1> SUFFICES ASSUME TypeInv, Cooled, Agreed, Sampled, [Next]_vars
             PROVE  TypeInv' /\ Cooled' /\ Agreed' /\ Sampled'
  BY DEF Inv
<1> DEFINE Goal == TypeInv' /\ Cooled' /\ Agreed' /\ Sampled'
<1>1. CASE NextDay
  BY <1>1, NextDayInputs, InputsKeep
<1>2. CASE StartRerun
  <2>1. Rerun \in Workers
    BY DEF Workers
  <2> QED
    BY <1>2, <2>1, StartRerunRolls, RollsOnKeeps
<1>3. ASSUME NEW r \in RunIds, Open(r) \/ Finalise(r) PROVE Goal
  BY <1>3, FinaliseInputs, OpenInputs, InputsKeep
<1>4. ASSUME NEW r \in RunIds, NEW s \in Sources, Persist(r, s) \/ WriteRow(r, s) PROVE Goal
  BY <1>4, PersistInputs, WriteRowInputs, InputsKeep
<1>5. ASSUME NEW d \in Docs, Annotate(d) PROVE Goal
  BY <1>5, AnnotateInputs, InputsKeep
<1>6. ASSUME NEW w \in Workers, LoadRows(w) PROVE Goal
  BY <1>6, LoadRowsRolls, RollsOnKeeps
<1>7. ASSUME NEW w \in Workers, Write(w) PROVE Goal
  BY <1>7, WriteKeeps
<1>8. ASSUME NEW w \in Workers, Deadlock(w) PROVE Goal
  BY <1>8, DeadlockRolls, RollsOnKeeps
<1>9. ASSUME NEW w \in Workers, NEW b \in Day, LoadContext(w, b) PROVE Goal
  BY <1>9, LoadContextRolls, RollsOnKeeps
<1>10. ASSUME NEW day \in Day, StartPipeline(day) PROVE Goal
  <2>1. day \in Workers
    BY DEF Workers
  <2> QED
    BY <1>10, <2>1, StartPipelineRolls, RollsOnKeeps
<1>11. ASSUME NEW day \in Day, Detect(day) PROVE Goal
  BY <1>11, DetectDetects, DetectsKeeps
<1>12. ASSUME NEW day \in Day, WriteEvents(day) PROVE Goal
  BY <1>12, WriteEventsKeeps
<1>13. ASSUME NEW day \in Day, Score(day) PROVE Goal
  BY <1>13, ScoreKeeps
<1>14. ASSUME NEW day \in Day, Insights(day) PROVE Goal
  BY <1>14, InsightsKeeps
<1>15. CASE UNCHANGED vars
  <2>1. UNCHANGED <<new, doc, run, ledger, metric, event, score, skip, insight, job, lastDay, today, moves, late>>
    BY <1>15 DEF vars
  <2>2. LedgerTrue'
    BY <2>1, AwaitingSame, LedgerStaysTrue DEF Sampled
  <2>3. Inputs
    BY <2>1, <2>2 DEF Inputs, analytics, TypeInv, Typed
  <2> QED
    BY <2>3, InputsKeep
<1> HIDE DEF Goal
<1>16. Goal
  BY <1>1, <1>2, <1>3, <1>4, <1>5, <1>6, <1>7, <1>8, <1>9, <1>10, <1>11, <1>12, <1>13, <1>14, <1>15 DEF Next, Goal
<1> QED
  BY <1>16 DEF Goal

LEMMA InvHolds == Spec => []Inv
BY InitKeeps, NextKeeps, PTL DEF Spec

\* The tables keep their types and unique keys: whatever overlaps, one event of
\* a kind and one score for a topic and a day, and no event without evidence.
\* (repositories/trends.py:28-95, db/models.py:846-936)
THEOREM TypeCorrect == Spec => []TypeOK
<1>1. Inv => TypeOK
  <2> SUFFICES ASSUME Typed, OneEach PROVE TypeOK
    BY DEF Inv, TypeInv
  <2>1. \A f \in RowSets : IsRowsOf(f, MetricRows)
    BY DEF RowSets, IsRowsOf
  <2>2. \A b \in Day : IsRowsOf(metric[b], MetricRows)
    BY <2>1 DEF Typed
  <2>3. ASSUME NEW w \in Workers
        PROVE  /\ [f \in DOMAIN job[w] \ {"rows"} |-> job[w][f]] \in JobRows
               /\ IsRowsOf(job[w].rows, MetricRows)
    <3>1. job[w] \in Jobs
      BY DEF Typed
    <3>2. IsRowsOf(job[w].rows, MetricRows)
      BY <2>1, <3>1 DEF Jobs
    <3>3. DOMAIN job[w] \ {"rows"} = {"stage", "todo", "bucket", "sample", "events"}
      <4>1. DOMAIN job[w] = {"stage", "todo", "bucket", "sample", "rows", "events"}
        BY <3>1 DEF Jobs
      <4> QED
        BY <4>1
    <3>4. [f \in DOMAIN job[w] \ {"rows"} |-> job[w][f]]
            = [stage |-> job[w].stage, todo |-> job[w].todo, bucket |-> job[w].bucket,
               sample |-> job[w].sample, events |-> job[w].events]
      BY <3>3
    <3>5. [stage |-> job[w].stage, todo |-> job[w].todo, bucket |-> job[w].bucket,
           sample |-> job[w].sample, events |-> job[w].events] \in JobRows
      BY <3>1 DEF Jobs, JobRows, Samples
    <3> QED
      BY <3>2, <3>4, <3>5
  <2> QED
    BY <2>2, <2>3 DEF Typed, OneEach, TypeOK
<1> QED
  BY <1>1, InvHolds, PTL

\* Whatever rollups of a bucket overlap, its rows are those of one computation.
\* (group.py:43-139, repositories/metrics.py:95-127)
THEOREM RowsAreOfOneComputation == Spec => []BreakdownsAgree
<1>1. Inv => BreakdownsAgree
  BY DEF Inv, Agreed, Agree, CountIn, BreakdownsAgree, Counted, TopicRow
<1> QED
  BY <1>1, InvHolds, PTL

\* A row counts no more of the documents behind its sample's ledger rows than
\* the sample has, although documents and ledger rows are committed apart and
\* more of both come while a rollup is under way.
\* (pipeline/analytics/normalization.py:85-159, rollup.py:56-81)
THEOREM SharesAreOfTheirSample == Spec => []CountWithinSample
<1>1. Inv => CountWithinSample
  BY DEF Inv, Sampled, Fits, CountWithinSample
<1> QED
  BY <1>1, InvHolds, PTL

\* Two events of one kind for a topic are a cooldown apart, but for days that
\* were detected after a later one.
\* (gates.py:100-109, analytics.py:293-304)
THEOREM EventsKeepTheirDistance == Spec => []CooldownHolds
<1>1. Inv => CooldownHolds
  BY DEF Inv, Cooled, Cools, CooldownHolds
<1> QED
  BY <1>1, InvHolds, PTL
==============================================================================
