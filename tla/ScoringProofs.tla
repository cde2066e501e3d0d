---------------------------- MODULE ScoringProofs ----------------------------
(***************************************************************************)
(* What is proved of the composite scores for every set of metrics and any *)
(* number of candidates: ranks respect dominance, and the shift respects   *)
(* ranks.                                                                  *)
(***************************************************************************)
EXTENDS Scoring, BoundedSets, FiniteSetTheorems, TLAPS

\* dominates is a strict partial order.
LEMMA DominanceIsTransitive ==
  ASSUME NEW a \in Metrics, NEW b \in Metrics, NEW c \in Metrics,
         dominates(a, b), dominates(b, c)
  PROVE  dominates(a, c)
<1>1. \A k \in Metric : a[k] \in Nat /\ b[k] \in Nat /\ c[k] \in Nat
  BY DEF Metrics
<1>2. \A k \in Metric : ~better(k, b, a) /\ ~better(k, c, b)
  BY DEF dominates
<1>3. PICK k \in Metric : better(k, a, b)
  BY DEF dominates
<1>4. \A l \in Metric : ~better(l, c, a)
  BY <1>1, <1>2 DEF better
<1>5. better(k, a, c)
  BY <1>1, <1>2, <1>3 DEF better
<1> QED BY <1>4, <1>5 DEF dominates

\* Dominance is irreflexive.
LEMMA NothingDominatesItself ==
  ASSUME NEW a \in Metrics
  PROVE  ~dominates(a, a)
<1>1. \A k \in Metric : a[k] \in Nat
  BY DEF Metrics
<1> QED BY <1>1 DEF dominates, better

\* A rank counts candidates.
LEMMA RankIsCount ==
  ASSUME NEW n \in Nat, NEW metrics \in [1..n -> Metrics], NEW i \in 1..n
  PROVE  /\ IsFiniteSet(Dominators(metrics, i))
         /\ pareto_rank(metrics, i) \in 0..n
<1>1. IsFiniteSet(1..n) /\ Cardinality(1..n) = n
  BY FS_Interval
<1>2. Dominators(metrics, i) \in SUBSET (1..n)
  BY DEF Dominators
<1>3. IsFiniteSet(Dominators(metrics, i)) /\ Cardinality(Dominators(metrics, i)) <= n
  BY <1>1, <1>2, FS_Subset
<1>4. Cardinality(Dominators(metrics, i)) \in Nat
  BY <1>3, FS_CardinalityType
<1> QED BY <1>3, <1>4 DEF pareto_rank

\* A candidate that dominates another is ranked strictly better
\* (calculate_pareto_fronts), although a rank is not the number of a front.
THEOREM RanksRespectDominance ==
  ASSUME NEW n \in Nat, NEW metrics \in [1..n -> Metrics],
         NEW i \in 1..n, NEW j \in 1..n, dominates(metrics[j], metrics[i])
  PROVE  pareto_rank(metrics, j) < pareto_rank(metrics, i)
<1>1. j # i
  BY NothingDominatesItself
<1>2. \A k \in Dominators(metrics, j) : k \in Dominators(metrics, i)
  <2> SUFFICES ASSUME NEW k \in 1..n, k # j, dominates(metrics[k], metrics[j])
               PROVE  k # i /\ dominates(metrics[k], metrics[i])
    BY DEF Dominators
  <2>1. dominates(metrics[k], metrics[i])
    BY DominanceIsTransitive
  <2>2. k # i
    BY <2>1, NothingDominatesItself
  <2> QED BY <2>1, <2>2
<1>3. j \in Dominators(metrics, i) /\ j \notin Dominators(metrics, j)
  BY <1>1 DEF Dominators
<1>4. /\ IsFiniteSet(Dominators(metrics, i))
      /\ pareto_rank(metrics, i) \in Nat /\ pareto_rank(metrics, j) \in Nat
  BY RankIsCount
<1>5. /\ Cardinality(Dominators(metrics, j)) <= Cardinality(Dominators(metrics, i))
      /\ Cardinality(Dominators(metrics, j)) # Cardinality(Dominators(metrics, i))
  BY <1>2, <1>3, <1>4, FS_Subset
<1> QED BY <1>4, <1>5 DEF pareto_rank

-----------------------------------------------------------------------------
(* Sums.  The theorems on recursive functions of the library have parameters *)
(* the provers cannot instantiate; a least counterexample does instead.      *)

\* SumFunction takes one element of a set at a time.
Rest(f, g, s) ==
  IF s = {} THEN 0 ELSE f[CHOOSE x \in s : TRUE] + g[s \ {CHOOSE x \in s : TRUE}]

\* This is what it recurses by.
LEMMA SumIsFold ==
  ASSUME NEW S, NEW f \in [S -> Int]
  PROVE  SumFunction(f) = (CHOOSE g : g = [s \in SUBSET S |-> Rest(f, g, s)])[S]
<1>1. DOMAIN f = S
  OBVIOUS
<1>2. SumFunction(f) = SumFunctionOnSet(f, S)
  BY <1>1 DEF SumFunction
<1> QED BY <1>2 DEF SumFunctionOnSet, FoldFunctionOnSet, MapThenFoldSet, Rest

\* What is left is smaller by one.
LEMMA RestIsSmaller ==
  ASSUME NEW S, IsFiniteSet(S), NEW s \in SUBSET S, s # {}
  PROVE  LET x == CHOOSE x \in s : TRUE IN
         /\ x \in S /\ s \ {x} \in SUBSET S
         /\ Cardinality(s \ {x}) \in Nat
         /\ Cardinality(s) = Cardinality(s \ {x}) + 1
<1> DEFINE x == CHOOSE x \in s : TRUE
<1>1. x \in s
  OBVIOUS
<1>2. IsFiniteSet(s)
  BY FS_Subset
<1>3. Cardinality(s) \in Nat /\ Cardinality(s \ {x}) = Cardinality(s) - 1 /\ IsFiniteSet(s \ {x})
  BY <1>1, <1>2, FS_RemoveElement, FS_CardinalityType
<1>4. Cardinality(s \ {x}) \in Nat
  BY <1>3, FS_CardinalityType
<1> QED BY <1>1, <1>3, <1>4

\* The subsets of at most n elements.
UpTo(S, n) == {s \in SUBSET S : Cardinality(s) <= n}

\* So there is a function that does, on sets of any number of elements.
LEMMA PartialSums ==
  ASSUME NEW S, IsFiniteSet(S), NEW f \in [S -> Int], NEW n \in Nat
  PROVE  \E g \in [UpTo(S, n) -> Int] : \A s \in UpTo(S, n) : g[s] = Rest(f, g, s)
<1> DEFINE Sub(k) == UpTo(S, k)
           Good(k) == \E g \in [Sub(k) -> Int] : \A s \in Sub(k) : g[s] = Rest(f, g, s)
           Bad == {k \in Nat : ~Good(k)}
<1> USE DEF UpTo
<1>1. \A s \in SUBSET S : Cardinality(s) \in Nat
  BY FS_Subset, FS_CardinalityType
<1>2. Good(0)
  <2>1. \A s \in Sub(0) : s = {}
    <3> SUFFICES ASSUME NEW s \in SUBSET S, Cardinality(s) <= 0, s # {} PROVE FALSE
      OBVIOUS
    <3>1. IsFiniteSet(s) /\ Cardinality(s) = 0
      BY <1>1, FS_Subset
    <3> QED BY <3>1, FS_EmptySet
  <2> DEFINE g == [s \in Sub(0) |-> 0]
  <2>2. g \in [Sub(0) -> Int] /\ \A s \in Sub(0) : g[s] = Rest(f, g, s)
    BY <2>1 DEF Rest
  <2> QED BY <2>2
<1>3. ASSUME NEW k \in Nat, Good(k) PROVE Good(k + 1)
  <2>1. PICK g \in [Sub(k) -> Int] : \A s \in Sub(k) : g[s] = Rest(f, g, s)
    BY <1>3
  <2> DEFINE h == [s \in Sub(k + 1) |-> Rest(f, g, s)]
  <2>2. ASSUME NEW s \in Sub(k + 1), s # {}
        PROVE  LET x == CHOOSE x \in s : TRUE IN x \in S /\ s \ {x} \in Sub(k)
    BY <1>1, <2>2, RestIsSmaller
  <2>3. \A s \in Sub(k) : s \in Sub(k + 1) /\ h[s] = g[s]
    BY <1>1, <2>1
  <2>4. \A s \in Sub(k + 1) : Rest(f, g, s) \in Int
    BY <2>2 DEF Rest
  <2>5. h \in [Sub(k + 1) -> Int]
    BY <2>4
  <2>6. \A s \in Sub(k + 1) : h[s] = Rest(f, h, s)
    <3> SUFFICES ASSUME NEW s \in Sub(k + 1) PROVE Rest(f, g, s) = Rest(f, h, s)
      OBVIOUS
    <3>1. CASE s = {}
      BY <3>1 DEF Rest
    <3>2. CASE s # {}
      <4> DEFINE x == CHOOSE x \in s : TRUE
      <4>1. s \ {x} \in Sub(k)
        BY <2>2, <3>2
      <4>2. h[s \ {x}] = g[s \ {x}]
        BY <2>3, <4>1
      <4> HIDE DEF h
      <4> QED BY <3>2, <4>2 DEF Rest
    <3> QED BY <3>1, <3>2
  <2> HIDE DEF h
  <2> QED BY <2>5, <2>6
<1> HIDE DEF Good
<1>4. Bad = {}
  <2> SUFFICES ASSUME Bad # {} PROVE FALSE
    OBVIOUS
  <2>1. PICK k \in Bad : \A l \in Bad : k <= l
    BY LeastNatural
  <2>2. k # 0 /\ k \in Nat /\ ~Good(k)
    BY <1>2
  <2>3. k - 1 \in Nat /\ k - 1 \notin Bad
    BY <2>1, <2>2
  <2>4. Good(k - 1)
    BY <2>3
  <2>5. Good((k - 1) + 1)
    BY <1>3, <2>3, <2>4
  <2> QED BY <2>2, <2>5
<1>5. Good(n)
  BY <1>4
<1> QED BY <1>5 DEF Good

\* A finite sum of integers is an integer.
LEMMA SumIsInteger ==
  ASSUME NEW S, IsFiniteSet(S), NEW f \in [S -> Int]
  PROVE  SumFunction(f) \in Int
<1> DEFINE P(g) == g = [s \in SUBSET S |-> Rest(f, g, s)]
           sum == CHOOSE g : P(g)
           n == Cardinality(S)
<1>1. n \in Nat /\ \A s \in SUBSET S : Cardinality(s) \in Nat /\ Cardinality(s) <= n
  BY FS_Subset, FS_CardinalityType
<1>2. P(sum)
  <2>1. UpTo(S, n) = SUBSET S
    BY <1>1 DEF UpTo
  <2>2. PICK g \in [SUBSET S -> Int] : \A s \in SUBSET S : g[s] = Rest(f, g, s)
    <3>1. \E g \in [UpTo(S, n) -> Int] : \A s \in UpTo(S, n) : g[s] = Rest(f, g, s)
      <4> HIDE DEF n
      <4> QED BY <1>1, PartialSums
    <3> HIDE DEF n
    <3> QED BY <2>1, <3>1
  <2>3. P(g)
    BY <2>2
  <2> HIDE DEF P
  <2> QED BY <2>3
<1>3. \A s \in SUBSET S : sum[s] = Rest(f, sum, s)
  <2> HIDE DEF sum
  <2> QED BY <1>2
<1> HIDE DEF sum
<1> DEFINE Odd == {k \in Nat : \E s \in SUBSET S : Cardinality(s) = k /\ sum[s] \notin Int}
<1>4. Odd = {}
  <2> SUFFICES ASSUME Odd # {} PROVE FALSE
    OBVIOUS
  <2>1. PICK k \in Odd : \A l \in Odd : k <= l
    BY LeastNatural
  <2>2. PICK s \in SUBSET S : Cardinality(s) = k /\ sum[s] \notin Int
    OBVIOUS
  <2>3. s # {}
    BY <1>3, <2>2 DEF Rest
  <2> DEFINE x == CHOOSE x \in s : TRUE
  <2>4. x \in S /\ s \ {x} \in SUBSET S /\ Cardinality(s \ {x}) \in Nat /\ k = Cardinality(s \ {x}) + 1
    BY <2>2, <2>3, RestIsSmaller
  <2>5. sum[s \ {x}] \in Int
    BY <2>1, <2>4
  <2>6. sum[s] = f[x] + sum[s \ {x}]
    BY <1>3, <2>3 DEF Rest
  <2> QED BY <2>2, <2>4, <2>5, <2>6
<1>5. sum[S] \in Int
  BY <1>1, <1>4
<1> QED BY <1>5, SumIsFold DEF sum

\* Finitely many integers have bounds.
LEMMA FiniteIsBounded ==
  ASSUME NEW n \in Nat, NEW f \in [1..n -> Int]
  PROVE  \E b \in Int : \A i \in 1..n : -b <= f[i] /\ f[i] <= b
<1> DEFINE Bounded(k) == \E b \in Int : \A i \in 1..n : i <= k => -b <= f[i] /\ f[i] <= b
           Bad == {k \in Nat : ~Bounded(k)}
<1>1. Bounded(0)
  OBVIOUS
<1>2. ASSUME NEW k \in Nat, Bounded(k) PROVE Bounded(k + 1)
  <2>1. PICK b \in Int : \A i \in 1..n : i <= k => -b <= f[i] /\ f[i] <= b
    BY <1>2
  <2>2. CASE k + 1 \in 1..n
    <3> DEFINE a == IF f[k + 1] >= 0 THEN f[k + 1] ELSE -f[k + 1]
               c == IF a >= b THEN a ELSE b
    <3>1. f[k + 1] \in Int
      BY <2>2
    <3>2. c \in Int /\ b <= c /\ -c <= f[k + 1] /\ f[k + 1] <= c
      BY <3>1
    <3>3. ASSUME NEW i \in 1..n, i <= k + 1 PROVE -c <= f[i] /\ f[i] <= c
      <4>1. CASE i = k + 1
        BY <3>2, <4>1
      <4>2. CASE i # k + 1
        <5>1. i <= k /\ f[i] \in Int
          BY <3>3, <4>2
        <5>2. -b <= f[i] /\ f[i] <= b
          BY <2>1, <5>1
        <5> HIDE DEF c
        <5> QED BY <3>2, <5>1, <5>2
      <4> QED BY <4>1, <4>2
    <3> HIDE DEF c
    <3> QED BY <3>2, <3>3
  <2>3. CASE k + 1 \notin 1..n
    BY <2>1, <2>3
  <2> QED BY <2>2, <2>3
<1> HIDE DEF Bounded
<1>3. Bad = {}
  <2> SUFFICES ASSUME Bad # {} PROVE FALSE
    OBVIOUS
  <2>1. PICK k \in Bad : \A l \in Bad : k <= l
    BY LeastNatural
  <2>2. k # 0 /\ k \in Nat /\ ~Bounded(k)
    BY <1>1
  <2>3. k - 1 \in Nat /\ k - 1 \notin Bad
    BY <2>1, <2>2
  <2>4. Bounded((k - 1) + 1)
    BY <1>2, <2>3
  <2> QED BY <2>2, <2>4
<1>4. Bounded(n)
  BY <1>3
<1> QED BY <1>4 DEF Bounded

\* Raw scores are integers, whatever the strategy.
LEMMA RawIsInteger ==
  ASSUME NEW n \in Nat, NEW ms \in [1..n -> Metrics], NEW strategy
  PROVE  raw_score(strategy, ms) \in [1..n -> Int]
<1>1. \A i \in 1..n : -pareto_rank(ms, i) \in Int
  BY RankIsCount
<1>2. ASSUME NEW m \in Metrics PROVE weighted(m) \in Int
  <2> DEFINE f == [k \in Metric |-> IF maximize[k] THEN m[k] ELSE -Max({m[k] - 1, 0})]
  <2>1. ASSUME NEW k \in Metric PROVE m[k] \in Int /\ -Max({m[k] - 1, 0}) \in Int
    <3>1. m[k] \in Nat
      BY DEF Metrics
    <3>2. /\ {m[k] - 1, 0} \subseteq Int /\ {m[k] - 1, 0} # {}
          /\ m[k] \in Int /\ \A x \in {m[k] - 1, 0} : x <= m[k]
      BY <3>1
    <3>3. Max({m[k] - 1, 0}) \in {m[k] - 1, 0}
      BY <3>2, MaxIsLargest
    <3> QED BY <3>2, <3>3
  <2>2. f \in [Metric -> Int]
    BY <2>1
  <2>3. SumFunction(f) \in Int
    <3> HIDE DEF f
    <3> QED BY <2>2, MetricAssumption, SumIsInteger
  <2> QED BY <2>3 DEF weighted
<1> QED BY <1>1, <1>2 DEF raw_score

-----------------------------------------------------------------------------
\* What the shift does: successes stay, failures are moved down by one amount,
\* and end up below every success.
THEOREM FailuresBelowSuccesses ==
  ASSUME NEW n \in Nat, NEW raw \in [1..n -> Int], NEW success \in SUBSET (1..n)
  PROVE  \E d \in Nat :
           /\ shifted(raw, success) =
                [i \in 1..n |-> IF i \in success THEN raw[i] ELSE raw[i] - d]
           /\ \A i \in success, j \in (1..n) \ success : raw[j] - d < raw[i]
<1> DEFINE S == {raw[i] : i \in success}
           F == {raw[i] : i \in DOMAIN raw \ success}
           d == IF S = {} \/ F = {} \/ Max(F) < Min(S) THEN 0 ELSE Max(F) - Min(S) + 1
<1>0. PICK b \in Int : \A i \in 1..n : -b <= raw[i] /\ raw[i] <= b
  BY FiniteIsBounded
<1>1. S \subseteq Int /\ F \subseteq Int /\ DOMAIN raw = 1..n
  OBVIOUS
<1>2. S # {} => Min(S) \in Int /\ \A x \in S : Min(S) <= x
  <2>1. -b \in Int /\ \A x \in S : -b <= x
    BY <1>0
  <2> QED BY <1>1, <2>1, MinIsLeast
<1>3. F # {} => Max(F) \in Int /\ \A x \in F : x <= Max(F)
  <2>1. \A x \in F : x <= b
    BY <1>0
  <2> QED BY <1>1, <2>1, MaxIsLargest
<1>4. d \in Nat
  BY <1>2, <1>3
<1>5. shifted(raw, success) = [i \in 1..n |-> IF i \in success THEN raw[i] ELSE raw[i] - d]
  BY <1>1 DEF shifted
<1>6. ASSUME NEW i \in success, NEW j \in (1..n) \ success
      PROVE  raw[j] - d < raw[i]
  <2>1. raw[i] \in S /\ raw[j] \in F /\ raw[i] \in Int /\ raw[j] \in Int
    BY <1>1
  <2>2. Min(S) \in Int /\ Min(S) <= raw[i] /\ Max(F) \in Int /\ raw[j] <= Max(F)
    BY <1>2, <1>3, <2>1
  <2>3. S # {} /\ F # {}
    BY <2>1
  <2> HIDE DEF S, F
  <2>4. CASE Max(F) < Min(S)
    BY <2>1, <2>2, <2>4
  <2>5. CASE ~(Max(F) < Min(S))
    BY <2>1, <2>2, <2>3, <2>5
  <2> QED BY <2>4, <2>5
<1> HIDE DEF d
<1> QED BY <1>4, <1>5, <1>6
=============================================================================
