----------------------------- MODULE EliteProofs -----------------------------
(***************************************************************************)
(* What is proved of the scores in EvolutionEngine, the elite they choose  *)
(* and the types, for every set of metrics and any number of candidates.   *)
(***************************************************************************)
EXTENDS EvolutionEngineProofs, ScoringProofs

\* Between scoring and selection the scores are those of what was measured.
Scored ==
  pc \in {"record", "select"} =>
    /\ metrics \in [Index -> Metrics]
    /\ succeeded \subseteq Index
    /\ composite_score = score_candidates(scoring_strategy, metrics, succeeded)

\* Nothing the engine does in between unsettles them.
LEMMA ScoredStays == Spec => []Scored
<1>1. Init => Scored
  BY DEF Init, Scored
<1>2. Scored /\ [Next]_vars => Scored'
  <2> SUFFICES ASSUME Scored, [Next]_vars PROVE Scored'
    OBVIOUS
  <2> USE DEF Scored, judged, engine, strategies
  <2>1. CASE StartSlot \/ Exhaust \/ BeginGeneration \/ Raise
    BY <2>1 DEF StartSlot, Exhaust, BeginGeneration, Raise
  <2>2. CASE Record
    BY <2>2 DEF Record, Index
  <2>3. CASE SelectNone
    BY <2>3 DEF SelectNone, Breed
  <2>4. CASE \/ \E why \in {"malformed", "duplicate"} : Reject(why)
             \/ \E d \in Diff : Accept(d)
    BY <2>4 DEF Reject, Accept
  <2>5. ASSUME NEW s \in SUBSET Index, NEW m \in [Index -> [Metric -> 0..MaxMetric]],
               ExecuteGeneration(s, m)
        PROVE  Scored'
    <3>1. [Metric -> 0..MaxMetric] \subseteq Metrics
      BY DEF Metrics
    <3>2. m \in [Index -> Metrics]
      BY <3>1
    <3> QED BY <2>5, <3>2 DEF ExecuteGeneration, Index
  <2>6. ASSUME NEW i \in Index, Select(i) PROVE Scored'
    BY <2>6 DEF Select, Breed
  <2>7. CASE UNCHANGED vars
    BY <2>7 DEF vars, slot, Index
  <2> QED BY <2>1, <2>2, <2>3, <2>4, <2>5, <2>6, <2>7 DEF Next, Populate, Evolve
<1> QED BY <1>1, <1>2, PTL DEF Spec

-----------------------------------------------------------------------------
\* As good everywhere and different is better somewhere.
LEMMA BeatingIsDominating ==
  ASSUME NEW a \in Metrics, NEW b \in Metrics, Beats(a, b)
  PROVE  dominates(a, b)
<1>1. \A k \in Metric : a[k] \in Nat /\ b[k] \in Nat
  BY DEF Metrics
<1>2. PICK k \in Metric : a[k] # b[k]
  <2>1. a = [k \in Metric |-> a[k]] /\ b = [k \in Metric |-> b[k]]
    BY DEF Metrics
  <2> QED BY <2>1 DEF Beats
<1>3. \A l \in Metric : ~better(l, b, a)
  BY <1>1 DEF Beats, better
<1>4. better(k, a, b)
  BY <1>1, <1>2 DEF Beats, better
<1> QED BY <1>3, <1>4 DEF dominates

\* Composite scores are integers, and no failure has as many as a success.
LEMMA ScoresAreRanked ==
  ASSUME NEW n \in Nat, NEW ms \in [1..n -> Metrics], NEW success \in SUBSET (1..n),
         NEW strategy
  PROVE  LET score == score_candidates(strategy, ms, success) IN
         /\ score \in [1..n -> Int]
         /\ \A i \in success, j \in (1..n) \ success : score[j] < score[i]
<1> DEFINE raw == raw_score(strategy, ms)
           score == score_candidates(strategy, ms, success)
<1>1. raw \in [1..n -> Int]
  BY RawIsInteger
<1>2. score = shifted(raw, success)
  BY DEF score_candidates
<1> HIDE DEF raw, score
<1>3. PICK d \in Nat :
        /\ shifted(raw, success) =
             [i \in 1..n |-> IF i \in success THEN raw[i] ELSE raw[i] - d]
        /\ \A i \in success, j \in (1..n) \ success : raw[j] - d < raw[i]
  BY <1>1, FailuresBelowSuccesses, Zenon
<1>4. score = [i \in 1..n |-> IF i \in success THEN raw[i] ELSE raw[i] - d]
  BY <1>2, <1>3
<1>5. score \in [1..n -> Int]
  BY <1>1, <1>4
<1>6. \A i \in success, j \in (1..n) \ success : score[j] < score[i]
  BY <1>3, <1>4
<1> QED BY <1>5, <1>6 DEF score

\* Of two candidates that fared alike a dominating one scores more under the
\* pareto strategy.
LEMMA ScoresRespectDominance ==
  ASSUME NEW n \in Nat, NEW ms \in [1..n -> Metrics], NEW success \in SUBSET (1..n)
  PROVE  LET score == score_candidates("pareto", ms, success) IN
         \A i, j \in 1..n :
           (i \in success <=> j \in success) /\ dominates(ms[i], ms[j]) => score[i] > score[j]
<1> DEFINE raw == raw_score("pareto", ms)
           score == score_candidates("pareto", ms, success)
<1>1. \A i \in 1..n : pareto_rank(ms, i) \in 0..n
  BY RankIsCount
<1>2. raw = [i \in 1..n |-> -pareto_rank(ms, i)]
  BY DEF raw_score
<1>3. raw \in [1..n -> Int]
  BY RawIsInteger
<1> HIDE DEF raw
<1>4. PICK d \in Nat :
        /\ shifted(raw, success) =
             [i \in 1..n |-> IF i \in success THEN raw[i] ELSE raw[i] - d]
        /\ \A i \in success, j \in (1..n) \ success : raw[j] - d < raw[i]
  BY <1>3, FailuresBelowSuccesses, Zenon
<1>5. \A i \in 1..n : score[i] = (IF i \in success THEN raw[i] ELSE raw[i] - d)
  BY <1>4 DEF score_candidates, raw
<1>6. \A i \in 1..n : raw[i] \in Int
  BY <1>3
<1>7. ASSUME NEW i \in 1..n, NEW j \in 1..n, dominates(ms[i], ms[j])
      PROVE  raw[i] > raw[j]
  <2>1. pareto_rank(ms, i) < pareto_rank(ms, j)
    BY <1>7, RanksRespectDominance
  <2>2. raw[i] = -pareto_rank(ms, i) /\ raw[j] = -pareto_rank(ms, j)
    BY <1>2
  <2> QED BY <1>1, <2>1, <2>2
<1> HIDE DEF score
<1>8. ASSUME NEW i \in 1..n, NEW j \in 1..n, i \in success <=> j \in success,
              dominates(ms[i], ms[j])
       PROVE  score[i] > score[j]
  BY <1>5, <1>6, <1>7, <1>8
<1> QED BY <1>8 DEF score

\* Someone has the highest composite score.
LEMMA SomeoneIsBest ==
  ASSUME NEW n \in Nat, Index = 1..n, n # 0, composite_score \in [1..n -> Int]
  PROVE  /\ BestOf(Index) # {}
         /\ Min(BestOf(Index)) \in BestOf(Index)
<1> DEFINE C == {composite_score[j] : j \in Index}
<1>1. PICK b \in Int : \A i \in 1..n : -b <= composite_score[i] /\ composite_score[i] <= b
  BY FiniteIsBounded
<1>2. 1 \in Index
  OBVIOUS
<1>3. C \subseteq Int /\ C # {} /\ \A x \in C : x <= b
  BY <1>1, <1>2
<1>4. Max(C) \in C /\ \A x \in C : x <= Max(C)
  BY <1>3, MaxIsLargest
<1>5. PICK i \in Index : composite_score[i] = Max(C)
  BY <1>4
<1>6. \A j \in Index : composite_score[i] >= composite_score[j]
  BY <1>4, <1>5
<1>7. BestOf(Index) # {}
  BY <1>6 DEF BestOf
<1>8. BestOf(Index) \subseteq Int /\ 1 \in Int /\ \A x \in BestOf(Index) : 1 <= x
  BY DEF BestOf
<1> QED BY <1>7, <1>8, MinIsLeast

\* The candidate carried over has the highest composite score of all.
LEMMA ParentIsBest ==
  ASSUME IInv, ElitePicked, NEW i \in Index, i \in FirstParent,
         composite_score \in [Index -> Int]
  PROVE  i \in BestOf(Index)
<1>1. Len(generation) \in Nat /\ Index = 1..Len(generation)
  BY DEF IInv, Typed, Index
<1>2. IsFiniteSet(Index) /\ Cardinality(Index) = Len(generation)
  <2>1. \A n \in Nat : IsFiniteSet(1..n) /\ Cardinality(1..n) = n
    BY FS_Interval
  <2> QED BY <1>1, <2>1
<1>3. CASE selection_strategy = "tournament"
  <2>1. PICK is \in kSubset(Min({tournament_size, Len(generation)}), Index) : i \in BestOf(is)
    BY <1>3 DEF FirstParent
  <2>2. Len(generation) <= 3
    BY <1>3 DEF ElitePicked, tournament_size
  <2>3. Min({3, Len(generation)}) = Len(generation)
    <3>1. 3 \in Int /\ 0 \in Int /\ {3, Len(generation)} \subseteq Int
          /\ \A x \in {3, Len(generation)} : 0 <= x
      BY <1>1
    <3>2. /\ Min({3, Len(generation)}) \in {3, Len(generation)}
          /\ \A x \in {3, Len(generation)} : Min({3, Len(generation)}) <= x
      BY <3>1, MinIsLeast
    <3> QED BY <1>1, <2>2, <3>2
  <2>4. is \subseteq Index /\ Cardinality(is) = Len(generation)
    BY <2>3 DEF kSubset, tournament_size
  <2>5. is = Index
    BY <1>2, <2>4, FS_Subset
  <2> QED BY <2>1, <2>5
<1>4. CASE selection_strategy # "tournament"
  <2>1. Len(generation) # 0
    BY <1>1
  <2>2. Min(BestOf(Index)) \in BestOf(Index)
    BY <1>1, <2>1, SomeoneIsBest
  <2> QED BY <1>4, <2>2 DEF FirstParent
<1> QED BY <1>3, <1>4

\* Where an elite is carried over, it is a candidate with the highest score.
LEMMA EliteIsBest ==
  ASSUME IInv, Scored, Next, ElitePicked
  PROVE  /\ Len(generation) \in Nat /\ Index = 1..Len(generation)
         /\ metrics \in [Index -> Metrics] /\ succeeded \in SUBSET Index
         /\ composite_score = score_candidates(scoring_strategy, metrics, succeeded)
         /\ composite_score \in [Index -> Int]
         /\ \A i \in succeeded, j \in Index \ succeeded :
              composite_score[j] < composite_score[i]
         /\ \E e \in Index : IsElite(e) /\ e \in BestOf(Index)
<1>1. pc = "select" /\ generation' # <<>>
  BY DEF ElitePicked
<1>2. Len(generation) \in Nat /\ Index = 1..Len(generation)
  BY DEF IInv, Typed, Index
<1>3. PICK e \in Index : Select(e)
  <2>1. ~SelectNone
    <3>1. Index = {} => generation = <<>>
      BY <1>2 DEF IInv, Typed
    <3> QED BY <1>1, <3>1 DEF SelectNone, Breed
  <2> QED BY <1>1, <2>1 DEF Next, Populate, Evolve, StartSlot, Exhaust, Reject, Accept,
                            BeginGeneration, Raise, Record, ExecuteGeneration
<1>4. IsElite(e)
  BY <1>3 DEF Select, Breed, IsElite
<1>5. /\ metrics \in [Index -> Metrics] /\ succeeded \in SUBSET Index
      /\ composite_score = score_candidates(scoring_strategy, metrics, succeeded)
  BY <1>1 DEF Scored
<1>6. /\ composite_score \in [Index -> Int]
      /\ \A i \in succeeded, j \in Index \ succeeded : composite_score[j] < composite_score[i]
  <2> DEFINE score == score_candidates(scoring_strategy, metrics, succeeded)
             n == Len(generation)
  <2>1. n \in Nat /\ metrics \in [1..n -> Metrics] /\ succeeded \in SUBSET (1..n)
    BY <1>2, <1>5
  <2> HIDE DEF n
  <2>2. /\ score \in [1..n -> Int]
        /\ \A i \in succeeded, j \in (1..n) \ succeeded : score[j] < score[i]
    BY <2>1, ScoresAreRanked, Zenon
  <2> QED BY <1>2, <1>5, <2>2, Zenon DEF n
<1>7. e \in BestOf(Index)
  BY <1>3, <1>6, ParentIsBest DEF Select
<1> QED BY <1>2, <1>4, <1>5, <1>6, <1>7

-----------------------------------------------------------------------------
\* If anything of a generation was merged the elite is one of those, under both
\* scoring strategies and every way of selecting that looks at everybody
\* (score_candidates and _select_parents).
THEOREM EliteIsSucceeded == Spec => EliteSucceeded
<1>1. IInv /\ Scored /\ [Next]_vars =>
        [ElitePicked => \A i \in succeeded : \E j \in succeeded : IsElite(j)]_vars
  <2> SUFFICES ASSUME IInv, Scored, Next, ElitePicked, NEW i \in succeeded
               PROVE  \E j \in succeeded : IsElite(j)
    OBVIOUS
  <2>1. PICK e \in Index : IsElite(e) /\ e \in BestOf(Index)
    BY EliteIsBest
  <2>2. ASSUME e \notin succeeded PROVE FALSE
    <3>1. composite_score[e] < composite_score[i]
      BY <2>1, <2>2, EliteIsBest
    <3>2. i \in Index /\ composite_score[e] >= composite_score[i]
      BY <2>1, EliteIsBest DEF BestOf
    <3>3. composite_score[e] \in Int /\ composite_score[i] \in Int
      BY <3>2, EliteIsBest
    <3> QED BY <3>1, <3>2, <3>3
  <2> QED BY <2>1, <2>2
<1> QED BY <1>1, Invariant, ScoredStays, PTL DEF Spec, EliteSucceeded

\* Under the pareto strategy no candidate that fared as the elite did, merged or
\* not, dominates it (calculate_pareto_fronts, score_candidates and
\* _select_parents), in a tournament as long as everybody takes part.
THEOREM EliteIsUndominated == Spec => EliteUndominated
<1> DEFINE Undominated ==
      ElitePicked /\ scoring_strategy = "pareto" =>
        \E j \in Index :
          /\ IsElite(j)
          /\ \A i \in Index :
               i \in succeeded <=> j \in succeeded => ~Beats(metrics[i], metrics[j])
<1>1. IInv /\ Scored /\ [Next]_vars => [Undominated]_vars
  <2> SUFFICES ASSUME IInv, Scored, Next, ElitePicked, scoring_strategy = "pareto"
               PROVE  \E j \in Index :
                        /\ IsElite(j)
                        /\ \A i \in Index :
                             i \in succeeded <=> j \in succeeded =>
                               ~Beats(metrics[i], metrics[j])
    OBVIOUS
  <2>1. PICK e \in Index : IsElite(e) /\ e \in BestOf(Index)
    BY EliteIsBest
  <2>2. \A i, j \in Index :
          (i \in succeeded <=> j \in succeeded) /\ dominates(metrics[i], metrics[j])
            => composite_score[i] > composite_score[j]
    BY EliteIsBest, ScoresRespectDominance
  <2>3. ASSUME NEW i \in Index, i \in succeeded <=> e \in succeeded,
               Beats(metrics[i], metrics[e])
        PROVE  FALSE
    <3>1. metrics[i] \in Metrics /\ metrics[e] \in Metrics
      BY EliteIsBest
    <3>2. dominates(metrics[i], metrics[e])
      BY <2>3, <3>1, BeatingIsDominating
    <3>3. composite_score[i] > composite_score[e]
      BY <2>2, <2>3, <3>2
    <3>4. composite_score[e] >= composite_score[i]
      BY <2>1 DEF BestOf
    <3>5. composite_score[e] \in Int /\ composite_score[i] \in Int
      BY EliteIsBest
    <3> QED BY <3>3, <3>4, <3>5
  <2> QED BY <2>1, <2>3
<1> QED BY <1>1, Invariant, ScoredStays, PTL DEF Spec, EliteUndominated

-----------------------------------------------------------------------------
(* Type correctness *)

\* A generation that is bred from is not the last.
NotLast == pc = "select" => gen < max_generations - 1

\* The bounds of the size are what they are called.
LEMMA BoundsAreBounds ==
  /\ Least \in Nat \ {0} /\ Most \in Nat
  /\ \A n \in {population_size, adaptive_sizing.min_population,
               adaptive_sizing.max_population} : Least <= n /\ n <= Most
<1> DEFINE B == {population_size, adaptive_sizing.min_population, adaptive_sizing.max_population}
           b == population_size + adaptive_sizing.min_population + adaptive_sizing.max_population
<1>1. /\ population_size \in Nat \ {0}
      /\ adaptive_sizing.min_population \in Nat \ {0}
      /\ adaptive_sizing.max_population \in Nat \ {0}
  BY SizeAssumption, SizingAssumption
<1>2. B \subseteq Int /\ B # {} /\ b \in Int /\ 1 \in Int
  BY <1>1
<1>3. \A x \in B : 1 <= x /\ x <= b
  BY <1>1
<1>4. Max(B) \in B /\ \A x \in B : x <= Max(B)
  <2> HIDE DEF B, b
  <2> QED BY <1>2, <1>3, MaxIsLargest
<1>5. Min(B) \in B /\ \A x \in B : Min(B) <= x
  <2> HIDE DEF B, b
  <2> QED BY <1>2, <1>3, MinIsLeast
<1> QED BY <1>1, <1>4, <1>5 DEF Least, Most

\* _adaptive_sizing keeps to them.
LEMMA SizeStaysWithin ==
  ASSUME pop_size \in Least..Most, NEW scores
  PROVE  resized(scores) \in Least..Most
<1> DEFINE least == adaptive_sizing.min_population
           most == adaptive_sizing.max_population
<1>1. /\ least \in Nat /\ Least <= least /\ least <= Most
      /\ most \in Nat /\ Least <= most /\ most <= Most
      /\ Least \in Nat \ {0} /\ Most \in Nat /\ pop_size \in Nat
  <2>1. least \in Nat /\ most \in Nat
    BY SizingAssumption
  <2> QED BY <2>1, BoundsAreBounds
<1>2. Max({least, pop_size - 1}) \in Least..Most
  <2> DEFINE n == pop_size - 1
  <2>1. least \in Int /\ n \in Int
    BY <1>1
  <2> HIDE DEF least, n
  <2>2. Max({least, n}) \in {least, n} /\ Max({least, n}) >= least
    BY <2>1, OfTwo
  <2> QED BY <1>1, <2>1, <2>2 DEF n
<1>3. Min({most, pop_size + 1}) \in Least..Most
  <2>1. /\ {most, pop_size + 1} \subseteq Int /\ {most, pop_size + 1} # {}
        /\ 0 \in Int /\ \A x \in {most, pop_size + 1} : 0 <= x
    BY <1>1
  <2>2. /\ Min({most, pop_size + 1}) \in {most, pop_size + 1}
        /\ Min({most, pop_size + 1}) <= most
    BY <2>1, MinIsLeast
  <2> QED BY <1>1, <2>2
<1>4. resized(scores) \in {pop_size, Max({least, pop_size - 1}), Min({most, pop_size + 1})}
  BY DEF resized
<1> QED BY <1>2, <1>3, <1>4

\* The best score of a generation is an integer.
LEMMA BestIsInteger ==
  ASSUME IInv, Scored, pc = "record"
  PROVE  BestScore \in Int
<1> DEFINE n == Len(generation)
<1>1. n \in Nat /\ Index = 1..n /\ (n = 0 => generation = <<>>)
  BY DEF IInv, Typed, Index
<1>2. composite_score \in [1..n -> Int]
  <2>1. /\ metrics \in [1..n -> Metrics] /\ succeeded \in SUBSET (1..n)
        /\ composite_score = score_candidates(scoring_strategy, metrics, succeeded)
    BY <1>1 DEF Scored
  <2> HIDE DEF n
  <2> QED BY <1>1, <2>1, ScoresAreRanked
<1>3. CASE generation = <<>>
  BY <1>3 DEF BestScore
<1>4. CASE generation # <<>>
  <2> DEFINE C == ToSet(composite_score)
  <2>1. C = {composite_score[i] : i \in 1..n}
    BY <1>2 DEF ToSet
  <2> HIDE DEF n
  <2>2. PICK b \in Int : \A i \in 1..n : -b <= composite_score[i] /\ composite_score[i] <= b
    BY <1>1, <1>2, FiniteIsBounded
  <2>3. 1 \in 1..n
    BY <1>1, <1>4
  <2>4. C \subseteq Int /\ C # {} /\ \A x \in C : x <= b
    <3>1. \A i \in 1..n : composite_score[i] \in Int
      BY <1>2
    <3> HIDE DEF C
    <3> QED BY <2>1, <2>2, <2>3, <3>1
  <2>5. Max(C) \in C
    <3> HIDE DEF C
    <3> QED BY <2>4, MaxIsLargest
  <2> QED BY <1>4, <2>4, <2>5 DEF BestScore
<1> QED BY <1>3, <1>4

\* A function on an initial interval is a sequence.
LEMMA IntervalIsSequence ==
  ASSUME NEW T, NEW n \in Nat, NEW f \in [1..n -> T]
  PROVE  f \in Seq(T)
OBVIOUS

\* Every step keeps the types, given the counts that are kept.
LEMMA TypesStay ==
  IInv /\ Scored /\ TypeOK /\ NotLast /\ [Next]_vars => TypeOK' /\ NotLast'
<1> SUFFICES ASSUME IInv, Scored, TypeOK, NotLast, [Next]_vars PROVE TypeOK' /\ NotLast'
  OBVIOUS
<1> USE DEF durable, engine, judged, strategies
<1>0. /\ Index = 1..Len(generation) /\ Len(generation) \in Nat
      /\ Most \in Nat /\ Least \in Nat \ {0}
      /\ max_generations \in Nat \ {0} /\ generation \in Seq(Candidate)
  BY BoundsAreBounds, SizeAssumption DEF TypeOK, Index, Candidate
<1>a. generation' \in Seq(Candidate)' /\ memory' \subseteq Diff
  BY NextIInv DEF IInv, Typed
<1>b. pc = "attempt" => worktrees - 1 \in Nat
  <2>1. Cardinality(Fresh(generation)) \in Nat
    BY <1>0, FreshIsFinite, FS_CardinalityType
  <2> QED BY <2>1 DEF IInv, Housed, Trying
<1>1. CASE StartSlot
  BY <1>0, <1>1 DEF StartSlot, TypeOK, NotLast
<1>2. ASSUME NEW why \in {"malformed", "duplicate"}, Reject(why) PROVE TypeOK' /\ NotLast'
  BY <1>0, <1>2 DEF Reject, Rejected, TypeOK, NotLast, max_retries
<1>3. ASSUME NEW d \in Diff, Accept(d) PROVE TypeOK' /\ NotLast'
  <2> DEFINE c == [diff |-> d, fresh |-> TRUE]
  <2>1. c \in Candidate
    BY DEF Candidate
  <2>2. generation' \in Seq(Candidate) /\ Len(generation') = Len(generation) + 1
    BY <1>0, <1>3, <2>1, Appended DEF Accept
  <2>3. succeeded' \subseteq 1..Len(generation')
    BY <1>0, <1>3, <2>2 DEF Accept, TypeOK
  <2> QED BY <1>0, <1>3, <2>2, <2>3 DEF Accept, TypeOK, NotLast, max_retries, Candidate
<1>4. CASE Exhaust
  BY <1>0, <1>b, <1>4 DEF Exhaust, TypeOK, NotLast, max_retries
<1>5. CASE BeginGeneration
  BY <1>5 DEF BeginGeneration, TypeOK, NotLast
<1>6. CASE Raise
  BY <1>6 DEF Raise, TypeOK, NotLast
<1>7. CASE Record
  <2> USE <1>7 DEF Record
  <2>1. pop_size' \in Least..Most
    BY SizeStaysWithin DEF TypeOK
  <2>2. best_scores' \in Seq(Int)
    BY BestIsInteger DEF TypeOK
  <2>3. NotLast'
    BY <1>0 DEF TypeOK, NotLast
  <2>4. TypeOK'
    BY <1>0, <1>a, <2>1, <2>2 DEF TypeOK
  <2> QED BY <2>3, <2>4
<1>8. ASSUME NEW elites \in Seq(Candidate), Len(elites) \in {0, 1}, pc = "select", Breed(elites)
      PROVE  TypeOK' /\ NotLast'
  <2>1. Slots(elites) \in 0..Most
    BY <1>0, <1>8 DEF Slots, TypeOK
  <2>2. gen' \in 0..(max_generations - 1)
    BY <1>0, <1>8 DEF Breed, TypeOK, NotLast
  <2>3. tried' \in Nat
    BY <1>8 DEF Breed, TypeOK
  <2> QED BY <1>8, <2>1, <2>2, <2>3 DEF Breed, TypeOK, NotLast, Candidate
<1>9. CASE SelectNone
  <2>1. CASE selection_strategy = "tournament"
    BY <1>9, <2>1 DEF SelectNone, TypeOK, NotLast
  <2>2. CASE selection_strategy # "tournament"
    <3>1. <<>> \in Seq(Candidate) /\ Len(<<>>) = 0
      OBVIOUS
    <3>2. pc = "select" /\ Breed(<<>>)
      BY <1>9, <2>2 DEF SelectNone
    <3> QED BY <1>8, <3>1, <3>2
  <2> QED BY <2>1, <2>2
<1>10. ASSUME NEW i \in Index, Select(i) PROVE TypeOK' /\ NotLast'
  <2>1. generation[i].diff \in Diff
    <3>1. generation[i] \in Candidate
      BY <1>0
    <3> QED BY <3>1 DEF Candidate
  <2> QED BY <1>8, <1>10, <2>1, ElitesAreOld DEF Select
<1>11. ASSUME NEW s \in SUBSET Index, NEW m \in [Index -> [Metric -> 0..MaxMetric]],
              ExecuteGeneration(s, m)
       PROVE  TypeOK' /\ NotLast'
  <2> DEFINE n == Len(generation)
             score == score_candidates(scoring_strategy, m, s)
  <2>1. m \in [1..n -> Metrics]
    <3>1. [Metric -> 0..MaxMetric] \subseteq Metrics
      BY DEF Metrics
    <3> QED BY <1>0, <3>1
  <2>2. score \in [1..n -> Int]
    <3> HIDE DEF n
    <3> QED BY <1>0, <2>1, ScoresAreRanked DEF n
  <2> HIDE DEF score
  <2>3. m \in Seq([Metric -> 0..MaxMetric])
    BY <1>0, IntervalIsSequence
  <2>4. score \in Seq(Int)
    BY <1>0, <2>2, IntervalIsSequence
  <2>5. composite_score' = score /\ metrics' = m /\ succeeded' = s
    BY <1>11 DEF ExecuteGeneration, score
  <2>6. /\ pc' = "record" /\ worktrees' = 0
        /\ UNCHANGED <<slots, attempt, last_rejection, generation, gen, engine, memory,
                       records, tried>>
    BY <1>11 DEF ExecuteGeneration
  <2> QED BY <1>0, <2>3, <2>4, <2>5, <2>6 DEF TypeOK, NotLast
<1>12. CASE UNCHANGED vars
  BY <1>12 DEF vars, slot, TypeOK, NotLast
<1> QED BY <1>1, <1>2, <1>3, <1>4, <1>5, <1>6, <1>7, <1>9, <1>10, <1>11, <1>12
        DEF Next, Populate, Evolve

\* Types and the last generation together.
LEMMA TypedThroughout == Spec => [](TypeOK /\ NotLast)
<1>1. Init => TypeOK /\ NotLast
  <2> SUFFICES ASSUME Init PROVE TypeOK /\ NotLast
    OBVIOUS
  <2>1. records \in Nat
    BY FS_CardinalityType DEF Init
  <2> QED BY <2>1, BoundsAreBounds, SizeAssumption
          DEF Init, TypeOK, NotLast, max_retries
<1> QED BY <1>1, TypesStay, Invariant, ScoredStays, PTL DEF Spec

\* The search is type-correct: the size of the population keeps between the
\* bounds it is given, and scores are integers whatever the strategy
\* (_adaptive_sizing, score_candidates).
THEOREM TypeCorrect == Spec => []TypeOK
BY TypedThroughout, PTL

-----------------------------------------------------------------------------
(* Empty generations *)

\* A tournament over nothing ends the search, but only after the first
\* generation: whatever became of a later one, its elite takes part.
RaisesOnlyAtTheStart ==
  pc = "raised" =>
    selection_strategy = "tournament" /\ gen = 0 /\ generation = <<>>

\* The elite of a tournament is in the generation it is carried into.
Carried == selection_strategy = "tournament" /\ gen # 0 => generation # <<>>

\* Once a tournament has had somebody to select from, it always has.
LEMMA CarriedStays ==
  IInv /\ TypeOK /\ Carried /\ RaisesOnlyAtTheStart /\ [Next]_vars
    => Carried' /\ RaisesOnlyAtTheStart'
<1> SUFFICES ASSUME IInv, TypeOK, Carried, RaisesOnlyAtTheStart, [Next]_vars
             PROVE  Carried' /\ RaisesOnlyAtTheStart'
  OBVIOUS
<1> USE DEF Carried, RaisesOnlyAtTheStart, durable, engine, judged, strategies
<1>1. generation \in Seq(Candidate) /\ Index = 1..Len(generation)
  BY DEF IInv, Typed, Index
<1>2. CASE \/ StartSlot \/ Exhaust \/ BeginGeneration \/ Raise \/ Record
           \/ \E why \in {"malformed", "duplicate"} : Reject(why)
           \/ \E s \in SUBSET Index, m \in [Index -> [Metric -> 0..MaxMetric]] :
                ExecuteGeneration(s, m)
  BY <1>2 DEF StartSlot, Exhaust, BeginGeneration, Raise, Record, Reject, ExecuteGeneration
<1>3. ASSUME NEW d \in Diff, Accept(d)
      PROVE  Carried' /\ RaisesOnlyAtTheStart'
  <2>1. generation' # <<>>
    BY <1>1, <1>3, Appended DEF Accept, Candidate
  <2> QED BY <1>3, <2>1 DEF Accept
<1>4. CASE SelectNone
  <2>1. generation = <<>>
    BY <1>1, <1>4 DEF SelectNone
  <2> QED BY <1>4, <2>1 DEF SelectNone, Breed
<1>5. ASSUME NEW i \in Index, Select(i)
      PROVE  Carried' /\ RaisesOnlyAtTheStart'
  <2>1. generation' # <<>>
    BY <1>5 DEF Select, Breed
  <2> QED BY <1>5, <2>1 DEF Select, Breed
<1>6. CASE UNCHANGED vars
  BY <1>6 DEF vars, slot
<1> QED BY <1>2, <1>3, <1>4, <1>5, <1>6 DEF Next, Populate, Evolve

\* The tournament that raises over nothing is that of the first generation
\* (_tournament_selection): the elite keeps every later one going.
THEOREM OnlyTheFirstRaises == Spec => []RaisesOnlyAtTheStart
<1>1. Init => Carried /\ RaisesOnlyAtTheStart
  BY DEF Init, Carried, RaisesOnlyAtTheStart
<1> QED BY <1>1, CarriedStays, Invariant, TypeCorrect, PTL DEF Spec

\* With the strategies that sort, an empty generation is survived as the code
\* says (`if parents:`).
THEOREM SortingSurvives ==
  Spec /\ selection_strategy # "tournament" => []SurvivesEmptyGeneration
<1> DEFINE Sorts == selection_strategy # "tournament"
<1>1. Sorts /\ [Next]_vars => Sorts'
  BY DEF Next, Populate, Evolve, StartSlot, Exhaust, Reject, Accept, BeginGeneration,
         Raise, Record, SelectNone, Select, Breed, ExecuteGeneration, vars, engine, strategies
<1>2. Sorts /\ RaisesOnlyAtTheStart => SurvivesEmptyGeneration
  BY DEF RaisesOnlyAtTheStart, SurvivesEmptyGeneration
<1> QED BY <1>1, <1>2, OnlyTheFirstRaises, PTL DEF Spec

-----------------------------------------------------------------------------
(* The length of a search *)

\* The steps a run still has in it: a slot takes at most its worktree, the
\* retries and an end, and a generation four steps beside its slots.
StepsLeft ==
  LET ofLater == (max_generations - 1 - gen) * ((max_retries + 2) * Most + 4)
      ofSlots == (max_retries + 2) * slots + 4 IN
  CASE pc = "generate" -> ofLater + ofSlots
    [] pc = "attempt" -> ofLater + ofSlots + max_retries + 2 - attempt
    [] pc = "schedule" -> ofLater + 3
    [] pc = "record" -> ofLater + 2
    [] pc = "select" -> ofLater + 1
    [] OTHER -> 0

\* Every step, failures and rejections included, brings the search nearer to
\* its end: what it costs is bounded by the configuration alone.
SearchIsBounded == [][StepsLeft' \in 0..(StepsLeft - 1)]_vars

\* The retries of a slot start at one.
Retried == pc \in {"generate", "schedule", "record", "select"} => attempt = 1

\* A generation fewer to come makes room for the largest one.
LEMMA OneFewer ==
  ASSUME NEW n \in Nat \ {0}, NEW k \in Nat
  PROVE  n * k = (n - 1) * k + k
<1>1. \A m \in Nat : (m + 1) * k = m * k + k
  OBVIOUS
<1>2. n - 1 \in Nat /\ (n - 1) + 1 = n
  OBVIOUS
<1> QED BY <1>1, <1>2

\* Every step of the search uses up at least one of the steps it has left.
LEMMA StepsRunOut ==
  IInv /\ TypeOK /\ NotLast /\ Retried /\ Next
    => Retried' /\ StepsLeft' \in 0..(StepsLeft - 1)
<1> SUFFICES ASSUME IInv, TypeOK, NotLast, Retried, Next
             PROVE  Retried' /\ StepsLeft' \in 0..(StepsLeft - 1)
  OBVIOUS
<1> DEFINE K == (max_retries + 2) * Most + 4
           Later == (max_generations - 1 - gen) * K
<1> USE DEF durable, engine, judged, Retried
<1>1. /\ Most \in Nat /\ K \in Nat /\ K = 5 * Most + 4
      /\ gen \in Nat /\ max_generations \in Nat \ {0} /\ gen <= max_generations - 1
      /\ slots \in Nat /\ attempt \in 1..4
  BY BoundsAreBounds, SizeAssumption DEF TypeOK, max_retries
<1>2. Later \in Nat
  <2>1. max_generations - 1 - gen \in Nat
    BY <1>1
  <2> HIDE DEF K
  <2>2. \A n, k \in Nat : n * k \in Nat
    OBVIOUS
  <2> QED BY <1>1, <2>1, <2>2
<1>3. /\ pc = "generate" => StepsLeft = Later + (5 * slots + 4)
      /\ pc = "attempt" => StepsLeft = Later + (5 * slots + 4) + 3 + 2 - attempt
      /\ pc = "schedule" => StepsLeft = Later + 3
      /\ pc = "record" => StepsLeft = Later + 2
      /\ pc = "select" => StepsLeft = Later + 1
      /\ pc \in {"done", "aborted", "raised"} => StepsLeft = 0
  BY DEF StepsLeft, max_retries
<1>4. ASSUME UNCHANGED gen
      PROVE  /\ pc' = "generate" => StepsLeft' = Later + (5 * slots' + 4)
             /\ pc' = "attempt" => StepsLeft' = Later + (5 * slots' + 4) + 3 + 2 - attempt'
             /\ pc' = "schedule" => StepsLeft' = Later + 3
             /\ pc' = "record" => StepsLeft' = Later + 2
             /\ pc' = "select" => StepsLeft' = Later + 1
             /\ pc' \in {"done", "aborted", "raised"} => StepsLeft' = 0
  BY <1>4 DEF StepsLeft, max_retries
<1> HIDE DEF K, Later
<1>5. CASE StartSlot
  BY <1>1, <1>2, <1>3, <1>4, <1>5 DEF StartSlot
<1>6. ASSUME NEW why \in {"malformed", "duplicate"}, Reject(why)
      PROVE  Retried' /\ StepsLeft' \in 0..(StepsLeft - 1)
  BY <1>1, <1>2, <1>3, <1>4, <1>6 DEF Reject, Rejected, max_retries
<1>7. ASSUME NEW d \in Diff, Accept(d)
      PROVE  Retried' /\ StepsLeft' \in 0..(StepsLeft - 1)
  BY <1>1, <1>2, <1>3, <1>4, <1>7 DEF Accept, max_retries
<1>8. CASE Exhaust
  BY <1>1, <1>2, <1>3, <1>4, <1>8 DEF Exhaust, max_retries
<1>9. CASE BeginGeneration
  BY <1>1, <1>2, <1>3, <1>4, <1>9 DEF BeginGeneration
<1>10. CASE Raise
  <2>1. /\ pc \in {"attempt", "schedule", "record"} /\ StepsLeft' = 0
        /\ Retried'
    BY <1>4, <1>10 DEF Raise
  <2>2. StepsLeft \in Nat \ {0}
    BY <1>1, <1>2, <1>3, <2>1
  <2> QED BY <2>1, <2>2
<1>11. CASE Record
  BY <1>1, <1>2, <1>3, <1>4, <1>11 DEF Record
<1>12. ASSUME NEW s, NEW m, ExecuteGeneration(s, m)
       PROVE  Retried' /\ StepsLeft' \in 0..(StepsLeft - 1)
  BY <1>1, <1>2, <1>3, <1>4, <1>12 DEF ExecuteGeneration
<1>13. ASSUME NEW elites \in Seq(Candidate), pc = "select", Breed(elites)
       PROVE  Retried' /\ StepsLeft' \in 0..(StepsLeft - 1)
  <2>1. max_generations - 1 - gen \in Nat \ {0}
    BY <1>1, <1>13 DEF NotLast
  <2>2. Later = (max_generations - 1 - gen - 1) * K + K
    BY <1>1, <2>1, OneFewer DEF Later
  <2>3. max_generations - 1 - gen' = max_generations - 1 - gen - 1
    BY <1>1, <1>13 DEF Breed
  <2> DEFINE After == (max_generations - 1 - gen') * K
  <2>4. Later = After + K
    BY <2>2, <2>3
  <2>5. slots' \in 0..Most
    BY <1>1, <1>13 DEF Breed, Slots, TypeOK
  <2>6. After \in Nat
    <3>1. max_generations - 1 - gen - 1 \in Nat
      BY <2>1
    <3>2. \A n \in Nat : n * K \in Nat
      BY <1>1
    <3> QED BY <2>3, <3>1, <3>2
  <2>7. StepsLeft' = After + (5 * slots' + 4)
    BY <1>13 DEF Breed, StepsLeft, max_retries, K
  <2>8. StepsLeft = Later + 1
    BY <1>3, <1>13
  <2>9. Retried'
    BY <1>13 DEF Breed
  <2> HIDE DEF After
  <2>10. StepsLeft = After + (5 * Most + 4) + 1
    BY <1>1, <2>4, <2>6, <2>8
  <2>11. \A n \in 0..Most : 5 * n + 4 \in 0..(5 * Most + 4)
    BY <1>1
  <2>12. 5 * slots' + 4 \in 0..(5 * Most + 4)
    BY <2>5, <2>11
  <2>13. /\ \A a, b, c \in Nat : a + b + 1 \in Int /\ (c \in 0..b => a + c \in 0..(a + b + 1 - 1))
    OBVIOUS
  <2>14. StepsLeft' \in 0..(StepsLeft - 1)
    BY <1>1, <2>6, <2>7, <2>10, <2>12, <2>13
  <2> QED BY <2>9, <2>14
<1>14. CASE SelectNone
  <2>1. CASE selection_strategy = "tournament"
    BY <1>2, <1>3, <1>4, <1>14, <2>1 DEF SelectNone
  <2>2. CASE selection_strategy # "tournament"
    <3>1. <<>> \in Seq(Candidate)
      OBVIOUS
    <3> QED BY <1>13, <1>14, <2>2, <3>1 DEF SelectNone
  <2> QED BY <2>1, <2>2
<1>15. ASSUME NEW i \in Index, Select(i)
       PROVE  Retried' /\ StepsLeft' \in 0..(StepsLeft - 1)
  <2>1. generation[i] \in Candidate
    BY DEF IInv, Typed, Index
  <2>2. generation[i].diff \in Diff
    BY <2>1 DEF Candidate
  <2> QED BY <1>13, <1>15, <2>2, ElitesAreOld DEF Select
<1>16. CASE Populate
  BY <1>5, <1>6, <1>7, <1>8, <1>16 DEF Populate
<1>17. CASE Evolve
  BY <1>9, <1>10, <1>11, <1>12, <1>14, <1>15, <1>17 DEF Evolve
<1> QED BY <1>16, <1>17 DEF Next

\* Every step brings the search nearer to its end (_generate_population, run):
\* at most max_retries rejections to a slot, Most slots to a generation and
\* max_generations generations, whatever the model proposes and fails at.
THEOREM SearchTakesBoundedSteps == Spec => SearchIsBounded
<1>1. Init => Retried
  BY DEF Init, Retried
<1>2. Retried /\ UNCHANGED vars => Retried'
  BY DEF Retried, vars, slot
<1>3. IInv /\ TypeOK /\ NotLast /\ Retried /\ [Next]_vars
        => Retried' /\ [StepsLeft' \in 0..(StepsLeft - 1)]_vars
  BY <1>2, StepsRunOut
<1>4. Spec => []Retried
  BY <1>1, <1>3, Invariant, TypedThroughout, PTL DEF Spec
<1> QED BY <1>3, <1>4, Invariant, TypedThroughout, PTL DEF Spec, SearchIsBounded
=============================================================================
