------------------------ MODULE EvolutionEngineProofs ------------------------
(***************************************************************************)
(* What is proved of EvolutionEngine for every set of diffs, every         *)
(* configuration and any number of generations.                            *)
(***************************************************************************)
EXTENDS EvolutionEngine, FiniteSetTheorems, TLAPS

Candidate == [diff: Diff, fresh: BOOLEAN]

\* The part of the typing that the counts below need.
Typed ==
  /\ slots \in Nat /\ generation \in Seq(Candidate)
  /\ pop_size \in Nat \ {0}
  /\ memory \subseteq Diff
  /\ records \in Int /\ tried \in Int /\ worktrees \in Int

Fresh(g) == {i \in DOMAIN g : g[i].fresh}

\* A slot being tried is one that has a worktree and no candidate yet.
Trying == IF pc = "attempt" THEN 1 ELSE 0

Sized ==
  pc \in {"generate", "attempt", "schedule"} => Len(generation) + slots + Trying <= pop_size

\* What is not recorded yet is in the generation, or being tried.
Counted ==
  /\ pc \in {"generate", "attempt", "schedule", "record"} =>
       records + Len(generation) + Trying = tried
  /\ pc \in {"select", "done"} => records = tried

New ==
  pc \in {"generate", "attempt", "schedule", "record"} =>
    \A i \in DOMAIN generation : generation[i].fresh => generation[i].diff \notin memory

Housed ==
  /\ pc \in {"generate", "attempt", "schedule"} =>
       worktrees = Cardinality(Fresh(generation)) + Trying
  /\ pc \in {"record", "select"} => worktrees = 0

IInv == Typed /\ Sized /\ Counted /\ New /\ Housed

-----------------------------------------------------------------------------
\* The larger and the smaller of two sizes, as _adaptive_sizing computes them.
LEMMA OfTwo ==
  ASSUME NEW a \in Int, NEW b \in Int
  PROVE  /\ Max({a, b}) \in {a, b} /\ Max({a, b}) >= a /\ Max({a, b}) >= b
         /\ Min({a, b}) \in {a, b}
<1>1. \E x \in {a, b} : \A y \in {a, b} : x >= y
  <2>1. CASE a >= b
    BY <2>1
  <2>2. CASE b >= a
    BY <2>2
  <2> QED BY <2>1, <2>2
<1>2. \E x \in {a, b} : \A y \in {a, b} : x =< y
  <2>1. CASE a >= b
    BY <2>1
  <2>2. CASE b >= a
    BY <2>2
  <2> QED BY <2>1, <2>2
<1> QED BY <1>1, <1>2 DEF Max, Min

\* _adaptive_sizing never makes the population empty.
LEMMA SizeStaysPositive ==
  ASSUME pop_size \in Nat \ {0}, NEW scores
  PROVE  resized(scores) \in Nat \ {0}
<1> DEFINE least == adaptive_sizing.min_population
           most == adaptive_sizing.max_population
<1>1. least \in Nat \ {0} /\ most \in Nat \ {0}
  BY SizingAssumption
<1>2. ASSUME NEW a \in Nat \ {0}, NEW n \in Nat \ {0}
      PROVE  Max({a, n - 1}) \in Nat \ {0} /\ Min({a, n + 1}) \in Nat \ {0}
  <2>1. a \in Int /\ n - 1 \in Int /\ n + 1 \in Int
    OBVIOUS
  <2>2. Max({a, n - 1}) \in {a, n - 1} /\ Max({a, n - 1}) >= a
    BY <2>1, OfTwo
  <2>3. Min({a, n + 1}) \in {a, n + 1}
    BY <2>1, OfTwo
  <2> QED BY <2>2, <2>3
<1>3. resized(scores) \in {pop_size, Max({least, pop_size - 1}), Min({most, pop_size + 1})}
  BY DEF resized
<1> QED BY <1>1, <1>2, <1>3

\* A generation has finitely many fresh candidates.
LEMMA FreshIsFinite ==
  ASSUME NEW g \in Seq(Candidate)
  PROVE  IsFiniteSet(Fresh(g))
<1>1. Fresh(g) \subseteq 1..Len(g) /\ Len(g) \in Nat
  BY DEF Fresh
<1>2. IsFiniteSet(1..Len(g))
  BY <1>1, FS_Interval
<1> QED BY <1>1, <1>2, FS_Subset

\* What appending a candidate does.
LEMMA Appended ==
  ASSUME NEW g \in Seq(Candidate), NEW c \in Candidate
  PROVE  LET h == Append(g, c) IN
         /\ h \in Seq(Candidate) /\ Len(h) = Len(g) + 1
         /\ \A i \in DOMAIN h : h[i] = c \/ (i \in DOMAIN g /\ h[i] = g[i])
OBVIOUS

\* There is one more fresh candidate once one is appended.
LEMMA FreshAppended ==
  ASSUME NEW g \in Seq(Candidate), NEW d \in Diff
  PROVE  Cardinality(Fresh(Append(g, [diff |-> d, fresh |-> TRUE]))) = Cardinality(Fresh(g)) + 1
<1> DEFINE h == Append(g, [diff |-> d, fresh |-> TRUE])
<1>1. IsFiniteSet(Fresh(g))
  BY FreshIsFinite
<1>2. Fresh(h) = Fresh(g) \cup {Len(g) + 1}
  BY DEF Fresh, Candidate
<1>3. Len(g) + 1 \notin Fresh(g)
  BY DEF Fresh
<1> QED BY <1>1, <1>2, <1>3, FS_AddElement

\* The elites that selection may carry over.
LEMMA ElitesAreOld ==
  ASSUME NEW d \in Diff
  PROVE  LET elites == <<[diff |-> d, fresh |-> FALSE]>> IN
         /\ elites \in Seq(Candidate) /\ Len(elites) = 1
         /\ Fresh(elites) = {}
BY DEF Fresh, Candidate

-----------------------------------------------------------------------------
\* The invariant holds when the search starts.
LEMMA InitIInv == Init => IInv
<1> SUFFICES ASSUME Init PROVE IInv
  OBVIOUS
<1> USE DEF Init
<1>1. Fresh(generation) = {} /\ Len(generation) = 0 /\ generation \in Seq(Candidate)
  BY DEF Fresh
<1>2. Cardinality(memory) \in Nat /\ Cardinality({}) = 0
  BY FS_CardinalityType, FS_EmptySet
<1>3. Typed
  BY <1>1, <1>2, SizeAssumption DEF Typed
<1>4. Sized
  BY <1>1, SizeAssumption DEF Sized, Trying
<1>5. Counted
  BY <1>1, <1>2 DEF Counted, Trying
<1>6. New
  BY DEF New
<1>7. Housed
  <2>1. Cardinality(Fresh(generation)) = 0
    BY <1>1, <1>2
  <2> QED BY <2>1 DEF Housed, Trying
<1> QED BY <1>3, <1>4, <1>5, <1>6, <1>7 DEF IInv

\* Breeding, with at most one elite, starts a generation of the right size.
LEMMA BreedIInv ==
  ASSUME IInv, pc = "select", NEW elites \in Seq(Candidate), Fresh(elites) = {},
         Len(elites) \in {0, 1}, Breed(elites)
  PROVE  IInv'
<1>1. Slots(elites) \in Nat /\ Len(elites) + Slots(elites) <= pop_size
  <2>1. pop_size \in Nat \ {0}
    BY DEF IInv, Typed
  <2> QED BY <2>1 DEF Slots
<1>2. Cardinality(Fresh(elites)) = 0
  BY FS_EmptySet
<1> USE DEF Breed, engine
<1>3. Typed'
  BY <1>1 DEF IInv, Typed
<1>4. Sized'
  BY <1>1 DEF IInv, Typed, Sized, Trying
<1>5. Counted'
  BY DEF IInv, Typed, Counted, Trying
<1>6. New'
  BY DEF New, Fresh
<1>7. Housed'
  <2>1. worktrees' = 0 /\ generation' = elites /\ pc' = "generate"
    BY DEF IInv, Housed
  <2>2. Cardinality(Fresh(generation')) = 0
    BY <1>2, <2>1
  <2> QED BY <2>1, <2>2 DEF Housed, Trying
<1> QED BY <1>3, <1>4, <1>5, <1>6, <1>7 DEF IInv

\* Every step of the engine preserves the invariant.
LEMMA NextIInv == IInv /\ [Next]_vars => IInv'
<1> SUFFICES ASSUME IInv, [Next]_vars PROVE IInv'
  OBVIOUS
<1> USE DEF durable, engine, judged
<1>a. Cardinality(Fresh(generation)) \in Nat
  BY FreshIsFinite, FS_CardinalityType DEF IInv, Typed
<1>b. \A i \in Index : generation[i].diff \in Diff
  <2>1. \A i \in Index : generation[i] \in Candidate
    BY DEF IInv, Typed, Index
  <2> QED BY <2>1 DEF Candidate
<1>1. CASE StartSlot
  <2> USE <1>1 DEF StartSlot, IInv, Typed, Trying
  <2>1. Typed' /\ Sized' /\ Counted' /\ New'
    BY DEF Sized, Counted, New
  <2>2. Housed'
    BY <1>a DEF Housed
  <2> QED BY <2>1, <2>2
<1>2. ASSUME NEW why \in {"malformed", "duplicate"}, Reject(why) PROVE IInv'
  BY <1>2 DEF Reject, IInv, Typed, Trying, Sized, Counted, New, Housed, Fresh
<1>3. ASSUME NEW d \in Diff, Accept(d) PROVE IInv'
  <2> DEFINE c == [diff |-> d, fresh |-> TRUE]
  <2> USE <1>3 DEF Accept, IInv, Typed
  <2>1. c \in Candidate /\ generation' = Append(generation, c)
    BY DEF Candidate
  <2>2. /\ generation' \in Seq(Candidate) /\ Len(generation') = Len(generation) + 1
        /\ \A i \in DOMAIN generation' :
             generation'[i] = c \/ (i \in DOMAIN generation /\ generation'[i] = generation[i])
    BY <2>1, Appended
  <2>3. Typed'
    BY <2>2
  <2>4. Sized' /\ Counted'
    BY <2>2 DEF Sized, Counted, Trying
  <2>5. New'
    BY <2>2 DEF New, on_record
  <2>6. Housed'
    <3>1. Cardinality(Fresh(generation')) = Cardinality(Fresh(generation)) + 1
      BY FreshAppended
    <3> QED BY <1>a, <3>1 DEF Housed, Trying
  <2> QED BY <2>3, <2>4, <2>5, <2>6
<1>4. CASE Exhaust
  <2> USE <1>4 DEF Exhaust, IInv, Typed, Trying
  <2>1. Typed' /\ Sized' /\ Counted' /\ New'
    BY DEF Sized, Counted, New
  <2>2. Housed'
    BY <1>a DEF Housed
  <2> QED BY <2>1, <2>2
<1>5. CASE BeginGeneration
  BY <1>5 DEF BeginGeneration, IInv, Typed, Trying, Sized, Counted, New, Housed, Fresh
<1>6. CASE Raise
  BY <1>6 DEF Raise, IInv, Typed, Sized, Counted, New, Housed
<1>7. CASE Record
  <2> USE <1>7 DEF Record
  <2>1. pop_size' \in Nat \ {0}
    BY SizeStaysPositive DEF IInv, Typed
  <2>2. {generation[i].diff : i \in Index} \subseteq Diff
    BY <1>b
  <2>3. Typed'
    BY <2>1, <2>2 DEF IInv, Typed
  <2>4. Sized' /\ Counted' /\ New' /\ Housed'
    BY DEF IInv, Typed, Sized, Counted, New, Housed, Trying
  <2> QED BY <2>3, <2>4 DEF IInv
<1>8. CASE SelectNone
  <2>1. CASE selection_strategy = "tournament"
    BY <1>8, <2>1 DEF SelectNone, IInv, Typed, Sized, Counted, New, Housed
  <2>2. CASE selection_strategy # "tournament"
    <3>1. <<>> \in Seq(Candidate) /\ Fresh(<<>>) = {} /\ Len(<<>>) = 0
      BY DEF Fresh
    <3> QED BY <1>8, <2>2, <3>1, BreedIInv DEF SelectNone
  <2> QED BY <2>1, <2>2
<1>9. ASSUME NEW s, NEW m, ExecuteGeneration(s, m) PROVE IInv'
  BY <1>9 DEF ExecuteGeneration, IInv, Typed, Trying, Sized, Counted, New, Housed
<1>10. ASSUME NEW i \in Index, Select(i) PROVE IInv'
  <2>1. generation[i].diff \in Diff
    BY <1>b
  <2> QED BY <1>10, <2>1, ElitesAreOld, BreedIInv DEF Select
<1>11. CASE UNCHANGED vars
  BY <1>11 DEF vars, slot, IInv, Typed, Trying, Sized, Counted, New, Housed, Fresh
<1> QED BY <1>1, <1>2, <1>3, <1>4, <1>5, <1>6, <1>7, <1>8, <1>9, <1>10, <1>11
        DEF Next, Populate, Evolve

\* The strengthened invariant holds of every behaviour.
LEMMA Invariant == Spec => []IInv
BY InitIInv, NextIInv, PTL DEF Spec

-----------------------------------------------------------------------------
\* A generation never exceeds the size in force when it was bred, the elite
\* included (run, _adaptive_sizing), whatever the sizing bounds are.
THEOREM GenerationsKeepToSize == Spec => []PopulationBounded
<1>1. IInv => PopulationBounded
  BY DEF IInv, Sized, PopulationBounded, Trying
<1> QED BY <1>1, Invariant, PTL

\* When a generation is over the memory has one record for every slot there
\* ever was, evaluated or exhausted (run, _record_exhausted_slot).
THEOREM SlotsAreRecorded == Spec => []EverySlotRecorded
<1>1. IInv => EverySlotRecorded
  BY DEF IInv, Counted, EverySlotRecorded
<1> QED BY <1>1, Invariant, PTL

\* No sandbox is spent on a fresh candidate that an earlier generation, or an
\* earlier run, has on record (is_duplicate).
THEOREM NothingTriedTwice == Spec => []FreshIsNew
<1>1. IInv => FreshIsNew
  BY DEF IInv, New, FreshIsNew, Index
<1> QED BY <1>1, Invariant, PTL

\* The scheduler is handed one worktree per fresh candidate, and none that
\* belongs to a slot that came to nothing (_generate_candidate).
THEOREM WorktreesAreAccountedFor == Spec => []OneWorktreeEach
<1>1. IInv => OneWorktreeEach
  <2> SUFFICES ASSUME IInv, pc = "schedule"
               PROVE  worktrees = Cardinality({i \in Index : generation[i].fresh})
    BY DEF OneWorktreeEach
  <2>1. worktrees = Cardinality(Fresh(generation)) + 0
    BY DEF IInv, Housed, Trying
  <2>2. Cardinality(Fresh(generation)) \in Nat
    BY FreshIsFinite, FS_CardinalityType DEF IInv, Typed
  <2> QED BY <2>1, <2>2 DEF Fresh, Index
<1> QED BY <1>1, Invariant, PTL
=============================================================================
