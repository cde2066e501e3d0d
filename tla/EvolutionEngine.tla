--------------------------- MODULE EvolutionEngine ---------------------------
(***************************************************************************)
(* The evolutionary search (evolution/population.py): a population of      *)
(* diffs is generated, evaluated by the scheduler, scored, recorded in the *)
(* experiment memory and bred from, for max_generations.  A generation is  *)
(* one step here (Scheduler models it); generating a population is not,    *)
(* since every slot may fail on its own.                                   *)
(***************************************************************************)
EXTENDS Scoring, SequencesExt

CONSTANTS
  Diff,                 \* what the language model may propose
  population_size, max_generations,
  Strategies,           \* the selection strategies a configuration may name
  ScoringStrategies,    \* and the scoring strategies
  adaptive_sizing,      \* the section of the configuration of that name
  MaxMetric             \* metrics are 0..MaxMetric

ASSUME SizeAssumption ==
  population_size \in Nat \ {0} /\ max_generations \in Nat \ {0} /\ MaxMetric \in Nat
ASSUME StrategyAssumption ==
  /\ Strategies \subseteq {"top-k", "tournament", "best"}
  /\ ScoringStrategies \subseteq {"pareto", "weighted"}
ASSUME SizingAssumption ==
  adaptive_sizing \in [enabled: BOOLEAN, convergence_generations: Nat \ {0},
                       min_population: Nat \ {0}, max_population: Nat \ {0}]

max_retries == 3
tournament_size == 3

VARIABLES
  \* generating a population
  pc, slots, attempt, last_rejection, generation,
  \* evaluating it
  gen, succeeded, metrics, composite_score,
  \* the engine
  selection_strategy, scoring_strategy, pop_size, best_scores, exhausted,
  \* experiment memory: the diffs on record, and the number of records
  memory, records,
  \* how many candidates have a worktree
  worktrees,
  \* slots ever filled or tried in vain
  tried

slot == <<pc, slots, attempt, last_rejection, generation>>
judged == <<gen, succeeded, metrics, composite_score>>
strategies == <<selection_strategy, scoring_strategy>>
engine == <<strategies, pop_size, best_scores, exhausted>>
durable == <<memory, records, worktrees, tried>>
vars == <<slot, judged, engine, durable>>

Index == DOMAIN generation

\* The bounds pop_size cannot leave, wherever it starts.
Least == Min({population_size, adaptive_sizing.min_population, adaptive_sizing.max_population})
Most == Max({population_size, adaptive_sizing.min_population, adaptive_sizing.max_population})

TypeOK ==
  /\ pc \in {"generate", "attempt", "schedule", "record", "select", "done", "aborted", "raised"}
  /\ slots \in 0..Most /\ attempt \in 1..(max_retries + 1)
  /\ last_rejection \in {"malformed", "duplicate"}
  /\ generation \in Seq([diff: Diff, fresh: BOOLEAN])
  /\ gen \in 0..(max_generations - 1)
  /\ succeeded \subseteq 1..Len(generation) /\ composite_score \in Seq(Int)
  /\ metrics \in Seq([Metric -> 0..MaxMetric])
  /\ selection_strategy \in Strategies /\ scoring_strategy \in ScoringStrategies
  /\ pop_size \in Least..Most /\ best_scores \in Seq(Int)
  /\ exhausted \in [{"malformed", "duplicate"} -> Nat]
  /\ memory \subseteq Diff /\ records \in Nat
  /\ worktrees \in Nat /\ tried \in Nat

-----------------------------------------------------------------------------
(* _generate_population: a slot at a time *)

\* The worktree comes first.
StartSlot ==
  /\ pc = "generate" /\ slots > 0
  /\ pc' = "attempt" /\ slots' = slots - 1
  /\ worktrees' = worktrees + 1 /\ tried' = tried + 1
  /\ UNCHANGED <<attempt, last_rejection, generation, judged, engine, memory, records>>

\* Mutant of Rejected: a duplicate starts the retries again.
RejectedAfresh(why) ==
  /\ attempt' = IF why = "duplicate" THEN 1 ELSE attempt + 1
  /\ last_rejection' = why

Rejected(why) == attempt' = attempt + 1 /\ last_rejection' = why

\* The dry run fails, or the diff is too close to one on record.
Reject(why) ==
  /\ pc = "attempt" /\ attempt <= max_retries
  /\ why = "duplicate" => records > 0
  /\ Rejected(why)
  /\ UNCHANGED <<pc, slots, generation, judged, engine, durable>>

\* Mutant of on_record: the exact-match check is missing.
never_on_record(d) == FALSE

\* has_exact_diff: whatever else is_duplicate finds, this it does find.
on_record(d) == d \in memory

Accept(d) ==
  /\ pc = "attempt" /\ attempt <= max_retries
  /\ ~on_record(d)
  /\ generation' = Append(generation, [diff |-> d, fresh |-> TRUE])
  /\ pc' = "generate" /\ attempt' = 1 /\ last_rejection' = "malformed"
  /\ UNCHANGED <<slots, judged, engine, durable>>

\* Mutants of Exhaust: no rollback, no record.
ExhaustUnclean ==
  /\ pc = "attempt" /\ attempt > max_retries
  /\ exhausted' = [exhausted EXCEPT ![last_rejection] = @ + 1]
  /\ records' = records + 1
  /\ pc' = "generate" /\ attempt' = 1 /\ last_rejection' = "malformed"
  /\ UNCHANGED <<slots, generation, judged, strategies, pop_size,
                 best_scores, memory, worktrees, tried>>

ExhaustUnrecorded ==
  /\ pc = "attempt" /\ attempt > max_retries
  /\ worktrees' = worktrees - 1
  /\ exhausted' = [exhausted EXCEPT ![last_rejection] = @ + 1]
  /\ pc' = "generate" /\ attempt' = 1 /\ last_rejection' = "malformed"
  /\ UNCHANGED <<slots, generation, judged, strategies, pop_size,
                 best_scores, memory, records, tried>>

\* Retries used up: rolled back, counted, and _record_exhausted_slot.  The
\* record has no diff for later ones to be compared with exactly.
Exhaust ==
  /\ pc = "attempt" /\ attempt > max_retries
  /\ worktrees' = worktrees - 1
  /\ exhausted' = [exhausted EXCEPT ![last_rejection] = @ + 1]
  /\ records' = records + 1
  /\ pc' = "generate" /\ attempt' = 1 /\ last_rejection' = "malformed"
  /\ UNCHANGED <<slots, generation, judged, strategies, pop_size,
                 best_scores, memory, tried>>

-----------------------------------------------------------------------------
(* run: the loop over generations *)

\* The counters start again after the population was generated.
BeginGeneration ==
  /\ pc = "generate" /\ slots = 0
  /\ pc' = "schedule"
  /\ exhausted' = [why \in {"malformed", "duplicate"} |-> 0]
  /\ UNCHANGED <<slots, attempt, last_rejection, generation, judged, strategies, pop_size,
                 best_scores, durable>>

\* Some are merged, the others failed, conflicted or were held, which makes a
\* difference to their records alone; the candidates' worktrees are gone (see
\* Scheduler!EverythingSettled).
ExecuteGeneration(s, m) ==
  /\ pc = "schedule"
  /\ pc' = "record"
  /\ succeeded' = s /\ metrics' = m
  /\ composite_score' = score_candidates(scoring_strategy, m, s)
  /\ worktrees' = 0
  /\ UNCHANGED <<slots, attempt, last_rejection, generation, gen, engine, memory, records, tried>>

\* An exception of git, the model client, the scheduler or the memory ends run.
Raise ==
  /\ pc \in {"attempt", "schedule", "record"}
  /\ pc' = "aborted"
  /\ UNCHANGED <<slots, attempt, last_rejection, generation, judged, engine, durable>>

BestScore == IF generation = <<>> THEN 0 ELSE Max(ToSet(composite_score))

Converged(scores) ==
  LET n == adaptive_sizing.convergence_generations IN
  \A i \in (Len(scores) - n + 1)..Len(scores) : scores[i] = scores[Len(scores) - n]

\* Mutant of resized: growth without its bound.
grown(scores) ==
  IF ~adaptive_sizing.enabled \/ Len(scores) <= adaptive_sizing.convergence_generations
    THEN pop_size
  ELSE IF Converged(scores) THEN Max({adaptive_sizing.min_population, pop_size - 1})
  ELSE pop_size + 1

\* _adaptive_sizing.
resized(scores) ==
  IF ~adaptive_sizing.enabled \/ Len(scores) <= adaptive_sizing.convergence_generations
    THEN pop_size
  ELSE IF Converged(scores) THEN Max({adaptive_sizing.min_population, pop_size - 1})
  ELSE Min({adaptive_sizing.max_population, pop_size + 1})

\* Every candidate is recorded, the generation reported, the size adapted.
Record ==
  /\ pc = "record"
  /\ memory' = memory \cup {generation[i].diff : i \in Index}
  /\ records' = records + Len(generation)
  /\ best_scores' = Append(best_scores, BestScore)
  /\ pop_size' = resized(best_scores')
  /\ pc' = IF gen = max_generations - 1 THEN "done" ELSE "select"
  /\ UNCHANGED <<slots, attempt, last_rejection, generation, judged, strategies,
                 exhausted, worktrees, tried>>

\* The best of some candidates, the first of them where selection is a sort.
BestOf(is) == {i \in is : \A j \in is : composite_score[i] >= composite_score[j]}

\* What parents[0] may be under each selection strategy.
FirstParent ==
  IF selection_strategy = "tournament"
  THEN UNION {BestOf(is) : is \in kSubset(Min({tournament_size, Len(generation)}), Index)}
  ELSE IF Index = {} THEN {} ELSE {Min(BestOf(Index))}

\* Mutant of Slots: the elite is not counted.
SlotsBesideElite(elites) == pop_size

Slots(elites) == IF pop_size > Len(elites) THEN pop_size - Len(elites) ELSE 0

\* The elite is a new candidate with its parent's diff and no worktree; the
\* other slots are generated.
Breed(elites) ==
  /\ pc' = "generate" /\ gen' = gen + 1
  /\ generation' = elites
  /\ slots' = Slots(elites)
  /\ tried' = tried + Len(elites)
  /\ succeeded' = {} /\ metrics' = <<>> /\ composite_score' = <<>>   \* used no more
  /\ UNCHANGED <<attempt, last_rejection, engine, memory, records, worktrees>>

Select(i) ==
  pc = "select" /\ i \in FirstParent /\ Breed(<<[diff |-> generation[i].diff, fresh |-> FALSE]>>)

\* Nothing to select from: sorting copes with that, max() of a tournament not.
SelectNone ==
  /\ pc = "select" /\ Index = {}
  /\ IF selection_strategy = "tournament"
     THEN pc' = "raised" /\ UNCHANGED <<slots, attempt, last_rejection, generation, judged,
                                        engine, durable>>
     ELSE Breed(<<>>)

-----------------------------------------------------------------------------
Init ==
  /\ pc = "generate" /\ slots = population_size
  /\ attempt = 1 /\ last_rejection = "malformed" /\ generation = <<>>
  /\ gen = 0 /\ succeeded = {} /\ metrics = <<>> /\ composite_score = <<>>
  /\ selection_strategy \in Strategies /\ scoring_strategy \in ScoringStrategies
  /\ pop_size = population_size /\ best_scores = <<>>
  /\ exhausted = [why \in {"malformed", "duplicate"} |-> 0]
  /\ memory \in SUBSET Diff /\ IsFiniteSet(memory)   \* it outlives runs
  /\ records = Cardinality(memory)
  /\ worktrees = 0 /\ tried = records

Populate ==
  \/ StartSlot \/ Exhaust
  \/ \E why \in {"malformed", "duplicate"} : Reject(why)
  \/ \E d \in Diff : Accept(d)

Evolve ==
  \/ BeginGeneration \/ Raise \/ Record \/ SelectNone
  \/ \E s \in SUBSET Index, m \in [Index -> [Metric -> 0..MaxMetric]] :
       ExecuteGeneration(s, m)
  \/ \E i \in Index : Select(i)

Next == Populate \/ Evolve

Spec == Init /\ [][Next]_vars

\* The model answers, the scheduler returns (Scheduler!GenerationEnds).
FairSpec == Spec /\ WF_vars(Next)

-----------------------------------------------------------------------------
(* Properties *)

\* A generation never has more candidates than the size in force when it was
\* bred, the elite included, however the size was adapted in between.
PopulationBounded ==
  pc \in {"generate", "attempt", "schedule"} =>
    Len(generation) + slots + (IF pc = "attempt" THEN 1 ELSE 0) <= pop_size

\* When a generation is recorded, the memory has one record for every slot of
\* this and all earlier generations: evaluated, or exhausted.
EverySlotRecorded == pc \in {"select", "done"} => records = tried

\* Only an elite repeats what the memory knew before the generation: a sandbox
\* is never spent on a fresh candidate that was already tried.
FreshIsNew ==
  pc \in {"schedule", "record"} =>
    \A i \in Index : generation[i].fresh => generation[i].diff \notin memory

\* A generation starts with one worktree per fresh candidate, those whose slot
\* came to nothing having been rolled back.
OneWorktreeEach ==
  pc = "schedule" => worktrees = Cardinality({i \in Index : generation[i].fresh})

\* The step that carries an elite over, where selection looks at everybody.
ElitePicked ==
  /\ pc = "select" /\ generation' # <<>>
  /\ selection_strategy = "tournament" => Len(generation) <= tournament_size

IsElite(i) == generation[i].diff = generation'[1].diff

\* If anything of a generation was merged, the elite is one of those, however
\* the raw scores rank it; in a tournament as long as everybody takes part.
EliteSucceeded ==
  [][ElitePicked => \A i \in succeeded : \E j \in succeeded : IsElite(j)]_vars

\* At least as good in every metric, and not the same.
Beats(a, b) ==
  /\ \A k \in Metric : IF maximize[k] THEN a[k] >= b[k] ELSE a[k] <= b[k]
  /\ a # b

\* Ranking by how many candidates dominate one picks an elite that nothing
\* dominates of all that fared as it did, merged or not.
EliteUndominated ==
  [][ElitePicked /\ scoring_strategy = "pareto" =>
       \E j \in Index :
         /\ IsElite(j)
         /\ \A i \in Index :
              i \in succeeded <=> j \in succeeded =>
                ~Beats(metrics[i], metrics[j])]_vars

\* The search ends, whatever the language model proposes.
SearchEnds == <>(pc \in {"done", "aborted", "raised"})

\* Said where the elite is chosen (`if parents:`): a generation that came to
\* nothing leaves no parents, and the search goes on without an elite.
SurvivesEmptyGeneration == pc # "raised"
=============================================================================
