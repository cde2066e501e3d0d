------------------------------- MODULE Scoring -------------------------------
(***************************************************************************)
(* Composite scores (evolution/scoring.py): what the candidates of one     *)
(* generation are ranked by, from their metrics and from which of them     *)
(* succeeded.  Metrics have been given their defaults; the logarithm of    *)
(* the weighted strategy, which starts at 1, is the excess over 1, and the *)
(* weights are one.                                                        *)
(***************************************************************************)
EXTENDS Integers, FiniteSets, FiniteSetsExt, Functions

CONSTANTS
  Metric,
  maximize      \* of each metric, whether more is better

ASSUME MetricAssumption == IsFiniteSet(Metric) /\ maximize \in [Metric -> BOOLEAN]

Metrics == [Metric -> Nat]

\* Mutant of better: every metric is taken for one to maximize.
better_if_more(k, a, b) == a[k] > b[k]

better(k, a, b) == IF maximize[k] THEN a[k] > b[k] ELSE a[k] < b[k]

dominates(a, b) ==
  /\ \A k \in Metric : ~better(k, b, a)
  /\ \E k \in Metric : better(k, a, b)

Dominators(metrics, i) ==
  {j \in DOMAIN metrics : j # i /\ dominates(metrics[j], metrics[i])}

\* calculate_pareto_fronts: a rank is how many candidates dominate this one,
\* not the number of the front it is on.
pareto_rank(metrics, i) == Cardinality(Dominators(metrics, i))

weighted(m) ==
  SumFunction([k \in Metric |-> IF maximize[k] THEN m[k] ELSE -Max({m[k] - 1, 0})])

raw_score(strategy, metrics) ==
  [i \in DOMAIN metrics |->
     IF strategy = "pareto" THEN -pareto_rank(metrics, i) ELSE weighted(metrics[i])]

\* Mutant of shifted: the scores are compared as they are.
unshifted(raw, success) == raw

\* What did not succeed is moved below what did, by one amount.
shifted(raw, success) ==
  LET successful == {raw[i] : i \in success}
      failed == {raw[i] : i \in DOMAIN raw \ success}
      shift == IF successful = {} \/ failed = {} \/ Max(failed) < Min(successful)
               THEN 0 ELSE Max(failed) - Min(successful) + 1
  IN  [i \in DOMAIN raw |-> IF i \in success THEN raw[i] ELSE raw[i] - shift]

\* score_candidates.
score_candidates(strategy, metrics, success) ==
  shifted(raw_score(strategy, metrics), success)
=============================================================================
