SPECIFICATION Spec
CONSTANTS
  d1 = d1
  d2 = d2
  d3 = d3
  Diff <- MCDiff
  population_size = 2
  max_generations = 3
  Strategies = {"top-k", "tournament", "best"}
  adaptive_sizing <- OneToThree
  ScoringStrategies = {"pareto", "weighted"}
  Metric <- Measured
  maximize <- MoreAccurate
  accuracy = accuracy
  energy = energy
  MaxMetric = 1
INVARIANT SurvivesEmptyGeneration
CHECK_DEADLOCK FALSE
