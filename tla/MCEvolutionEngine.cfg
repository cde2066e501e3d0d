SPECIFICATION FairSpec
CONSTANTS
  d1 = d1
  d2 = d2
  d3 = d3
  Diff <- MCDiff
  population_size = 2
  max_generations = 3
  Strategies = {"top-k", "tournament"}
  adaptive_sizing <- OneToThree
  ScoringStrategies = {"pareto", "weighted"}
  Metric <- Measured
  maximize <- MoreAccurate
  accuracy = accuracy
  energy = energy
  MaxMetric = 1
INVARIANTS
  TypeOK
  PopulationBounded
  EverySlotRecorded
  FreshIsNew
  OneWorktreeEach
PROPERTIES
  EliteSucceeded
  EliteUndominated
  SearchEnds
CHECK_DEADLOCK FALSE
