SPECIFICATION FairSpec
CONSTANTS
  c1 = c1
  c2 = c2
  q1 = q1
  q2 = q2
  other = other
  NoCandidate = NoCandidate
  Malformed = Malformed
  NaN = NaN
  DEFAULT_TIMEOUT_SECONDS = 1
  Candidate <- Two
  Id <- Questions
  label <- Labels
  PredictionFile <- Written
  stages <- Thresholds
  Files = 2
  max_apply_retries = 2
  min_improvement = 0
  max_iterations = 2
  target_score = 2
  patience = 2
  Configs <- Sections
  MayCrash = TRUE
INVARIANTS
  TypeOK
  SplitIsWhole
  PatchedWhole
  ScoreStands
  FlagsAreOwn
  RecordsAreTrue
  IterationSettles
  ExitTellsWhatLanded
PROPERTIES
  AppliedToWhatWasShown
  MergeBeatsBaseline
  MergedWithConsent
  IterationEnds
CHECK_DEADLOCK FALSE
