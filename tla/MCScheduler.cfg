SPECIFICATION FairSpec
CONSTANTS
  c1 = c1
  c2 = c2
  Candidate <- Two
  Elite <- CarriedOver
  Workers <- OneOrTwo
  Stages = 2
  MaxScore = 3
  Threshold <- TwoStages
  min_improvement = 0
  StartBaseline = 1
  GateSettings <- Either
  AutoThreshold = 2
  GitMayFail = TRUE
INVARIANTS
  TypeOK
  MergedWasVetted
  BaselineIsBestMerged
  EverythingSettled
  ReviewedTogether
  AutoApprovedIsHonest
PROPERTIES
  GenerationEnds
CHECK_DEADLOCK FALSE
