SPECIFICATION Spec
CONSTANTS
  c1 = c1
  c2 = c2
  Candidate <- Two
  Elite <- CarriedOver
  Workers <- OneOrTwo
  Stages = 1
  MaxScore = 2
  Threshold <- OneStage
  min_improvement = 0
  StartBaseline = 0
  GateSettings <- Gated
  AutoThreshold = 2
  GitMayFail = FALSE
PROPERTIES
  MergeBeatsBaseline
CHECK_DEADLOCK FALSE
