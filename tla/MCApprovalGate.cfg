SPECIFICATION FairSpec
CONSTANTS
  r1 = r1
  r2 = r2
  Request <- MCRequest
  Malformed = Malformed
  NaN = NaN
  DEFAULT_TIMEOUT_SECONDS = 2
  Timeout <- Window
  Configs <- AllConfigs
INVARIANTS
  TypeOK
  AnswerIsRecorded
  NothingLeftOpen
PROPERTIES
  ImplementsRegister
  FullWindow
  AwaitEnds
  AbandonedRowsReclaimed
