SPECIFICATION Spec
CONSTANTS
  r1 = r1
  r2 = r2
  Request <- MCRequest
  Malformed = Malformed
  NaN = NaN
  DEFAULT_TIMEOUT_SECONDS = 2
  Timeout <- Window
  Configs <- AllConfigs
INVARIANTS
  AutoApprovedNotRejected
