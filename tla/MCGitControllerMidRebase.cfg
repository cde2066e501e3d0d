SPECIFICATION Spec
CONSTANTS
  c1 = c1
  c2 = c2
  u1 = u1
  Candidate <- MCCandidate
  Upstream <- MCUpstream
  SideCommand = FALSE
PROPERTIES
  CleanupNeverRaises
