SPECIFICATION Spec
CONSTANTS
  c1 = c1
  c2 = c2
  u1 = u1
  Candidate <- MCCandidate
  Upstream <- MCUpstream
  SideCommand = TRUE
INVARIANTS
  TypeOK
  MergedIsLanded
  Isolated
  NothingLeftBehind
PROPERTIES
  ImplementsLedger
  LiveCandidatesKept
SYMMETRY Symmetric
