SPECIFICATION Spec
CONSTANTS
  Proc = {p1, p2}
  JobId = {j1, j2, j3}
  Row = {r1}
  Collector = {"x"}
  Build = "build"
  Priority <- MCPriority
  MaxAttempts = 2
  ClaimLimit = 1
  Workers = 1
  MaxRounds = 1
  BatchLimit = 1
  StartImmediately = TRUE
  Faults = {}
SYMMETRY Symmetric
INVARIANTS
  ExclusiveClaim
