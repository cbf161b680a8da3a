SPECIFICATION Spec
CONSTANTS
  Proc = {p1}
  JobId = {j1, j2}
  Row = {r1, r2}
  Collector = {"x"}
  Build = "build"
  Priority <- MCPriority
  MaxAttempts = 2
  ClaimLimit = 2
  Workers = 1
  MaxRounds = 2
  BatchLimit = 1
  StartImmediately = TRUE
  Faults = {"runner", "build", "db", "crash"}
SYMMETRY Symmetric
INVARIANTS
  OneActivePerKey
  RetryDiscipline
  CompletedHasClues
