SPECIFICATION FairSpec
CONSTANTS
  Proc = {p1}
  JobId = {j1, j2}
  Row = {r1, r2}
  Collector = {"public"}
  Build = "build"
  Priority <- MCPriority
  MaxAttempts = 2
  ClaimLimit = 1
  Workers = 1
  MaxRounds = 2
  BatchLimit = 1
  StartImmediately = TRUE
  Faults = {"build"}
INVARIANTS TypeOK ReservationHeld HistoryAgrees RowsRegistered
PROPERTIES FinishedStaysFinished RowsBuilt JobsEnd ImplementsUniqueQueue
