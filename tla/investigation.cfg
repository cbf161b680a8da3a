SPECIFICATION Spec
CONSTANTS
  Sources <- MCSources
  Layer <- MCLayer
  Blocked <- MCBlocked
  KeyOf <- MCKeyOf
  Good <- MCGood
  Yield <- MCYield
  Requests <- MCRequests
  Imports <- MCImports
  MaxSources = 2
  MaxLivePool = 3
  MaxRaw = 3
  MaxCalls = 2
  MaxRewrites = 1
  MaxRuns = 2
INVARIANTS TypeOK RecordsAccounted SatisfiedMeansEvidence ExplorationReadsOwnBuild OneBudget ReportComplete
PROPERTIES CollectionDisciplined InvestigationsEnd
CHECK_DEADLOCK FALSE
