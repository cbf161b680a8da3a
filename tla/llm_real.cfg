SPECIFICATION Spec
CONSTANTS
  p1 = p1
  s1 = s1
  d1 = d1
  d2 = d2
  c1 = c1
  c2 = c2
  Plans <- MCPlans
  Sources <- MCSources
  Records <- MCRecords
  Clues <- MCClues
  Cost <- MCCost
  Prompt = 1
  Profile <- MCProfile
  PlanBudgets <- MCPlanBudgets
  Overrides <- MCOverrides
  Endpoint = "real"
  MaxRuns = 2
INVARIANTS TypeOK LedgerBalanced RequestsCharged
PROPERTY SpendWithinBudget
CHECK_DEADLOCK FALSE
