CONSTANTS
  Policies <- MCPolicies
  Batches <- MCBatches
  Tokens = {"secret", "other"}
  Audited = TRUE
  MaxBatches = 2
SPECIFICATION Spec
INVARIANTS TypeOK SentWereCleared AnswersAccounted
CHECK_DEADLOCK FALSE
