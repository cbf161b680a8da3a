CONSTANTS
  a = a
  b = b
  jm = jm
  yzm = yzm
  r1 = r1
  r2 = r2
  Term = {jm, yzm}
  Base = {jm}
  Fallback = {jm}
  Trace = {r1, r2}
  TermsIn <- MCTermsIn
  RedTerm = {}
  RedTrace = {r2}
  Caller = {a, b}
  Batches <- MCBatches
  WordLists <- MCWordLists
  MaxCalls = 4
SPECIFICATION Spec
SYMMETRY MCSymmetry
INVARIANTS TypeOK LearnedWereActivated QuotedWereReviewed DecisionsTaken
PROPERTIES StageDiscipline
CHECK_DEADLOCK FALSE
