CONSTANTS
  N = 3
  MaxUnmatched = 1
  Operations = {"delete", "cancel", "rerun"}
  Breaker = 2
  MaxRateLimitRetries = 2
  MaxPasses = 2
SPECIFICATION Spec
INVARIANTS TypeOK RecordedAndGone WalkAccounts
PROPERTIES PassEnds Authority
CHECK_DEADLOCK FALSE
