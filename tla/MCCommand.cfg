CONSTANTS
  Run = {1, 2, 3}
  Repo = {"h", "o"}
  RepoOf <- MCRepoOf
  Capability <- MCCapability
  Orphans = {2}
  Threshold = 2
  Generations = 2
  Capacity = 1
  Here = "h"
  Known = {"h", "o"}
  Matching = {1, 3}
  HasJob = {1}
  Breaker = 2
  Invocations <- MCInvocations
  MaxInvocations = 2
SPECIFICATION CommandSpec
INVARIANTS CommandTypeOK WordIsKept RecordIsKept
CHECK_DEADLOCK FALSE
