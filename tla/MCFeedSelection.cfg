\* A selection gathered under two filters.
SPECIFICATION Spec
CONSTANTS
  Run <- MCRun
  Repo <- MCRepo
  RepoOf <- MCRepoOf
  Capability <- MCCapability
  Orphans <- MCOrphans
  Threshold = 2
  Initial <- MCInitial
  Matching <- MCMatching
  LaunchFilter = "all"
  Flaky <- MCFlaky
  Verbs = {"delete", "cancel", "rerun"}
  MaxKeys = 7
  MaxChanges = 0
PROPERTIES
  SelectionIsWhole
CHECK_DEADLOCK FALSE
