\* Two Runs in two repositories under two filters, four keys.
SPECIFICATION Spec
CONSTANTS
  Run <- MCRun
  Repo <- MCRepo
  RepoOf <- MCRepoOf
  Capability <- MCCapability
  Orphans <- MCOrphans
  Threshold = 2
  Initial <- MCInitial
  Matching <- MCMatching
  LaunchFilter = "all"
  Flaky <- MCFlaky
  Verbs = {"delete", "cancel", "rerun"}
  MaxKeys = 4
  MaxChanges = 1
INVARIANTS
  TypeOK
  TallyIsExact
  FilterIsPushed
PROPERTIES
  RowsKept
  IndicatorsEnd
CHECK_DEADLOCK FALSE
