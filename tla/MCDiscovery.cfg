SPECIFICATION Spec
CONSTANTS
    r1 = r1
    None = None
    Repo = {r1}
    Launches = {r1, None}
    Excludes <- MCExcludes
    RetirementThreshold = 2
    MaxSessions = 3
    MaxStarts = 2
CHECK_DEADLOCK FALSE
INVARIANTS TypeOK SetIsRight
PROPERTIES RetiredByFailures
