SPECIFICATION WarmSpec
CONSTANTS
    r1 = r1 r2 = r2
    None = None
    Repo = {r1, r2}
    Launches = {None}
    Excludes = {{}}
    RetirementThreshold = 2
    MaxSessions = 2
    MaxStarts = 0
CHECK_DEADLOCK FALSE
PROPERTIES WarmStartIsWhole
