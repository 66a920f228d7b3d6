SPECIFICATION Spec
CONSTANTS
    p1 = p1 p2 = p2
    t1 = t1 t2 = t2 t3 = t3
    k1 = k1 k2 = k2
    r1 = r1
    Proc = {p1, p2}
    Task = {t1, t2, t3}
    Key = {k1, k2}
    Repo = {r1}
    NoProc = NoProc
    NoTask = NoTask
    ProcOf <- MCProcOf
    RepoOf <- MCRepoOf
    Size <- MCSize
    LeftBehind <- MCLeft
    JunkSize = 1
    MaxVersion = 1
    MaxBytes = 2
    MaxEntry = 2
    MaxRequests = 3
    MaxCrashes = 1
CHECK_DEADLOCK FALSE
INVARIANTS TypeOK FilesInOrder Bounded ServedIsCurrent
