SPECIFICATION Spec
CHECK_DEADLOCK FALSE
CONSTANTS
    r1 = r1
    r2 = r2
    all = all
    branch = branch
    NoRepo = NoRepo
    Repo <- MCRepo
    First = r1
    Filter <- MCFilter
    StartFilter = all
    MaxVersion = 1
    Page <- MCPage
    LivePage <- MCLive
    Fast = 1
    Medium = 1
    Slow = 2
    Window = 2
    Ceiling = 3
    Dwell = 1
    MaxDemoteSteps = 1
    Width = 4
    Pinned = {}
    HoldTicks = 2
    MaxEvents = 2
INVARIANTS
    TypeOK
PROPERTIES
    PollsAreHeld
    BudgetKept
    FeedConverges
    PollsRecur
