SPECIFICATION Spec
CHECK_DEADLOCK FALSE
CONSTANTS
    r1 = r1
    w1 = w1
    w2 = w2
    Reader <- MCReader
    Writer <- MCWriter
    Interval <- MCInterval
    Answer <- MCAnswer
    Bound = 1
    Floor = 1
    Start = 2
    Ceiling = 3
    Step = 1
    CleanBeforeRamp = 2
    Pool = 3
    WritePoints = 1
    ReadWindow = 2
    Window = 3
    MaxRequests = 3
    Horizon = 4
INVARIANTS
    TypeOK
    SlotsKept
PROPERTIES
    HoldsKept
    EveryRequestEnds
