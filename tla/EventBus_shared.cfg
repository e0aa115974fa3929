SPECIFICATION FairSpec
CONSTANTS
    Services = {p1}
    Waits = {w1, w2}
    Inputs = {i1}
    None = None
    MaxEvents = 3
    MaxLosses = 2
INVARIANTS
    TypeOK
    FiredOnce
    TableIsSubscribed
    NothingMissed
    HeardInOrder
PROPERTY
    WaitsEnd
CHECK_DEADLOCK FALSE
