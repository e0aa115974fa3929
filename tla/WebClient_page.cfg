SPECIFICATION FairSpec
CONSTANTS
    Names = {n1}
    None = None
    MaxRequests = 4
    MaxChannel = 2
INVARIANTS
    TypeOK
    OnlineMeansSocket
    EventsHeard
    AnswersMatch
    NothingStray
    PaneExists
PROPERTY
    GetsThrough
