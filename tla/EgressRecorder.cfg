SPECIFICATION FairSpec
CONSTANTS
    Handlers = {h1, h2, h3}
    MaxConc = 2
    Capacity = 2
    MaxSteps = 1
    MaxRequests = 4
INVARIANTS
    SlotsHeld
    EventsAccounted
    FlushIsComplete
PROPERTIES
    RequestsEnd
    ShutdownEnds
    DropsGetReported
CHECK_DEADLOCK FALSE
