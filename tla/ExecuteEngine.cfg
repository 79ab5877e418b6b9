SPECIFICATION Spec
CONSTANTS
    api = api
    sub = sub
    other = other
    k = k
    a = a
    b = b
    c = c
    Shortcuts <- Submitted
    Hosts = {api, sub, other}
    NoHost = NoHost
    UnderDomain <- Under
    Keys = {k}
    Ids = {a, b, c}
    MaxSteps = 2
    maxRedirects = 3
INVARIANTS
    ContactsAllowlisted
    LedgerComplete
    StopsAtFailure
    PipelineResolves
    EgressBounded
PROPERTIES
    RunReturns
CHECK_DEADLOCK FALSE
