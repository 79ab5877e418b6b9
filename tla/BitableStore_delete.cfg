SPECIFICATION Spec
CONSTANTS
    r1 = r1
    r2 = r2
    h1 = h1
    h2 = h2
    Replicas = {r1}
    Handlers = {h1, h2}
    ReplicaOf <- OneReplica
    Ids = {i1}
    CacheTTL = 1
    CallTimeout = 1
    NoHandler = NoHandler
    NoRequest = NoRequest
    MaxWrites = 3
    MaxAbandoned = 1
    MaxRestarts = 0
    MaxTime = 0
PROPERTIES
    DeleteIsReflected
