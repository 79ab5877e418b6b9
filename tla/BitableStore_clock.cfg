SPECIFICATION Spec
CONSTANTS
    r1 = r1
    r2 = r2
    h1 = h1
    h2 = h2
    Replicas = {r1, r2}
    Handlers = {h1, h2}
    ReplicaOf <- TwoReplicas
    Ids = {i1}
    CacheTTL = 1
    CallTimeout = 2
    NoHandler = NoHandler
    NoRequest = NoRequest
    MaxWrites = 3
    MaxAbandoned = 2
    MaxRestarts = 1
    MaxTime = 4
INVARIANTS
    BoundedStaleness
SYMMETRY Swapped
VIEW Essential
