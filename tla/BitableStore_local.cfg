SPECIFICATION FairSpec
CONSTANTS
    r1 = r1
    r2 = r2
    h1 = h1
    h2 = h2
    Replicas = {r1}
    Handlers = {h1, h2}
    ReplicaOf <- OneReplica
    Ids = {i1, i2}
    CacheTTL = 1
    CallTimeout = 1
    NoHandler = NoHandler
    NoRequest = NoRequest
    MaxWrites = 3
    MaxAbandoned = 0
    MaxRestarts = 0
    MaxTime = 0
INVARIANTS
    MutexHeldInside
    CacheReflectsAcks
    RowsPerIdBounded
PROPERTIES
    DeleteIsReflected
    ImplementsCatalog
    OperationsReturn
