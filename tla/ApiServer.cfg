SPECIFICATION Spec
CONSTANTS
    r1 = r1
    r2 = r2
    h1 = h1
    h2 = h2
    Replicas = {r1, r2}
    Handlers = {h1, h2}
    ReplicaOf <- TwoReplicas
    Ids = {i1, i2}
    Sample <- SampleId
    i1 = i1
    Kinds = {"put.app", "delete.app", "generate"}
    NoCall = NoCall
    MaxCalls = 3
    MaxFaults = 1
    MaxCrashes = 1
INVARIANTS
    AcknowledgedIsLogged
    LedgerIsLogged
