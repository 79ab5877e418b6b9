SPECIFICATION Spec
CONSTANTS
    r1 = r1
    r2 = r2
    h1 = h1
    h2 = h2
    Replicas = {r1}
    Handlers = {h1, h2}
    ReplicaOf <- OneReplica
    Ids = {i1}
    Sample <- SampleId
    i1 = i1
    Kinds = {"put.app", "delete.app", "generate"}
    NoCall = NoCall
    MaxCalls = 3
    MaxFaults = 0
    MaxCrashes = 0
INVARIANTS
    EveryWriteAudited
