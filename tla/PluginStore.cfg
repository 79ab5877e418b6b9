SPECIFICATION Spec
CONSTANTS
    r1 = r1
    r2 = r2
    w1 = w1
    w2 = w2
    w3 = w3
    Replicas = {r1, r2}
    Writers = {w1, w2, w3}
    Readers = {g1}
    ReplicaOf <- TwoReplicas
    Plugins = {p1}
    NoHandler = NoHandler
    NoPlugin = NoPlugin
    MaxSaves = 3
    MaxAbandoned = 1
SYMMETRY PluginSymmetry
INVARIANTS
    RecordsPerPluginBounded
PROPERTIES
    MissIsTrue
    ReadsSeeOwnWrites
