---- MODULE MCApiServer ----
EXTENDS ApiServer

CONSTANTS r1, r2, h1, h2, i1

\* The id of the sample dashboard.
SampleId == i1

\* Both goroutines in one process.
OneReplica == [h \in Handlers |-> r1]

\* A process each.
TwoReplicas == [h \in Handlers |-> IF h = h1 THEN r1 ELSE r2]
====
