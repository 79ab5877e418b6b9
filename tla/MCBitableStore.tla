---- MODULE MCBitableStore ----
EXTENDS BitableStore, TLC

CONSTANTS r1, r2, h1, h2

\* All goroutines in one process.
OneReplica == [h \in Handlers |-> r1]

\* h2 runs in a replica of its own.
TwoReplicas == [h \in Handlers |-> IF h = h2 THEN r2 ELSE r1]

\* The two replicas, each with its goroutine, change places.
Swapped == {(h1 :> h2) @@ (h2 :> h1) @@ (r1 :> r2) @@ (r2 :> r1)}

\* When the oldest content that snapshot k is missing took effect.
MissedSince(k) == IF k < Latest THEN log[k + 1].at ELSE MaxTime + 1

\* What is still to come of request q: of a Put its id and the record id it would
\* create, of a call on the table the record it is about.
Matters(q) ==
    CASE q.kind = "put"    -> <<q.kind, q.id, q.body>>
      [] q.kind = "delete" -> <<q.kind, q.id>>
      [] q.kind = "create" -> <<q.kind, q.id, q.rid>>
      [] OTHER             -> <<q.kind, q.rid>>

\* What BoundedStaleness and the steps to come depend on: of the table the ids of
\* its records; of the late requests how many there are of a kind; of a snapshot what
\* it is missing; of a cache what it holds while it is valid; of a generation
\* whether it is still the current one; no history.
Essential ==
    <<{<<row.rid, row.id>> : row \in Rows},
      [m \in {Matters(q) : q \in stray} |-> Cardinality({q \in stray : Matters(q) = m})],
      mu,
      [r \in Replicas |->
          IF CacheValid(r) THEN <<MissedSince(cacheRev[r]), cacheAt[r]>> ELSE <<>>],
      pc, [h \in Handlers |-> IF Alive(h) THEN started[h] ELSE 0], [h \in Handlers |-> Alive(h)],
      [h \in Handlers |-> IF request[h] = NoRequest THEN <<>> ELSE Matters(request[h])],
      [h \in Handlers |-> IF pc[h] = "fetched" THEN MissedSince(seen[h]) ELSE 0],
      [h \in Handlers |-> pc[h] \in {"fetch", "fetched"} /\ gen[h] = cacheGen[ReplicaOf[h]]],
      now, countVars>>

====
