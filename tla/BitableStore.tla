---- MODULE BitableStore ----
(***************************************************************************)
(* The Bitable-backed definition store (internal/store/bitable.go): one    *)
(* table of records behind a network, written by several api replicas,     *)
(* each with a process-wide write mutex and a read-through List cache.     *)
(*                                                                         *)
(* A handler is one request goroutine of a replica.  Every network call is *)
(* a step of its own, so the steps of handlers of one replica and of other *)
(* replicas interleave between a find and its write, between a write and   *)
(* its invalidate, and between a List's fetch and its commit.              *)
(*                                                                         *)
(* The table keeps its history: log[k] is the k-th content of the table    *)
(* and the time it took effect; a snapshot of the table is named by its    *)
(* index.  Records whose definition does not parse are skipped by find and *)
(* by List, so a table content is the set of the records that parse.  Get  *)
(* is a find and changes nothing: it has no action.                        *)
(***************************************************************************)
EXTENDS Naturals, FiniteSets, Sequences

CONSTANTS
    Replicas,     \* api processes
    Handlers,     \* request goroutines
    ReplicaOf,    \* the process a goroutine runs in
    Ids,          \* definition ids
    CacheTTL,     \* listCacheTTL
    CallTimeout,  \* the timeout derive() puts on an operation
    NoHandler,    \* nobody holds mu
    NoRequest,    \* the handler is not executing a write
    MaxWrites,    \* bound: Put and Delete calls issued
    MaxAbandoned, \* bound: writes whose answer the caller never reads
    MaxRestarts,  \* bound: replica processes that die
    MaxTime       \* bound: the clock

ASSUME ReplicaAssumption ==
    /\ IsFiniteSet(Replicas)
    /\ ReplicaOf \in [Handlers -> Replicas]
    /\ NoHandler \notin Handlers

ASSUME NumberAssumption ==
    /\ CacheTTL \in Nat
    /\ CallTimeout \in Nat
    /\ MaxWrites \in Nat
    /\ MaxAbandoned \in Nat
    /\ MaxRestarts \in Nat
    /\ MaxTime \in Nat

VARIABLES
    log,       \* history of the table: a sequence of [rows, at]
    stray,     \* write requests still in the network whose caller gave up
    mu,        \* mu[r]: the handler holding replica r's write mutex
    cacheOK,   \* cacheOK[r]
    cacheRev,  \* cacheRev[r]: the snapshot replica r's cache holds
    cacheAt,   \* cacheAt[r]: the time the cache was filled
    cacheGen,  \* cacheGen[r]: bumped by every invalidate
    pc,        \* where handler h is
    request,   \* the Put or Delete h runs, then the record call it makes
    gen,       \* the cacheGen a List of h read before it fetched
    seen,      \* the snapshot a List of h fetched, or the one a write of h made
    started,   \* when h's operation derived its context
    floor,     \* the ackRev of its replica when the List of h was called
    now,       \* the clock
    issued,    \* Put and Delete calls so far
    abandoned, \* writes given up so far
    restarts,  \* processes that died so far
    answer,    \* answer[r]: the snapshot the last List of replica r returned
    ackRev     \* ackRev[r]: the newest table content a completed write of r made

service    == <<log, stray>>
cacheVars  == <<cacheOK, cacheRev, cacheAt, cacheGen>>
callVars   == <<pc, request, gen, seen, started, floor>>
countVars  == <<issued, abandoned, restarts>>
historyVars == <<answer, ackRev>>
vars == <<service, mu, cacheVars, callVars, now, countVars, historyVars>>

----------------------------------------------------------------------------
(* Data.  A row is a record of the table: its record id, the definition id *)
(* and version, and the write its content came from.  Writes are numbered; *)
(* the record id of a record is the number of the write that created it.   *)

OpIds == 0..MaxWrites
Row   == [rid : OpIds, id : Ids, version : Nat, body : OpIds]
Content == [rows : SUBSET Row, at : 0..MaxTime]

\* "put" and "delete" are operations; the other kinds are calls on the table.
RecordCalls == {"create", "update", "remove"}
Request == [kind : RecordCalls \cup {"put", "delete"},
            rid : OpIds, id : Ids, version : Nat, body : OpIds]

Labels   == {"idle", "lock", "find", "await", "landed", "refused", "fetch", "fetched"}
Critical == {"find", "await", "landed", "refused"}

Latest    == Len(log)
Rows      == log[Latest].rows
RowsOf(i) == {row \in Rows : row.id = i}

\* The table after record call q reached it.
Applied(q) ==
    CASE q.kind = "create" ->
            Rows \cup {[rid |-> q.rid, id |-> q.id, version |-> q.version, body |-> q.body]}
      [] q.kind = "update" ->
            {IF row.rid = q.rid
               THEN [row EXCEPT !.version = q.version, !.body = q.body]
               ELSE row : row \in Rows}
      [] OTHER -> {row \in Rows : row.rid # q.rid}

\* Updating or deleting a record that no longer exists is an error.
Accepts(q) == q.kind = "create" \/ \E row \in Rows : row.rid = q.rid

Effect(q) == log' = Append(log, [rows |-> Applied(q), at |-> now])

----------------------------------------------------------------------------
(* Put and Delete                                                          *)

Alive(h) == now - started[h] < CallTimeout
Goto(h, label) == pc' = [pc EXCEPT ![h] = label]

Begin(h, i, kind) ==
    /\ pc[h] = "idle"
    /\ issued < MaxWrites
    /\ issued' = issued + 1
    /\ request' = [request EXCEPT ![h] =
           [kind |-> kind, rid |-> 0, id |-> i, version |-> 0, body |-> issued']]
    /\ started' = [started EXCEPT ![h] = now]
    /\ Goto(h, "lock")
    /\ UNCHANGED <<service, mu, cacheVars, gen, seen, floor, now, abandoned, restarts, historyVars>>

Put(h, i)    == Begin(h, i, "put")
Delete(h, i) == Begin(h, i, "delete")

\* Mutation (definitions so named are never part of Next; each shows that a
\* property notices its absence): Put and Delete without mu.Lock.
AcquireWithoutLock(h) ==
    /\ pc[h] = "lock"
    /\ mu' = [mu EXCEPT ![ReplicaOf[h]] = h]
    /\ Goto(h, "find")
    /\ UNCHANGED <<service, cacheVars, request, gen, seen, started, floor, now, countVars, historyVars>>

Acquire(h) ==
    LET r == ReplicaOf[h] IN
    /\ pc[h] = "lock"
    /\ mu[r] = NoHandler
    /\ mu' = [mu EXCEPT ![r] = h]
    /\ Goto(h, "find")
    /\ UNCHANGED <<service, cacheVars, request, gen, seen, started, floor, now, countVars, historyVars>>

\* An operation returns and its locals are gone.
Return(h) ==
    /\ Goto(h, "idle")
    /\ request' = [request EXCEPT ![h] = NoRequest]
    /\ gen' = [gen EXCEPT ![h] = 0]
    /\ seen' = [seen EXCEPT ![h] = 1]
    /\ started' = [started EXCEPT ![h] = 0]
    /\ floor' = [floor EXCEPT ![h] = 1]

\* Mutation: a return that forgets the unlock.
ReleaseWithoutUnlock(h) == Return(h) /\ UNCHANGED mu

\* The deferred unlock: every return of Put and Delete passes through here.
Release(h) ==
    /\ mu' = [mu EXCEPT ![ReplicaOf[h]] = NoHandler]
    /\ Return(h)

Send(h, q) ==
    /\ request' = [request EXCEPT ![h] = q]
    /\ Goto(h, "await")
    /\ UNCHANGED <<service, mu, cacheVars, gen, seen, started, floor, now, countVars, historyVars>>

\* Mutation: the version is not counted up.
FindForUpdateSameVersion(h) ==
    /\ pc[h] = "find" /\ request[h].kind = "put" /\ Alive(h)
    /\ \E row \in RowsOf(request[h].id) :
          Send(h, [request[h] EXCEPT !.kind = "update", !.rid = row.rid,
                                     !.version = row.version])

FindForUpdate(h) ==
    /\ pc[h] = "find" /\ request[h].kind = "put" /\ Alive(h)
    /\ \E row \in RowsOf(request[h].id) :
          Send(h, [request[h] EXCEPT !.kind = "update", !.rid = row.rid,
                                     !.version = row.version + 1])

FindForCreate(h) ==
    /\ pc[h] = "find" /\ request[h].kind = "put" /\ Alive(h)
    /\ RowsOf(request[h].id) = {}
    /\ Send(h, [request[h] EXCEPT !.kind = "create", !.rid = request[h].body, !.version = 1])

FindForDelete(h) ==
    /\ pc[h] = "find" /\ request[h].kind = "delete" /\ Alive(h)
    /\ \E row \in RowsOf(request[h].id) :
          Send(h, [request[h] EXCEPT !.kind = "remove", !.rid = row.rid])

\* Delete of an absent id returns nil.
DeleteAbsent(h) ==
    /\ pc[h] = "find" /\ request[h].kind = "delete" /\ Alive(h)
    /\ RowsOf(request[h].id) = {}
    /\ Release(h)
    /\ UNCHANGED <<service, cacheVars, now, countVars, historyVars>>

\* Mutation: a failed find returns before the unlock is deferred.
FindFailsHolding(h) ==
    /\ pc[h] = "find"
    /\ Return(h)
    /\ UNCHANGED <<service, mu, cacheVars, now, countVars, historyVars>>

\* The find's list call failed, or the context expired, possibly while the
\* handler was still waiting for mu.
FindFails(h) ==
    /\ pc[h] = "find"
    /\ Release(h)
    /\ UNCHANGED <<service, cacheVars, now, countVars, historyVars>>

\* The table receives the record call and answers it.
Land(h) ==
    /\ pc[h] = "await"
    /\ \/ /\ Accepts(request[h])
          /\ Effect(request[h])
          /\ seen' = [seen EXCEPT ![h] = Latest + 1]
          /\ Goto(h, "landed")
       \/ /\ ~Accepts(request[h])
          /\ Goto(h, "refused")
          /\ UNCHANGED <<log, seen>>
    /\ UNCHANGED <<stray, mu, cacheVars, request, gen, started, floor, now, countVars, historyVars>>

\* Mutation: the generation is bumped but the cache stays valid.
InvalidateGenOnly(r) ==
    /\ cacheGen' = [cacheGen EXCEPT ![r] = @ + 1]
    /\ UNCHANGED <<cacheOK, cacheRev, cacheAt>>

\* Mutation: the cache is dropped but fills in progress are not cancelled.
InvalidateWithoutGen(r) ==
    /\ cacheOK' = [cacheOK EXCEPT ![r] = FALSE]
    /\ UNCHANGED <<cacheRev, cacheAt, cacheGen>>

Invalidate(r) ==
    /\ cacheOK' = [cacheOK EXCEPT ![r] = FALSE]
    /\ cacheGen' = [cacheGen EXCEPT ![r] = @ + 1]
    /\ UNCHANGED <<cacheRev, cacheAt>>

\* The write succeeded: invalidate, unlock, return.
Confirm(h) ==
    LET r == ReplicaOf[h] IN
    /\ pc[h] = "landed" /\ Alive(h)
    /\ Invalidate(r)
    /\ Release(h)
    /\ ackRev' = [ackRev EXCEPT ![r] = IF @ < seen[h] THEN seen[h] ELSE @]
    /\ UNCHANGED <<service, now, countVars, answer>>

\* The table refused the call: return its error.
Refused(h) ==
    /\ pc[h] = "refused"
    /\ Release(h)
    /\ UNCHANGED <<service, cacheVars, now, countVars, historyVars>>

\* The caller stops waiting (context expired, request cancelled, connection
\* lost) and returns an error.  Its request may still be on the way, or may
\* have taken effect already.
GiveUp(h) ==
    /\ pc[h] \in {"await", "landed"}
    /\ abandoned < MaxAbandoned
    /\ abandoned' = abandoned + 1
    /\ stray' = IF pc[h] = "await" THEN stray \cup {request[h]} ELSE stray
    /\ Release(h)
    /\ UNCHANGED <<log, cacheVars, now, issued, restarts, historyVars>>

StrayLands(q) ==
    /\ stray' = stray \ {q}
    /\ Accepts(q)
    /\ Effect(q)
    /\ UNCHANGED <<mu, cacheVars, callVars, now, countVars, historyVars>>

StrayLost(q) ==
    /\ stray' = stray \ {q}
    /\ UNCHANGED <<log, mu, cacheVars, callVars, now, countVars, historyVars>>

----------------------------------------------------------------------------
(* List                                                                    *)

CacheValid(r) == cacheOK[r] /\ CacheTTL > 0 /\ now - cacheAt[r] < CacheTTL

ListHit(r) ==
    /\ CacheValid(r)
    /\ answer' = [answer EXCEPT ![r] = cacheRev[r]]
    /\ UNCHANGED <<service, mu, cacheVars, callVars, now, countVars, ackRev>>

ListMiss(h) ==
    LET r == ReplicaOf[h] IN
    /\ pc[h] = "idle"
    /\ ~CacheValid(r)
    /\ gen' = [gen EXCEPT ![h] = cacheGen[r]]
    /\ started' = [started EXCEPT ![h] = now]
    /\ floor' = [floor EXCEPT ![h] = ackRev[r]]
    /\ Goto(h, "fetch")
    /\ UNCHANGED <<service, mu, cacheVars, request, seen, now, countVars, historyVars>>

ListFetch(h) ==
    /\ pc[h] = "fetch" /\ Alive(h)
    /\ seen' = [seen EXCEPT ![h] = Latest]
    /\ Goto(h, "fetched")
    /\ UNCHANGED <<service, mu, cacheVars, request, gen, started, floor, now, countVars, historyVars>>

\* Mutation: the fill commits whatever happened during the fetch.
FillCacheBlindly(r, h) ==
    /\ cacheOK' = [cacheOK EXCEPT ![r] = TRUE]
    /\ cacheRev' = [cacheRev EXCEPT ![r] = seen[h]]
    /\ cacheAt' = [cacheAt EXCEPT ![r] = now]
    /\ UNCHANGED cacheGen

\* Fill the cache unless an invalidate landed since the generation was read.
FillCache(r, h) ==
    IF CacheTTL > 0 /\ cacheGen[r] = gen[h]
      THEN /\ cacheOK' = [cacheOK EXCEPT ![r] = TRUE]
           /\ cacheRev' = [cacheRev EXCEPT ![r] = seen[h]]
           /\ cacheAt' = [cacheAt EXCEPT ![r] = now]
           /\ UNCHANGED cacheGen
      ELSE UNCHANGED cacheVars

\* Mutation: a List has no timeout of its own.
ListCommitLate(h) ==
    LET r == ReplicaOf[h] IN
    /\ pc[h] = "fetched"
    /\ FillCache(r, h)
    /\ answer' = [answer EXCEPT ![r] = seen[h]]
    /\ Return(h)
    /\ UNCHANGED <<service, mu, now, countVars, ackRev>>

ListCommit(h) ==
    LET r == ReplicaOf[h] IN
    /\ pc[h] = "fetched" /\ Alive(h)
    /\ FillCache(r, h)
    /\ answer' = [answer EXCEPT ![r] = seen[h]]
    /\ Return(h)
    /\ UNCHANGED <<service, mu, now, countVars, ackRev>>

ListFails(h) ==
    /\ pc[h] \in {"fetch", "fetched"}
    /\ Return(h)
    /\ UNCHANGED <<service, mu, cacheVars, now, countVars, historyVars>>

----------------------------------------------------------------------------
(* The process and its clock                                               *)

HandlersOf(r) == {h \in Handlers : ReplicaOf[h] = r}

\* A replica dies and a new process takes its place: memory is gone, requests
\* already sent are not.
Restart(r) ==
    /\ restarts < MaxRestarts
    /\ restarts' = restarts + 1
    /\ stray' = stray \cup {request[h] : h \in {g \in HandlersOf(r) : pc[g] = "await"}}
    /\ mu' = [mu EXCEPT ![r] = NoHandler]
    /\ cacheOK' = [cacheOK EXCEPT ![r] = FALSE]
    /\ cacheGen' = [cacheGen EXCEPT ![r] = 0]
    /\ pc' = [h \in Handlers |-> IF ReplicaOf[h] = r THEN "idle" ELSE pc[h]]
    /\ request' = [h \in Handlers |-> IF ReplicaOf[h] = r THEN NoRequest ELSE request[h]]
    /\ gen' = [h \in Handlers |-> IF ReplicaOf[h] = r THEN 0 ELSE gen[h]]
    /\ seen' = [h \in Handlers |-> IF ReplicaOf[h] = r THEN 1 ELSE seen[h]]
    /\ started' = [h \in Handlers |-> IF ReplicaOf[h] = r THEN 0 ELSE started[h]]
    /\ floor' = [h \in Handlers |-> IF ReplicaOf[h] = r THEN 1 ELSE floor[h]]
    /\ UNCHANGED <<log, cacheRev, cacheAt, now, issued, abandoned, historyVars>>

Tick ==
    /\ now < MaxTime
    /\ now' = now + 1
    /\ UNCHANGED <<service, mu, cacheVars, callVars, countVars, historyVars>>

Init ==
    /\ log = <<[rows |-> {}, at |-> 0]>>
    /\ stray = {}
    /\ mu = [r \in Replicas |-> NoHandler]
    /\ cacheOK = [r \in Replicas |-> FALSE]
    /\ cacheRev = [r \in Replicas |-> 1]
    /\ cacheAt = [r \in Replicas |-> 0]
    /\ cacheGen = [r \in Replicas |-> 0]
    /\ pc = [h \in Handlers |-> "idle"]
    /\ request = [h \in Handlers |-> NoRequest]
    /\ gen = [h \in Handlers |-> 0]
    /\ seen = [h \in Handlers |-> 1]
    /\ started = [h \in Handlers |-> 0]
    /\ floor = [h \in Handlers |-> 1]
    /\ now = 0
    /\ issued = 0
    /\ abandoned = 0
    /\ restarts = 0
    /\ answer = [r \in Replicas |-> 1]
    /\ ackRev = [r \in Replicas |-> 1]

WriteStep(h) ==
    \/ FindForUpdate(h) \/ FindForCreate(h) \/ FindForDelete(h)
    \/ DeleteAbsent(h) \/ FindFails(h)
    \/ Land(h) \/ Confirm(h) \/ Refused(h) \/ GiveUp(h)

ListStep(h) == ListFetch(h) \/ ListCommit(h) \/ ListFails(h)

Next ==
    \/ \E h \in Handlers :
          \/ \E i \in Ids : Put(h, i) \/ Delete(h, i)
          \/ Acquire(h)
          \/ WriteStep(h)
          \/ ListMiss(h)
          \/ ListStep(h)
    \/ \E r \in Replicas : ListHit(r) \/ Restart(r)
    \/ \E q \in stray : StrayLands(q) \/ StrayLost(q)
    \/ Tick

Spec == Init /\ [][Next]_vars

\* A goroutine that can run runs; sync.Mutex hands the lock to a waiter that
\* has waited long enough, so a waiter is not overtaken for ever; a call ends
\* with an answer or with the expiry of its context.
Fairness == \A h \in Handlers :
    /\ SF_vars(Acquire(h))
    /\ WF_vars(WriteStep(h))
    /\ WF_vars(ListStep(h))

FairSpec == Spec /\ Fairness

----------------------------------------------------------------------------
(* Properties                                                              *)

\* Every variable has its type; a snapshot is a content the table has had.
ServiceType == log \in Seq(Content) /\ Latest > 0 /\ stray \subseteq Request
MutexType   == mu \in [Replicas -> Handlers \cup {NoHandler}]
CacheType ==
    /\ cacheOK \in [Replicas -> BOOLEAN]
    /\ cacheRev \in [Replicas -> 1..Latest]
    /\ cacheAt \in [Replicas -> 0..MaxTime]
    /\ cacheGen \in [Replicas -> Nat]
CallType ==
    /\ pc \in [Handlers -> Labels]
    /\ request \in [Handlers -> Request \cup {NoRequest}]
    /\ gen \in [Handlers -> Nat]
    /\ seen \in [Handlers -> 1..Latest]
    /\ started \in [Handlers -> 0..MaxTime]
    /\ floor \in [Handlers -> 1..Latest]
CountType ==
    /\ now \in 0..MaxTime
    /\ issued \in 0..MaxWrites
    /\ abandoned \in 0..MaxAbandoned
    /\ restarts \in 0..MaxRestarts
HistoryType ==
    /\ answer \in [Replicas -> 1..Latest]
    /\ ackRev \in [Replicas -> 1..Latest]
TypeOK ==
    ServiceType /\ MutexType /\ CacheType /\ CallType /\ CountType /\ HistoryType

\* Read your writes through the cache: what a List of a replica is served from
\* the cache is never older than a write that replica has completed, however
\* fills, writes and invalidates of its goroutines interleave (the cacheGen
\* check of List, bitable.go:116-126).
CacheReflectsAcks ==
    \A r \in Replicas : CacheValid(r) => ackRev[r] <= cacheRev[r]

\* A mutex is held exactly while its owner is between Lock and the deferred
\* Unlock: no return of Put or Delete, on success, error or timeout, leaks it.
MutexHeldInside ==
    \A h \in Handlers : pc[h] \in Critical <=> mu[ReplicaOf[h]] = h

\* Find and write are atomic per process, so the only duplicate records of an
\* id are those that two replicas made, or creates abandoned by a timeout or a
\* crash: with one replica and neither, an id has at most one record (the
\* comment of Put, bitable.go:138-141).
RowsPerIdBounded ==
    \A i \in Ids : Cardinality(RowsOf(i)) <= Cardinality(Replicas) + abandoned + restarts

\* The table content a cached List may be missing became current less than d ago.
StaleLessThan(d) ==
    \A r \in Replicas : CacheValid(r) =>
        \A k \in (cacheRev[r] + 1)..Latest : now - log[k].at < d

\* A cached List misses no write, of any replica, that is older than the cache
\* TTL and the timeout of the fetch together.
BoundedStaleness == StaleLessThan(CacheTTL + CallTimeout)

\* When Delete(i) returns nil, the replica's cache no longer serves i: "same-
\* replica writes are reflected immediately via invalidate" (bitable.go:43-44).
ReturnsDeleted(h) ==
    DeleteAbsent(h) \/ (Confirm(h) /\ request[h].kind = "remove")
DeleteIsReflected ==
    [][\A h \in Handlers : ReturnsDeleted(h) =>
          \/ ~CacheValid(ReplicaOf[h])'
          \/ \A row \in log'[cacheRev'[ReplicaOf[h]]].rows : row.id # request[h].id]_vars

\* The version the catalog shows for an id in a table content; 0 is absent.
VersionIn(rows, i) ==
    IF \E row \in rows : row.id = i
      THEN (CHOOSE row \in rows : row.id = i).version
      ELSE 0

\* One process, none of whose writes is abandoned, implements the abstract
\* catalog: the mutex makes find and write one atomic step, whose version is
\* the previous one plus one, and the cache never takes a List back behind the
\* writes that had returned when it was called.
TheReplica == CHOOSE r \in Replicas : TRUE
Catalog == INSTANCE DefinitionCatalog WITH
    Clients <- Handlers,
    history <- [k \in 1..Latest |-> [i \in Ids |-> VersionIn(log[k].rows, i)]],
    acked <- ackRev[TheReplica],
    answer <- answer[TheReplica]
ImplementsCatalog == Catalog!Spec

\* Every Put, Delete and List returns.
OperationsReturn ==
    \A h \in Handlers : pc[h] # "idle" ~> pc[h] = "idle"

====
