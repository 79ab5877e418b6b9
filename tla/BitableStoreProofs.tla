---- MODULE BitableStoreProofs ----
(***************************************************************************)
(* Proofs about BitableStore, for every number of replicas, handlers and   *)
(* ids, every TTL and timeout, and every bound on writes and failures.     *)
(***************************************************************************)
EXTENDS BitableStore, FiniteSetTheorems, TLAPS

----------------------------------------------------------------------------
(* Types                                                                   *)

\* A handler that runs a Put or a Delete has a request.
RequestPresent ==
    \A h \in Handlers : pc[h] \in Critical \cup {"lock"} => request[h] \in Request

TypeInv == TypeOK /\ RequestPresent

\* The content a record call leaves behind holds rows.
LEMMA AppliedType ==
    ASSUME Rows \subseteq Row, NEW q \in Request
    PROVE  Applied(q) \subseteq Row
<1>1. [rid |-> q.rid, id |-> q.id, version |-> q.version, body |-> q.body] \in Row
  BY DEF Request, Row
<1>2. \A row \in Rows : [row EXCEPT !.version = q.version, !.body = q.body] \in Row
  BY DEF Request, Row
<1> QED
  BY <1>1, <1>2 DEF Applied

\* The table always has a current content.
LEMMA LatestType ==
    ASSUME ServiceType
    PROVE  /\ Latest \in Nat \ {0}
           /\ \A k \in 1..Latest : log[k] \in Content
           /\ Rows \subseteq Row
<1>1. log \in Seq(Content) /\ Latest > 0
  BY DEF ServiceType
<1>2. Latest \in Nat \ {0}
  BY <1>1 DEF Latest
<1>3. \A k \in 1..Latest : log[k] \in Content
  BY <1>1 DEF Latest
<1>4. log[Latest] \in Content
  BY <1>2, <1>3
<1>5. Rows \subseteq Row
  BY <1>4 DEF Rows, Content
<1> QED
  BY <1>2, <1>3, <1>5

\* A record call appends one content and keeps the earlier ones.
LEMMA EffectType ==
    ASSUME ServiceType, CountType, NEW q \in Request, Effect(q)
    PROVE  /\ log' \in Seq(Content)
           /\ Len(log') = Latest + 1
           /\ \A k \in 1..Latest : log'[k] = log[k]
           /\ log'[Latest + 1] = [rows |-> Applied(q), at |-> now]
<1>1. Rows \subseteq Row
  BY LatestType
<1>2. Applied(q) \subseteq Row
  BY <1>1, AppliedType
<1>3. [rows |-> Applied(q), at |-> now] \in Content
  BY <1>2 DEF CountType, Content
<1> QED
  BY <1>3 DEF ServiceType, Effect, Latest

\* Snapshots stay snapshots when the table moves on.
LEMMA SnapshotsKept ==
    ASSUME TypeOK, NEW n \in Nat, Latest <= n
    PROVE  /\ cacheRev \in [Replicas -> 1..n]
           /\ seen \in [Handlers -> 1..n]
           /\ floor \in [Handlers -> 1..n]
           /\ answer \in [Replicas -> 1..n]
           /\ ackRev \in [Replicas -> 1..n]
<1>1. Latest \in Nat
  BY LatestType DEF TypeOK
<1>2. 1..Latest \subseteq 1..n
  BY <1>1
<1> QED
  BY <1>2 DEF TypeOK, CacheType, CallType, HistoryType

LEMMA TypeInit == Init => TypeInv
<1> SUFFICES ASSUME Init PROVE TypeInv
  OBVIOUS
<1> USE ReplicaAssumption, NumberAssumption
<1>1. [rows |-> {}, at |-> 0] \in Content
  BY DEF Content
<1>2. log \in Seq(Content) /\ Latest = 1
  BY <1>1 DEF Init, Latest
<1>3. ServiceType /\ MutexType /\ CacheType /\ CallType /\ CountType /\ HistoryType
  BY <1>2 DEF Init, ServiceType, MutexType, CacheType, CallType, CountType, HistoryType, Labels
<1>4. RequestPresent
  BY DEF Init, RequestPresent, Critical
<1> QED
  BY <1>3, <1>4 DEF TypeInv, TypeOK

\* The locals of an operation that returns.
LEMMA ReturnType ==
    ASSUME TypeInv, NEW h \in Handlers, Return(h), UNCHANGED log
    PROVE  CallType' /\ RequestPresent'
<1>1. Latest \in Nat \ {0} /\ MaxTime \in Nat /\ Latest' = Latest
  BY LatestType, NumberAssumption DEF TypeInv, TypeOK, Latest
<1>2. CallType'
  BY <1>1 DEF TypeInv, TypeOK, CallType, Return, Goto, Labels
<1>3. RequestPresent'
  BY DEF TypeInv, TypeOK, CallType, RequestPresent, Return, Goto, Critical
<1> QED
  BY <1>2, <1>3

LEMMA ReleaseType ==
    ASSUME TypeInv, NEW h \in Handlers, Release(h), UNCHANGED log
    PROVE  MutexType' /\ CallType' /\ RequestPresent'
<1>1. MutexType'
  BY ReplicaAssumption DEF TypeInv, TypeOK, MutexType, Release
<1> QED
  BY <1>1, ReturnType DEF Release

LEMMA TypeStep == TypeInv /\ [Next]_vars => TypeInv'
<1> SUFFICES ASSUME TypeInv, [Next]_vars PROVE TypeInv'
  OBVIOUS
<1> USE ReplicaAssumption, NumberAssumption
<1>a. TypeOK /\ RequestPresent
  BY DEF TypeInv
<1>b. ServiceType /\ MutexType /\ CacheType /\ CallType /\ CountType /\ HistoryType
  BY <1>a DEF TypeOK
<1>c. Latest \in Nat \ {0} /\ Rows \subseteq Row
  BY <1>b, LatestType
<1> USE <1>b
<1> USE DEF service, cacheVars, callVars, countVars, historyVars
<1>1. ASSUME NEW h \in Handlers, NEW i \in Ids, NEW kind \in {"put", "delete"}, Begin(h, i, kind)
      PROVE  TypeInv'
  <2>1. issued' \in OpIds
    BY <1>1 DEF Begin, CountType, OpIds
  <2>2. [kind |-> kind, rid |-> 0, id |-> i, version |-> 0, body |-> issued'] \in Request
    BY <2>1 DEF Request, OpIds
  <2>3. CallType' /\ CountType'
    BY <1>1, <2>1, <2>2 DEF Begin, Goto, CallType, CountType, Latest, OpIds, Labels
  <2>4. ServiceType' /\ MutexType' /\ CacheType' /\ HistoryType'
    BY <1>1 DEF Begin, ServiceType, MutexType, CacheType, HistoryType, Latest
  <2>5. RequestPresent'
    BY <1>1, <1>a, <2>2 DEF Begin, Goto, RequestPresent, Critical, CallType
  <2> QED
    BY <2>3, <2>4, <2>5 DEF TypeInv, TypeOK
<1>2. ASSUME NEW h \in Handlers, Acquire(h) PROVE TypeInv'
  <2>1. MutexType' /\ CallType'
    BY <1>2 DEF Acquire, Goto, MutexType, CallType, Latest, Labels
  <2>2. ServiceType' /\ CacheType' /\ CountType' /\ HistoryType'
    BY <1>2 DEF Acquire, ServiceType, CacheType, CountType, HistoryType, Latest
  <2>3. RequestPresent'
    BY <1>2, <1>a DEF Acquire, Goto, RequestPresent, Critical, CallType
  <2> QED
    BY <2>1, <2>2, <2>3 DEF TypeInv, TypeOK
<1>3. ASSUME NEW h \in Handlers, NEW q \in Request, Send(h, q) PROVE TypeInv'
  <2>1. CallType'
    BY <1>3 DEF Send, Goto, CallType, Latest, Labels
  <2>2. ServiceType' /\ MutexType' /\ CacheType' /\ CountType' /\ HistoryType'
    BY <1>3 DEF Send, ServiceType, MutexType, CacheType, CountType, HistoryType, Latest
  <2>3. RequestPresent'
    BY <1>3, <1>a DEF Send, Goto, RequestPresent, Critical, CallType
  <2> QED
    BY <2>1, <2>2, <2>3 DEF TypeInv, TypeOK
<1>4. ASSUME NEW h \in Handlers, FindForUpdate(h) \/ FindForCreate(h) \/ FindForDelete(h)
      PROVE  TypeInv'
  <2>1. request[h] \in Request
    BY <1>4, <1>a DEF FindForUpdate, FindForCreate, FindForDelete, RequestPresent, Critical
  <2>2. ASSUME FindForUpdate(h) PROVE \E q \in Request : Send(h, q)
    <3>1. PICK row \in RowsOf(request[h].id) :
             Send(h, [request[h] EXCEPT !.kind = "update", !.rid = row.rid, !.version = row.version + 1])
      BY <2>2 DEF FindForUpdate
    <3>2. row \in Row
      BY <1>c DEF RowsOf
    <3>3. row.rid \in OpIds /\ row.version + 1 \in Nat
      BY <3>2 DEF Row
    <3>4. ASSUME NEW v \in Nat, NEW d \in OpIds
          PROVE  [request[h] EXCEPT !.kind = "update", !.rid = d, !.version = v] \in Request
      BY <2>1 DEF Request, RecordCalls
    <3> QED
      BY <3>1, <3>3, <3>4
  <2>3. ASSUME FindForCreate(h) PROVE \E q \in Request : Send(h, q)
    <3>1. [request[h] EXCEPT !.kind = "create", !.rid = request[h].body, !.version = 1] \in Request
      BY <2>1 DEF Request, RecordCalls
    <3> QED
      BY <2>3, <3>1 DEF FindForCreate
  <2>4. ASSUME FindForDelete(h) PROVE \E q \in Request : Send(h, q)
    <3>1. PICK row \in RowsOf(request[h].id) :
             Send(h, [request[h] EXCEPT !.kind = "remove", !.rid = row.rid])
      BY <2>4 DEF FindForDelete
    <3>2. row \in Row
      BY <1>c DEF RowsOf
    <3>3. [request[h] EXCEPT !.kind = "remove", !.rid = row.rid] \in Request
      BY <2>1, <3>2 DEF Row, Request, RecordCalls
    <3> QED
      BY <3>1, <3>3
  <2> QED
    BY <1>3, <1>4, <2>2, <2>3, <2>4
<1>5. ASSUME NEW h \in Handlers, DeleteAbsent(h) \/ FindFails(h) \/ Refused(h)
      PROVE  TypeInv'
  <2>1. Release(h) /\ UNCHANGED <<service, cacheVars, now, countVars, historyVars>>
    BY <1>5 DEF DeleteAbsent, FindFails, Refused
  <2>2. MutexType' /\ CallType' /\ RequestPresent'
    BY <2>1, ReleaseType
  <2>3. ServiceType' /\ CacheType' /\ CountType' /\ HistoryType'
    BY <2>1 DEF ServiceType, CacheType, CountType, HistoryType, Latest
  <2> QED
    BY <2>2, <2>3 DEF TypeInv, TypeOK
<1>6. ASSUME NEW h \in Handlers, Land(h) PROVE TypeInv'
  <2>1. request[h] \in Request
    BY <1>6, <1>a DEF Land, RequestPresent, Critical
  <2>2. CASE Effect(request[h]) /\ seen' = [seen EXCEPT ![h] = Latest + 1] /\ Goto(h, "landed")
    <3>1. log' \in Seq(Content) /\ Latest' = Latest + 1
      BY <2>1, <2>2, EffectType DEF Latest
    <3>2. Latest + 1 \in Nat /\ Latest <= Latest + 1 /\ Latest + 1 \in 1..(Latest + 1)
      BY <1>c
    <3>3. /\ cacheRev \in [Replicas -> 1..(Latest + 1)]
          /\ seen \in [Handlers -> 1..(Latest + 1)]
          /\ floor \in [Handlers -> 1..(Latest + 1)]
          /\ answer \in [Replicas -> 1..(Latest + 1)]
          /\ ackRev \in [Replicas -> 1..(Latest + 1)]
      BY <1>a, <3>2, SnapshotsKept
    <3>4. ServiceType'
      BY <1>6, <3>1, <1>c DEF Land, ServiceType
    <3>5. CacheType' /\ HistoryType'
      BY <1>6, <3>1, <3>3 DEF Land, CacheType, HistoryType
    <3>6. CallType'
      BY <1>6, <2>2, <3>1, <3>2, <3>3 DEF Land, Goto, CallType, Labels
    <3>7. MutexType' /\ CountType'
      BY <1>6 DEF Land, MutexType, CountType
    <3>8. RequestPresent'
      BY <1>6, <1>a, <2>1, <2>2 DEF Land, Goto, RequestPresent, Critical, CallType
    <3> QED
      BY <3>4, <3>5, <3>6, <3>7, <3>8 DEF TypeInv, TypeOK
  <2>3. CASE Goto(h, "refused") /\ UNCHANGED <<log, seen>>
    <3>1. CallType'
      BY <1>6, <2>3 DEF Land, Goto, CallType, Latest, Labels
    <3>2. ServiceType' /\ MutexType' /\ CacheType' /\ CountType' /\ HistoryType'
      BY <1>6, <2>3 DEF Land, ServiceType, MutexType, CacheType, CountType, HistoryType, Latest
    <3>3. RequestPresent'
      BY <1>6, <1>a, <2>1, <2>3 DEF Land, Goto, RequestPresent, Critical, CallType
    <3> QED
      BY <3>1, <3>2, <3>3 DEF TypeInv, TypeOK
  <2> QED
    BY <1>6, <2>2, <2>3 DEF Land
<1>7. ASSUME NEW h \in Handlers, Confirm(h) PROVE TypeInv'
  <2>1. MutexType' /\ CallType' /\ RequestPresent'
    BY <1>7, ReleaseType DEF Confirm
  <2>2. CacheType'
    BY <1>7 DEF Confirm, Invalidate, CacheType, Latest
  <2>3. HistoryType'
    BY <1>7 DEF Confirm, HistoryType, CallType, Latest
  <2>4. ServiceType' /\ CountType'
    BY <1>7 DEF Confirm, ServiceType, CountType, Latest
  <2> QED
    BY <2>1, <2>2, <2>3, <2>4 DEF TypeInv, TypeOK
<1>8. ASSUME NEW h \in Handlers, GiveUp(h) PROVE TypeInv'
  <2>1. MutexType' /\ CallType' /\ RequestPresent'
    BY <1>8, ReleaseType DEF GiveUp
  <2>2. ServiceType'
    BY <1>8, <1>a DEF GiveUp, ServiceType, RequestPresent, Critical, Latest
  <2>3. CacheType' /\ CountType' /\ HistoryType'
    BY <1>8 DEF GiveUp, CacheType, CountType, HistoryType, Latest
  <2> QED
    BY <2>1, <2>2, <2>3 DEF TypeInv, TypeOK
<1>9. ASSUME NEW q \in stray, StrayLands(q) PROVE TypeInv'
  <2>1. q \in Request
    BY DEF ServiceType
  <2>2. log' \in Seq(Content) /\ Latest' = Latest + 1
    BY <1>9, <2>1, EffectType DEF StrayLands, Latest
  <2>3. Latest + 1 \in Nat /\ Latest <= Latest + 1
    BY <1>c
  <2>4. /\ cacheRev \in [Replicas -> 1..(Latest + 1)]
        /\ seen \in [Handlers -> 1..(Latest + 1)]
        /\ floor \in [Handlers -> 1..(Latest + 1)]
        /\ answer \in [Replicas -> 1..(Latest + 1)]
        /\ ackRev \in [Replicas -> 1..(Latest + 1)]
    BY <1>a, <2>3, SnapshotsKept
  <2>5. ServiceType'
    BY <1>9, <2>2, <1>c DEF StrayLands, ServiceType
  <2>6. CacheType' /\ CallType' /\ HistoryType'
    BY <1>9, <2>2, <2>4 DEF StrayLands, CacheType, CallType, HistoryType
  <2>7. MutexType' /\ CountType' /\ RequestPresent'
    BY <1>9, <1>a DEF StrayLands, MutexType, CountType, RequestPresent
  <2> QED
    BY <2>5, <2>6, <2>7 DEF TypeInv, TypeOK
<1>10. ASSUME NEW q \in stray, StrayLost(q) PROVE TypeInv'
  <2>1. ServiceType' /\ MutexType' /\ CacheType' /\ CallType' /\ CountType' /\ HistoryType'
    BY <1>10 DEF StrayLost, ServiceType, MutexType, CacheType, CallType, CountType, HistoryType, Latest
  <2> QED
    BY <1>10, <1>a, <2>1 DEF StrayLost, TypeInv, TypeOK, RequestPresent
<1>11. ASSUME NEW r \in Replicas, ListHit(r) PROVE TypeInv'
  <2>1. HistoryType'
    BY <1>11 DEF ListHit, HistoryType, CacheType, Latest
  <2>2. ServiceType' /\ MutexType' /\ CacheType' /\ CallType' /\ CountType'
    BY <1>11 DEF ListHit, ServiceType, MutexType, CacheType, CallType, CountType, Latest
  <2> QED
    BY <1>11, <1>a, <2>1, <2>2 DEF ListHit, TypeInv, TypeOK, RequestPresent
<1>12. ASSUME NEW h \in Handlers, ListMiss(h) PROVE TypeInv'
  <2>1. CallType'
    BY <1>12 DEF ListMiss, Goto, CallType, CacheType, CountType, HistoryType, Latest, Labels
  <2>2. ServiceType' /\ MutexType' /\ CacheType' /\ CountType' /\ HistoryType'
    BY <1>12 DEF ListMiss, ServiceType, MutexType, CacheType, CountType, HistoryType, Latest
  <2>3. RequestPresent'
    BY <1>12, <1>a DEF ListMiss, Goto, RequestPresent, Critical, CallType
  <2> QED
    BY <2>1, <2>2, <2>3 DEF TypeInv, TypeOK
<1>13. ASSUME NEW h \in Handlers, ListFetch(h) PROVE TypeInv'
  <2>1. CallType'
    BY <1>13, <1>c DEF ListFetch, Goto, CallType, Latest, Labels
  <2>2. ServiceType' /\ MutexType' /\ CacheType' /\ CountType' /\ HistoryType'
    BY <1>13 DEF ListFetch, ServiceType, MutexType, CacheType, CountType, HistoryType, Latest
  <2>3. RequestPresent'
    BY <1>13, <1>a DEF ListFetch, Goto, RequestPresent, Critical, CallType
  <2> QED
    BY <2>1, <2>2, <2>3 DEF TypeInv, TypeOK
<1>14. ASSUME NEW h \in Handlers, ListCommit(h) PROVE TypeInv'
  <2>1. CallType' /\ RequestPresent'
    BY <1>14, ReturnType DEF ListCommit
  <2>2. CacheType'
    <3>1. UNCHANGED log /\ seen[h] \in 1..Latest /\ now \in 0..MaxTime /\ Latest' = Latest
      BY <1>14 DEF ListCommit, CallType, CountType, Latest
    <3>2. /\ cacheOK' \in [Replicas -> BOOLEAN] /\ cacheRev' \in [Replicas -> 1..Latest]
          /\ cacheAt' \in [Replicas -> 0..MaxTime] /\ cacheGen' \in [Replicas -> Nat]
      <4>1. FillCache(ReplicaOf[h], h) /\ ReplicaOf[h] \in Replicas
        BY <1>14 DEF ListCommit
      <4>2. CASE UNCHANGED cacheVars
        BY <4>2 DEF CacheType
      <4>3. CASE /\ cacheOK' = [cacheOK EXCEPT ![ReplicaOf[h]] = TRUE]
                 /\ cacheRev' = [cacheRev EXCEPT ![ReplicaOf[h]] = seen[h]]
                 /\ cacheAt' = [cacheAt EXCEPT ![ReplicaOf[h]] = now]
                 /\ UNCHANGED cacheGen
        BY <3>1, <4>1, <4>3 DEF CacheType
      <4> QED
        BY <4>1, <4>2, <4>3 DEF FillCache
    <3> QED
      BY <3>1, <3>2 DEF CacheType
  <2>3. HistoryType'
    BY <1>14 DEF ListCommit, HistoryType, CallType, Latest
  <2>4. ServiceType' /\ MutexType' /\ CountType'
    BY <1>14 DEF ListCommit, ServiceType, MutexType, CountType, Latest
  <2> QED
    BY <2>1, <2>2, <2>3, <2>4 DEF TypeInv, TypeOK
<1>15. ASSUME NEW h \in Handlers, ListFails(h) PROVE TypeInv'
  <2>1. CallType' /\ RequestPresent'
    BY <1>15, ReturnType DEF ListFails
  <2>2. ServiceType' /\ MutexType' /\ CacheType' /\ CountType' /\ HistoryType'
    BY <1>15 DEF ListFails, ServiceType, MutexType, CacheType, CountType, HistoryType, Latest
  <2> QED
    BY <2>1, <2>2 DEF TypeInv, TypeOK
<1>16. ASSUME NEW r \in Replicas, Restart(r) PROVE TypeInv'
  <2>1. ServiceType'
    BY <1>16, <1>a DEF Restart, HandlersOf, ServiceType, RequestPresent, Critical, Latest
  <2>2. CallType'
    BY <1>16, <1>c DEF Restart, CallType, Labels, Latest
  <2>3. MutexType' /\ CacheType' /\ CountType' /\ HistoryType'
    BY <1>16 DEF Restart, MutexType, CacheType, CountType, HistoryType, Latest
  <2>4. RequestPresent'
    BY <1>16, <1>a DEF Restart, RequestPresent, Critical
  <2> QED
    BY <2>1, <2>2, <2>3, <2>4 DEF TypeInv, TypeOK
<1>17. CASE Tick
  <2>1. ServiceType' /\ MutexType' /\ CacheType' /\ CallType' /\ CountType' /\ HistoryType'
    BY <1>17 DEF Tick, ServiceType, MutexType, CacheType, CallType, CountType, HistoryType, Latest
  <2> QED
    BY <1>17, <1>a, <2>1 DEF Tick, TypeInv, TypeOK, RequestPresent
<1>18. CASE UNCHANGED vars
  <2>1. ServiceType' /\ MutexType' /\ CacheType' /\ CallType' /\ CountType' /\ HistoryType'
    BY <1>18 DEF vars, ServiceType, MutexType, CacheType, CallType, CountType, HistoryType, Latest
  <2> QED
    BY <1>18, <1>a, <2>1 DEF vars, TypeInv, TypeOK, RequestPresent
<1> QED
  BY <1>1, <1>2, <1>4, <1>5, <1>6, <1>7, <1>8, <1>9, <1>10, <1>11, <1>12, <1>13, <1>14,
     <1>15, <1>16, <1>17, <1>18
  DEF Next, Put, Delete, WriteStep, ListStep

\* Every variable keeps its type, and every snapshot the store refers to is a
\* content the table has had.
THEOREM TypeCorrect == Spec => []TypeOK
<1>1. Spec => []TypeInv
  BY TypeInit, TypeStep, PTL DEF Spec
<1>2. TypeInv => TypeOK
  BY DEF TypeInv
<1> QED
  BY <1>1, <1>2, PTL

----------------------------------------------------------------------------
(* The write mutex                                                         *)

LEMMA MutexInit == Init => MutexHeldInside
  BY ReplicaAssumption DEF Init, MutexHeldInside, Critical

\* A handler that returns from inside the mutex leaves it free.
LEMMA ReleaseMutex ==
    ASSUME TypeInv, MutexHeldInside, NEW h \in Handlers, pc[h] \in Critical, Release(h)
    PROVE  MutexHeldInside'
<1>1. mu[ReplicaOf[h]] = h /\ ReplicaOf[h] \in Replicas
  BY ReplicaAssumption DEF MutexHeldInside
<1>2. mu \in [Replicas -> Handlers \cup {NoHandler}] /\ pc \in [Handlers -> Labels]
  BY DEF TypeInv, TypeOK, MutexType, CallType
<1> QED
  BY <1>1, <1>2, ReplicaAssumption DEF MutexHeldInside, Release, Return, Goto, Critical

\* A step inside the mutex, or outside it, that moves no handler across its edge.
LEMMA SameSideMutex ==
    ASSUME TypeInv, MutexHeldInside, NEW h \in Handlers, NEW label \in Labels,
           label \in Critical <=> pc[h] \in Critical, Goto(h, label), UNCHANGED mu
    PROVE  MutexHeldInside'
  BY DEF TypeInv, TypeOK, CallType, MutexHeldInside, Goto

LEMMA MutexStep == TypeInv /\ MutexHeldInside /\ [Next]_vars => MutexHeldInside'
<1> SUFFICES ASSUME TypeInv, MutexHeldInside, [Next]_vars PROVE MutexHeldInside'
  OBVIOUS
<1> USE DEF Labels, Critical
<1>1. ASSUME NEW h \in Handlers, NEW i \in Ids, Put(h, i) \/ Delete(h, i)
      PROVE  MutexHeldInside'
  BY <1>1, SameSideMutex DEF Put, Delete, Begin
<1>2. ASSUME NEW h \in Handlers, Acquire(h) PROVE MutexHeldInside'
  <2>1. mu \in [Replicas -> Handlers \cup {NoHandler}] /\ pc \in [Handlers -> Labels]
    BY DEF TypeInv, TypeOK, MutexType, CallType
  <2>2. ReplicaOf \in [Handlers -> Replicas] /\ NoHandler \notin Handlers
    BY ReplicaAssumption
  <2> QED
    BY <1>2, <2>1, <2>2 DEF Acquire, Goto, MutexHeldInside
<1>3. ASSUME NEW h \in Handlers, FindForUpdate(h) \/ FindForCreate(h) \/ FindForDelete(h)
      PROVE  MutexHeldInside'
  BY <1>3, SameSideMutex DEF FindForUpdate, FindForCreate, FindForDelete, Send
<1>4. ASSUME NEW h \in Handlers,
             DeleteAbsent(h) \/ FindFails(h) \/ Confirm(h) \/ Refused(h) \/ GiveUp(h)
      PROVE  MutexHeldInside'
  BY <1>4, ReleaseMutex DEF DeleteAbsent, FindFails, Confirm, Refused, GiveUp
<1>5. ASSUME NEW h \in Handlers, Land(h) PROVE MutexHeldInside'
  BY <1>5, SameSideMutex DEF Land
<1>6. ASSUME NEW h \in Handlers, ListMiss(h) PROVE MutexHeldInside'
  BY <1>6, SameSideMutex DEF ListMiss
<1>7. ASSUME NEW h \in Handlers, ListStep(h) PROVE MutexHeldInside'
  BY <1>7, SameSideMutex DEF ListStep, ListFetch, ListCommit, ListFails, Return
<1>8. ASSUME NEW r \in Replicas, Restart(r) PROVE MutexHeldInside'
  <2>1. mu \in [Replicas -> Handlers \cup {NoHandler}]
    BY DEF TypeInv, TypeOK, MutexType
  <2>2. ReplicaOf \in [Handlers -> Replicas] /\ NoHandler \notin Handlers
    BY ReplicaAssumption
  <2> QED
    BY <1>8, <2>1, <2>2 DEF Restart, MutexHeldInside
<1>9. ASSUME NEW r \in Replicas, ListHit(r) PROVE MutexHeldInside'
  BY <1>9 DEF ListHit, MutexHeldInside, callVars
<1>10. ASSUME NEW q \in stray, StrayLands(q) \/ StrayLost(q) PROVE MutexHeldInside'
  BY <1>10 DEF StrayLands, StrayLost, MutexHeldInside, callVars
<1>11. CASE Tick \/ UNCHANGED vars
  BY <1>11 DEF Tick, vars, MutexHeldInside, callVars
<1> QED
  BY <1>1, <1>2, <1>3, <1>4, <1>5, <1>6, <1>7, <1>8, <1>9, <1>10, <1>11
  DEF Next, WriteStep

\* Put and Delete hold the mutex of their process exactly from Lock to the
\* deferred Unlock, whichever way they return, and across restarts: so at most
\* one handler of a process is between a find and the end of its write.
THEOREM MutexCorrect == Spec => []MutexHeldInside
<1>1. Spec => [](TypeInv /\ MutexHeldInside)
  BY TypeInit, TypeStep, MutexInit, MutexStep, PTL DEF Spec
<1> QED
  BY <1>1, PTL

----------------------------------------------------------------------------
(* The read cache                                                          *)

\* A valid cache, and a fetch that may still become the cache, are at least as
\* new as every completed write of the process; a generation read earlier is
\* never ahead of the current one.
CacheCoherent ==
    \A r \in Replicas : cacheOK[r] => ackRev[r] <= cacheRev[r]
GenBehind ==
    \A h \in Handlers :
        pc[h] \in {"fetch", "fetched"} => gen[h] <= cacheGen[ReplicaOf[h]]
FetchCoherent ==
    \A h \in Handlers :
        pc[h] = "fetched" /\ gen[h] = cacheGen[ReplicaOf[h]]
            => ackRev[ReplicaOf[h]] <= seen[h]
CacheInv == CacheCoherent /\ GenBehind /\ FetchCoherent

LEMMA CacheInit == Init => CacheInv
  BY DEF Init, CacheInv, CacheCoherent, GenBehind, FetchCoherent

LEMMA CacheStep == TypeInv /\ CacheInv /\ [Next]_vars => CacheInv'
<1> SUFFICES ASSUME TypeInv, CacheInv, [Next]_vars PROVE CacheInv'
  OBVIOUS
<1>a. /\ pc \in [Handlers -> Labels] /\ gen \in [Handlers -> Nat]
      /\ seen \in [Handlers -> 1..Latest] /\ ackRev \in [Replicas -> 1..Latest]
      /\ cacheRev \in [Replicas -> 1..Latest] /\ cacheGen \in [Replicas -> Nat]
      /\ cacheOK \in [Replicas -> BOOLEAN]
  BY DEF TypeInv, TypeOK, CacheType, CallType, HistoryType
<1>b. ReplicaOf \in [Handlers -> Replicas] /\ Latest \in Nat
  BY ReplicaAssumption, LatestType DEF TypeInv, TypeOK
<1> USE <1>a, <1>b
<1> USE DEF service, cacheVars, callVars, countVars, historyVars, Goto, Return, Release
<1>1. ASSUME NEW h \in Handlers, NEW i \in Ids, Put(h, i) \/ Delete(h, i) PROVE CacheInv'
  BY <1>1 DEF Put, Delete, Begin, CacheInv, CacheCoherent, GenBehind, FetchCoherent
<1>2. ASSUME NEW h \in Handlers, Acquire(h) PROVE CacheInv'
  BY <1>2 DEF Acquire, CacheInv, CacheCoherent, GenBehind, FetchCoherent
<1>3. ASSUME NEW h \in Handlers, FindForUpdate(h) \/ FindForCreate(h) \/ FindForDelete(h)
      PROVE  CacheInv'
  <2>1. PICK q : Send(h, q)
    BY <1>3 DEF FindForUpdate, FindForCreate, FindForDelete
  <2> QED
    BY <2>1 DEF Send, CacheInv, CacheCoherent, GenBehind, FetchCoherent
<1>4. ASSUME NEW h \in Handlers, DeleteAbsent(h) \/ FindFails(h) \/ Refused(h) \/ GiveUp(h)
      PROVE  CacheInv'
  <2>1. Release(h) /\ UNCHANGED <<cacheVars, historyVars>>
    BY <1>4 DEF DeleteAbsent, FindFails, Refused, GiveUp
  <2> QED
    BY <2>1 DEF CacheInv, CacheCoherent, GenBehind, FetchCoherent
<1>5. ASSUME NEW h \in Handlers, Land(h) PROVE CacheInv'
  <2>1. /\ UNCHANGED <<cacheOK, cacheRev, cacheGen, ackRev, gen>>
        /\ \A g \in Handlers \ {h} : pc'[g] = pc[g] /\ seen'[g] = seen[g]
        /\ pc'[h] \in {"landed", "refused"}
    BY <1>5 DEF Land
  <2> QED
    BY <2>1 DEF CacheInv, CacheCoherent, GenBehind, FetchCoherent
<1>6. ASSUME NEW h \in Handlers, Confirm(h) PROVE CacheInv'
  <2> DEFINE r == ReplicaOf[h]
  <2>1. /\ cacheOK' = [cacheOK EXCEPT ![r] = FALSE]
        /\ cacheGen' = [cacheGen EXCEPT ![r] = @ + 1]
        /\ \A s \in Replicas \ {r} : ackRev'[s] = ackRev[s]
        /\ UNCHANGED cacheRev
        /\ \A g \in Handlers \ {h} : pc'[g] = pc[g] /\ seen'[g] = seen[g] /\ gen'[g] = gen[g]
        /\ pc'[h] = "idle"
    BY <1>6 DEF Confirm, Invalidate
  <2>2. CacheCoherent'
    BY <2>1 DEF CacheInv, CacheCoherent
  <2>3. GenBehind'
    BY <2>1 DEF CacheInv, GenBehind
  <2>4. ASSUME NEW g \in Handlers, pc'[g] = "fetched", gen'[g] = cacheGen'[ReplicaOf[g]]
        PROVE  ackRev'[ReplicaOf[g]] <= seen'[g]
    <3>1. g # h /\ gen[g] <= cacheGen[ReplicaOf[g]]
      BY <2>1, <2>4 DEF CacheInv, GenBehind
    <3>2. ReplicaOf[g] # r
      BY <2>1, <2>4, <3>1
    <3> QED
      BY <2>1, <2>4, <3>1, <3>2 DEF CacheInv, FetchCoherent
  <2> QED
    BY <2>2, <2>3, <2>4 DEF CacheInv, FetchCoherent
<1>7. ASSUME NEW q \in stray, StrayLands(q) \/ StrayLost(q) PROVE CacheInv'
  BY <1>7 DEF StrayLands, StrayLost, CacheInv, CacheCoherent, GenBehind, FetchCoherent
<1>8. ASSUME NEW r \in Replicas, ListHit(r) PROVE CacheInv'
  BY <1>8 DEF ListHit, CacheInv, CacheCoherent, GenBehind, FetchCoherent
<1>9. ASSUME NEW h \in Handlers, ListMiss(h) PROVE CacheInv'
  BY <1>9 DEF ListMiss, CacheInv, CacheCoherent, GenBehind, FetchCoherent
<1>10. ASSUME NEW h \in Handlers, ListFetch(h) PROVE CacheInv'
  BY <1>10 DEF ListFetch, CacheInv, CacheCoherent, GenBehind, FetchCoherent
<1>11. ASSUME NEW h \in Handlers, ListCommit(h) PROVE CacheInv'
  <2> DEFINE r == ReplicaOf[h]
  <2>1. /\ pc[h] = "fetched" /\ FillCache(r, h) /\ UNCHANGED <<cacheGen, ackRev>>
        /\ \A g \in Handlers \ {h} : pc'[g] = pc[g] /\ seen'[g] = seen[g] /\ gen'[g] = gen[g]
        /\ pc'[h] = "idle"
    BY <1>11 DEF ListCommit, FillCache
  <2>2. GenBehind' /\ FetchCoherent'
    BY <2>1 DEF CacheInv, GenBehind, FetchCoherent
  <2>3. CacheCoherent'
    BY <2>1 DEF CacheInv, CacheCoherent, FetchCoherent, FillCache
  <2> QED
    BY <2>2, <2>3 DEF CacheInv
<1>12. ASSUME NEW h \in Handlers, ListFails(h) PROVE CacheInv'
  BY <1>12 DEF ListFails, CacheInv, CacheCoherent, GenBehind, FetchCoherent
<1>13. ASSUME NEW r \in Replicas, Restart(r) PROVE CacheInv'
  BY <1>13 DEF Restart, CacheInv, CacheCoherent, GenBehind, FetchCoherent
<1>14. CASE Tick \/ UNCHANGED vars
  BY <1>14 DEF Tick, vars, CacheInv, CacheCoherent, GenBehind, FetchCoherent
<1> QED
  BY <1>1, <1>2, <1>3, <1>4, <1>5, <1>6, <1>7, <1>8, <1>9, <1>10, <1>11, <1>12, <1>13, <1>14
  DEF Next, WriteStep, ListStep

\* A List served from the cache of a process reflects every write that process
\* has completed, in every interleaving of its fills, writes, lost answers and
\* restarts.
THEOREM CacheReflectsAcksHolds == Spec => []CacheReflectsAcks
<1>1. Spec => [](TypeInv /\ CacheInv)
  BY TypeInit, TypeStep, CacheInit, CacheStep, PTL DEF Spec
<1>2. CacheInv => CacheReflectsAcks
  BY DEF CacheInv, CacheCoherent, CacheReflectsAcks, CacheValid
<1> QED
  BY <1>1, <1>2, PTL

----------------------------------------------------------------------------
(* Staleness                                                               *)

\* A cache was filled at most CallTimeout after any content it misses took
\* effect; a fetch in progress misses nothing older than its own start.
PastTimes ==
    /\ \A r \in Replicas : cacheAt[r] <= now
    /\ \A h \in Handlers : started[h] <= now
CacheAge ==
    \A r \in Replicas : cacheOK[r] =>
        \A k \in (cacheRev[r] + 1)..Latest : cacheAt[r] <= log[k].at + CallTimeout
FetchAge ==
    \A h \in Handlers : pc[h] = "fetched" =>
        \A k \in (seen[h] + 1)..Latest : started[h] <= log[k].at
AgeInv == PastTimes /\ CacheAge /\ FetchAge

LEMMA AgeInit == Init => AgeInv
<1> SUFFICES ASSUME Init PROVE AgeInv
  OBVIOUS
<1>1. PastTimes /\ CacheAge /\ FetchAge
  BY DEF Init, PastTimes, CacheAge, FetchAge
<1> QED
  BY <1>1 DEF AgeInv

\* A new content of the table is stamped with the current time, so neither a
\* cache nor a fetch becomes too old by missing it.
LEMMA AgeAppend ==
    ASSUME TypeInv, AgeInv, NEW q \in Request, Effect(q),
           UNCHANGED <<cacheOK, cacheRev, cacheAt, started, now>>,
           \A h \in Handlers : pc'[h] = "fetched" => pc[h] = "fetched" /\ seen'[h] = seen[h]
    PROVE  AgeInv'
<1>1. /\ Latest' = Latest + 1
      /\ \A k \in 1..Latest : log'[k] = log[k]
      /\ log'[Latest + 1].at = now
  <2>1. ServiceType /\ CountType
    BY DEF TypeInv, TypeOK
  <2>2. log'[Latest + 1] = [rows |-> Applied(q), at |-> now]
    BY <2>1, EffectType
  <2>3. Len(log') = Latest + 1 /\ \A k \in 1..Latest : log'[k] = log[k]
    BY <2>1, EffectType
  <2> QED
    BY <2>2, <2>3 DEF Latest
<1>2. /\ Latest \in Nat /\ now \in Nat /\ CallTimeout \in Nat
      /\ cacheRev \in [Replicas -> 1..Latest] /\ seen \in [Handlers -> 1..Latest]
      /\ cacheAt \in [Replicas -> 0..MaxTime] /\ started \in [Handlers -> 0..MaxTime]
  BY LatestType, NumberAssumption DEF TypeInv, TypeOK, CacheType, CallType, CountType
<1>3. PastTimes'
  BY DEF AgeInv, PastTimes
<1>4. ASSUME NEW r \in Replicas, cacheOK'[r], NEW k \in (cacheRev'[r] + 1)..Latest'
      PROVE  cacheAt'[r] <= log'[k].at + CallTimeout
  <2>1. CASE k = Latest + 1
    BY <1>1, <1>2, <2>1 DEF AgeInv, PastTimes
  <2>2. CASE k # Latest + 1
    <3>1. k \in (cacheRev[r] + 1)..Latest /\ log'[k] = log[k]
      BY <1>1, <1>2, <1>4, <2>2
    <3> QED
      BY <1>4, <3>1 DEF AgeInv, CacheAge
  <2> QED
    BY <2>1, <2>2
<1>5. ASSUME NEW h \in Handlers, pc'[h] = "fetched", NEW k \in (seen'[h] + 1)..Latest'
      PROVE  started'[h] <= log'[k].at
  <2>1. CASE k = Latest + 1
    BY <1>1, <1>2, <2>1 DEF AgeInv, PastTimes
  <2>2. CASE k # Latest + 1
    <3>1. k \in (seen[h] + 1)..Latest /\ log'[k] = log[k]
      BY <1>1, <1>2, <1>5, <2>2
    <3> QED
      BY <1>5, <3>1 DEF AgeInv, FetchAge
  <2> QED
    BY <2>1, <2>2
<1> QED
  BY <1>3, <1>4, <1>5 DEF AgeInv, CacheAge, FetchAge

\* A step that fills no cache and finishes no fetch.
LEMMA AgeKept ==
    ASSUME TypeInv, AgeInv, UNCHANGED <<log, cacheRev, cacheAt>>,
           now' \in Nat, now <= now',
           \A r \in Replicas : cacheOK'[r] => cacheOK[r],
           \A h \in Handlers : started'[h] \in {started[h], now, 0},
           \A h \in Handlers : pc'[h] = "fetched" =>
              pc[h] = "fetched" /\ seen'[h] = seen[h] /\ started'[h] = started[h]
    PROVE  AgeInv'
<1>1. /\ now \in Nat /\ Latest' = Latest
      /\ cacheAt \in [Replicas -> 0..MaxTime] /\ started \in [Handlers -> 0..MaxTime]
  BY NumberAssumption DEF TypeInv, TypeOK, CacheType, CallType, CountType, Latest
<1>2. PastTimes'
  BY <1>1 DEF AgeInv, PastTimes
<1>3. CacheAge'
  BY <1>1 DEF AgeInv, CacheAge
<1>4. FetchAge'
  BY <1>1 DEF AgeInv, FetchAge
<1> QED
  BY <1>2, <1>3, <1>4 DEF AgeInv

LEMMA AgeStep == TypeInv /\ AgeInv /\ [Next]_vars => AgeInv'
<1> SUFFICES ASSUME TypeInv, AgeInv, [Next]_vars PROVE AgeInv'
  OBVIOUS
<1>a. /\ pc \in [Handlers -> Labels] /\ started \in [Handlers -> 0..MaxTime]
      /\ seen \in [Handlers -> 1..Latest] /\ cacheRev \in [Replicas -> 1..Latest]
      /\ cacheAt \in [Replicas -> 0..MaxTime] /\ cacheOK \in [Replicas -> BOOLEAN]
      /\ now \in Nat /\ Latest \in Nat /\ ReplicaOf \in [Handlers -> Replicas]
  BY ReplicaAssumption, NumberAssumption, LatestType
  DEF TypeInv, TypeOK, CacheType, CallType, CountType
<1> USE <1>a
<1> USE DEF service, cacheVars, callVars, countVars, historyVars, Goto, Return, Release
<1>1. ASSUME NEW h \in Handlers, NEW i \in Ids, Put(h, i) \/ Delete(h, i) PROVE AgeInv'
  BY <1>1, AgeKept DEF Put, Delete, Begin
<1>2. ASSUME NEW h \in Handlers, Acquire(h) PROVE AgeInv'
  BY <1>2, AgeKept DEF Acquire
<1>3. ASSUME NEW h \in Handlers, FindForUpdate(h) \/ FindForCreate(h) \/ FindForDelete(h)
      PROVE  AgeInv'
  <2>1. PICK q : Send(h, q)
    BY <1>3 DEF FindForUpdate, FindForCreate, FindForDelete
  <2> QED
    BY <2>1, AgeKept DEF Send
<1>4. ASSUME NEW h \in Handlers, DeleteAbsent(h) \/ FindFails(h) \/ Refused(h) \/ GiveUp(h)
      PROVE  AgeInv'
  <2>1. Release(h) /\ UNCHANGED <<log, cacheVars, now>>
    BY <1>4 DEF DeleteAbsent, FindFails, Refused, GiveUp
  <2> QED
    BY <2>1, AgeKept
<1>5. ASSUME NEW h \in Handlers, Land(h) PROVE AgeInv'
  <2>1. UNCHANGED <<cacheOK, cacheRev, cacheAt, started, now>>
    BY <1>5 DEF Land
  <2>2. \A g \in Handlers : pc'[g] = "fetched" => pc[g] = "fetched" /\ seen'[g] = seen[g]
    BY <1>5 DEF Land
  <2>3. CASE Effect(request[h])
    <3>1. request[h] \in Request
      BY <1>5 DEF Land, TypeInv, RequestPresent, Critical
    <3> QED
      BY <2>1, <2>2, <2>3, <3>1, AgeAppend
  <2>4. CASE UNCHANGED <<log, seen>>
    BY <2>1, <2>2, <2>4, AgeKept
  <2> QED
    BY <1>5, <2>3, <2>4 DEF Land
<1>6. ASSUME NEW h \in Handlers, Confirm(h) PROVE AgeInv'
  BY <1>6, AgeKept DEF Confirm, Invalidate
<1>7. ASSUME NEW q \in stray, StrayLands(q) PROVE AgeInv'
  <2>1. q \in Request
    BY DEF TypeInv, TypeOK, ServiceType
  <2> QED
    BY <1>7, <2>1, AgeAppend DEF StrayLands
<1>8. ASSUME NEW q \in stray, StrayLost(q) PROVE AgeInv'
  BY <1>8, AgeKept DEF StrayLost
<1>9. ASSUME NEW r \in Replicas, ListHit(r) PROVE AgeInv'
  BY <1>9, AgeKept DEF ListHit
<1>10. ASSUME NEW h \in Handlers, ListMiss(h) PROVE AgeInv'
  BY <1>10, AgeKept DEF ListMiss
<1>11. ASSUME NEW h \in Handlers, ListFetch(h) PROVE AgeInv'
  <2>1. PastTimes' /\ CacheAge'
    BY <1>11 DEF ListFetch, AgeInv, PastTimes, CacheAge, Latest
  <2>2. FetchAge'
    BY <1>11 DEF ListFetch, AgeInv, FetchAge, Latest
  <2> QED
    BY <2>1, <2>2 DEF AgeInv
<1>12. ASSUME NEW h \in Handlers, ListCommit(h) PROVE AgeInv'
  <2> DEFINE r == ReplicaOf[h]
  <2>1. /\ pc[h] = "fetched" /\ FillCache(r, h) /\ UNCHANGED <<log, now>> /\ Latest' = Latest
        /\ now - started[h] < CallTimeout
        /\ \A g \in Handlers \ {h} :
              pc'[g] = pc[g] /\ seen'[g] = seen[g] /\ started'[g] = started[g]
        /\ pc'[h] = "idle" /\ started'[h] = 0
    BY <1>12 DEF ListCommit, Alive, Latest
  <2>2. PastTimes'
    BY <2>1 DEF AgeInv, PastTimes, FillCache
  <2>3. FetchAge'
    BY <2>1 DEF AgeInv, FetchAge
  <2>4. ASSUME NEW s \in Replicas, cacheOK'[s], NEW k \in (cacheRev'[s] + 1)..Latest
        PROVE  cacheAt'[s] <= log[k].at + CallTimeout
    <3>1. CASE s = r /\ cacheRev'[s] = seen[h] /\ cacheAt'[s] = now
      <4>1. started[h] <= log[k].at
        BY <2>1, <2>4, <3>1 DEF AgeInv, FetchAge
      <4>2. log[k] \in Content /\ CallTimeout \in Nat
        BY <2>4, <3>1, LatestType, NumberAssumption DEF TypeInv, TypeOK
      <4>3. log[k].at \in Int
        BY <4>2, NumberAssumption DEF Content
      <4> QED
        BY <2>1, <3>1, <4>1, <4>2, <4>3
    <3>2. CASE cacheOK'[s] = cacheOK[s] /\ cacheRev'[s] = cacheRev[s] /\ cacheAt'[s] = cacheAt[s]
      BY <2>4, <3>2 DEF AgeInv, CacheAge
    <3> QED
      BY <2>1, <3>1, <3>2 DEF FillCache
  <2> QED
    BY <2>1, <2>2, <2>3, <2>4 DEF AgeInv, CacheAge
<1>13. ASSUME NEW h \in Handlers, ListFails(h) PROVE AgeInv'
  BY <1>13, AgeKept DEF ListFails
<1>14. ASSUME NEW r \in Replicas, Restart(r) PROVE AgeInv'
  BY <1>14, AgeKept DEF Restart
<1>15. CASE Tick
  BY <1>15, AgeKept DEF Tick
<1>16. CASE UNCHANGED vars
  BY <1>16, AgeKept DEF vars
<1> QED
  BY <1>1, <1>2, <1>3, <1>4, <1>5, <1>6, <1>7, <1>8, <1>9, <1>10, <1>11, <1>12, <1>13, <1>14,
     <1>15, <1>16
  DEF Next, WriteStep, ListStep

\* A List served from a cache misses no write that took effect CacheTTL +
\* CallTimeout ago or earlier, on any replica.
THEOREM BoundedStalenessHolds == Spec => []BoundedStaleness
<1>1. Spec => [](TypeInv /\ AgeInv)
  BY TypeInit, TypeStep, AgeInit, AgeStep, PTL DEF Spec
<1>2. TypeInv /\ AgeInv => BoundedStaleness
  <2> SUFFICES ASSUME TypeInv, AgeInv, NEW r \in Replicas, CacheValid(r),
                      NEW k \in (cacheRev[r] + 1)..Latest
               PROVE  now - log[k].at < CacheTTL + CallTimeout
    BY DEF BoundedStaleness, StaleLessThan
  <2>1. /\ cacheRev[r] \in 1..Latest /\ cacheAt[r] \in 0..MaxTime
        /\ now \in 0..MaxTime /\ Latest \in Nat
    BY LatestType DEF TypeInv, TypeOK, CacheType, CountType
  <2>2. log[k] \in Content
    BY <2>1, LatestType DEF TypeInv, TypeOK
  <2>3. log[k].at \in 0..MaxTime
    BY <2>2 DEF Content
  <2>4. cacheAt[r] <= log[k].at + CallTimeout /\ now - cacheAt[r] < CacheTTL
    BY DEF AgeInv, CacheAge, CacheValid
  <2> QED
    BY <2>1, <2>3, <2>4, NumberAssumption
<1> QED
  BY <1>1, <1>2, PTL

----------------------------------------------------------------------------
(* Duplicate records                                                       *)

\* Creates of id i that have been sent and not yet answered, and those nobody
\* waits for any more.
PendingCreates(i) ==
    {h \in Handlers : pc[h] = "await" /\ request[h].kind = "create" /\ request[h].id = i}
StrayCreates(i) == {q \in stray : q.kind = "create" /\ q.id = i}

\* The records of an id, with those that may still be created, number at most
\* one for each replica, and one for each write that was given up.
StrayBounded ==
    IsFiniteSet(stray) /\ Cardinality(stray) <= abandoned + restarts
RowsFinite == \A i \in Ids : IsFiniteSet(RowsOf(i))
CreatesBounded ==
    \A i \in Ids :
        Cardinality(RowsOf(i)) + Cardinality(PendingCreates(i)) + Cardinality(StrayCreates(i))
            <= Cardinality(Replicas) + abandoned + restarts
RowsInv == StrayBounded /\ RowsFinite /\ CreatesBounded

\* At most one handler of a replica waits for a create.
LEMMA PendingFinite ==
    ASSUME MutexHeldInside, NEW i \in Ids
    PROVE  /\ IsFiniteSet(PendingCreates(i))
           /\ Cardinality(PendingCreates(i)) <= Cardinality(Replicas)
<1> DEFINE f == [h \in PendingCreates(i) |-> ReplicaOf[h]]
<1>1. f \in [PendingCreates(i) -> Replicas]
  BY ReplicaAssumption DEF PendingCreates
<1>2. \A g, h \in PendingCreates(i) : f[g] = f[h] => g = h
  BY DEF PendingCreates, MutexHeldInside, Critical
<1>3. f \in Injection(PendingCreates(i), Replicas)
  BY <1>1, <1>2 DEF Injection, IsInjective
<1> QED
  BY <1>3, FS_Injection, ReplicaAssumption

LEMMA StrayCreatesFinite ==
    ASSUME StrayBounded, NEW i \in Ids
    PROVE  /\ IsFiniteSet(StrayCreates(i))
           /\ Cardinality(StrayCreates(i)) <= Cardinality(stray)
<1>1. StrayCreates(i) \in SUBSET stray
  BY DEF StrayCreates
<1> QED
  BY <1>1, FS_Subset DEF StrayBounded

\* Rewriting rows never multiplies the rows of an id.
LEMMA UpdateRows ==
    ASSUME NEW R, R \subseteq Row, NEW q \in Request, NEW i \in Ids,
           IsFiniteSet({row \in R : row.id = i}),
           NEW T, T = {row \in {IF row.rid = q.rid
                                  THEN [row EXCEPT !.version = q.version, !.body = q.body]
                                  ELSE row : row \in R} : row.id = i}
    PROVE  IsFiniteSet(T) /\ Cardinality(T) <= Cardinality({row \in R : row.id = i})
<1> DEFINE S == {row \in R : row.id = i}
           f == [row \in S |-> IF row.rid = q.rid
                                 THEN [row EXCEPT !.version = q.version, !.body = q.body]
                                 ELSE row]
<1>1. \A row \in Row : [row EXCEPT !.version = q.version, !.body = q.body].id = row.id
  BY DEF Row
<1>2. f \in [S -> T]
  BY <1>1
<1>3. ASSUME NEW t \in T PROVE \E row \in S : f[row] = t
  <2>1. PICK row \in R : t = IF row.rid = q.rid
                              THEN [row EXCEPT !.version = q.version, !.body = q.body]
                              ELSE row
    OBVIOUS
  <2>2. t.id = i /\ row \in Row
    OBVIOUS
  <2>3. row.id = i
    BY <1>1, <2>1, <2>2
  <2> QED
    BY <2>1, <2>3
<1>4. f \in Surjection(S, T)
  BY <1>2, <1>3 DEF Surjection
<1> QED
  BY <1>4, FS_Surjection

\* A record call adds at most one row, and only a create of the id adds it.
LEMMA EffectRows ==
    ASSUME TypeInv, NEW q \in Request, Effect(q), NEW i \in Ids, IsFiniteSet(RowsOf(i))
    PROVE  /\ IsFiniteSet(RowsOf(i)')
           /\ Cardinality(RowsOf(i)') <= Cardinality(RowsOf(i)) + 1
           /\ (q.kind # "create" \/ q.id # i) =>
                 Cardinality(RowsOf(i)') <= Cardinality(RowsOf(i))
<1>1. ServiceType /\ CountType
  BY DEF TypeInv, TypeOK
<1>2. Rows' = Applied(q)
  <2>1. log'[Latest + 1] = [rows |-> Applied(q), at |-> now]
    BY <1>1, EffectType
  <2>2. Len(log') = Latest + 1
    BY <1>1, EffectType
  <2> QED
    BY <2>1, <2>2 DEF Rows, Latest
<1>3. RowsOf(i)' = {row \in Applied(q) : row.id = i}
  BY <1>2 DEF RowsOf
<1>4. Cardinality(RowsOf(i)) \in Nat
  BY FS_CardinalityType
<1>5. CASE q.kind = "create"
  <2> DEFINE new == [rid |-> q.rid, id |-> q.id, version |-> q.version, body |-> q.body]
  <2>1. Applied(q) = Rows \cup {new}
    BY <1>5 DEF Applied
  <2>2. CASE q.id = i
    <3>1. RowsOf(i)' = RowsOf(i) \cup {new}
      BY <1>3, <2>1, <2>2 DEF RowsOf
    <3>2. /\ IsFiniteSet(RowsOf(i) \cup {new})
          /\ Cardinality(RowsOf(i) \cup {new}) =
                IF new \in RowsOf(i) THEN Cardinality(RowsOf(i)) ELSE Cardinality(RowsOf(i)) + 1
      BY FS_AddElement
    <3> HIDE DEF new
    <3> QED
      BY <1>4, <1>5, <2>2, <3>1, <3>2
  <2>3. CASE q.id # i
    <3>1. RowsOf(i)' = RowsOf(i)
      BY <1>3, <2>1, <2>3 DEF RowsOf
    <3> QED
      BY <1>4, <3>1
  <2> QED
    BY <2>2, <2>3
<1>6. CASE q.kind = "update"
  <2>1. Rows \subseteq Row
    BY <1>1, LatestType
  <2>2. RowsOf(i)' = {row \in {IF row.rid = q.rid
                                 THEN [row EXCEPT !.version = q.version, !.body = q.body]
                                 ELSE row : row \in Rows} : row.id = i}
    BY <1>3, <1>6 DEF Applied
  <2>3. IsFiniteSet({row \in Rows : row.id = i})
    BY DEF RowsOf
  <2>4. IsFiniteSet(RowsOf(i)') /\ Cardinality(RowsOf(i)') <= Cardinality({row \in Rows : row.id = i})
    BY <2>1, <2>2, <2>3, UpdateRows
  <2>5. Cardinality(RowsOf(i)') \in Nat
    BY <2>4, FS_CardinalityType
  <2> QED
    BY <1>4, <2>4, <2>5 DEF RowsOf
<1>7. CASE q.kind \notin {"create", "update"}
  <2>1. RowsOf(i)' \in SUBSET RowsOf(i)
    BY <1>3, <1>7 DEF Applied, RowsOf
  <2>2. IsFiniteSet(RowsOf(i)') /\ Cardinality(RowsOf(i)') <= Cardinality(RowsOf(i))
    BY <2>1, FS_Subset
  <2>3. Cardinality(RowsOf(i)') \in Nat
    BY <2>2, FS_CardinalityType
  <2> QED
    BY <1>4, <2>2, <2>3
<1> QED
  BY <1>5, <1>6, <1>7

\* The sizes the counting argument adds up are natural numbers.
LEMMA CountTypes ==
    ASSUME TypeInv, MutexHeldInside, RowsInv, NEW i \in Ids
    PROVE  /\ Cardinality(RowsOf(i)) \in Nat
           /\ Cardinality(PendingCreates(i)) \in Nat
           /\ Cardinality(StrayCreates(i)) \in Nat
           /\ Cardinality(stray) \in Nat
           /\ Cardinality(Replicas) \in Nat
           /\ abandoned \in Nat /\ restarts \in Nat
  BY PendingFinite, StrayCreatesFinite, FS_CardinalityType, ReplicaAssumption, NumberAssumption
  DEF RowsInv, RowsFinite, StrayBounded, TypeInv, TypeOK, CountType

LEMMA RowsInit == Init => RowsInv
<1> SUFFICES ASSUME Init PROVE RowsInv
  OBVIOUS
<1>1. \A i \in Ids : RowsOf(i) = {} /\ PendingCreates(i) = {} /\ StrayCreates(i) = {}
  BY DEF Init, RowsOf, Rows, Latest, PendingCreates, StrayCreates
<1>2. Cardinality(Replicas) \in Nat
  BY FS_CardinalityType, ReplicaAssumption
<1>3. StrayBounded
  BY FS_EmptySet DEF Init, StrayBounded
<1>4. RowsFinite
  BY <1>1, FS_EmptySet DEF RowsFinite
<1>5. CreatesBounded
  <2>1. Cardinality({}) = 0 /\ abandoned = 0 /\ restarts = 0
    BY FS_EmptySet DEF Init
  <2> QED
    BY <1>1, <1>2, <2>1 DEF CreatesBounded
<1> QED
  BY <1>3, <1>4, <1>5 DEF RowsInv

\* A step that leaves the table and the network alone and starts no create.
LEMMA RowsKept ==
    ASSUME TypeInv, MutexHeldInside, RowsInv, UNCHANGED log, stray' \subseteq stray,
           UNCHANGED <<abandoned, restarts>>,
           \A i \in Ids : PendingCreates(i)' \subseteq PendingCreates(i)
    PROVE  RowsInv'
<1>1. IsFiniteSet(stray') /\ Cardinality(stray') <= Cardinality(stray)
  BY FS_Subset DEF RowsInv, StrayBounded
<1>2. StrayBounded'
  <2>1. Cardinality(stray') \in Nat /\ Cardinality(stray) \in Nat
    BY <1>1, FS_CardinalityType DEF RowsInv, StrayBounded
  <2> QED
    BY <1>1, <2>1, NumberAssumption DEF RowsInv, StrayBounded, TypeInv, TypeOK, CountType
<1>3. ASSUME NEW i \in Ids
      PROVE  /\ RowsOf(i)' = RowsOf(i)
             /\ Cardinality(PendingCreates(i)') \in Nat
             /\ Cardinality(PendingCreates(i)') <= Cardinality(PendingCreates(i))
             /\ Cardinality(StrayCreates(i)') \in Nat
             /\ Cardinality(StrayCreates(i)') <= Cardinality(StrayCreates(i))
  <2>1. RowsOf(i)' = RowsOf(i)
    BY DEF RowsOf, Rows, Latest
  <2>2. StrayCreates(i)' \in SUBSET StrayCreates(i)
    BY DEF StrayCreates
  <2>3. PendingCreates(i)' \in SUBSET PendingCreates(i)
    OBVIOUS
  <2>4. IsFiniteSet(PendingCreates(i)) /\ IsFiniteSet(StrayCreates(i))
    BY PendingFinite, StrayCreatesFinite DEF RowsInv
  <2> QED
    BY <2>1, <2>2, <2>3, <2>4, FS_Subset, FS_CardinalityType
<1>4. RowsFinite'
  BY <1>3 DEF RowsInv, RowsFinite
<1>5. CreatesBounded'
  <2> SUFFICES ASSUME NEW i \in Ids
               PROVE  Cardinality(RowsOf(i)') + Cardinality(PendingCreates(i)')
                        + Cardinality(StrayCreates(i)')
                        <= Cardinality(Replicas) + abandoned' + restarts'
    BY DEF CreatesBounded
  <2> QED
    BY <1>3, CountTypes DEF RowsInv, CreatesBounded
<1> QED
  BY <1>2, <1>4, <1>5 DEF RowsInv

\* A write is given up, by a timeout or a crash: at most one more request is
\* left to itself, and it is counted.
LEMMA RowsAbandoned ==
    ASSUME TypeInv, MutexHeldInside, RowsInv, UNCHANGED log,
           NEW x, stray' \subseteq stray \cup {x},
           \/ abandoned' = abandoned + 1 /\ restarts' = restarts
           \/ abandoned' = abandoned /\ restarts' = restarts + 1,
           \A i \in Ids : PendingCreates(i)' \subseteq PendingCreates(i)
    PROVE  RowsInv'
<1>1. Cardinality(stray) \in Nat /\ abandoned \in Nat /\ restarts \in Nat
  BY FS_CardinalityType, NumberAssumption
  DEF RowsInv, StrayBounded, TypeInv, TypeOK, CountType
<1>2. StrayBounded'
  <2>1. IsFiniteSet(stray \cup {x}) /\ Cardinality(stray \cup {x}) <= Cardinality(stray) + 1
    <3>1. IsFiniteSet(stray)
      BY DEF RowsInv, StrayBounded
    <3>2. /\ IsFiniteSet(stray \cup {x})
          /\ Cardinality(stray \cup {x}) =
                IF x \in stray THEN Cardinality(stray) ELSE Cardinality(stray) + 1
      BY <3>1, FS_AddElement
    <3> QED
      BY <1>1, <3>2
  <2>2. IsFiniteSet(stray') /\ Cardinality(stray') <= Cardinality(stray \cup {x})
    BY <2>1, FS_Subset
  <2>3. Cardinality(stray') \in Nat /\ Cardinality(stray \cup {x}) \in Nat
    BY <2>1, <2>2, FS_CardinalityType
  <2>4. Cardinality(stray) <= abandoned + restarts
    BY DEF RowsInv, StrayBounded
  <2>5. Cardinality(stray') <= abandoned' + restarts'
    BY <1>1, <2>1, <2>2, <2>3, <2>4
  <2> QED
    BY <2>2, <2>5 DEF StrayBounded
<1>3. ASSUME NEW i \in Ids
      PROVE  /\ RowsOf(i)' = RowsOf(i)
             /\ Cardinality(PendingCreates(i)') \in Nat
             /\ Cardinality(PendingCreates(i)') <= Cardinality(PendingCreates(i))
             /\ Cardinality(StrayCreates(i)') \in Nat
             /\ Cardinality(StrayCreates(i)') <= Cardinality(StrayCreates(i)) + 1
  <2>1. RowsOf(i)' = RowsOf(i)
    BY DEF RowsOf, Rows, Latest
  <2>2. IsFiniteSet(PendingCreates(i)) /\ IsFiniteSet(StrayCreates(i))
    BY PendingFinite, StrayCreatesFinite DEF RowsInv
  <2>3. StrayCreates(i)' \in SUBSET (StrayCreates(i) \cup {x})
    BY DEF StrayCreates
  <2>4. /\ IsFiniteSet(StrayCreates(i) \cup {x})
        /\ Cardinality(StrayCreates(i) \cup {x}) =
              IF x \in StrayCreates(i) THEN Cardinality(StrayCreates(i))
                                       ELSE Cardinality(StrayCreates(i)) + 1
    BY <2>2, FS_AddElement
  <2>5. /\ IsFiniteSet(StrayCreates(i)')
        /\ Cardinality(StrayCreates(i)') <= Cardinality(StrayCreates(i) \cup {x})
    BY <2>3, <2>4, FS_Subset
  <2>6. PendingCreates(i)' \in SUBSET PendingCreates(i)
    OBVIOUS
  <2>7. /\ Cardinality(PendingCreates(i)') \in Nat
        /\ Cardinality(PendingCreates(i)') <= Cardinality(PendingCreates(i))
    BY <2>2, <2>6, FS_Subset, FS_CardinalityType
  <2>8. Cardinality(StrayCreates(i)') \in Nat /\ Cardinality(StrayCreates(i)) \in Nat
    BY <2>2, <2>5, FS_CardinalityType
  <2>9. Cardinality(StrayCreates(i)') <= Cardinality(StrayCreates(i)) + 1
    <3>1. Cardinality(StrayCreates(i) \cup {x}) <= Cardinality(StrayCreates(i)) + 1
      BY <2>4, <2>8
    <3>2. Cardinality(StrayCreates(i) \cup {x}) \in Nat
      BY <2>4, FS_CardinalityType
    <3> QED
      BY <2>5, <2>8, <3>1, <3>2
  <2> QED
    BY <2>1, <2>7, <2>8, <2>9
<1>4. RowsFinite'
  BY <1>3 DEF RowsInv, RowsFinite
<1>5. CreatesBounded'
  <2> SUFFICES ASSUME NEW i \in Ids
               PROVE  Cardinality(RowsOf(i)') + Cardinality(PendingCreates(i)')
                        + Cardinality(StrayCreates(i)')
                        <= Cardinality(Replicas) + abandoned' + restarts'
    BY DEF CreatesBounded
  <2> QED
    BY <1>3, CountTypes DEF RowsInv, CreatesBounded
<1> QED
  BY <1>2, <1>4, <1>5 DEF RowsInv

\* A find that saw no record of its id: the creates in the air are then at most
\* one for each replica, and one for each write that was given up.
LEMMA RowsCreate ==
    ASSUME TypeInv, MutexHeldInside, MutexHeldInside', RowsInv,
           NEW h \in Handlers, FindForCreate(h)
    PROVE  RowsInv'
<1> DEFINE j == request[h].id
<1>1. /\ UNCHANGED <<log, stray, abandoned, restarts>>
      /\ RowsOf(j) = {}
  BY DEF FindForCreate, Send, service, countVars
<1>2. StrayBounded' /\ RowsFinite'
  BY <1>1 DEF RowsInv, StrayBounded, RowsFinite, RowsOf, Rows, Latest
<1>3. ASSUME NEW i \in Ids
      PROVE  Cardinality(RowsOf(i)') + Cardinality(PendingCreates(i)')
               + Cardinality(StrayCreates(i)')
               <= Cardinality(Replicas) + abandoned' + restarts'
  <2>1. RowsOf(i)' = RowsOf(i) /\ StrayCreates(i)' = StrayCreates(i)
    BY <1>1 DEF RowsOf, Rows, Latest, StrayCreates
  <2>2. CASE i = j
    <3>1. Cardinality(RowsOf(i)') = 0
      BY <1>1, <2>1, <2>2, FS_EmptySet
    <3>3. IsFiniteSet(PendingCreates(i)') /\ Cardinality(PendingCreates(i)') <= Cardinality(Replicas)
      <4> DEFINE f == [g \in PendingCreates(i)' |-> ReplicaOf[g]]
      <4>1. f \in [PendingCreates(i)' -> Replicas]
        BY ReplicaAssumption DEF PendingCreates
      <4>2. \A g, k \in PendingCreates(i)' : f[g] = f[k] => g = k
        BY DEF PendingCreates, MutexHeldInside, Critical
      <4>3. f \in Injection(PendingCreates(i)', Replicas)
        BY <4>1, <4>2 DEF Injection, IsInjective
      <4> QED
        BY <4>3, FS_Injection, ReplicaAssumption
    <3>4. Cardinality(PendingCreates(i)') \in Nat
      BY <3>3, FS_CardinalityType
    <3>5. Cardinality(StrayCreates(i)) <= abandoned + restarts
      <4>1. Cardinality(StrayCreates(i)) <= Cardinality(stray)
        BY StrayCreatesFinite DEF RowsInv
      <4> QED
        BY <4>1, CountTypes DEF RowsInv, StrayBounded
    <3> QED
      BY <1>1, <2>1, <3>1, <3>3, <3>4, <3>5, CountTypes
  <2>3. CASE i # j
    <3>1. PendingCreates(i)' = PendingCreates(i)
      BY <2>3 DEF FindForCreate, Send, Goto, PendingCreates, TypeInv, TypeOK, CallType, RequestPresent, Critical, Request
    <3> QED
      BY <1>1, <2>1, <3>1 DEF RowsInv, CreatesBounded
  <2> QED
    BY <2>2, <2>3
<1> QED
  BY <1>2, <1>3 DEF RowsInv, CreatesBounded

\* A create that takes effect was one in the air before.
LEMMA RowsEffect ==
    ASSUME TypeInv, MutexHeldInside, RowsInv, NEW q \in Request, Effect(q),
           UNCHANGED <<abandoned, restarts>>,
           stray' \subseteq stray,
           \A i \in Ids : PendingCreates(i)' \subseteq PendingCreates(i),
           q.kind = "create" =>
              \/ q \in stray /\ q \notin stray'
              \/ \E h \in PendingCreates(q.id) : h \notin PendingCreates(q.id)'
    PROVE  RowsInv'
<1>1. StrayBounded'
  <2>1. IsFiniteSet(stray') /\ Cardinality(stray') <= Cardinality(stray)
    BY FS_Subset DEF RowsInv, StrayBounded
  <2>2. Cardinality(stray') \in Nat /\ Cardinality(stray) \in Nat
    BY <2>1, FS_CardinalityType DEF RowsInv, StrayBounded
  <2> QED
    BY <2>1, <2>2, NumberAssumption DEF RowsInv, StrayBounded, TypeInv, TypeOK, CountType
<1>2. ASSUME NEW i \in Ids
      PROVE  /\ IsFiniteSet(RowsOf(i)')
             /\ Cardinality(RowsOf(i)') + Cardinality(PendingCreates(i)')
                  + Cardinality(StrayCreates(i)')
                  <= Cardinality(Replicas) + abandoned' + restarts'
  <2>1. /\ IsFiniteSet(RowsOf(i)) /\ IsFiniteSet(PendingCreates(i)) /\ IsFiniteSet(StrayCreates(i))
        /\ Cardinality(RowsOf(i)) + Cardinality(PendingCreates(i)) + Cardinality(StrayCreates(i))
              <= Cardinality(Replicas) + abandoned + restarts
    BY PendingFinite, StrayCreatesFinite DEF RowsInv, RowsFinite, CreatesBounded
  <2>2. /\ IsFiniteSet(RowsOf(i)') /\ Cardinality(RowsOf(i)') <= Cardinality(RowsOf(i)) + 1
        /\ (q.kind # "create" \/ q.id # i) => Cardinality(RowsOf(i)') <= Cardinality(RowsOf(i))
    BY <2>1, EffectRows
  <2>3. PendingCreates(i)' \in SUBSET PendingCreates(i) /\ StrayCreates(i)' \in SUBSET StrayCreates(i)
    BY DEF StrayCreates
  <2>4. /\ IsFiniteSet(PendingCreates(i)') /\ IsFiniteSet(StrayCreates(i)')
        /\ Cardinality(PendingCreates(i)') <= Cardinality(PendingCreates(i))
        /\ Cardinality(StrayCreates(i)') <= Cardinality(StrayCreates(i))
        /\ Cardinality(PendingCreates(i)') = Cardinality(PendingCreates(i))
              => PendingCreates(i)' = PendingCreates(i)
        /\ Cardinality(StrayCreates(i)') = Cardinality(StrayCreates(i))
              => StrayCreates(i)' = StrayCreates(i)
    BY <2>1, <2>3, FS_Subset
  <2>5. /\ Cardinality(PendingCreates(i)') \in Nat /\ Cardinality(StrayCreates(i)') \in Nat
        /\ Cardinality(RowsOf(i)') \in Nat
    BY <2>2, <2>4, FS_CardinalityType
  <2>6. CASE q.kind = "create" /\ q.id = i
    <3>1. PendingCreates(i)' # PendingCreates(i) \/ StrayCreates(i)' # StrayCreates(i)
      BY <2>6 DEF StrayCreates
    <3> QED
      BY <2>1, <2>2, <2>4, <2>5, <3>1, CountTypes
  <2>7. CASE q.kind # "create" \/ q.id # i
    BY <2>1, <2>2, <2>4, <2>5, <2>7, CountTypes
  <2> QED
    BY <2>6, <2>7
<1> QED
  BY <1>1, <1>2 DEF RowsInv, RowsFinite, CreatesBounded

LEMMA RowsStep ==
    TypeInv /\ MutexHeldInside /\ RowsInv /\ [Next]_vars => RowsInv'
<1> SUFFICES ASSUME TypeInv, MutexHeldInside, RowsInv, [Next]_vars PROVE RowsInv'
  OBVIOUS
<1>a. /\ pc \in [Handlers -> Labels] /\ request \in [Handlers -> Request \cup {NoRequest}]
      /\ ReplicaOf \in [Handlers -> Replicas]
      /\ abandoned \in Nat /\ restarts \in Nat
  BY ReplicaAssumption, NumberAssumption DEF TypeInv, TypeOK, CallType, CountType
<1>b. MutexHeldInside'
  BY MutexStep
<1> USE <1>a
<1> USE DEF service, cacheVars, callVars, countVars, historyVars, Goto, Return, Release, PendingCreates
<1>1. ASSUME NEW h \in Handlers, NEW i \in Ids, Put(h, i) \/ Delete(h, i) PROVE RowsInv'
  BY <1>1, RowsKept DEF Put, Delete, Begin
<1>2. ASSUME NEW h \in Handlers, Acquire(h) PROVE RowsInv'
  BY <1>2, RowsKept DEF Acquire
<1>3. ASSUME NEW h \in Handlers, FindForUpdate(h) \/ FindForDelete(h) PROVE RowsInv'
  <2>1. request[h] \in Request
    BY <1>3 DEF FindForUpdate, FindForDelete, TypeInv, RequestPresent, Critical
  <2>2. \E q \in Request : Send(h, q) /\ q.kind # "create"
    <3>1. CASE FindForUpdate(h)
      <4>1. PICK row \in RowsOf(request[h].id) :
               Send(h, [request[h] EXCEPT !.kind = "update", !.rid = row.rid,
                                          !.version = row.version + 1])
        BY <3>1 DEF FindForUpdate
      <4>2. row \in Row
        BY LatestType DEF RowsOf, TypeInv, TypeOK
      <4>3. row.rid \in OpIds /\ row.version + 1 \in Nat
        BY <4>2 DEF Row
      <4>4. ASSUME NEW v \in Nat, NEW d \in OpIds
            PROVE  [request[h] EXCEPT !.kind = "update", !.rid = d, !.version = v] \in Request
        BY <2>1 DEF Request, RecordCalls
      <4>5. [request[h] EXCEPT !.kind = "update", !.rid = row.rid,
                               !.version = row.version + 1] \in Request
        BY <4>3, <4>4
      <4>6. [request[h] EXCEPT !.kind = "update", !.rid = row.rid,
                               !.version = row.version + 1].kind = "update"
        BY <2>1 DEF Request
      <4> QED
        BY <4>1, <4>5, <4>6
    <3>2. CASE FindForDelete(h)
      <4>1. PICK row \in RowsOf(request[h].id) :
               Send(h, [request[h] EXCEPT !.kind = "remove", !.rid = row.rid])
        BY <3>2 DEF FindForDelete
      <4>2. row \in Row
        BY LatestType DEF RowsOf, TypeInv, TypeOK
      <4>3. [request[h] EXCEPT !.kind = "remove", !.rid = row.rid] \in Request
        BY <2>1, <4>2 DEF Request, Row, RecordCalls
      <4>4. [request[h] EXCEPT !.kind = "remove", !.rid = row.rid].kind = "remove"
        BY <2>1 DEF Request
      <4> QED
        BY <4>1, <4>3, <4>4
    <3> QED
      BY <1>3, <3>1, <3>2
  <2>3. PICK q \in Request : Send(h, q) /\ q.kind # "create"
    BY <2>2
  <2> QED
    BY <2>3, RowsKept DEF Send
<1>4. ASSUME NEW h \in Handlers, FindForCreate(h) PROVE RowsInv'
  BY <1>4, <1>b, RowsCreate
<1>5. ASSUME NEW h \in Handlers, DeleteAbsent(h) \/ FindFails(h) \/ Refused(h) \/ Confirm(h)
      PROVE  RowsInv'
  BY <1>5, RowsKept DEF DeleteAbsent, FindFails, Refused, Confirm
<1>6. ASSUME NEW h \in Handlers, Land(h) PROVE RowsInv'
  <2>1. request[h] \in Request /\ UNCHANGED <<stray, request, abandoned, restarts>>
    BY <1>6 DEF Land, TypeInv, RequestPresent, Critical
  <2>2. \A i \in Ids : PendingCreates(i)' \subseteq PendingCreates(i)
    BY <1>6 DEF Land
  <2>3. CASE Effect(request[h])
    <3>1. pc[h] = "await" /\ pc'[h] # "await"
      BY <1>6 DEF Land
    <3>2. request[h].kind = "create" =>
             h \in PendingCreates(request[h].id) /\ h \notin PendingCreates(request[h].id)'
      BY <3>1, <2>1
    <3> QED
      BY <2>1, <2>2, <2>3, <3>2, RowsEffect
  <2>4. CASE UNCHANGED log
    BY <2>1, <2>2, <2>4, RowsKept
  <2> QED
    BY <1>6, <2>3, <2>4 DEF Land
<1>7. ASSUME NEW h \in Handlers, GiveUp(h) PROVE RowsInv'
  <2>1. /\ stray' \subseteq stray \cup {request[h]} /\ UNCHANGED log
        /\ abandoned' = abandoned + 1 /\ restarts' = restarts
    BY <1>7 DEF GiveUp
  <2>2. \A i \in Ids : PendingCreates(i)' \subseteq PendingCreates(i)
    BY <1>7 DEF GiveUp
  <2> QED
    BY <2>1, <2>2, RowsAbandoned
<1>8. ASSUME NEW q \in stray, StrayLands(q) PROVE RowsInv'
  <2>1. q \in Request
    BY DEF TypeInv, TypeOK, ServiceType
  <2>2. q \notin stray' /\ stray' \subseteq stray /\ Effect(q) /\ UNCHANGED <<abandoned, restarts>>
    BY <1>8 DEF StrayLands
  <2>3. \A i \in Ids : PendingCreates(i)' \subseteq PendingCreates(i)
    BY <1>8 DEF StrayLands
  <2> QED
    BY <2>1, <2>2, <2>3, RowsEffect
<1>9. ASSUME NEW q \in stray, StrayLost(q) PROVE RowsInv'
  BY <1>9, RowsKept DEF StrayLost
<1>10. ASSUME NEW r \in Replicas, ListHit(r) PROVE RowsInv'
  BY <1>10, RowsKept DEF ListHit
<1>11. ASSUME NEW h \in Handlers, ListMiss(h) \/ ListFetch(h) \/ ListCommit(h) \/ ListFails(h)
       PROVE  RowsInv'
  BY <1>11, RowsKept DEF ListMiss, ListFetch, ListCommit, ListFails
<1>12. ASSUME NEW r \in Replicas, Restart(r) PROVE RowsInv'
  <2>1. \A h \in HandlersOf(r) : pc[h] = "await" => h = mu[r]
    BY DEF MutexHeldInside, HandlersOf, Critical
  <2>2. /\ stray' \subseteq stray \cup {request[mu[r]]} /\ UNCHANGED log
        /\ abandoned' = abandoned /\ restarts' = restarts + 1
    BY <1>12, <2>1 DEF Restart
  <2>3. \A i \in Ids : PendingCreates(i)' \subseteq PendingCreates(i)
    BY <1>12 DEF Restart
  <2> QED
    BY <2>2, <2>3, RowsAbandoned
<1>13. CASE Tick \/ UNCHANGED vars
  BY <1>13, RowsKept DEF Tick, vars
<1> QED
  BY <1>1, <1>2, <1>3, <1>4, <1>5, <1>6, <1>7, <1>8, <1>9, <1>10, <1>11, <1>12, <1>13
  DEF Next, WriteStep, ListStep

\* However many handlers and replicas write, an id has at most one record for
\* each replica, plus one for each write given up by a timeout or a crash.
THEOREM RowsPerIdBoundedHolds == Spec => []RowsPerIdBounded
<1>1. Spec => [](TypeInv /\ MutexHeldInside /\ RowsInv)
  BY TypeInit, TypeStep, MutexInit, MutexStep, RowsInit, RowsStep, PTL DEF Spec
<1>2. TypeInv /\ MutexHeldInside /\ RowsInv => RowsPerIdBounded
  <2> SUFFICES ASSUME TypeInv, MutexHeldInside, RowsInv, NEW i \in Ids
               PROVE  Cardinality(RowsOf(i)) <= Cardinality(Replicas) + abandoned + restarts
    BY DEF RowsPerIdBounded
  <2>1. Cardinality(RowsOf(i)) + Cardinality(PendingCreates(i)) + Cardinality(StrayCreates(i))
           <= Cardinality(Replicas) + abandoned + restarts
    BY DEF RowsInv, CreatesBounded
  <2> QED
    BY <2>1, CountTypes
<1> QED
  BY <1>1, <1>2, PTL

----------------------------------------------------------------------------
(* One process, none of whose writes is abandoned, implements the abstract *)
(* catalog (DefinitionCatalog), for any number of goroutines, ids and      *)
(* writes.                                                                 *)

OneProcess ==
    /\ Replicas = {TheReplica}
    /\ MaxAbandoned = 0
    /\ MaxRestarts = 0

\* No call is left to itself, and nothing dies.
NothingLost == stray = {} /\ abandoned = 0 /\ restarts = 0

\* An id has one record, a record id too, and a record has been put.
OneRowEach ==
    \A row \in Rows :
        /\ row.version > 0
        /\ \A other \in Rows : row.id = other.id \/ row.rid = other.rid => row = other

\* Writes are numbered apart, and the number of a write that may still create a
\* record is not the id of one.
Writing     == Critical \cup {"lock"}
MayCreate(h) == pc[h] \in {"lock", "find"} \/ (pc[h] = "await" /\ request[h].kind = "create")
Numbered ==
    /\ \A row \in Rows : row.rid <= issued
    /\ \A h \in Handlers : pc[h] \in Writing =>
          /\ request[h].body <= issued
          /\ \A g \in Handlers : pc[g] \in Writing /\ request[g].body = request[h].body => g = h
    /\ \A h \in Handlers : MayCreate(h) => \A row \in Rows : row.rid # request[h].body

\* The record call of a write fits the table as long as it is on its way.
Fits(q) ==
    \/ q.kind = "create" /\ q.rid = q.body /\ q.version = 1 /\ RowsOf(q.id) = {}
    \/ q.kind = "update" /\ \E row \in RowsOf(q.id) : row.rid = q.rid /\ q.version = row.version + 1
    \/ q.kind = "remove" /\ \E row \in RowsOf(q.id) : row.rid = q.rid
FoundIsTrue == \A h \in Handlers : pc[h] = "await" => Fits(request[h])

TableInv == OneRowEach /\ Numbered /\ FoundIsTrue

\* What has taken effect and not returned is the newest content.
AckedInv ==
    /\ \A h \in Handlers : pc[h] = "landed" => seen[h] = Latest /\ ackRev[TheReplica] < Latest
    /\ (\A h \in Handlers : pc[h] # "landed") => ackRev[TheReplica] = Latest

\* A List in progress reads, and has read, what had returned when it was called.
ListInv ==
    \A h \in Handlers :
        /\ pc[h] \in {"fetch", "fetched"} => floor[h] <= ackRev[TheReplica]
        /\ pc[h] = "fetched" => floor[h] <= seen[h]
        /\ pc[h] \notin {"fetch", "fetched"} => floor[h] = 1

CatalogInv == TypeInv /\ MutexHeldInside /\ CacheInv /\ NothingLost /\ TableInv /\ AckedInv /\ ListInv

----------------------------------------------------------------------------
(* The invariant                                                           *)

\* Every goroutine runs in the one process, and one of them holds its mutex.
LEMMA Home == ASSUME OneProcess, NEW h \in Handlers PROVE ReplicaOf[h] = TheReplica
<1>1. ReplicaOf[h] \in Replicas
  BY ReplicaAssumption
<1> QED
  BY <1>1 DEF OneProcess

LEMMA Alone ==
    ASSUME OneProcess, MutexHeldInside, NEW g \in Handlers, NEW h \in Handlers,
           pc[g] \in Critical, pc[h] \in Critical
    PROVE  g = h
<1>1. ReplicaOf[g] = ReplicaOf[h]
  BY Home
<1> QED
  BY <1>1 DEF MutexHeldInside

LEMMA CatalogInit == ASSUME OneProcess, Init PROVE CatalogInv
<1>1. TypeInv /\ MutexHeldInside /\ CacheInv
  BY TypeInit, MutexInit, CacheInit
<1>2. NothingLost /\ AckedInv /\ ListInv
  BY DEF Init, OneProcess, NothingLost, AckedInv, ListInv, Latest
<1>3. TableInv
  BY DEF Init, TableInv, OneRowEach, Numbered, FoundIsTrue, Writing, Critical, MayCreate, Rows, Latest
<1> QED
  BY <1>1, <1>2, <1>3 DEF CatalogInv

LEMMA LostStep == ASSUME OneProcess, TypeInv, NothingLost, [Next]_vars PROVE NothingLost'
<1>1. \A h \in Handlers : ~GiveUp(h)
  BY DEF GiveUp, NothingLost, OneProcess
<1>2. \A r \in Replicas : ~Restart(r)
  BY DEF Restart, NothingLost, OneProcess
<1>3. ASSUME NEW h \in Handlers, NEW i \in Ids, Put(h, i) \/ Delete(h, i) PROVE NothingLost'
  BY <1>3 DEF Put, Delete, Begin, NothingLost, service
<1>4. ASSUME NEW h \in Handlers, Acquire(h) \/ WriteStep(h) \/ ListMiss(h) \/ ListStep(h)
      PROVE  NothingLost'
  <2> USE DEF NothingLost, service, countVars
  <2>1. CASE Acquire(h) \/ ListMiss(h) \/ ListStep(h)
    BY <2>1 DEF Acquire, ListMiss, ListStep, ListFetch, ListCommit, ListFails
  <2>2. CASE FindForUpdate(h) \/ FindForCreate(h) \/ FindForDelete(h)
    BY <2>2 DEF FindForUpdate, FindForCreate, FindForDelete, Send
  <2>3. CASE DeleteAbsent(h) \/ FindFails(h) \/ Land(h) \/ Confirm(h) \/ Refused(h)
    BY <2>3 DEF DeleteAbsent, FindFails, Land, Confirm, Refused
  <2> QED
    BY <1>1, <1>4, <2>1, <2>2, <2>3 DEF WriteStep
<1>5. CASE Tick \/ (\E r \in Replicas : ListHit(r)) \/ UNCHANGED vars
  BY <1>5 DEF Tick, ListHit, vars, NothingLost, service, countVars
<1>6. ~\E q \in stray : StrayLands(q) \/ StrayLost(q)
  BY DEF NothingLost
<1> QED
  BY <1>2, <1>3, <1>4, <1>5, <1>6 DEF Next

\* Steps that leave the table alone and do not start a write.
LEMMA TableKept ==
    ASSUME TypeInv, TableInv, UNCHANGED <<log, issued>>,
           \A h \in Handlers :
              /\ pc'[h] \in Writing => pc[h] \in Writing /\ request'[h] = request[h]
              /\ pc'[h] = "await" => pc[h] = "await"
              /\ pc'[h] \in {"lock", "find"} => pc[h] \in {"lock", "find"}
    PROVE  TableInv'
<1>1. Rows' = Rows /\ \A i \in Ids : RowsOf(i)' = RowsOf(i)
  BY DEF Rows, RowsOf, Latest
<1>2. OneRowEach'
  BY <1>1 DEF TableInv, OneRowEach
<1>3. Numbered'
  BY <1>1 DEF TableInv, Numbered, MayCreate, Writing, Critical
<1>4. FoundIsTrue'
  BY <1>1 DEF TableInv, FoundIsTrue, Fits, RowsOf, Writing, Critical
<1> QED
  BY <1>2, <1>3, <1>4 DEF TableInv

LEMMA TableBegin ==
    ASSUME TypeInv, TableInv, NEW h \in Handlers, NEW i \in Ids, Put(h, i) \/ Delete(h, i)
    PROVE  TableInv'
<1>1. /\ UNCHANGED log /\ issued' = issued + 1 /\ issued \in Nat
      /\ pc' = [pc EXCEPT ![h] = "lock"] /\ pc \in [Handlers -> Labels]
      /\ request \in [Handlers -> Request \cup {NoRequest}]
      /\ request' = [request EXCEPT ![h] = request'[h]] /\ request'[h].body = issued'
  BY NumberAssumption DEF Put, Delete, Begin, Goto, service, TypeInv, TypeOK, CallType, CountType
<1>2. Rows' = Rows /\ \A j \in Ids : RowsOf(j)' = RowsOf(j)
  BY <1>1 DEF Rows, RowsOf, Latest
<1>3. OneRowEach'
  BY <1>2 DEF TableInv, OneRowEach
<1>4. Rows \subseteq Row /\ \A row \in Rows : row.rid \in Nat
  BY LatestType DEF TypeInv, TypeOK, Row, OpIds
<1>5. \A g \in Handlers : pc[g] \in Writing => request[g].body \in Nat
  BY DEF TypeInv, RequestPresent, Request, OpIds, Writing
<1>6. Numbered'
  <2>1. \A row \in Rows' : row.rid <= issued'
    BY <1>1, <1>2, <1>4 DEF TableInv, Numbered
  <2>2. \A g \in Handlers : pc'[g] \in Writing =>
           /\ request'[g].body <= issued'
           /\ \A k \in Handlers : pc'[k] \in Writing /\ request'[k].body = request'[g].body => k = g
    BY <1>1, <1>5 DEF TableInv, Numbered
  <2>3. \A g \in Handlers : MayCreate(g)' => \A row \in Rows' : row.rid # request'[g].body
    BY <1>1, <1>2, <1>4 DEF TableInv, Numbered, MayCreate
  <2> QED
    BY <2>1, <2>2, <2>3 DEF Numbered
<1>7. FoundIsTrue'
  BY <1>1, <1>2 DEF TableInv, FoundIsTrue, Fits, RowsOf
<1> QED
  BY <1>3, <1>6, <1>7 DEF TableInv

\* find answers with what is there, and a Put of an absent id keeps its number.
LEMMA TableFind ==
    ASSUME TypeInv, TableInv, NEW h \in Handlers,
           FindForUpdate(h) \/ FindForCreate(h) \/ FindForDelete(h)
    PROVE  TableInv'
<1>1. /\ UNCHANGED <<log, issued>> /\ pc[h] = "find"
      /\ pc' = [pc EXCEPT ![h] = "await"] /\ pc \in [Handlers -> Labels]
      /\ request \in [Handlers -> Request \cup {NoRequest}]
      /\ request' = [request EXCEPT ![h] = request'[h]]
      /\ request[h] \in Request
  BY DEF FindForUpdate, FindForCreate, FindForDelete, Send, Goto, service, countVars,
         TypeInv, TypeOK, CallType, RequestPresent, Critical
<1>2. request'[h].body = request[h].body /\ Fits(request'[h])
  <2>1. CASE FindForCreate(h)
    <3>1. request'[h] = [request[h] EXCEPT !.kind = "create", !.rid = request[h].body, !.version = 1]
      BY <1>1, <2>1 DEF FindForCreate, Send
    <3>2. RowsOf(request[h].id) = {}
      BY <2>1 DEF FindForCreate
    <3> QED
      BY <1>1, <3>1, <3>2 DEF Fits, Request
  <2>2. CASE FindForUpdate(h)
    <3>1. PICK row \in RowsOf(request[h].id) :
             request' = [request EXCEPT ![h] =
                [request[h] EXCEPT !.kind = "update", !.rid = row.rid, !.version = row.version + 1]]
      BY <2>2 DEF FindForUpdate, Send
    <3>2. request'[h] =
             [request[h] EXCEPT !.kind = "update", !.rid = row.rid, !.version = row.version + 1]
      BY <1>1, <3>1
    <3> QED
      BY <1>1, <3>2 DEF Fits, Request
  <2>3. CASE FindForDelete(h)
    <3>1. PICK row \in RowsOf(request[h].id) :
             request' = [request EXCEPT ![h] = [request[h] EXCEPT !.kind = "remove", !.rid = row.rid]]
      BY <2>3 DEF FindForDelete, Send
    <3>2. request'[h] = [request[h] EXCEPT !.kind = "remove", !.rid = row.rid]
      BY <1>1, <3>1
    <3> QED
      BY <1>1, <3>2 DEF Fits, Request
  <2> QED
    BY <2>1, <2>2, <2>3
<1>3. Rows' = Rows /\ \A q : Fits(q)' <=> Fits(q)
  BY <1>1 DEF Rows, RowsOf, Latest, Fits
<1>4. OneRowEach'
  BY <1>3 DEF TableInv, OneRowEach
<1>5. Numbered'
  BY <1>1, <1>2, <1>3 DEF TableInv, Numbered, MayCreate, Writing, Critical
<1>6. FoundIsTrue'
  BY <1>1, <1>2, <1>3 DEF TableInv, FoundIsTrue
<1> QED
  BY <1>4, <1>5, <1>6 DEF TableInv

\* The record call of a write changes the one record of its id.
Changed(q) ==
    /\ \A i \in Ids : i # q.id => RowsOf(i)' = RowsOf(i)
    /\ \/ q.kind = "create" /\ RowsOf(q.id) = {} /\ q.version = 1
       \/ q.kind = "update" /\ \E row \in RowsOf(q.id) :
             RowsOf(q.id) = {row} /\ q.version = row.version + 1
       \/ q.kind = "remove" /\ \E row \in RowsOf(q.id) : RowsOf(q.id) = {row}
    /\ \/ q.kind = "remove" /\ RowsOf(q.id)' = {}
       \/ q.kind # "remove" /\ \E row \in Row :
             row.version = q.version /\ row.id = q.id /\ RowsOf(q.id)' = {row}
    /\ \A row \in Rows' : row.rid = q.rid \/ \E old \in Rows : old.rid = row.rid

LEMMA EffectChanges ==
    ASSUME TypeInv, OneRowEach, NEW q \in Request, Fits(q), Effect(q),
           q.kind = "create" => \A row \in Rows : row.rid # q.rid
    PROVE  Changed(q) /\ OneRowEach'
<1>1. ServiceType /\ CountType
  BY DEF TypeInv, TypeOK
<1>2. Rows' = Applied(q)
  <2>1. Latest' = Latest + 1
    BY <1>1, EffectType DEF Latest
  <2>2. log'[Latest + 1] = [rows |-> Applied(q), at |-> now]
    BY <1>1, EffectType
  <2> QED
    BY <2>1, <2>2 DEF Rows
<1>3. Rows \subseteq Row
  BY <1>1, LatestType
<1>4. CASE q.kind = "create"
  <2> DEFINE new == [rid |-> q.rid, id |-> q.id, version |-> q.version, body |-> q.body]
  <2>1. /\ new \in Row /\ new.rid = q.rid /\ new.id = q.id /\ new.version = q.version
        /\ Rows' = Rows \cup {new}
    BY <1>2, <1>4 DEF Applied, Row, Request
  <2>2. q.version = 1 /\ RowsOf(q.id) = {}
    BY <1>4 DEF Fits
  <2> HIDE DEF new
  <2>3. RowsOf(q.id)' = {new} /\ \A i \in Ids : i # q.id => RowsOf(i)' = RowsOf(i)
    BY <2>1, <2>2 DEF RowsOf
  <2>4. \A row \in Rows : row.id # q.id
    BY <2>2 DEF RowsOf
  <2>5. OneRowEach'
    BY <1>3, <1>4, <2>1, <2>2, <2>4 DEF OneRowEach, Row
  <2> QED
    BY <1>4, <2>1, <2>2, <2>3, <2>5 DEF Changed
<1>5. CASE q.kind = "remove"
  <2>1. Rows' = {row \in Rows : row.rid # q.rid}
    BY <1>2, <1>5 DEF Applied
  <2>2. PICK old \in RowsOf(q.id) : old.rid = q.rid
    BY <1>5 DEF Fits
  <2>3. RowsOf(q.id) = {old} /\ \A row \in Rows : row.rid = q.rid => row = old
    BY <2>2 DEF OneRowEach, RowsOf
  <2>4. RowsOf(q.id)' = {} /\ \A i \in Ids : i # q.id => RowsOf(i)' = RowsOf(i)
    BY <2>1, <2>2, <2>3 DEF RowsOf
  <2>5. OneRowEach'
    BY <2>1 DEF OneRowEach
  <2> QED
    BY <1>5, <2>1, <2>3, <2>4, <2>5 DEF Changed
<1>6. CASE q.kind = "update"
  <2>1. PICK old \in RowsOf(q.id) : old.rid = q.rid /\ q.version = old.version + 1
    BY <1>6 DEF Fits
  <2>2. /\ RowsOf(q.id) = {old} /\ old \in Rows /\ old.id = q.id
        /\ \A row \in Rows : row.rid = q.rid => row = old
    BY <2>1 DEF OneRowEach, RowsOf
  <2> DEFINE new == [old EXCEPT !.version = q.version, !.body = q.body]
  <2>3. new \in Row /\ new.rid = old.rid /\ new.id = q.id /\ new.version = q.version
    BY <1>3, <2>2 DEF Row, Request
  <2>4. Rows' = (Rows \ {old}) \cup {new}
    <3>1. Rows' = {IF row.rid = q.rid THEN [row EXCEPT !.version = q.version, !.body = q.body]
                                      ELSE row : row \in Rows}
      BY <1>2, <1>6 DEF Applied
    <3> QED
      BY <2>1, <2>2, <3>1
  <2> HIDE DEF new
  <2>5. RowsOf(q.id)' = {new} /\ \A i \in Ids : i # q.id => RowsOf(i)' = RowsOf(i)
    BY <2>2, <2>3, <2>4 DEF RowsOf
  <2>6. new.version > 0
    BY <1>3, <2>1, <2>2, <2>3 DEF OneRowEach, Row
  <2>7. OneRowEach'
    BY <2>2, <2>3, <2>4, <2>6 DEF OneRowEach
  <2> QED
    BY <1>6, <2>1, <2>2, <2>3, <2>4, <2>5, <2>7 DEF Changed
<1> QED
  BY <1>4, <1>5, <1>6 DEF Fits

LEMMA LandChanges ==
    ASSUME TypeInv, TableInv, NEW h \in Handlers, Land(h)
    PROVE  /\ request[h] \in Request /\ Effect(request[h]) /\ Fits(request[h])
           /\ Changed(request[h]) /\ OneRowEach'
           /\ seen' = [seen EXCEPT ![h] = Latest + 1]
           /\ pc' = [pc EXCEPT ![h] = "landed"]
<1>1. pc[h] = "await" /\ request[h] \in Request /\ Fits(request[h])
  BY DEF Land, TypeInv, RequestPresent, Critical, TableInv, FoundIsTrue
<1>2. Accepts(request[h])
  BY <1>1 DEF Fits, Accepts, RowsOf
<1>3. /\ Effect(request[h]) /\ seen' = [seen EXCEPT ![h] = Latest + 1]
      /\ pc' = [pc EXCEPT ![h] = "landed"]
  BY <1>2 DEF Land, Goto
<1>4. request[h].kind = "create" => \A row \in Rows : row.rid # request[h].rid
  BY <1>1 DEF TableInv, Numbered, MayCreate, Fits
<1> QED
  BY <1>1, <1>3, <1>4, EffectChanges DEF TableInv

LEMMA TableLand ==
    ASSUME OneProcess, TypeInv, MutexHeldInside, TableInv, NEW h \in Handlers, Land(h)
    PROVE  TableInv'
<1>1. /\ UNCHANGED <<request, issued>> /\ pc[h] = "await"
      /\ pc' = [pc EXCEPT ![h] = "landed"] /\ pc \in [Handlers -> Labels]
  BY LandChanges DEF Land, countVars, TypeInv, TypeOK, CallType
<1>2. \A g \in Handlers : pc[g] \in Critical => g = h
  BY <1>1, Alone DEF Critical
<1>3. /\ \A row \in Rows' : row.rid = request[h].rid \/ \E old \in Rows : old.rid = row.rid
      /\ Fits(request[h]) /\ request[h] \in Request
  BY LandChanges DEF Changed
<1>4. request[h].rid = request[h].body \/ \E old \in Rows : old.rid = request[h].rid
  BY <1>3 DEF Fits, RowsOf
<1>5. Numbered'
  <2>1. \A row \in Rows' : row.rid = request[h].body \/ \E old \in Rows : old.rid = row.rid
    BY <1>3, <1>4
  <2>2. \A row \in Rows' : row.rid <= issued'
    BY <1>1, <2>1 DEF TableInv, Numbered, Writing, Critical
  <2>3. \A g \in Handlers : pc'[g] \in Writing => pc[g] \in Writing
    BY <1>1 DEF Writing, Critical
  <2>4. \A g \in Handlers : pc'[g] \in Writing =>
           /\ request'[g].body <= issued'
           /\ \A k \in Handlers : pc'[k] \in Writing /\ request'[k].body = request'[g].body => k = g
    BY <1>1, <2>3 DEF TableInv, Numbered
  <2>5. ASSUME NEW g \in Handlers, MayCreate(g)', NEW row \in Rows' PROVE row.rid # request'[g].body
    <3>1. MayCreate(g) /\ g # h
      BY <1>1, <2>5 DEF MayCreate
    <3>2. request[g].body # request[h].body
      BY <1>1, <3>1 DEF TableInv, Numbered, MayCreate, Writing, Critical
    <3> QED
      BY <1>1, <2>1, <3>1, <3>2 DEF TableInv, Numbered
  <2> QED
    BY <2>2, <2>4, <2>5 DEF Numbered
<1>6. FoundIsTrue'
  BY <1>1, <1>2 DEF FoundIsTrue, Critical
<1> QED
  BY <1>5, <1>6, LandChanges DEF TableInv

LEMMA TableStep ==
    ASSUME OneProcess, TypeInv, MutexHeldInside, NothingLost, TableInv, [Next]_vars
    PROVE  TableInv'
<1> USE DEF Writing, Critical
<1>0. pc \in [Handlers -> Labels] /\ request \in [Handlers -> Request \cup {NoRequest}]
  BY DEF TypeInv, TypeOK, CallType
<1>1. ASSUME NEW h \in Handlers, NEW i \in Ids, Put(h, i) \/ Delete(h, i) PROVE TableInv'
  BY <1>1, TableBegin
<1>2. ASSUME NEW h \in Handlers, Acquire(h) PROVE TableInv'
  BY <1>0, <1>2, TableKept DEF Acquire, Goto, service, countVars
<1>3. ASSUME NEW h \in Handlers, FindForUpdate(h) \/ FindForCreate(h) \/ FindForDelete(h)
      PROVE  TableInv'
  BY <1>3, TableFind
<1>4. ASSUME NEW h \in Handlers, DeleteAbsent(h) \/ FindFails(h) \/ Confirm(h) \/ Refused(h) \/ GiveUp(h)
      PROVE  TableInv'
  <2>1. /\ UNCHANGED <<log, issued>> /\ pc' = [pc EXCEPT ![h] = "idle"]
        /\ request' = [request EXCEPT ![h] = NoRequest]
    BY <1>4 DEF DeleteAbsent, FindFails, Confirm, Refused, GiveUp, Release, Return, Goto,
                service, countVars
  <2> QED
    BY <1>0, <2>1, TableKept
<1>5. ASSUME NEW h \in Handlers, Land(h) PROVE TableInv'
  BY <1>5, TableLand
<1>6. ASSUME NEW h \in Handlers, ListMiss(h) \/ ListStep(h) PROVE TableInv'
  <2>1. /\ UNCHANGED <<log, issued>>
        /\ pc[h] \notin Writing
        /\ \E label \in {"idle", "fetch", "fetched"} : pc' = [pc EXCEPT ![h] = label]
        /\ \A g \in Handlers : g # h => request'[g] = request[g]
    BY <1>0, <1>6 DEF ListMiss, ListStep, ListFetch, ListCommit, ListFails, Return, Goto,
                      service, countVars
  <2> QED
    BY <1>0, <2>1, TableKept
<1>7. CASE Tick \/ (\E r \in Replicas : ListHit(r)) \/ UNCHANGED vars
  BY <1>7, TableKept DEF Tick, ListHit, vars, service, callVars, countVars
<1>8. \A r \in Replicas : ~Restart(r)
  BY DEF Restart, NothingLost, OneProcess
<1>9. ~\E q \in stray : StrayLands(q) \/ StrayLost(q)
  BY DEF NothingLost
<1> QED
  BY <1>1, <1>2, <1>3, <1>4, <1>5, <1>6, <1>7, <1>8, <1>9 DEF Next, WriteStep

\* The steps that complete no write and make none.
LEMMA AckedKept ==
    ASSUME AckedInv, UNCHANGED <<log, ackRev>>,
           \A h \in Handlers : (pc'[h] = "landed" <=> pc[h] = "landed")
                               /\ (pc[h] = "landed" => seen'[h] = seen[h])
    PROVE  AckedInv'
<1>1. Latest' = Latest
  BY DEF Latest
<1> QED
  BY <1>1 DEF AckedInv

LEMMA AckedStep ==
    ASSUME OneProcess, TypeInv, MutexHeldInside, NothingLost, TableInv, AckedInv, [Next]_vars
    PROVE  AckedInv'
<1>0. /\ pc \in [Handlers -> Labels] /\ seen \in [Handlers -> 1..Latest]
      /\ ackRev \in [Replicas -> 1..Latest] /\ Latest \in Nat /\ TheReplica \in Replicas
  BY LatestType DEF TypeInv, TypeOK, CallType, HistoryType, OneProcess
<1>1. ASSUME NEW h \in Handlers, NEW i \in Ids, Put(h, i) \/ Delete(h, i) PROVE AckedInv'
  BY <1>0, <1>1, AckedKept DEF Put, Delete, Begin, Goto, service, historyVars
<1>2. ASSUME NEW h \in Handlers, Acquire(h) PROVE AckedInv'
  BY <1>0, <1>2, AckedKept DEF Acquire, Goto, service, historyVars
<1>3. ASSUME NEW h \in Handlers, FindForUpdate(h) \/ FindForCreate(h) \/ FindForDelete(h)
      PROVE  AckedInv'
  BY <1>0, <1>3, AckedKept DEF FindForUpdate, FindForCreate, FindForDelete, Send, Goto, service, historyVars
<1>4. ASSUME NEW h \in Handlers, DeleteAbsent(h) \/ FindFails(h) \/ Refused(h) PROVE AckedInv'
  BY <1>0, <1>4, AckedKept DEF DeleteAbsent, FindFails, Refused, Release, Return, Goto, service, historyVars
<1>5. ASSUME NEW h \in Handlers, Land(h) PROVE AckedInv'
  <2>1. /\ seen' = [seen EXCEPT ![h] = Latest + 1] /\ pc' = [pc EXCEPT ![h] = "landed"]
        /\ pc[h] = "await" /\ ackRev' = ackRev
    BY <1>5, LandChanges DEF Land, historyVars
  <2>2. Latest' = Latest + 1
    BY <1>5, LandChanges, EffectType DEF TypeInv, TypeOK, Latest
  <2>3. \A g \in Handlers : pc'[g] = "landed" => g = h
    BY <1>0, <2>1, Alone DEF Critical
  <2>4. seen'[h] = Latest' /\ ackRev'[TheReplica] < Latest'
    BY <1>0, <2>1, <2>2
  <2>5. pc'[h] = "landed"
    BY <1>0, <2>1
  <2> QED
    BY <2>3, <2>4, <2>5 DEF AckedInv
<1>6. ASSUME NEW h \in Handlers, Confirm(h) PROVE AckedInv'
  <2>1. /\ pc[h] = "landed" /\ pc' = [pc EXCEPT ![h] = "idle"] /\ log' = log
        /\ ackRev' = [ackRev EXCEPT ![TheReplica] = IF @ < seen[h] THEN seen[h] ELSE @]
    BY <1>6, Home DEF Confirm, Release, Return, Goto, service
  <2>2. \A g \in Handlers : pc[g] = "landed" => g = h
    BY <2>1, Alone DEF Critical
  <2>3. ackRev'[TheReplica] = Latest /\ Latest' = Latest
    BY <1>0, <2>1 DEF AckedInv, Latest
  <2>4. \A g \in Handlers : pc'[g] # "landed"
    BY <1>0, <2>1, <2>2
  <2> QED
    BY <2>3, <2>4 DEF AckedInv
<1>7. ASSUME NEW h \in Handlers, ListMiss(h) \/ ListStep(h) PROVE AckedInv'
  BY <1>0, <1>7, AckedKept DEF ListMiss, ListStep, ListFetch, ListCommit, ListFails, Return, Goto,
                               service, historyVars
<1>8. CASE Tick \/ (\E r \in Replicas : ListHit(r)) \/ UNCHANGED vars
  BY <1>8, AckedKept DEF Tick, ListHit, vars, service, callVars, historyVars
<1>9. /\ \A r \in Replicas : ~Restart(r)
      /\ \A h \in Handlers : ~GiveUp(h)
      /\ ~\E q \in stray : StrayLands(q) \/ StrayLost(q)
  BY DEF Restart, GiveUp, NothingLost, OneProcess
<1> QED
  BY <1>1, <1>2, <1>3, <1>4, <1>5, <1>6, <1>7, <1>8, <1>9 DEF Next, WriteStep

\* The steps of writes change nothing that a List in progress has.
LEMMA ListKept ==
    ASSUME TypeInv, ListInv, NEW h \in Handlers,
           {pc[h], pc'[h]} \cap {"fetch", "fetched"} = {}, floor'[h] \in {1, floor[h]},
           \A g \in Handlers : g # h => pc'[g] = pc[g] /\ floor'[g] = floor[g] /\ seen'[g] = seen[g],
           TheReplica \in Replicas,
           ackRev[TheReplica] <= ackRev'[TheReplica], ackRev'[TheReplica] \in Nat
    PROVE  ListInv'
<1>1. /\ Latest \in Nat
      /\ floor \in [Handlers -> 1..Latest] /\ ackRev \in [Replicas -> 1..Latest]
  BY LatestType DEF TypeInv, TypeOK, CallType, HistoryType
<1>2. floor'[h] = 1 /\ pc'[h] \notin {"fetch", "fetched"}
  BY DEF ListInv
<1>3. ASSUME NEW g \in Handlers, g # h
      PROVE  /\ pc'[g] \in {"fetch", "fetched"} => floor'[g] <= ackRev'[TheReplica]
             /\ pc'[g] = "fetched" => floor'[g] <= seen'[g]
             /\ pc'[g] \notin {"fetch", "fetched"} => floor'[g] = 1
  BY <1>1, <1>3 DEF ListInv
<1> QED
  BY <1>2, <1>3 DEF ListInv

LEMMA ListInvStep ==
    ASSUME OneProcess, TypeInv, NothingLost, TableInv, ListInv, [Next]_vars
    PROVE  ListInv'
<1>0. /\ pc \in [Handlers -> Labels] /\ seen \in [Handlers -> 1..Latest]
      /\ floor \in [Handlers -> 1..Latest]
      /\ ackRev \in [Replicas -> 1..Latest] /\ Latest \in Nat /\ TheReplica \in Replicas
  BY LatestType DEF TypeInv, TypeOK, CallType, HistoryType, OneProcess
<1>a. ackRev[TheReplica] \in Nat
  BY <1>0
<1> USE DEF Labels
<1>1. ASSUME NEW h \in Handlers, NEW i \in Ids, Put(h, i) \/ Delete(h, i) PROVE ListInv'
  BY <1>0, <1>a, <1>1, ListKept DEF Put, Delete, Begin, Goto, historyVars
<1>2. ASSUME NEW h \in Handlers, Acquire(h) PROVE ListInv'
  BY <1>0, <1>a, <1>2, ListKept DEF Acquire, Goto, historyVars
<1>3. ASSUME NEW h \in Handlers, FindForUpdate(h) \/ FindForCreate(h) \/ FindForDelete(h)
      PROVE  ListInv'
  <2>1. /\ pc[h] = "find" /\ pc' = [pc EXCEPT ![h] = "await"] /\ UNCHANGED <<floor, seen, ackRev>>
    BY <1>3 DEF FindForUpdate, FindForCreate, FindForDelete, Send, Goto, historyVars
  <2> QED
    BY <1>0, <1>a, <2>1, ListKept
<1>4. ASSUME NEW h \in Handlers, DeleteAbsent(h) \/ FindFails(h) \/ Refused(h) \/ Confirm(h)
      PROVE ListInv'
  <2>1. /\ pc[h] \in {"find", "landed", "refused"} /\ pc' = [pc EXCEPT ![h] = "idle"]
        /\ floor' = [floor EXCEPT ![h] = 1] /\ seen' = [seen EXCEPT ![h] = 1]
    BY <1>4 DEF DeleteAbsent, FindFails, Refused, Confirm, Release, Return, Goto
  <2>2. ackRev' = ackRev \/ ackRev' = [ackRev EXCEPT ![TheReplica] = IF @ < seen[h] THEN seen[h] ELSE @]
    BY <1>4, Home DEF DeleteAbsent, FindFails, Refused, Confirm, historyVars
  <2>3. ackRev[TheReplica] <= ackRev'[TheReplica] /\ ackRev'[TheReplica] \in Nat
    BY <1>0, <1>a, <2>2
  <2> QED
    BY <1>0, <2>1, <2>3, ListKept
<1>5. ASSUME NEW h \in Handlers, Land(h) PROVE ListInv'
  <2>1. /\ seen' = [seen EXCEPT ![h] = Latest + 1] /\ pc' = [pc EXCEPT ![h] = "landed"]
        /\ pc[h] = "await" /\ ackRev' = ackRev /\ floor' = floor
    BY <1>5, LandChanges DEF Land, historyVars
  <2> QED
    BY <1>0, <1>a, <2>1, ListKept
<1>6. ASSUME NEW h \in Handlers, ListMiss(h) PROVE ListInv'
  <2>1. /\ pc' = [pc EXCEPT ![h] = "fetch"] /\ floor' = [floor EXCEPT ![h] = ackRev[TheReplica]]
        /\ UNCHANGED <<seen, ackRev>>
    BY <1>6, Home DEF ListMiss, Goto, historyVars
  <2> QED
    BY <1>0, <1>a, <2>1 DEF ListInv
<1>7. ASSUME NEW h \in Handlers, ListFetch(h) PROVE ListInv'
  <2>1. /\ pc[h] = "fetch" /\ pc' = [pc EXCEPT ![h] = "fetched"]
        /\ seen' = [seen EXCEPT ![h] = Latest] /\ UNCHANGED <<floor, ackRev>>
    BY <1>7 DEF ListFetch, Goto, historyVars
  <2>2. floor[h] <= Latest
    BY <1>0
  <2> QED
    BY <1>0, <1>a, <2>1, <2>2 DEF ListInv
<1>8. ASSUME NEW h \in Handlers, ListCommit(h) \/ ListFails(h) PROVE ListInv'
  <2>1. /\ pc' = [pc EXCEPT ![h] = "idle"] /\ floor' = [floor EXCEPT ![h] = 1]
        /\ seen' = [seen EXCEPT ![h] = 1] /\ ackRev' = ackRev
    BY <1>8 DEF ListCommit, ListFails, Return, Goto, historyVars
  <2> QED
    BY <1>0, <2>1 DEF ListInv
<1>9. CASE Tick \/ (\E r \in Replicas : ListHit(r)) \/ UNCHANGED vars
  BY <1>9 DEF Tick, ListHit, vars, callVars, historyVars, ListInv
<1>10. /\ \A r \in Replicas : ~Restart(r)
       /\ \A h \in Handlers : ~GiveUp(h)
       /\ ~\E q \in stray : StrayLands(q) \/ StrayLost(q)
  BY DEF Restart, GiveUp, NothingLost, OneProcess
<1> QED
  BY <1>1, <1>2, <1>3, <1>4, <1>5, <1>6, <1>7, <1>8, <1>9, <1>10 DEF Next, WriteStep, ListStep

LEMMA CatalogStep == ASSUME OneProcess, CatalogInv, [Next]_vars PROVE CatalogInv'
<1>1. TypeInv' /\ MutexHeldInside' /\ CacheInv'
  BY TypeStep, MutexStep, CacheStep DEF CatalogInv
<1> QED
  BY <1>1, LostStep, TableStep, AckedStep, ListInvStep DEF CatalogInv

\* The invariant the two theorems below rest on: what a write found is still so,
\* what took effect is the newest content, and lists are no older than their floor.
THEOREM CatalogInvariant == ASSUME OneProcess PROVE Spec => []CatalogInv
<1>1. Init => CatalogInv
  BY CatalogInit
<1>2. CatalogInv /\ [Next]_vars => CatalogInv'
  BY CatalogStep
<1> QED
  BY <1>1, <1>2, PTL DEF Spec

----------------------------------------------------------------------------
(* Deletes                                                                 *)

\* In one process none of whose writes is abandoned, a Delete that returned
\* success is not undone by the cache.
THEOREM DeleteIsReflectedHolds == ASSUME OneProcess PROVE Spec => DeleteIsReflected
<1>1. ASSUME CatalogInv, NEW h \in Handlers, ReturnsDeleted(h)
      PROVE  \/ ~CacheValid(ReplicaOf[h])'
             \/ \A row \in log'[cacheRev'[ReplicaOf[h]]].rows : row.id # request[h].id
  <2>0. ReplicaOf[h] = TheReplica /\ TheReplica \in Replicas
    BY Home DEF OneProcess
  <2> USE <1>1
  <2>1. CASE DeleteAbsent(h)
    <3>1. /\ pc[h] = "find" /\ RowsOf(request[h].id) = {}
          /\ UNCHANGED <<log, cacheOK, cacheRev, cacheAt, now>>
      BY <2>1 DEF DeleteAbsent, service, cacheVars
    <3>2. \A g \in Handlers : pc[g] # "landed"
      BY <3>1, Alone DEF CatalogInv, Critical
    <3>3. ackRev[TheReplica] = Latest
      BY <3>2 DEF CatalogInv, AckedInv
    <3>4. cacheRev[TheReplica] \in 1..Latest /\ Latest \in Nat
      BY <2>0, LatestType DEF CatalogInv, TypeInv, TypeOK, CacheType
    <3>5. cacheOK[TheReplica] => cacheRev[TheReplica] = Latest
      BY <2>0, <3>3, <3>4 DEF CatalogInv, CacheInv, CacheCoherent
    <3>6. \A row \in log[Latest].rows : row.id # request[h].id
      BY <3>1 DEF RowsOf, Rows
    <3> QED
      BY <2>0, <3>1, <3>5, <3>6 DEF CacheValid
  <2>2. CASE Confirm(h)
    <3>1. cacheOK' = [cacheOK EXCEPT ![TheReplica] = FALSE] /\ cacheOK \in [Replicas -> BOOLEAN]
      BY <2>0, <2>2 DEF Confirm, Invalidate, CatalogInv, TypeInv, TypeOK, CacheType
    <3>2. ~cacheOK'[TheReplica]
      BY <2>0, <3>1
    <3> QED
      BY <2>0, <3>2 DEF CacheValid
  <2> QED
    BY <1>1, <2>1, <2>2 DEF ReturnsDeleted
<1>2. CatalogInv => [\A h \in Handlers : ReturnsDeleted(h) =>
          \/ ~CacheValid(ReplicaOf[h])'
          \/ \A row \in log'[cacheRev'[ReplicaOf[h]]].rows : row.id # request[h].id]_vars
  BY <1>1
<1> QED
  BY <1>2, CatalogInvariant, PTL DEF DeleteIsReflected

----------------------------------------------------------------------------
(* The refinement                                                          *)

\* What the catalog shows of the current content, and of all there have been.
Versions == [i \in Ids |-> VersionIn(Rows, i)]
History  == [k \in 1..Latest |-> [i \in Ids |-> VersionIn(log[k].rows, i)]]

LEMMA VersionOf ==
    ASSUME NEW rows, NEW i
    PROVE  /\ {row \in rows : row.id = i} = {} => VersionIn(rows, i) = 0
           /\ \A one : {row \in rows : row.id = i} = {one} => VersionIn(rows, i) = one.version
<1>1. CASE {row \in rows : row.id = i} = {}
  BY <1>1 DEF VersionIn
<1>2. ASSUME NEW one, {row \in rows : row.id = i} = {one} PROVE VersionIn(rows, i) = one.version
  <2>1. one \in rows /\ one.id = i /\ \A other \in rows : other.id = i => other = one
    BY <1>2
  <2>2. (CHOOSE other \in rows : other.id = i) = one
    BY <2>1
  <2> QED
    BY <2>1, <2>2 DEF VersionIn
<1> QED
  BY <1>1, <1>2

LEMMA RowOrNone ==
    ASSUME OneRowEach, NEW i \in Ids
    PROVE  RowsOf(i) = {} \/ \E row \in Rows : RowsOf(i) = {row}
BY DEF OneRowEach, RowsOf

\* A create or an update counts the version of its id up by one, a remove makes
\* the id absent, and other ids keep theirs.
LEMMA VersionsChange ==
    ASSUME TypeInv, OneRowEach, NEW q \in Request, Changed(q)
    PROVE  /\ q.kind # "remove" => Versions' = [Versions EXCEPT ![q.id] = @ + 1]
           /\ q.kind = "remove" => /\ Versions[q.id] > 0
                                   /\ Versions' = [Versions EXCEPT ![q.id] = 0]
<1>1. q.id \in Ids /\ Rows \subseteq Row
  BY LatestType DEF TypeInv, TypeOK, Request
<1>2. ASSUME NEW i \in Ids, i # q.id PROVE VersionIn(Rows', i) = VersionIn(Rows, i)
  <2>1. RowsOf(i)' = RowsOf(i)
    BY <1>2 DEF Changed
  <2>2. /\ RowsOf(i)' = {} => VersionIn(Rows', i) = 0
        /\ \A row : RowsOf(i)' = {row} => VersionIn(Rows', i) = row.version
    BY VersionOf DEF RowsOf
  <2>3. /\ RowsOf(i) = {} => VersionIn(Rows, i) = 0
        /\ \A row : RowsOf(i) = {row} => VersionIn(Rows, i) = row.version
    BY VersionOf DEF RowsOf
  <2> QED
    BY <2>1, <2>2, <2>3, RowOrNone
<1>3. /\ RowsOf(q.id)' = {} => VersionIn(Rows', q.id) = 0
      /\ \A row : RowsOf(q.id)' = {row} => VersionIn(Rows', q.id) = row.version
  BY VersionOf DEF RowsOf
<1>a. /\ RowsOf(q.id) = {} => VersionIn(Rows, q.id) = 0
      /\ \A row : RowsOf(q.id) = {row} => VersionIn(Rows, q.id) = row.version
  BY VersionOf DEF RowsOf
<1>4. CASE q.kind # "remove"
  <2>1. VersionIn(Rows', q.id) = q.version
    BY <1>3, <1>4 DEF Changed
  <2>2. q.version = VersionIn(Rows, q.id) + 1
    BY <1>a, <1>4 DEF Changed, Request
  <2> QED
    BY <1>1, <1>2, <1>4, <2>1, <2>2 DEF Versions
<1>5. CASE q.kind = "remove"
  <2>1. VersionIn(Rows', q.id) = 0
    BY <1>3, <1>5 DEF Changed
  <2>2. PICK row \in RowsOf(q.id) : RowsOf(q.id) = {row}
    BY <1>5 DEF Changed
  <2>3. VersionIn(Rows, q.id) = row.version /\ row.version > 0
    BY <1>a, <2>2 DEF OneRowEach, RowsOf
  <2> QED
    BY <1>1, <1>2, <1>5, <2>1, <2>3 DEF Versions
<1> QED
  BY <1>4, <1>5

LEMMA HistoryIs ==
    ASSUME TypeInv
    PROVE  Len(History) = Latest /\ Latest \in Nat \ {0} /\ History[Latest] = Versions
<1>1. Latest \in Nat \ {0}
  BY LatestType DEF TypeInv, TypeOK
<1> QED
  BY <1>1 DEF History, Versions, Rows

LEMMA HistoryGrows ==
    ASSUME TypeInv, NEW q \in Request, Effect(q)
    PROVE  History' = Append(History, Versions')
<1>1. /\ Len(log') = Latest + 1 /\ Latest \in Nat
      /\ \A k \in 1..Latest : log'[k] = log[k]
  BY EffectType, LatestType DEF TypeInv, TypeOK
<1>2. Latest' = Latest + 1
  BY <1>1 DEF Latest
<1>3. Len(History) = Latest
  BY HistoryIs
<1>4. Append(History, Versions') =
         [k \in 1..(Latest + 1) |-> IF k = Latest + 1 THEN Versions' ELSE History[k]]
  BY <1>1, <1>3 DEF History
<1>5. ASSUME NEW k \in 1..(Latest + 1)
      PROVE  History'[k] = IF k = Latest + 1 THEN Versions' ELSE History[k]
  BY <1>1, <1>2, <1>5 DEF History, Versions, Rows
<1>6. History' = [k \in 1..(Latest + 1) |-> History'[k]]
  BY <1>2 DEF History
<1> QED
  BY <1>4, <1>5, <1>6

LEMMA InitImplements == ASSUME OneProcess, Init PROVE Catalog!Init
<1>1. Latest = 1 /\ log[1].rows = {}
  BY DEF Init, Latest
<1>2. \A i \in Ids : VersionIn({}, i) = 0
  BY DEF VersionIn
<1>3. History = <<[i \in Ids |-> 0]>>
  BY <1>1, <1>2 DEF History
<1>4. TheReplica \in Replicas
  BY DEF OneProcess
<1> QED
  BY <1>3, <1>4 DEF Init, Catalog!Init, History

\* A step that neither touches the table nor ends a write or a List is no step of
\* the catalog.
LEMMA Stutter == ASSUME UNCHANGED <<log, ackRev, answer, floor>> PROVE UNCHANGED Catalog!vars
BY DEF Catalog!vars, Latest

\* Landing is the instant at which a Put or a Delete takes effect.
LEMMA LandImplements ==
    ASSUME OneProcess, CatalogInv, NEW h \in Handlers, Land(h)
    PROVE  \E i \in Ids : Catalog!PutTakesEffect(i) \/ Catalog!DeleteTakesEffect(i)
<1> DEFINE q == request[h]
<1>1. /\ TypeInv /\ OneRowEach /\ q \in Request /\ Effect(q) /\ Changed(q)
      /\ UNCHANGED <<ackRev, answer, floor>>
  BY LandChanges DEF CatalogInv, TableInv, Land, historyVars
<1>2. q.id \in Ids
  BY <1>1 DEF Request
<1>3. History' = Append(History, Versions') /\ Len(History) = Latest /\ History[Latest] = Versions
  BY <1>1, HistoryGrows, HistoryIs
<1>4. /\ q.kind # "remove" => Versions' = [Versions EXCEPT ![q.id] = @ + 1]
      /\ q.kind = "remove" => /\ Versions[q.id] > 0
                              /\ Versions' = [Versions EXCEPT ![q.id] = 0]
  BY <1>1, VersionsChange
<1>5. Catalog!Current = Versions
  BY <1>3 DEF Catalog!Current, Catalog!Latest, History
<1>6. CASE q.kind # "remove"
  <2>1. Catalog!PutTakesEffect(q.id)
    BY <1>1, <1>3, <1>4, <1>5, <1>6 DEF Catalog!PutTakesEffect, History
  <2> QED
    BY <1>2, <2>1
<1>7. CASE q.kind = "remove"
  <2>1. Catalog!DeleteTakesEffect(q.id)
    BY <1>1, <1>3, <1>4, <1>5, <1>7 DEF Catalog!DeleteTakesEffect, History
  <2> QED
    BY <1>2, <2>1
<1> QED
  BY <1>6, <1>7

\* A write that returns has brought acked forward to the newest content.
LEMMA ConfirmImplements ==
    ASSUME OneProcess, CatalogInv, NEW h \in Handlers, Confirm(h)
    PROVE  Catalog!WriteReturns
<1>1. /\ pc[h] = "landed" /\ UNCHANGED <<log, answer>>
      /\ ackRev' = [ackRev EXCEPT ![TheReplica] = IF @ < seen[h] THEN seen[h] ELSE @]
      /\ floor' = [floor EXCEPT ![h] = 1]
  BY Home DEF Confirm, Release, Return, Goto, service
<1>2. /\ ackRev \in [Replicas -> 1..Latest] /\ floor \in [Handlers -> 1..Latest]
      /\ Latest \in Nat /\ TheReplica \in Replicas
  BY LatestType DEF CatalogInv, TypeInv, TypeOK, CallType, HistoryType, OneProcess
<1>3. seen[h] = Latest /\ ackRev[TheReplica] < Latest /\ floor[h] = 1
  BY <1>1 DEF CatalogInv, AckedInv, ListInv
<1>4. floor' = floor /\ ackRev'[TheReplica] \in (ackRev[TheReplica] + 1)..Latest
  BY <1>1, <1>2, <1>3
<1>5. UNCHANGED History /\ UNCHANGED answer[TheReplica] /\ Len(History) = Latest
  BY <1>1, HistoryIs DEF History, Latest, CatalogInv
<1> QED
  BY <1>4, <1>5 DEF Catalog!WriteReturns, Catalog!Latest, History

LEMMA ListImplements ==
    ASSUME OneProcess, CatalogInv, NEW h \in Handlers, ListMiss(h) \/ ListStep(h)
    PROVE  \/ Catalog!ListCalled(h) \/ Catalog!ListReturns(h) \/ Catalog!ListFailed(h)
           \/ UNCHANGED Catalog!vars
<1>1. /\ seen \in [Handlers -> 1..Latest] /\ Latest \in Nat /\ TheReplica \in Replicas
      /\ answer \in [Replicas -> 1..Latest]
      /\ ReplicaOf[h] = TheReplica
  BY LatestType, Home DEF CatalogInv, TypeInv, TypeOK, CallType, HistoryType, OneProcess
<1>2. Len(History) = Latest
  BY HistoryIs DEF CatalogInv
<1>3. log' = log => UNCHANGED History
  BY DEF History, Latest
<1>4. CASE ListMiss(h)
  BY <1>1, <1>3, <1>4 DEF ListMiss, Catalog!ListCalled, History, service, historyVars
<1>5. CASE ListFetch(h)
  BY <1>5, Stutter DEF ListFetch, service, historyVars
<1>6. CASE ListCommit(h)
  <2>1. /\ pc[h] = "fetched" /\ UNCHANGED <<log, ackRev>>
        /\ answer' = [answer EXCEPT ![TheReplica] = seen[h]]
        /\ floor' = [floor EXCEPT ![h] = 1]
    BY <1>1, <1>6 DEF ListCommit, Return, service
  <2>2. answer'[TheReplica] \in floor[h]..Latest
    <3>1. floor[h] <= seen[h] /\ floor \in [Handlers -> 1..Latest]
      BY <2>1 DEF CatalogInv, ListInv, TypeInv, TypeOK, CallType
    <3> QED
      BY <1>1, <2>1, <3>1
  <2> QED
    BY <1>2, <1>3, <2>1, <2>2 DEF Catalog!ListReturns, Catalog!Latest, History
<1>7. CASE ListFails(h)
  BY <1>3, <1>7 DEF ListFails, Return, Catalog!ListFailed, History, service, historyVars
<1> QED
  BY <1>4, <1>5, <1>6, <1>7 DEF ListStep

LEMMA HitImplements ==
    ASSUME OneProcess, CatalogInv, NEW r \in Replicas, ListHit(r)
    PROVE  Catalog!ListAtOnce
<1>1. /\ r = TheReplica /\ CacheValid(r) /\ UNCHANGED <<log, ackRev, floor>>
      /\ answer' = [answer EXCEPT ![r] = cacheRev[r]]
  BY DEF ListHit, OneProcess, service, callVars
<1>2. /\ answer \in [Replicas -> 1..Latest] /\ cacheRev \in [Replicas -> 1..Latest]
      /\ ackRev \in [Replicas -> 1..Latest] /\ Latest \in Nat
  BY LatestType DEF CatalogInv, TypeInv, TypeOK, CacheType, HistoryType
<1>3. ackRev[r] <= cacheRev[r]
  BY <1>1 DEF CatalogInv, CacheInv, CacheCoherent, CacheValid
<1>4. answer'[TheReplica] \in ackRev[TheReplica]..Latest
  BY <1>1, <1>2, <1>3
<1>5. UNCHANGED History /\ Len(History) = Latest
  BY <1>1, HistoryIs DEF History, Latest, CatalogInv
<1> QED
  BY <1>1, <1>4, <1>5 DEF Catalog!ListAtOnce, Catalog!Latest, History

LEMMA StepImplements ==
    ASSUME OneProcess, CatalogInv, [Next]_vars
    PROVE  [Catalog!Next]_(Catalog!vars)
<1> USE DEF Catalog!Next
<1>1. ASSUME NEW h \in Handlers, NEW i \in Ids, Put(h, i) \/ Delete(h, i)
      PROVE  UNCHANGED Catalog!vars
  BY <1>1, Stutter DEF Put, Delete, Begin, service, historyVars
<1>2. ASSUME NEW h \in Handlers,
             Acquire(h) \/ FindForUpdate(h) \/ FindForCreate(h) \/ FindForDelete(h)
      PROVE  UNCHANGED Catalog!vars
  BY <1>2, Stutter DEF Acquire, FindForUpdate, FindForCreate, FindForDelete, Send, service, historyVars
<1>3. ASSUME NEW h \in Handlers, DeleteAbsent(h) \/ FindFails(h) \/ Refused(h)
      PROVE  UNCHANGED Catalog!vars
  <2>1. /\ pc[h] \in {"find", "refused"} /\ UNCHANGED <<log, ackRev, answer>>
        /\ floor' = [floor EXCEPT ![h] = 1]
    BY <1>3 DEF DeleteAbsent, FindFails, Refused, Release, Return, service, historyVars
  <2>2. floor[h] = 1 /\ floor \in [Handlers -> 1..Latest]
    BY <2>1 DEF CatalogInv, ListInv, TypeInv, TypeOK, CallType
  <2> QED
    BY <2>1, <2>2, Stutter
<1>4. ASSUME NEW h \in Handlers, Land(h) \/ Confirm(h) PROVE Catalog!Next
  BY <1>4, LandImplements, ConfirmImplements
<1>5. ASSUME NEW h \in Handlers, ListMiss(h) \/ ListStep(h)
      PROVE  Catalog!Next \/ UNCHANGED Catalog!vars
  BY <1>5, ListImplements
<1>6. ASSUME NEW r \in Replicas, ListHit(r) PROVE Catalog!Next
  BY <1>6, HitImplements
<1>7. CASE Tick \/ UNCHANGED vars
  BY <1>7, Stutter DEF Tick, vars, service, callVars, historyVars
<1>8. /\ \A r \in Replicas : ~Restart(r)
      /\ \A h \in Handlers : ~GiveUp(h)
      /\ ~\E q \in stray : StrayLands(q) \/ StrayLost(q)
  BY DEF Restart, GiveUp, CatalogInv, NothingLost, OneProcess
<1> QED
  BY <1>1, <1>2, <1>3, <1>4, <1>5, <1>6, <1>7, <1>8 DEF Next, WriteStep

\* One process implements the abstract catalog: every Put and every Delete takes
\* effect at one instant between its call and its return, a Put counts its version
\* up by one, and no List shows less than what had returned when it was called.
THEOREM CatalogImplemented == ASSUME OneProcess PROVE Spec => ImplementsCatalog
<1>1. Init => Catalog!Init
  BY InitImplements
<1>2. CatalogInv /\ [Next]_vars => [Catalog!Next]_(Catalog!vars)
  BY StepImplements
<1> QED
  BY <1>1, <1>2, CatalogInvariant, PTL DEF Spec, ImplementsCatalog, Catalog!Spec

====
