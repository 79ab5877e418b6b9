---- MODULE PluginStoreProofs ----
(***************************************************************************)
(* The reads of the plugin store, for any number of processes, goroutines, *)
(* plugins and writes.                                                     *)
(***************************************************************************)
EXTENDS PluginStore, FiniteSetTheorems, TLAPS

\* What a read holds is no older than what its replica had completed when it was
\* called; a confirmation was read after the call.
ReadIsFresh ==
    \A h \in Handlers :
        /\ pc[h] \in {"fetched", "scan", "confirmed"} => floor[h] <= seen[h]
        /\ pc[h] = "confirmed" => since[h] <= seen[h]

\* The cache is no older than the completed writes, and neither is what a read
\* may still put there: an invalidate since would have changed the generation.
CacheIsFresh ==
    /\ \A r \in Replicas : cached[r] => acked[r] <= cache[r]
    /\ \A h \in Handlers :
          /\ gen[h] <= cacheGen[ReplicaOf[h]]
          /\ pc[h] = "fetched" /\ gen[h] = cacheGen[ReplicaOf[h]] =>
                acked[ReplicaOf[h]] <= seen[h]

\* A write has a record call.
Writing == {"lock", "find", "await", "landed"}
WritersHaveCalls == \A h \in Handlers : pc[h] \in Writing => record[h] \in Record

IInv == TypeOK /\ ReadIsFresh /\ CacheIsFresh /\ WritersHaveCalls

LEMMA InitInv == Init => IInv
  <1> SUFFICES ASSUME Init PROVE IInv
    OBVIOUS
  <1>1. log \in Seq(SUBSET Row) /\ log # <<>> /\ Latest = 1
    BY DEF Init, Latest
  <1>2. TypeOK
    BY <1>1, PluginAssumption DEF Init, TypeOK, Snapshot
  <1>3. ReadIsFresh /\ CacheIsFresh /\ WritersHaveCalls
    BY PluginAssumption DEF Init, ReadIsFresh, CacheIsFresh, WritersHaveCalls, Writing
  <1> QED
    BY <1>2, <1>3 DEF IInv

\* The table only moves on.
LEMMA EffectGrows ==
    ASSUME TypeOK, NEW q \in Record, Effect(q)
    PROVE  /\ log' \in Seq(SUBSET Row) /\ log' # <<>>
           /\ Latest' = Latest + 1
           /\ Latest \in Nat \ {0}
  <1>1. log \in Seq(SUBSET Row) /\ log # <<>> /\ Latest \in Nat \ {0}
    BY DEF TypeOK, Latest
  <1>2. log[Latest] \in SUBSET Row
    BY <1>1 DEF Latest
  <1>3. [rid |-> q.rid, key |-> q.key] \in Row
    BY DEF Record, Row
  <1>4. \E c \in SUBSET Row : log' = Append(log, c)
    <2>1. CASE q.kind = "create"
      BY <1>2, <1>3, <2>1 DEF Effect
    <2>2. CASE q.kind = "remove"
      BY <1>2, <2>2 DEF Effect
    <2>3. CASE q.kind \notin {"create", "remove"}
      BY <1>2, <2>3 DEF Effect
    <2> QED
      BY <2>1, <2>2, <2>3
  <1> QED
    BY <1>1, <1>4 DEF Latest

\* A write begins, or waits for its turn, or chooses its record call.
LEMMA BeforeWriteStep ==
    ASSUME IInv, NEW h \in Writers,
           \/ \E p \in Plugins : SaveForUser(h, p) \/ DeleteForUser(h, p)
           \/ Acquire(h)
           \/ Find(h)
    PROVE  IInv'
  <1> h \in Handlers
    BY DEF Handlers
  <1>1. /\ UNCHANGED <<log, cacheVars, seen, late, acked, abandoned, readVars>>
        /\ pc' \in [Handlers -> {"idle", "lock", "find", "await", "landed",
                                 "fetch", "fetched", "scan", "confirmed"}]
        /\ pc' = [pc EXCEPT ![h] = pc'[h]]
        /\ pc'[h] \in {"lock", "find", "await"}
    BY DEF IInv, TypeOK, SaveForUser, DeleteForUser, Begin, Acquire, Find, Goto
  <1>2. record' \in [Handlers -> Record \cup {None}] /\ WritersHaveCalls'
    <2>1. CASE \E p \in Plugins : SaveForUser(h, p) \/ DeleteForUser(h, p)
      <3>1. PICK p \in Plugins, kind \in {"save", "delete"} : Begin(h, p, kind)
        BY <2>1 DEF SaveForUser, DeleteForUser
      <3>2. [kind |-> kind, rid |-> saves', key |-> p] \in Record
        BY <3>1, PluginAssumption DEF Begin, IInv, TypeOK, Record
      <3> QED
        BY <3>1, <3>2 DEF Begin, Goto, IInv, TypeOK, WritersHaveCalls
    <2>2. CASE Acquire(h)
      BY <2>2 DEF Acquire, Goto, IInv, TypeOK, WritersHaveCalls, Writing
    <2>3. CASE Find(h)
      <3>1. record[h] \in Record
        BY <2>3 DEF Find, IInv, WritersHaveCalls, Writing
      <3>2. log[Latest] \in SUBSET Row
        BY DEF IInv, TypeOK, Latest
      <3>3. RecordCall(record[h]) \subseteq Record
        BY <3>1, <3>2 DEF RecordCall, RowsOf, Row, Record
      <3>4. PICK q \in Record : record' = [record EXCEPT ![h] = q]
        BY <2>3, <3>3 DEF Find
      <3> QED
        BY <2>3, <3>4 DEF Find, Goto, IInv, TypeOK, WritersHaveCalls
    <2> QED
      BY <2>1, <2>2, <2>3
  <1>3. /\ plugin' \in [Handlers -> Plugins \cup {NoPlugin}]
        /\ mu' \in [Replicas -> Handlers \cup {NoHandler}]
        /\ saves' \in 0..MaxSaves
    <2>1. CASE \E p \in Plugins : SaveForUser(h, p) \/ DeleteForUser(h, p)
      <3>1. PICK p \in Plugins, kind \in {"save", "delete"} : Begin(h, p, kind)
        BY <2>1 DEF SaveForUser, DeleteForUser
      <3>2. saves' \in 0..MaxSaves
        BY <3>1, PluginAssumption DEF Begin, IInv, TypeOK
      <3>3. plugin' \in [Handlers -> Plugins \cup {NoPlugin}]
        BY <3>1 DEF Begin, IInv, TypeOK
      <3>4. mu' \in [Replicas -> Handlers \cup {NoHandler}]
        BY <3>1 DEF Begin, IInv, TypeOK
      <3> QED
        BY <3>2, <3>3, <3>4
    <2>2. CASE Acquire(h)
      BY <2>2, PluginAssumption DEF IInv, TypeOK, Acquire
    <2>3. CASE Find(h)
      BY <2>3 DEF IInv, TypeOK, Find
    <2> QED
      BY <2>1, <2>2, <2>3
  <1>4. TypeOK'
    BY <1>1, <1>2, <1>3 DEF IInv, TypeOK, Snapshot, Latest, cacheVars, readVars
  <1>5. ReadIsFresh' /\ CacheIsFresh'
    BY <1>1 DEF IInv, TypeOK, ReadIsFresh, CacheIsFresh, cacheVars, readVars
  <1> QED
    BY <1>2, <1>4, <1>5 DEF IInv

\* A record call takes effect, for its caller or late: all that is read stays a
\* content of the table.
LEMMA LandStep ==
    ASSUME IInv, NEW h \in Writers, Land(h)
    PROVE  IInv'
  <1> h \in Handlers
    BY DEF Handlers
  <1>1. record[h] \in Record /\ Effect(record[h])
    BY DEF Land, IInv, WritersHaveCalls, Writing
  <1>2. /\ log' \in Seq(SUBSET Row) /\ log' # <<>>
        /\ Latest' = Latest + 1
        /\ Latest \in Nat \ {0}
    BY <1>1, EffectGrows DEF IInv
  <1>3. /\ UNCHANGED <<cacheVars, plugin, writeVars, readVars>>
        /\ pc' = [pc EXCEPT ![h] = "landed"]
        /\ seen' = [seen EXCEPT ![h] = Latest + 1]
        /\ pc[h] = "await"
    BY DEF Land, Goto
  <1>4. Snapshot \subseteq Snapshot' /\ Latest + 1 \in Snapshot'
    BY <1>2 DEF Snapshot
  <1>5. TypeOK'
    BY <1>2, <1>3, <1>4 DEF IInv, TypeOK, cacheVars, writeVars, readVars
  <1>6. ReadIsFresh' /\ CacheIsFresh' /\ WritersHaveCalls'
    BY <1>3 DEF IInv, TypeOK, ReadIsFresh, CacheIsFresh, WritersHaveCalls, Writing,
                cacheVars, writeVars, readVars
  <1> QED
    BY <1>5, <1>6 DEF IInv

LEMMA LateStep ==
    ASSUME IInv, NEW q \in late, LateLands(q) \/ LateLost(q)
    PROVE  IInv'
  <1>1. UNCHANGED <<cacheVars, pc, plugin, seen, mu, record, acked, saves, abandoned, readVars>>
    BY DEF LateLands, LateLost
  <1>2. /\ log' \in Seq(SUBSET Row) /\ log' # <<>>
        /\ Snapshot \subseteq Snapshot'
    <2>1. CASE LateLands(q)
      <3>1. q \in Record /\ Effect(q)
        BY <2>1 DEF LateLands, IInv, TypeOK
      <3> QED
        BY <3>1, EffectGrows DEF IInv, Snapshot
    <2>2. CASE LateLost(q)
      BY <2>2 DEF LateLost, IInv, TypeOK, Snapshot, Latest
    <2> QED
      BY <2>1, <2>2
  <1>3. late' \subseteq Record
    BY DEF LateLands, LateLost, IInv, TypeOK
  <1>4. TypeOK'
    BY <1>1, <1>2, <1>3 DEF IInv, TypeOK, cacheVars, readVars
  <1>5. ReadIsFresh' /\ CacheIsFresh' /\ WritersHaveCalls'
    BY <1>1 DEF IInv, ReadIsFresh, CacheIsFresh, WritersHaveCalls, cacheVars, readVars
  <1> QED
    BY <1>4, <1>5 DEF IInv

\* What a return does to the locals.
LEMMA ForgetStep ==
    ASSUME IInv, NEW h \in Handlers, Forget(h), UNCHANGED log
    PROVE  /\ pc' \in [Handlers -> {"idle", "lock", "find", "await", "landed",
                                   "fetch", "fetched", "scan", "confirmed"}]
           /\ plugin' \in [Handlers -> Plugins \cup {NoPlugin}]
           /\ gen' \in [Handlers -> Nat]
           /\ seen' \in [Handlers -> Snapshot]
           /\ since' \in [Handlers -> Snapshot]
           /\ floor' \in [Handlers -> Snapshot]
           /\ Snapshot' = Snapshot
           /\ ReadIsFresh'
           /\ \A g \in Handlers : g # h =>
                 pc'[g] = pc[g] /\ gen'[g] = gen[g] /\ seen'[g] = seen[g]
           /\ pc'[h] = "idle" /\ gen'[h] = 0
  <1>1. 1 \in Snapshot /\ Snapshot' = Snapshot
    BY DEF IInv, TypeOK, Snapshot, Latest
  <1> QED
    BY <1>1 DEF Forget, Goto, IInv, TypeOK, ReadIsFresh

\* A write returns, with success or without.
LEMMA ReturnStep ==
    ASSUME IInv, NEW h \in Writers, Confirm(h) \/ ReturnUnwritten(h) \/ GiveUp(h)
    PROVE  IInv'
  <1> h \in Handlers /\ ReplicaOf[h] \in Replicas
    BY PluginAssumption DEF Handlers
  <1> DEFINE r == ReplicaOf[h]
  <1>1. Forget(h) /\ UNCHANGED log
    BY DEF Confirm, ReturnUnwritten, GiveUp, Return
  <1>2. /\ record' \in [Handlers -> Record \cup {None}]
        /\ mu' \in [Replicas -> Handlers \cup {NoHandler}]
        /\ \A g \in Handlers : g # h => record'[g] = record[g]
    BY DEF Confirm, ReturnUnwritten, GiveUp, Return, IInv, TypeOK
  <1>3. late' \subseteq Record /\ saves' \in 0..MaxSaves /\ abandoned' \in 0..MaxAbandoned
    <2>1. CASE Confirm(h) \/ ReturnUnwritten(h)
      BY <2>1 DEF Confirm, ReturnUnwritten, IInv, TypeOK
    <2>2. CASE GiveUp(h)
      <3>1. record[h] \in Record
        BY <2>2 DEF GiveUp, IInv, WritersHaveCalls, Writing
      <3>2. late' \subseteq Record
        BY <2>2, <3>1 DEF GiveUp, IInv, TypeOK
      <3>3. saves' \in 0..MaxSaves
        BY <2>2 DEF GiveUp, IInv, TypeOK
      <3>4. abandoned' \in 0..MaxAbandoned
        BY <2>2, PluginAssumption DEF GiveUp, IInv, TypeOK
      <3> QED
        BY <3>2, <3>3, <3>4
    <2> QED
      BY <2>1, <2>2
  <1>4. WritersHaveCalls'
    BY <1>1, <1>2, ForgetStep DEF IInv, WritersHaveCalls, Writing
  <1>5. CASE Confirm(h)
    <2>1. /\ cached' = [cached EXCEPT ![r] = FALSE]
          /\ cacheGen' = [cacheGen EXCEPT ![r] = @ + 1]
          /\ cache' = cache
          /\ acked' = [acked EXCEPT ![r] = acked'[r]]
          /\ acked'[r] \in {acked[r], seen[h]}
      <3>1. /\ cached' = [cached EXCEPT ![r] = FALSE]
            /\ cacheGen' = [cacheGen EXCEPT ![r] = @ + 1]
            /\ cache' = cache
        BY <1>5 DEF Confirm, Invalidate
      <3>2. acked \in [Replicas -> Snapshot]
        BY DEF IInv, TypeOK
      <3>3. acked' = [acked EXCEPT ![r] = IF acked[r] < seen[h] THEN seen[h] ELSE acked[r]]
        BY <1>5 DEF Confirm
      <3>4. acked'[r] = IF acked[r] < seen[h] THEN seen[h] ELSE acked[r]
        BY <3>2, <3>3
      <3>5. acked'[r] \in {acked[r], seen[h]}
        BY <3>4
      <3> QED
        BY <3>1, <3>3, <3>4, <3>5
    <2>2. TypeOK'
      <3>1. /\ cached' \in [Replicas -> BOOLEAN]
            /\ cache' \in [Replicas -> Snapshot]
            /\ cacheGen' \in [Replicas -> Nat]
        BY <2>1 DEF IInv, TypeOK
      <3>2. acked' \in [Replicas -> Snapshot]
        <4>1. acked[r] \in Snapshot /\ seen[h] \in Snapshot
          BY DEF IInv, TypeOK
        <4> QED
          BY <2>1, <4>1 DEF IInv, TypeOK
      <3>3. log' \in Seq(SUBSET Row) /\ log' # <<>>
        BY <1>1 DEF IInv, TypeOK
      <3>4. Snapshot' = Snapshot
        BY <1>1, ForgetStep
      <3> QED
        BY <1>1, <1>2, <1>3, <3>1, <3>2, <3>3, <3>4, ForgetStep DEF TypeOK
    <2>3. CacheIsFresh'
      <3>1. \A s \in Replicas : cached'[s] => acked'[s] <= cache'[s]
        BY <2>1 DEF IInv, TypeOK, CacheIsFresh
      <3>2. ASSUME NEW g \in Handlers
            PROVE  /\ gen'[g] <= cacheGen'[ReplicaOf[g]]
                   /\ pc'[g] = "fetched" /\ gen'[g] = cacheGen'[ReplicaOf[g]] =>
                         acked'[ReplicaOf[g]] <= seen'[g]
        <4>1. ReplicaOf[g] \in Replicas /\ gen[g] \in Nat /\ cacheGen[ReplicaOf[g]] \in Nat
              /\ gen[g] <= cacheGen[ReplicaOf[g]]
          BY PluginAssumption DEF IInv, TypeOK, CacheIsFresh
        <4>2. CASE g = h
          BY <1>1, <2>1, <4>1, <4>2, ForgetStep DEF IInv, TypeOK
        <4>3. CASE g # h /\ ReplicaOf[g] = r
          BY <1>1, <2>1, <4>1, <4>3, ForgetStep DEF IInv, TypeOK
        <4>4. CASE g # h /\ ReplicaOf[g] # r
          BY <1>1, <2>1, <4>1, <4>4, ForgetStep DEF IInv, TypeOK, CacheIsFresh
        <4> QED
          BY <4>2, <4>3, <4>4
      <3> QED
        BY <3>1, <3>2 DEF CacheIsFresh
    <2> QED
      BY <1>1, <1>4, <2>2, <2>3, ForgetStep DEF IInv
  <1>6. CASE ReturnUnwritten(h) \/ GiveUp(h)
    <2>1. UNCHANGED <<cacheVars, acked>>
      BY <1>6 DEF ReturnUnwritten, GiveUp
    <2>2. TypeOK'
      BY <1>1, <1>2, <1>3, <2>1, ForgetStep DEF IInv, TypeOK, cacheVars
    <2>3. CacheIsFresh'
      BY <1>1, <2>1, ForgetStep, PluginAssumption DEF IInv, TypeOK, CacheIsFresh, cacheVars
    <2> QED
      BY <1>1, <1>4, <2>2, <2>3, ForgetStep DEF IInv
  <1> QED
    BY <1>5, <1>6

\* A read is called, reads the table, fills the cache, returns.
LEMMA ReadStep ==
    ASSUME IInv, NEW h \in Readers, NEW p \in Plugins \cup {NoPlugin}, Read(h, p)
    PROVE  IInv'
  <1> h \in Handlers /\ ReplicaOf[h] \in Replicas
    BY PluginAssumption DEF Handlers
  <1> DEFINE r == ReplicaOf[h]
  <1>1. UNCHANGED <<log, cacheVars, writeVars>> /\ Snapshot' = Snapshot /\ Latest \in Snapshot
    BY DEF Read, IInv, TypeOK, Snapshot, Latest
  <1>2. /\ plugin' = [plugin EXCEPT ![h] = p]
        /\ since' = [since EXCEPT ![h] = Latest]
        /\ floor' = [floor EXCEPT ![h] = acked[r]]
    BY DEF Read
  <1>3. CASE cached[r]
    <2>1. seen' = [seen EXCEPT ![h] = cache[r]] /\ pc' = [pc EXCEPT ![h] = "scan"] /\ gen' = gen
      BY <1>3 DEF Read, Goto
    <2>2. TypeOK'
      BY <1>1, <1>2, <2>1 DEF IInv, TypeOK, cacheVars, writeVars
    <2>3. ReadIsFresh' /\ CacheIsFresh' /\ WritersHaveCalls'
      BY <1>1, <1>2, <1>3, <2>1
      DEF IInv, TypeOK, ReadIsFresh, CacheIsFresh, WritersHaveCalls, Writing, cacheVars, writeVars
    <2> QED
      BY <2>2, <2>3 DEF IInv
  <1>4. CASE ~cached[r]
    <2>1. gen' = [gen EXCEPT ![h] = cacheGen[r]] /\ pc' = [pc EXCEPT ![h] = "fetch"] /\ seen' = seen
      BY <1>4 DEF Read, Goto
    <2>2. TypeOK'
      BY <1>1, <1>2, <2>1 DEF IInv, TypeOK, cacheVars, writeVars
    <2>3. ReadIsFresh' /\ CacheIsFresh' /\ WritersHaveCalls'
      BY <1>1, <1>2, <2>1
      DEF IInv, TypeOK, ReadIsFresh, CacheIsFresh, WritersHaveCalls, Writing, cacheVars, writeVars
    <2> QED
      BY <2>2, <2>3 DEF IInv
  <1> QED
    BY <1>3, <1>4

LEMMA FetchStep ==
    ASSUME IInv, NEW h \in Readers, Fetch(h)
    PROVE  IInv'
  <1> h \in Handlers /\ ReplicaOf[h] \in Replicas
    BY PluginAssumption DEF Handlers
  <1>1. /\ UNCHANGED <<log, cacheVars, plugin, writeVars, readVars>>
        /\ Snapshot' = Snapshot /\ Latest \in Snapshot
        /\ \A s \in Snapshot : s <= Latest
        /\ Snapshot \subseteq Nat
    BY DEF Fetch, IInv, TypeOK, Snapshot, Latest
  <1>2. /\ seen' = [seen EXCEPT ![h] = Latest]
        /\ pc' = [pc EXCEPT ![h] = Fetched(h)]
        /\ Fetched(h) \in {"fetched", "confirmed"}
    BY DEF Fetch, Goto, Fetched
  <1>3. TypeOK'
    BY <1>1, <1>2 DEF IInv, TypeOK, cacheVars, writeVars, readVars
  <1>4. ReadIsFresh' /\ WritersHaveCalls'
    BY <1>1, <1>2 DEF IInv, TypeOK, ReadIsFresh, WritersHaveCalls, Writing, writeVars, readVars
  <1>5. CacheIsFresh'
    BY <1>1, <1>2 DEF IInv, TypeOK, CacheIsFresh, cacheVars, writeVars, readVars
  <1> QED
    BY <1>3, <1>4, <1>5 DEF IInv

LEMMA FillStep ==
    ASSUME IInv, NEW h \in Readers, Fill(h)
    PROVE  IInv'
  <1> h \in Handlers /\ ReplicaOf[h] \in Replicas
    BY PluginAssumption DEF Handlers
  <1> DEFINE r == ReplicaOf[h]
  <1>1. /\ UNCHANGED <<log, cacheGen, plugin, seen, writeVars, readVars>>
        /\ Snapshot' = Snapshot
        /\ pc' = [pc EXCEPT ![h] = "scan"]
        /\ pc[h] = "fetched"
    BY DEF Fill, Goto, Snapshot, Latest
  <1>2. /\ cached' \in [Replicas -> BOOLEAN] /\ cache' \in [Replicas -> Snapshot]
        /\ \A s \in Replicas : cached'[s] => acked[s] <= cache'[s]
    BY DEF Fill, IInv, TypeOK, CacheIsFresh
  <1>3. TypeOK'
    BY <1>1, <1>2 DEF IInv, TypeOK, writeVars, readVars
  <1>4. ReadIsFresh' /\ WritersHaveCalls'
    BY <1>1 DEF IInv, TypeOK, ReadIsFresh, WritersHaveCalls, Writing, writeVars, readVars
  <1>5. CacheIsFresh'
    BY <1>1, <1>2 DEF IInv, TypeOK, CacheIsFresh, writeVars, readVars
  <1> QED
    BY <1>3, <1>4, <1>5 DEF IInv

LEMMA ReturnReadStep ==
    ASSUME IInv, NEW h \in Readers, ReturnRead(h)
    PROVE  IInv'
  <1> h \in Handlers /\ ReplicaOf[h] \in Replicas
    BY PluginAssumption DEF Handlers
  <1>1. Forget(h) /\ UNCHANGED <<log, cacheVars, writeVars>>
    BY DEF ReturnRead
  <1>2. TypeOK'
    BY <1>1, ForgetStep DEF IInv, TypeOK, cacheVars, writeVars
  <1>3. CacheIsFresh' /\ WritersHaveCalls'
    BY <1>1, ForgetStep, PluginAssumption
    DEF IInv, TypeOK, CacheIsFresh, WritersHaveCalls, Writing, cacheVars, writeVars
  <1> QED
    BY <1>1, <1>2, <1>3, ForgetStep DEF IInv

LEMMA ExpireStep ==
    ASSUME IInv, NEW r \in Replicas, Expire(r)
    PROVE  IInv'
  <1>1. /\ UNCHANGED <<log, cache, cacheGen, pc, plugin, seen, writeVars, readVars>>
        /\ cached' = [cached EXCEPT ![r] = FALSE]
        /\ Snapshot' = Snapshot
    BY DEF Expire, Snapshot, Latest
  <1> QED
    BY <1>1 DEF IInv, TypeOK, ReadIsFresh, CacheIsFresh, WritersHaveCalls, writeVars, readVars

LEMMA Step == IInv /\ [Next]_vars => IInv'
  <1> SUFFICES ASSUME IInv, [Next]_vars PROVE IInv'
    OBVIOUS
  <1>1. ASSUME NEW h \in Writers,
               \/ \E p \in Plugins : SaveForUser(h, p) \/ DeleteForUser(h, p)
               \/ Acquire(h)
               \/ Find(h)
        PROVE  IInv'
    BY <1>1, BeforeWriteStep
  <1>2. ASSUME NEW h \in Writers, Land(h) PROVE IInv'
    BY <1>2, LandStep
  <1>3. ASSUME NEW h \in Writers, Confirm(h) \/ ReturnUnwritten(h) \/ GiveUp(h) PROVE IInv'
    BY <1>3, ReturnStep
  <1>4. ASSUME NEW h \in Readers, ListForUser(h) \/ \E p \in Plugins : GetForUser(h, p)
        PROVE  IInv'
    BY <1>4, ReadStep DEF ListForUser, GetForUser
  <1>5. ASSUME NEW h \in Readers, Fetch(h) PROVE IInv'
    BY <1>5, FetchStep
  <1>6. ASSUME NEW h \in Readers, Fill(h) PROVE IInv'
    BY <1>6, FillStep
  <1>7. ASSUME NEW h \in Readers, Answer(h) \/ ReadFails(h) PROVE IInv'
    BY <1>7, ReturnReadStep DEF Answer, ReadFails
  <1>8. ASSUME NEW q \in late, LateLands(q) \/ LateLost(q) PROVE IInv'
    BY <1>8, LateStep
  <1>9. ASSUME NEW r \in Replicas, Expire(r) PROVE IInv'
    BY <1>9, ExpireStep
  <1>10. CASE UNCHANGED vars
    <2>1. Snapshot' = Snapshot
      BY <1>10 DEF vars, Snapshot, Latest
    <2> QED
      BY <1>10, <2>1 DEF vars, IInv, TypeOK, ReadIsFresh, CacheIsFresh, WritersHaveCalls,
                         cacheVars, writeVars, readVars
  <1> QED
    BY <1>1, <1>2, <1>3, <1>4, <1>5, <1>6, <1>7, <1>8, <1>9, <1>10 DEF Next

LEMMA Inductive == Spec => []IInv
  BY InitInv, Step, PTL DEF Spec

\* Every variable of the plugin store has its type: what the cache holds and what
\* a read holds is always a content the table has had.
THEOREM PluginTypeCorrect == Spec => []TypeOK
  <1>1. IInv => TypeOK
    BY DEF IInv
  <1> QED
    BY <1>1, Inductive, PTL

\* GetForUser never calls a plugin missing that was there during the whole call,
\* whatever the cache holds and other replicas do.
THEOREM MissIsTrueHolds == Spec => MissIsTrue
  <1>1. IInv /\ [Next]_vars =>
          [\A h \in Handlers : Answer(h) /\ Miss(h) =>
              \E s \in since[h]..Latest : RowsOf(s, plugin[h]) = {}]_vars
    <2> SUFFICES ASSUME IInv, NEW h \in Handlers, Answer(h), Miss(h)
                 PROVE  \E s \in since[h]..Latest : RowsOf(s, plugin[h]) = {}
      OBVIOUS
    <2>1. pc[h] = "confirmed" /\ RowsOf(seen[h], plugin[h]) = {}
      BY DEF Answer, Miss
    <2>2. seen[h] \in since[h]..Latest
      BY <2>1 DEF IInv, TypeOK, Snapshot, Latest, ReadIsFresh
    <2> QED
      BY <2>1, <2>2
  <1> QED
    BY <1>1, Inductive, PTL DEF Spec, MissIsTrue

\* Reads of a replica never go back behind what the replica has completed.
THEOREM ReadsSeeOwnWritesHolds == Spec => ReadsSeeOwnWrites
  <1>1. IInv /\ [Next]_vars =>
          [\A h \in Handlers : Answer(h) => floor[h] <= seen[h]]_vars
    BY DEF IInv, ReadIsFresh, Answer
  <1> QED
    BY <1>1, Inductive, PTL DEF Spec, ReadsSeeOwnWrites

----------------------------------------------------------------------------
(* How many records a plugin can have.                                     *)

\* A goroutine between find and the end of its write holds the mutex of its
\* process.
Inside == {"find", "await", "landed"}
MutexHeldInside == \A h \in Handlers : pc[h] \in Inside => mu[ReplicaOf[h]] = h

\* Creates of plugin p that somebody waits for, and those nobody waits for any
\* more.
Pending(p)     == {h \in Handlers : pc[h] = "await" /\ record[h].kind = "create" /\ record[h].key = p}
LateCreates(p) == {q \in late : q.kind = "create" /\ q.key = p}
Records(p)     == RowsOf(Latest, p)

\* The records of a plugin, with those that may still be created, number at most
\* one for each replica and one for each call that was given up.
LateBounded    == IsFiniteSet(late) /\ Cardinality(late) <= abandoned
RecordsFinite  == \A p \in Plugins : IsFiniteSet(Records(p))
CreatesBounded ==
    \A p \in Plugins :
        Cardinality(Records(p)) + Cardinality(Pending(p)) + Cardinality(LateCreates(p))
            <= Cardinality(Replicas) + abandoned
RecordsInv == MutexHeldInside /\ LateBounded /\ RecordsFinite /\ CreatesBounded

\* At most one goroutine of a process waits for a create.
LEMMA PendingFinite ==
    ASSUME MutexHeldInside, NEW p \in Plugins
    PROVE  IsFiniteSet(Pending(p)) /\ Cardinality(Pending(p)) <= Cardinality(Replicas)
  <1> DEFINE f == [h \in Pending(p) |-> ReplicaOf[h]]
  <1>1. f \in [Pending(p) -> Replicas]
    BY PluginAssumption DEF Pending
  <1>2. \A g, h \in Pending(p) : f[g] = f[h] => g = h
    BY DEF Pending, MutexHeldInside, Inside
  <1>3. f \in Injection(Pending(p), Replicas)
    BY <1>1, <1>2 DEF Injection, IsInjective
  <1> QED
    BY <1>3, FS_Injection, ReplicasFinite

LEMMA LateCreatesFinite ==
    ASSUME LateBounded, NEW p \in Plugins
    PROVE  IsFiniteSet(LateCreates(p)) /\ Cardinality(LateCreates(p)) <= Cardinality(late)
  <1>1. LateCreates(p) \in SUBSET late
    BY DEF LateCreates
  <1> QED
    BY <1>1, FS_Subset DEF LateBounded

\* The sizes that are added up are natural numbers.
LEMMA CountTypes ==
    ASSUME IInv, RecordsInv, NEW p \in Plugins
    PROVE  /\ Cardinality(Records(p)) \in Nat
           /\ Cardinality(Pending(p)) \in Nat
           /\ Cardinality(LateCreates(p)) \in Nat
           /\ Cardinality(late) \in Nat
           /\ Cardinality(Replicas) \in Nat
           /\ abandoned \in Nat
  BY PendingFinite, LateCreatesFinite, FS_CardinalityType, ReplicasFinite, PluginAssumption
  DEF RecordsInv, RecordsFinite, LateBounded, IInv, TypeOK

\* A record call adds at most one record, and only a create of the plugin does.
LEMMA EffectRecords ==
    ASSUME IInv, NEW q \in Record, Effect(q), NEW p \in Plugins, IsFiniteSet(Records(p))
    PROVE  /\ IsFiniteSet(Records(p)')
           /\ Cardinality(Records(p)') <= Cardinality(Records(p)) + 1
           /\ (q.kind # "create" \/ q.key # p) => Cardinality(Records(p)') <= Cardinality(Records(p))
  <1> DEFINE now == CASE q.kind = "create" -> log[Latest] \cup {[rid |-> q.rid, key |-> q.key]}
                      [] q.kind = "remove" -> {row \in log[Latest] : row.rid # q.rid}
                      [] OTHER -> log[Latest]
  <1>1. Records(p)' = {row \in now : row.key = p}
    <2>1. log' = Append(log, now) /\ log \in Seq(SUBSET Row)
      BY DEF Effect, IInv, TypeOK
    <2> HIDE DEF now
    <2>2. Len(log') = Len(log) + 1 /\ log'[Len(log) + 1] = now
      BY <2>1
    <2> QED
      BY <2>2 DEF Records, RowsOf, Latest
  <1>2. Cardinality(Records(p)) \in Nat
    BY FS_CardinalityType
  <1>3. CASE q.kind = "create" /\ q.key = p
    <2> DEFINE new == [rid |-> q.rid, key |-> q.key]
    <2>1. Records(p)' = Records(p) \cup {new}
      BY <1>1, <1>3 DEF Records, RowsOf
    <2>2. /\ IsFiniteSet(Records(p) \cup {new})
          /\ Cardinality(Records(p) \cup {new}) =
                IF new \in Records(p) THEN Cardinality(Records(p)) ELSE Cardinality(Records(p)) + 1
      BY FS_AddElement
    <2> HIDE DEF new
    <2> QED
      BY <1>2, <1>3, <2>1, <2>2
  <1>4. CASE q.kind # "create" \/ q.key # p
    <2>1. Records(p)' \in SUBSET Records(p)
      <3>1. CASE q.kind = "create"
        BY <1>1, <1>4, <3>1 DEF Records, RowsOf
      <3>2. CASE q.kind = "remove"
        BY <1>1, <3>2 DEF Records, RowsOf
      <3>3. CASE q.kind \notin {"create", "remove"}
        BY <1>1, <3>3 DEF Records, RowsOf
      <3> QED
        BY <3>1, <3>2, <3>3
    <2>2. IsFiniteSet(Records(p)') /\ Cardinality(Records(p)') <= Cardinality(Records(p))
      BY <2>1, FS_Subset
    <2>3. Cardinality(Records(p)') \in Nat
      BY <2>2, FS_CardinalityType
    <2> HIDE DEF now
    <2> QED
      BY <1>2, <2>2, <2>3
  <1> QED
    BY <1>3, <1>4

\* A set that has shrunk, and one that has gained at most one element.
LEMMA Shrunk ==
    ASSUME NEW S, NEW T, IsFiniteSet(S), T \subseteq S
    PROVE  /\ IsFiniteSet(T) /\ Cardinality(T) \in Nat /\ Cardinality(S) \in Nat
           /\ Cardinality(T) <= Cardinality(S)
           /\ T # S => Cardinality(T) < Cardinality(S)
  <1>1. T \in SUBSET S
    OBVIOUS
  <1>2. /\ IsFiniteSet(T) /\ Cardinality(T) <= Cardinality(S)
        /\ Cardinality(S) = Cardinality(T) => S = T
    BY <1>1, FS_Subset
  <1>3. Cardinality(T) \in Nat /\ Cardinality(S) \in Nat
    BY <1>2, FS_CardinalityType
  <1> QED
    BY <1>2, <1>3

LEMMA Grown ==
    ASSUME NEW S, NEW T, NEW x, IsFiniteSet(S), T \subseteq S \cup {x}
    PROVE  /\ IsFiniteSet(T) /\ Cardinality(T) \in Nat /\ Cardinality(S) \in Nat
           /\ Cardinality(T) <= Cardinality(S) + 1
  <1>1. /\ IsFiniteSet(S \cup {x})
        /\ Cardinality(S \cup {x}) = IF x \in S THEN Cardinality(S) ELSE Cardinality(S) + 1
    BY FS_AddElement
  <1>2. /\ IsFiniteSet(T) /\ Cardinality(T) \in Nat
        /\ Cardinality(T) <= Cardinality(S \cup {x})
    BY <1>1, Shrunk
  <1>3. Cardinality(S) \in Nat
    BY FS_CardinalityType
  <1> QED
    BY <1>1, <1>2, <1>3

LEMMA RecordsInit == Init => RecordsInv
  <1> SUFFICES ASSUME Init PROVE RecordsInv
    OBVIOUS
  <1>1. \A p \in Plugins : Records(p) = {} /\ Pending(p) = {} /\ LateCreates(p) = {}
    BY DEF Init, Records, RowsOf, Latest, Pending, LateCreates
  <1>2. IsFiniteSet({}) /\ Cardinality({}) = 0 /\ Cardinality(Replicas) \in Nat
    BY FS_EmptySet, FS_CardinalityType, ReplicasFinite
  <1>3. MutexHeldInside /\ late = {} /\ abandoned = 0
    BY DEF Init, MutexHeldInside, Inside
  <1>4. CreatesBounded
    <2> SUFFICES ASSUME NEW p \in Plugins
                 PROVE  Cardinality(Records(p)) + Cardinality(Pending(p))
                          + Cardinality(LateCreates(p)) <= Cardinality(Replicas) + abandoned
      BY DEF CreatesBounded
    <2>1. /\ Cardinality(Records(p)) = 0 /\ Cardinality(Pending(p)) = 0
          /\ Cardinality(LateCreates(p)) = 0
      BY <1>1, <1>2
    <2> QED
      BY <1>2, <1>3, <2>1
  <1>5. LateBounded
    BY <1>2, <1>3 DEF LateBounded
  <1>6. RecordsFinite
    BY <1>1, <1>2 DEF RecordsFinite
  <1> QED
    BY <1>3, <1>4, <1>5, <1>6 DEF RecordsInv

\* Mutex: who enters takes it, who returns leaves.
LEMMA MutexStep == IInv /\ MutexHeldInside /\ [Next]_vars => MutexHeldInside'
  <1> SUFFICES ASSUME IInv, MutexHeldInside, [Next]_vars PROVE MutexHeldInside'
    OBVIOUS
  <1> USE PluginAssumption DEF MutexHeldInside, Inside, Goto, Handlers
  <1>0. /\ pc \in [Handlers -> {"idle", "lock", "find", "await", "landed",
                                "fetch", "fetched", "scan", "confirmed"}]
        /\ mu \in [Replicas -> Handlers \cup {NoHandler}]
    BY DEF IInv, TypeOK
  <1>1. ASSUME NEW h \in Writers, NEW p \in Plugins, SaveForUser(h, p) \/ DeleteForUser(h, p)
        PROVE  MutexHeldInside'
    BY <1>0, <1>1 DEF SaveForUser, DeleteForUser, Begin
  <1>2. ASSUME NEW h \in Writers, Acquire(h) PROVE MutexHeldInside'
    BY <1>0, <1>2 DEF Acquire
  <1>3. ASSUME NEW h \in Writers, Find(h) \/ Land(h) PROVE MutexHeldInside'
    BY <1>0, <1>3 DEF Find, Land, writeVars
  <1>4. ASSUME NEW h \in Writers, Confirm(h) \/ ReturnUnwritten(h) \/ GiveUp(h)
        PROVE  MutexHeldInside'
    <2>1. /\ pc' = [pc EXCEPT ![h] = "idle"]
          /\ mu' = [mu EXCEPT ![ReplicaOf[h]] = NoHandler]
          /\ pc[h] \in Inside
      BY <1>4 DEF Confirm, ReturnUnwritten, GiveUp, Return, Forget
    <2> QED
      BY <1>0, <2>1
  <1>5. ASSUME NEW h \in Readers, NEW p \in Plugins \cup {NoPlugin},
               Read(h, p) \/ Fetch(h) \/ Fill(h) \/ ReturnRead(h)
        PROVE  MutexHeldInside'
    BY <1>0, <1>5 DEF Read, Fetch, Fetched, Fill, ReturnRead, Forget, writeVars
  <1>6. ASSUME NEW q \in late, LateLands(q) \/ LateLost(q) PROVE MutexHeldInside'
    BY <1>6 DEF LateLands, LateLost
  <1>7. ASSUME NEW r \in Replicas, Expire(r) PROVE MutexHeldInside'
    BY <1>7 DEF Expire, writeVars
  <1>8. CASE UNCHANGED vars
    BY <1>8 DEF vars, writeVars
  <1> QED
    BY <1>1, <1>2, <1>3, <1>4, <1>5, <1>6, <1>7, <1>8
    DEF Next, ListForUser, GetForUser, Answer, ReadFails


\* A step that leaves the table alone and sends no create.
LEMMA RecordsKept ==
    ASSUME IInv, RecordsInv, MutexHeldInside', UNCHANGED <<log, abandoned>>, late' \subseteq late,
           \A p \in Plugins : Pending(p)' \subseteq Pending(p)
    PROVE  RecordsInv'
  <1>1. LateBounded'
    <2>1. IsFiniteSet(late') /\ Cardinality(late') \in Nat /\ Cardinality(late) \in Nat
          /\ Cardinality(late') <= Cardinality(late)
      BY Shrunk DEF RecordsInv, LateBounded
    <2>2. abandoned \in Nat
      BY PluginAssumption DEF IInv, TypeOK
    <2> QED
      BY <2>1, <2>2 DEF RecordsInv, LateBounded
  <1>2. ASSUME NEW p \in Plugins
        PROVE  /\ IsFiniteSet(Records(p)')
               /\ Cardinality(Records(p)') + Cardinality(Pending(p)') + Cardinality(LateCreates(p)')
                     <= Cardinality(Replicas) + abandoned'
    <2>1. Records(p)' = Records(p) /\ LateCreates(p)' \subseteq LateCreates(p)
      BY DEF Records, RowsOf, Latest, LateCreates
    <2>2. /\ Cardinality(LateCreates(p)') \in Nat
          /\ Cardinality(LateCreates(p)') <= Cardinality(LateCreates(p))
          /\ Cardinality(Pending(p)') \in Nat
          /\ Cardinality(Pending(p)') <= Cardinality(Pending(p))
      BY <2>1, Shrunk, PendingFinite, LateCreatesFinite DEF RecordsInv
    <2> QED
      BY <2>1, <2>2, CountTypes DEF RecordsInv, RecordsFinite, CreatesBounded
  <1> QED
    BY <1>1, <1>2 DEF RecordsInv, RecordsFinite, CreatesBounded

\* A write is given up: at most one more call is left to itself, and is counted.
LEMMA RecordsGivenUp ==
    ASSUME IInv, RecordsInv, MutexHeldInside', NEW h \in Writers, GiveUp(h)
    PROVE  RecordsInv'
  <1> h \in Handlers
    BY DEF Handlers
  <1>1. /\ late' \subseteq late \cup {record[h]}
        /\ UNCHANGED log /\ abandoned' = abandoned + 1
        /\ pc' = [pc EXCEPT ![h] = "idle"] /\ record' = [record EXCEPT ![h] = None]
    BY DEF GiveUp, Return, Forget, Goto
  <1>2. LateBounded'
    <2>1. IsFiniteSet(late') /\ Cardinality(late') \in Nat /\ Cardinality(late) \in Nat
          /\ Cardinality(late') <= Cardinality(late) + 1
      BY <1>1, Grown DEF RecordsInv, LateBounded
    <2>2. abandoned \in Nat
      BY PluginAssumption DEF IInv, TypeOK
    <2> QED
      BY <1>1, <2>1, <2>2 DEF RecordsInv, LateBounded
  <1>3. ASSUME NEW p \in Plugins
        PROVE  /\ IsFiniteSet(Records(p)')
               /\ Cardinality(Records(p)') + Cardinality(Pending(p)') + Cardinality(LateCreates(p)')
                     <= Cardinality(Replicas) + abandoned'
    <2>1. /\ Records(p)' = Records(p) /\ LateCreates(p)' \subseteq LateCreates(p) \cup {record[h]}
          /\ Pending(p)' \subseteq Pending(p)
      BY <1>1 DEF Records, RowsOf, Latest, LateCreates, Pending, IInv, TypeOK
    <2>2. /\ Cardinality(LateCreates(p)') \in Nat
          /\ Cardinality(LateCreates(p)') <= Cardinality(LateCreates(p)) + 1
      BY <2>1, Grown, LateCreatesFinite DEF RecordsInv
    <2>3. /\ Cardinality(Pending(p)') \in Nat
          /\ Cardinality(Pending(p)') <= Cardinality(Pending(p))
      BY <2>1, Shrunk, PendingFinite DEF RecordsInv
    <2> QED
      BY <1>1, <2>1, <2>2, <2>3, CountTypes DEF RecordsInv, RecordsFinite, CreatesBounded
  <1> QED
    BY <1>2, <1>3 DEF RecordsInv, RecordsFinite, CreatesBounded

\* find saw no record of the plugin: the creates in the air are then at most one
\* for each replica, and one for each call that was given up.
LEMMA RecordsFound ==
    ASSUME IInv, RecordsInv, MutexHeldInside', NEW h \in Writers, Find(h)
    PROVE  RecordsInv'
  <1> h \in Handlers
    BY DEF Handlers
  <1>1. /\ UNCHANGED <<log, late, abandoned>>
        /\ pc' = [pc EXCEPT ![h] = "await"] /\ pc[h] = "find"
        /\ record[h] \in Record
    BY DEF Find, Goto, IInv, WritersHaveCalls, Writing
  <1>2. PICK q \in RecordCall(record[h]) : record' = [record EXCEPT ![h] = q]
    BY DEF Find
  <1>3. LateBounded'
    BY <1>1 DEF RecordsInv, LateBounded
  <1>4. ASSUME NEW p \in Plugins
        PROVE  /\ IsFiniteSet(Records(p)')
               /\ Cardinality(Records(p)') + Cardinality(Pending(p)') + Cardinality(LateCreates(p)')
                     <= Cardinality(Replicas) + abandoned'
    <2>1. Records(p)' = Records(p) /\ LateCreates(p)' = LateCreates(p)
      BY <1>1 DEF Records, RowsOf, Latest, LateCreates
    <2>2. CASE q.kind = "create" /\ q.key = p
      <3>1. Records(p) = {}
        BY <1>1, <2>2 DEF RecordCall, Records, Record
      <3>2. Cardinality(Pending(p)') \in Nat /\ Cardinality(Pending(p)') <= Cardinality(Replicas)
        <4> DEFINE f == [g \in Pending(p)' |-> ReplicaOf[g]]
        <4>1. f \in [Pending(p)' -> Replicas]
          BY PluginAssumption DEF Pending
        <4>2. \A g, k \in Pending(p)' : f[g] = f[k] => g = k
          BY DEF Pending, MutexHeldInside, Inside
        <4>3. f \in Injection(Pending(p)', Replicas)
          BY <4>1, <4>2 DEF Injection, IsInjective
        <4>4. IsFiniteSet(Pending(p)') /\ Cardinality(Pending(p)') <= Cardinality(Replicas)
          BY <4>3, FS_Injection, ReplicasFinite
        <4> QED
          BY <4>4, FS_CardinalityType
      <3>3. Cardinality(LateCreates(p)) <= abandoned
        BY LateCreatesFinite, CountTypes DEF RecordsInv, LateBounded
      <3>4. Cardinality(Records(p)') = 0 /\ IsFiniteSet(Records(p)')
        BY <2>1, <3>1, FS_EmptySet
      <3> QED
        BY <1>1, <2>1, <3>2, <3>3, <3>4, CountTypes
    <2>3. CASE ~(q.kind = "create" /\ q.key = p)
      <3>1. Pending(p)' \subseteq Pending(p)
        BY <1>1, <1>2, <2>3 DEF Pending, IInv, TypeOK
      <3>2. Cardinality(Pending(p)') \in Nat /\ Cardinality(Pending(p)') <= Cardinality(Pending(p))
        BY <3>1, Shrunk, PendingFinite DEF RecordsInv
      <3> QED
        BY <1>1, <2>1, <3>2, CountTypes DEF RecordsInv, RecordsFinite, CreatesBounded
    <2> QED
      BY <2>2, <2>3
  <1> QED
    BY <1>3, <1>4 DEF RecordsInv, RecordsFinite, CreatesBounded

\* A create that takes effect was one in the air before.
LEMMA RecordsEffect ==
    ASSUME IInv, RecordsInv, MutexHeldInside', NEW q \in Record, Effect(q),
           abandoned' = abandoned, late' \subseteq late,
           \A p \in Plugins : Pending(p)' \subseteq Pending(p),
           q.kind = "create" =>
              \/ q \in late /\ q \notin late'
              \/ Pending(q.key)' # Pending(q.key)
    PROVE  RecordsInv'
  <1>1. LateBounded'
    <2>1. IsFiniteSet(late') /\ Cardinality(late') \in Nat /\ Cardinality(late) \in Nat
          /\ Cardinality(late') <= Cardinality(late)
      BY Shrunk DEF RecordsInv, LateBounded
    <2>2. abandoned \in Nat
      BY PluginAssumption DEF IInv, TypeOK
    <2> QED
      BY <2>1, <2>2 DEF RecordsInv, LateBounded
  <1>2. ASSUME NEW p \in Plugins
        PROVE  /\ IsFiniteSet(Records(p)')
               /\ Cardinality(Records(p)') + Cardinality(Pending(p)') + Cardinality(LateCreates(p)')
                     <= Cardinality(Replicas) + abandoned'
    <2>1. /\ IsFiniteSet(Records(p)') /\ Cardinality(Records(p)') <= Cardinality(Records(p)) + 1
          /\ (q.kind # "create" \/ q.key # p) => Cardinality(Records(p)') <= Cardinality(Records(p))
      BY EffectRecords DEF RecordsInv, RecordsFinite
    <2>2. Cardinality(Records(p)') \in Nat
      BY <2>1, FS_CardinalityType
    <2>3. Pending(p)' \subseteq Pending(p) /\ LateCreates(p)' \subseteq LateCreates(p)
      BY DEF LateCreates
    <2>4. IsFiniteSet(Pending(p)) /\ IsFiniteSet(LateCreates(p))
      BY PendingFinite, LateCreatesFinite DEF RecordsInv
    <2>5. /\ Cardinality(Pending(p)') \in Nat /\ Cardinality(Pending(p)') <= Cardinality(Pending(p))
          /\ Pending(p)' # Pending(p) => Cardinality(Pending(p)') < Cardinality(Pending(p))
      BY <2>3, <2>4, Shrunk
    <2>6. /\ Cardinality(LateCreates(p)') \in Nat
          /\ Cardinality(LateCreates(p)') <= Cardinality(LateCreates(p))
          /\ LateCreates(p)' # LateCreates(p) =>
                Cardinality(LateCreates(p)') < Cardinality(LateCreates(p))
      BY <2>3, <2>4, Shrunk
    <2>7. q.kind = "create" /\ q.key = p => Pending(p)' # Pending(p) \/ LateCreates(p)' # LateCreates(p)
      BY DEF LateCreates
    <2>8. Cardinality(Records(p)) + Cardinality(Pending(p)) + Cardinality(LateCreates(p))
             <= Cardinality(Replicas) + abandoned
      BY DEF RecordsInv, CreatesBounded
    <2> QED
      BY <2>1, <2>2, <2>5, <2>6, <2>7, <2>8, CountTypes
  <1> QED
    BY <1>1, <1>2 DEF RecordsInv, RecordsFinite, CreatesBounded

LEMMA RecordsStep == IInv /\ RecordsInv /\ [Next]_vars => RecordsInv'
  <1> SUFFICES ASSUME IInv, RecordsInv, [Next]_vars PROVE RecordsInv'
    OBVIOUS
  <1>a. MutexHeldInside'
    BY MutexStep DEF RecordsInv
  <1>b. /\ pc \in [Handlers -> {"idle", "lock", "find", "await", "landed",
                                "fetch", "fetched", "scan", "confirmed"}]
        /\ record \in [Handlers -> Record \cup {None}]
    BY DEF IInv, TypeOK
  <1>1. ASSUME NEW h \in Writers, NEW p \in Plugins, SaveForUser(h, p) \/ DeleteForUser(h, p)
        PROVE  RecordsInv'
    <2>1. /\ UNCHANGED <<log, late, abandoned>> /\ pc' = [pc EXCEPT ![h] = "lock"]
          /\ record' = [record EXCEPT ![h] = record'[h]]
      BY <1>1, <1>b DEF SaveForUser, DeleteForUser, Begin, Goto, Handlers
    <2>2. \A k \in Plugins : Pending(k)' \subseteq Pending(k)
      BY <1>b, <2>1 DEF Pending
    <2> QED
      BY <1>a, <2>1, <2>2, RecordsKept
  <1>2. ASSUME NEW h \in Writers, Acquire(h) PROVE RecordsInv'
    <2>1. UNCHANGED <<log, late, abandoned, record>> /\ pc' = [pc EXCEPT ![h] = "find"]
      BY <1>2 DEF Acquire, Goto
    <2>2. \A k \in Plugins : Pending(k)' \subseteq Pending(k)
      BY <1>b, <2>1 DEF Pending
    <2> QED
      BY <1>a, <2>1, <2>2, RecordsKept
  <1>3. ASSUME NEW h \in Writers, Find(h) PROVE RecordsInv'
    BY <1>3, <1>a, RecordsFound
  <1>4. ASSUME NEW h \in Writers, Land(h) PROVE RecordsInv'
    <2>1. /\ UNCHANGED <<late, abandoned, record>> /\ pc' = [pc EXCEPT ![h] = "landed"]
          /\ pc[h] = "await" /\ Effect(record[h]) /\ h \in Handlers
      BY <1>4 DEF Land, Goto, writeVars, Handlers
    <2>2. record[h] \in Record
      BY <2>1 DEF IInv, WritersHaveCalls, Writing
    <2>3. \A k \in Plugins : Pending(k)' \subseteq Pending(k)
      BY <1>b, <2>1 DEF Pending
    <2>4. record[h].kind = "create" => Pending(record[h].key)' # Pending(record[h].key)
      <3> SUFFICES ASSUME record[h].kind = "create"
                   PROVE  h \in Pending(record[h].key) /\ h \notin Pending(record[h].key)'
        OBVIOUS
      <3> QED
        BY <1>b, <2>1 DEF Pending
    <2> QED
      BY <1>a, <2>1, <2>2, <2>3, <2>4, RecordsEffect
  <1>5. ASSUME NEW h \in Writers, Confirm(h) \/ ReturnUnwritten(h) PROVE RecordsInv'
    <2>1. /\ UNCHANGED <<log, late, abandoned>> /\ pc' = [pc EXCEPT ![h] = "idle"]
          /\ record' = [record EXCEPT ![h] = None]
      BY <1>5 DEF Confirm, ReturnUnwritten, Return, Forget, Goto
    <2>2. \A k \in Plugins : Pending(k)' \subseteq Pending(k)
      BY <1>b, <2>1 DEF Pending
    <2> QED
      BY <1>a, <2>1, <2>2, RecordsKept
  <1>6. ASSUME NEW h \in Writers, GiveUp(h) PROVE RecordsInv'
    BY <1>6, <1>a, RecordsGivenUp
  <1>7. ASSUME NEW h \in Readers, NEW p \in Plugins \cup {NoPlugin},
               Read(h, p) \/ Fetch(h) \/ Fill(h) \/ ReturnRead(h)
        PROVE  RecordsInv'
    <2>1. /\ UNCHANGED <<log, late, abandoned, record>>
          /\ pc' = [pc EXCEPT ![h] = pc'[h]] /\ pc'[h] # "await"
      BY <1>7, <1>b DEF Read, Fetch, Fetched, Fill, ReturnRead, Forget, Goto, writeVars, Handlers
    <2>2. \A k \in Plugins : Pending(k)' \subseteq Pending(k)
      BY <1>b, <2>1 DEF Pending
    <2> QED
      BY <1>a, <2>1, <2>2, RecordsKept
  <1>8. ASSUME NEW q \in late, LateLands(q) PROVE RecordsInv'
    <2>1. /\ late' = late \ {q} /\ Effect(q) /\ UNCHANGED <<abandoned, pc, record>>
          /\ q \in Record
      BY <1>8 DEF LateLands, IInv, TypeOK
    <2>2. \A k \in Plugins : Pending(k)' \subseteq Pending(k)
      BY <2>1 DEF Pending
    <2> QED
      BY <1>a, <2>1, <2>2, RecordsEffect
  <1>9. ASSUME NEW q \in late, LateLost(q) PROVE RecordsInv'
    <2>1. late' = late \ {q} /\ UNCHANGED <<log, abandoned, pc, record>>
      BY <1>9 DEF LateLost
    <2>2. \A k \in Plugins : Pending(k)' \subseteq Pending(k)
      BY <2>1 DEF Pending
    <2> QED
      BY <1>a, <2>1, <2>2, RecordsKept
  <1>10. CASE UNCHANGED vars \/ \E r \in Replicas : Expire(r)
    <2>1. UNCHANGED <<log, late, abandoned, pc, record>>
      BY <1>10 DEF Expire, vars, writeVars
    <2>2. \A k \in Plugins : Pending(k)' \subseteq Pending(k)
      BY <2>1 DEF Pending
    <2> QED
      BY <1>a, <2>1, <2>2, RecordsKept
  <1> QED
    BY <1>1, <1>2, <1>3, <1>4, <1>5, <1>6, <1>7, <1>8, <1>9, <1>10
    DEF Next, ListForUser, GetForUser, Answer, ReadFails

\* However many goroutines and replicas save and delete, a plugin has at most one
\* record for each replica, plus one for each call given up.
THEOREM RecordsPerPluginBoundedHolds == Spec => []RecordsPerPluginBounded
  <1>1. Spec => [](IInv /\ RecordsInv)
    BY InitInv, Step, RecordsInit, RecordsStep, PTL DEF Spec
  <1>2. IInv /\ RecordsInv => RecordsPerPluginBounded
    <2> SUFFICES ASSUME IInv, RecordsInv, NEW p \in Plugins
                 PROVE  Cardinality(RowsOf(Latest, p)) <= Cardinality(Replicas) + abandoned
      BY DEF RecordsPerPluginBounded
    <2>1. Cardinality(Records(p)) + Cardinality(Pending(p)) + Cardinality(LateCreates(p))
             <= Cardinality(Replicas) + abandoned
      BY DEF RecordsInv, CreatesBounded
    <2> QED
      BY <2>1, CountTypes DEF Records
  <1> QED
    BY <1>1, <1>2, PTL
====
