---- MODULE PluginStore ----
(***************************************************************************)
(* The plugins users own, kept in a Bitable table                          *)
(* (internal/store/plugins_bitable.go) and read when a user lists his      *)
(* plugins or executes one by id.  Unlike the definition store it does not *)
(* believe a cached miss: GetForUser confirms it with a list of its own.   *)
(*                                                                         *)
(* A plugin is its key, the pair of owner and id that scanFor compares.    *)
(* log is the history of the table; a snapshot is named by its index.  A   *)
(* record is its record id and key: what was saved under the key is told   *)
(* by the snapshot.  The age of the cache is left to chance (Expire), and  *)
(* so is the expiry of contexts: any call may fail.                        *)
(***************************************************************************)
EXTENDS Naturals, FiniteSets, Sequences

CONSTANTS
    Replicas,    \* api processes
    Writers,     \* goroutines that save or delete
    Readers,     \* goroutines that list or get
    ReplicaOf,   \* the process a goroutine runs in
    Plugins,     \* keys: an owner and a plugin id
    NoHandler,   \* nobody holds mu
    NoPlugin,    \* the handler works on no plugin: it is idle, or lists
    MaxSaves,    \* bound: SaveForUser and DeleteForUser calls
    MaxAbandoned \* bound: record calls whose caller stops waiting

Handlers == Writers \cup Readers

ASSUME PluginAssumption ==
    /\ ReplicaOf \in [Handlers -> Replicas]
    /\ NoHandler \notin Handlers
    /\ NoPlugin \notin Plugins
    /\ MaxSaves \in Nat /\ MaxAbandoned \in Nat

ASSUME ReplicasFinite == IsFiniteSet(Replicas)

VARIABLES
    log,      \* the contents the table has had
    late,     \* record calls whose caller no longer waits
    mu,       \* mu[r]: who holds the write mutex of replica r
    cached,   \* cached[r]: cacheOK and younger than the TTL
    cache,    \* cache[r]: the snapshot in the cache
    cacheGen, \* cacheGen[r]: bumped by every invalidate
    pc,       \* where handler h is
    plugin,   \* the plugin h works on
    record,   \* the record call of h
    gen,      \* the cacheGen that listRaw read
    seen,     \* the snapshot h read, or the one its write made
    since,    \* the current snapshot when the read of h was called
    floor,    \* acked of the replica when the read of h was called
    acked,    \* acked[r]: the newest snapshot a completed write of r made
    saves, abandoned

cacheVars == <<cached, cache, cacheGen>>
writeVars == <<late, mu, record, acked, saves, abandoned>>
readVars  == <<gen, since, floor>>
vars == <<log, cacheVars, pc, plugin, seen, writeVars, readVars>>

Row    == [rid : 0..MaxSaves, key : Plugins]
Record == [kind : {"save", "delete", "create", "update", "remove"}, rid : 0..MaxSaves, key : Plugins]
None   == [kind |-> "none"]

Latest       == Len(log)
RowsOf(s, p) == {row \in log[s] : row.key = p}
Goto(h, label) == pc' = [pc EXCEPT ![h] = label]

----------------------------------------------------------------------------
(* SaveForUser and DeleteForUser                                           *)

Begin(h, p, kind) ==
    /\ pc[h] = "idle"
    /\ saves < MaxSaves
    /\ saves' = saves + 1
    /\ plugin' = [plugin EXCEPT ![h] = p]
    /\ record' = [record EXCEPT ![h] = [kind |-> kind, rid |-> saves', key |-> p]]
    /\ Goto(h, "lock")
    /\ UNCHANGED <<log, cacheVars, seen, late, mu, acked, abandoned, readVars>>

SaveForUser(h, p)   == Begin(h, p, "save")
DeleteForUser(h, p) == Begin(h, p, "delete")

\* Mutation: no mu.Lock.
AcquireWithoutLock(h) ==
    /\ pc[h] = "lock"
    /\ mu' = [mu EXCEPT ![ReplicaOf[h]] = h]
    /\ Goto(h, "find")
    /\ UNCHANGED <<log, cacheVars, plugin, seen, late, record, acked, saves, abandoned, readVars>>

Acquire(h) ==
    /\ pc[h] = "lock"
    /\ mu[ReplicaOf[h]] = NoHandler
    /\ mu' = [mu EXCEPT ![ReplicaOf[h]] = h]
    /\ Goto(h, "find")
    /\ UNCHANGED <<log, cacheVars, plugin, seen, late, record, acked, saves, abandoned, readVars>>

\* The record call that find's answer leads to.
RecordCall(q) ==
    IF RowsOf(Latest, q.key) = {}
      THEN {[q EXCEPT !.kind = "create"]}
      ELSE {[q EXCEPT !.kind = IF q.kind = "save" THEN "update" ELSE "remove",
                      !.rid = row.rid] : row \in RowsOf(Latest, q.key)}

Absent(q) == q.kind = "delete" /\ RowsOf(Latest, q.key) = {}

Find(h) ==
    /\ pc[h] = "find"
    /\ ~Absent(record[h])
    /\ \E q \in RecordCall(record[h]) : record' = [record EXCEPT ![h] = q]
    /\ Goto(h, "await")
    /\ UNCHANGED <<log, cacheVars, plugin, seen, late, mu, acked, saves, abandoned, readVars>>

Accepts(q) == q.kind = "create" \/ \E row \in log[Latest] : row.rid = q.rid
Effect(q) ==
    log' = Append(log, CASE q.kind = "create" -> log[Latest] \cup {[rid |-> q.rid, key |-> q.key]}
                         [] q.kind = "remove" -> {row \in log[Latest] : row.rid # q.rid}
                         [] OTHER -> log[Latest])

Land(h) ==
    /\ pc[h] = "await"
    /\ Accepts(record[h])
    /\ Effect(record[h])
    /\ seen' = [seen EXCEPT ![h] = Latest + 1]
    /\ Goto(h, "landed")
    /\ UNCHANGED <<cacheVars, plugin, writeVars, readVars>>

\* A call returns and its locals are gone.
Forget(h) ==
    /\ Goto(h, "idle")
    /\ plugin' = [plugin EXCEPT ![h] = NoPlugin]
    /\ seen' = [seen EXCEPT ![h] = 1]
    /\ gen' = [gen EXCEPT ![h] = 0]
    /\ since' = [since EXCEPT ![h] = 1]
    /\ floor' = [floor EXCEPT ![h] = 1]

\* Every return of a write passes through the deferred unlock.
Return(h) ==
    /\ Forget(h)
    /\ record' = [record EXCEPT ![h] = None]
    /\ mu' = [mu EXCEPT ![ReplicaOf[h]] = NoHandler]

\* Mutation: fills in progress are not told of the write.
InvalidateWithoutGen(r) ==
    /\ cached' = [cached EXCEPT ![r] = FALSE]
    /\ UNCHANGED <<cache, cacheGen>>

Invalidate(r) ==
    /\ cached' = [cached EXCEPT ![r] = FALSE]
    /\ cacheGen' = [cacheGen EXCEPT ![r] = @ + 1]
    /\ UNCHANGED cache

Confirm(h) ==
    LET r == ReplicaOf[h] IN
    /\ pc[h] = "landed"
    /\ Invalidate(r)
    /\ acked' = [acked EXCEPT ![r] = IF @ < seen[h] THEN seen[h] ELSE @]
    /\ Return(h)
    /\ UNCHANGED <<log, late, saves, abandoned>>

\* Nothing to delete: nil.  Or find failed, or the table refused the call.
ReturnUnwritten(h) ==
    /\ \/ pc[h] = "find"
       \/ pc[h] = "await" /\ ~Accepts(record[h])
    /\ Return(h)
    /\ UNCHANGED <<log, cacheVars, late, acked, saves, abandoned>>

\* No answer comes: an error.  The call is on its way, or took effect.
GiveUp(h) ==
    /\ pc[h] \in {"await", "landed"}
    /\ abandoned < MaxAbandoned
    /\ abandoned' = abandoned + 1
    /\ late' = IF pc[h] = "await" THEN late \cup {record[h]} ELSE late
    /\ Return(h)
    /\ UNCHANGED <<log, cacheVars, acked, saves>>

LateLands(q) ==
    /\ late' = late \ {q}
    /\ Accepts(q)
    /\ Effect(q)
    /\ UNCHANGED <<cacheVars, pc, plugin, seen, mu, record, acked, saves, abandoned, readVars>>

LateLost(q) ==
    /\ late' = late \ {q}
    /\ UNCHANGED <<log, cacheVars, pc, plugin, seen, mu, record, acked, saves, abandoned, readVars>>

----------------------------------------------------------------------------
(* ListForUser and GetForUser                                              *)

\* listRaw is called: p is the plugin looked for, NoPlugin for a list.
Read(h, p) ==
    LET r == ReplicaOf[h] IN
    /\ pc[h] = "idle"
    /\ plugin' = [plugin EXCEPT ![h] = p]
    /\ since' = [since EXCEPT ![h] = Latest]
    /\ floor' = [floor EXCEPT ![h] = acked[r]]
    /\ IF cached[r]
         THEN seen' = [seen EXCEPT ![h] = cache[r]] /\ Goto(h, "scan") /\ UNCHANGED gen
         ELSE gen' = [gen EXCEPT ![h] = cacheGen[r]] /\ Goto(h, "fetch") /\ UNCHANGED seen
    /\ UNCHANGED <<log, cacheVars, writeVars>>

ListForUser(h)   == Read(h, NoPlugin)
GetForUser(h, p) == Read(h, p)

\* A plugin is looked for, and the list that h read does not hold it.
Miss(h) == plugin[h] # NoPlugin /\ RowsOf(seen[h], plugin[h]) = {}

\* The table is about to be read: by listRaw, or to confirm a miss.
Fetching(h) == pc[h] = "fetch" \/ (pc[h] = "scan" /\ Miss(h))
Fetched(h)  == IF pc[h] = "fetch" THEN "fetched" ELSE "confirmed"

Fetch(h) ==
    /\ Fetching(h)
    /\ seen' = [seen EXCEPT ![h] = Latest]
    /\ Goto(h, Fetched(h))
    /\ UNCHANGED <<log, cacheVars, plugin, writeVars, readVars>>

\* listRaw fills the cache, unless an invalidate landed since it read cacheGen.
Fill(h) ==
    LET r == ReplicaOf[h] IN
    /\ pc[h] = "fetched"
    /\ IF cacheGen[r] = gen[h]
         THEN cached' = [cached EXCEPT ![r] = TRUE] /\ cache' = [cache EXCEPT ![r] = seen[h]]
         ELSE UNCHANGED <<cached, cache>>
    /\ Goto(h, "scan")
    /\ UNCHANGED <<log, cacheGen, plugin, seen, writeVars, readVars>>

ReturnRead(h) ==
    /\ Forget(h)
    /\ UNCHANGED <<log, cacheVars, writeVars>>

\* Mutation: a miss of the list in the cache is believed.
AnswerUnconfirmed(h) ==
    /\ pc[h] \in {"scan", "confirmed"}
    /\ ReturnRead(h)

\* The user's records, the plugin, or that there is no such plugin.
Answer(h) ==
    /\ pc[h] = "confirmed" \/ (pc[h] = "scan" /\ ~Miss(h))
    /\ ReturnRead(h)

\* A list of the table failed.
ReadFails(h) ==
    /\ Fetching(h)
    /\ ReturnRead(h)

\* The cache has reached its TTL.
Expire(r) ==
    /\ cached[r]
    /\ cached' = [cached EXCEPT ![r] = FALSE]
    /\ UNCHANGED <<log, cache, cacheGen, pc, plugin, seen, writeVars, readVars>>

Init ==
    /\ log = <<{}>>
    /\ late = {}
    /\ mu = [r \in Replicas |-> NoHandler]
    /\ cached = [r \in Replicas |-> FALSE]
    /\ cache = [r \in Replicas |-> 1]
    /\ cacheGen = [r \in Replicas |-> 0]
    /\ pc = [h \in Handlers |-> "idle"]
    /\ plugin = [h \in Handlers |-> NoPlugin]
    /\ record = [h \in Handlers |-> None]
    /\ gen = [h \in Handlers |-> 0]
    /\ seen = [h \in Handlers |-> 1]
    /\ since = [h \in Handlers |-> 1]
    /\ floor = [h \in Handlers |-> 1]
    /\ acked = [r \in Replicas |-> 1]
    /\ saves = 0
    /\ abandoned = 0

Next ==
    \/ \E h \in Writers :
          \/ \E p \in Plugins : SaveForUser(h, p) \/ DeleteForUser(h, p)
          \/ Acquire(h) \/ Find(h) \/ Land(h) \/ Confirm(h) \/ ReturnUnwritten(h) \/ GiveUp(h)
    \/ \E h \in Readers :
          \/ ListForUser(h)
          \/ \E p \in Plugins : GetForUser(h, p)
          \/ Fetch(h) \/ Fill(h) \/ Answer(h) \/ ReadFails(h)
    \/ \E q \in late : LateLands(q) \/ LateLost(q)
    \/ \E r \in Replicas : Expire(r)

Spec == Init /\ [][Next]_vars

----------------------------------------------------------------------------
(* Properties                                                              *)

\* Every variable has its type; a snapshot is a content the table has had.
Snapshot == 1..Latest
TypeOK ==
    /\ log \in Seq(SUBSET Row) /\ log # <<>>
    /\ late \subseteq Record
    /\ mu \in [Replicas -> Handlers \cup {NoHandler}]
    /\ cached \in [Replicas -> BOOLEAN]
    /\ cache \in [Replicas -> Snapshot]
    /\ cacheGen \in [Replicas -> Nat]
    /\ pc \in [Handlers -> {"idle", "lock", "find", "await", "landed",
                            "fetch", "fetched", "scan", "confirmed"}]
    /\ plugin \in [Handlers -> Plugins \cup {NoPlugin}]
    /\ record \in [Handlers -> Record \cup {None}]
    /\ gen \in [Handlers -> Nat]
    /\ seen \in [Handlers -> Snapshot]
    /\ since \in [Handlers -> Snapshot] /\ floor \in [Handlers -> Snapshot]
    /\ acked \in [Replicas -> Snapshot]
    /\ saves \in 0..MaxSaves /\ abandoned \in 0..MaxAbandoned

\* "so a just-created plugin (possibly on another replica) isn't a false 404"
\* (plugins_bitable.go:162-163): a plugin that GetForUser does not find was
\* absent from the table at some moment of the call.
MissIsTrue ==
    [][\A h \in Handlers : Answer(h) /\ Miss(h) =>
          \E s \in since[h]..Latest : RowsOf(s, plugin[h]) = {}]_vars

\* A list, and a plugin that is found, come from a content of the table no older
\* than the saves and deletes that this replica had completed when the read was
\* called, whether the cache, a fetch or the confirmation answered.
ReadsSeeOwnWrites ==
    [][\A h \in Handlers : Answer(h) => floor[h] <= seen[h]]_vars

\* Find and write are atomic per process: a plugin has at most one record for
\* each replica and each abandoned call.  DeleteForUser removes one of them.
RecordsPerPluginBounded ==
    \A p \in Plugins : Cardinality(RowsOf(Latest, p)) <= Cardinality(Replicas) + abandoned
====
