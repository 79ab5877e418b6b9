---- MODULE ApiServer ----
(***************************************************************************)
(* The api processes around the catalog: the seed at start-up              *)
(* (cmd/api/main.go), the handlers that change the catalog, and the audit  *)
(* event each of them records, first in the process's log and then in the  *)
(* ledger table (internal/api/server.go, internal/store/audit_bitable.go). *)
(*                                                                         *)
(* A catalog write takes effect at one instant, as DefinitionCatalog has   *)
(* it; how replicas race inside the store is BitableStore's subject.  The  *)
(* effect, its answer, the log line and the ledger row are separate steps, *)
(* and a call may take effect after its caller has stopped waiting.        *)
(* Requests refused before they reach the store change nothing.            *)
(***************************************************************************)
EXTENDS Naturals, FiniteSets

CONSTANTS
    Replicas,   \* api processes
    Handlers,   \* request goroutines
    ReplicaOf,  \* the process a goroutine runs in
    Ids,        \* definition ids
    Sample,     \* the id of the seeded definition
    Kinds,      \* the operations clients use
    NoCall,     \* the handler is idle
    MaxCalls,   \* bound: no request is made after so many
    MaxFaults,  \* bound: calls on a table that do not end well
    MaxCrashes  \* bound: processes that die

ASSUME ApiAssumption ==
    /\ ReplicaOf \in [Handlers -> Replicas]
    /\ Sample \in Ids
    /\ Kinds \subseteq {"put.app", "delete.app", "generate"}
    /\ MaxCalls \in Nat /\ MaxFaults \in Nat /\ MaxCrashes \in Nat

VARIABLES
    persisted, \* an audit table is configured
    boot,      \* boot[r]: where the start-up of replica r is
    seeding,   \* seeding[r]: the Put of its seed
    catalog,   \* catalog[i]: the version of i; 0 is absent
    writes,    \* every change of the catalog so far
    pc,        \* where handler h is
    call,      \* the call of handler h, with the version it was given
    stdout,    \* the AUDIT lines of all processes
    ledger,    \* the rows of the audit table
    late,      \* catalog calls whose caller no longer waits
    lateRows,  \* appends whose caller no longer waits
    answered,  \* calls answered with success
    calls, faults, crashes

tables    == <<catalog, writes, ledger>>
inFlight  == <<late, lateRows>>
starts    == <<boot, seeding>>
requests  == <<pc, call, answered>>
counts    == <<calls, faults, crashes>>
vars == <<persisted, starts, tables, requests, stdout, inFlight, counts>>

Call  == [n : Nat, kind : Kinds \cup {"seed"}, id : Ids, version : Nat]
Event == [n : Nat, kind : Kinds, id : Ids, version : Nat]

Serving(h) == boot[ReplicaOf[h]] = "serving"
Goto(h, label) == pc' = [pc EXCEPT ![h] = label]
Fault == faults < MaxFaults /\ faults' = faults + 1 /\ UNCHANGED <<calls, crashes>>
NewCall == calls' = calls + 1 /\ UNCHANGED <<faults, crashes>>
Return(h) == Goto(h, "idle") /\ call' = [call EXCEPT ![h] = NoCall]

----------------------------------------------------------------------------
(* The catalog                                                             *)

\* What call c makes of the catalog: the version it stores, 0 when it deletes.
Stored(c) == IF c.kind = "delete.app" THEN 0 ELSE catalog[c.id] + 1
Changes(c) == c.kind = "delete.app" => catalog[c.id] > 0
Effect(c) ==
    /\ catalog' = [catalog EXCEPT ![c.id] = Stored(c)]
    /\ writes' = IF Changes(c) THEN writes \cup {[c EXCEPT !.version = Stored(c)]}
                               ELSE writes

\* A call that its caller gave up on takes effect, or is lost.
LateLands(c) ==
    /\ late' = late \ {c}
    /\ Effect(c)
    /\ UNCHANGED <<persisted, starts, ledger, requests, stdout, lateRows, counts>>

LateLost(c) ==
    /\ late' = late \ {c}
    /\ UNCHANGED <<persisted, starts, tables, requests, stdout, lateRows, counts>>

----------------------------------------------------------------------------
(* Start-up: a List, and a Put when it was empty.  The listener opens after. *)

SeedList(r) ==
    /\ boot[r] = "list"
    /\ IF \A i \in Ids : catalog[i] = 0
         THEN /\ NewCall
              /\ seeding' = [seeding EXCEPT ![r] =
                     [n |-> calls', kind |-> "seed", id |-> Sample, version |-> 0]]
              /\ boot' = [boot EXCEPT ![r] = "put"]
         ELSE /\ boot' = [boot EXCEPT ![r] = "serving"]
              /\ UNCHANGED <<seeding, counts>>
    /\ UNCHANGED <<persisted, tables, requests, stdout, inFlight>>

Opened(r) ==
    /\ boot' = [boot EXCEPT ![r] = "serving"]
    /\ seeding' = [seeding EXCEPT ![r] = NoCall]

SeedPut(r) ==
    /\ boot[r] = "put"
    /\ Effect(seeding[r])
    /\ Opened(r)
    /\ UNCHANGED <<persisted, ledger, requests, stdout, inFlight, counts>>

\* The calls of a goroutine that stops waiting for the store.
Abandoned(waiting, c) == IF waiting THEN late \cup {c} ELSE late

\* The List or the Put failed: it is logged and start-up goes on.
SeedFails(r) ==
    /\ boot[r] \in {"list", "put"}
    /\ Fault
    /\ late' = Abandoned(boot[r] = "put", seeding[r])
    /\ Opened(r)
    /\ UNCHANGED <<persisted, tables, requests, stdout, lateRows>>

----------------------------------------------------------------------------
(* The handlers of POST and DELETE /api/apps and of generate?save=true     *)

Request(h, kind, i) ==
    /\ Serving(h)
    /\ pc[h] = "idle"
    /\ calls < MaxCalls
    /\ NewCall
    /\ call' = [call EXCEPT ![h] = [n |-> calls', kind |-> kind, id |-> i, version |-> 0]]
    /\ Goto(h, "store")
    /\ UNCHANGED <<persisted, starts, tables, answered, stdout, inFlight>>

\* GET /api/apps, /api/apps/{id} and /api/audit change nothing.
Read(h) ==
    /\ Serving(h)
    /\ pc[h] = "idle"
    /\ UNCHANGED vars

StoreLands(h) ==
    /\ pc[h] = "store"
    /\ Effect(call[h])
    /\ call' = [call EXCEPT ![h].version = Stored(call[h])]
    /\ Goto(h, "stored")
    /\ UNCHANGED <<persisted, starts, ledger, answered, stdout, inFlight, counts>>

\* The store returned an error: 500.  Its call may be on its way still, or may
\* have taken effect.
StoreFails(h) ==
    /\ pc[h] \in {"store", "stored"}
    /\ Fault
    /\ late' = Abandoned(pc[h] = "store", call[h])
    /\ Return(h)
    /\ UNCHANGED <<persisted, starts, tables, answered, stdout, lateRows>>

EventOf(h) ==
    [n |-> call[h].n, kind |-> call[h].kind, id |-> call[h].id, version |-> call[h].version]

Audited(h) == call[h].kind # "generate"
NextAfterLog == IF persisted THEN "append" ELSE "respond"

\* Mutation: the log line is left to the ledger when there is one.
LogAuditUnlessPersisted(h) ==
    /\ pc[h] = "stored"
    /\ Audited(h)
    /\ stdout' = IF persisted THEN stdout ELSE stdout \cup {EventOf(h)}
    /\ Goto(h, NextAfterLog)
    /\ UNCHANGED <<persisted, starts, tables, call, answered, inFlight, counts>>

\* Mutation: the event is written with the version of the request.
LogAuditRequested(h) ==
    /\ pc[h] = "stored"
    /\ Audited(h)
    /\ stdout' = stdout \cup {[EventOf(h) EXCEPT !.version = 0]}
    /\ Goto(h, NextAfterLog)
    /\ UNCHANGED <<persisted, starts, tables, call, answered, inFlight, counts>>

\* recordAudit: the line in the log, then the event on its way to the ledger.
LogAudit(h) ==
    /\ pc[h] = "stored"
    /\ Audited(h)
    /\ stdout' = stdout \cup {EventOf(h)}
    /\ Goto(h, NextAfterLog)
    /\ UNCHANGED <<persisted, starts, tables, call, answered, inFlight, counts>>

\* The row is built from the call, as the line was; it does not read the log.
AppendLands(h) ==
    /\ pc[h] = "append"
    /\ ledger' = ledger \cup {EventOf(h)}
    /\ Goto(h, "respond")
    /\ UNCHANGED <<persisted, starts, catalog, writes, call, answered, stdout, inFlight, counts>>

\* The append returned an error, which is logged.  Its row may still arrive.
AppendFails(h) ==
    /\ pc[h] = "append"
    /\ Fault
    /\ lateRows' = lateRows \cup {EventOf(h)}
    /\ Goto(h, "respond")
    /\ UNCHANGED <<persisted, starts, tables, call, answered, stdout, late>>

LateRowLands(e) ==
    /\ lateRows' = lateRows \ {e}
    /\ ledger' = ledger \cup {e}
    /\ UNCHANGED <<persisted, starts, catalog, writes, requests, stdout, late, counts>>

LateRowLost(e) ==
    /\ lateRows' = lateRows \ {e}
    /\ UNCHANGED <<persisted, starts, tables, requests, stdout, late, counts>>

Respond(h) ==
    /\ pc[h] = "respond" \/ (pc[h] = "stored" /\ ~Audited(h))
    /\ answered' = answered \cup {call[h].n}
    /\ Return(h)
    /\ UNCHANGED <<persisted, starts, tables, stdout, inFlight, counts>>

----------------------------------------------------------------------------

HandlersOf(r) == {h \in Handlers : ReplicaOf[h] = r}

\* A process dies and starts again; what it sent may still arrive.
Crash(r) ==
    LET waiting(label) == {h \in HandlersOf(r) : pc[h] = label} IN
    /\ crashes < MaxCrashes
    /\ crashes' = crashes + 1
    /\ late' = Abandoned(boot[r] = "put", seeding[r]) \cup {call[h] : h \in waiting("store")}
    /\ lateRows' = lateRows \cup {EventOf(h) : h \in waiting("append")}
    /\ boot' = [boot EXCEPT ![r] = "list"]
    /\ seeding' = [seeding EXCEPT ![r] = NoCall]
    /\ pc' = [h \in Handlers |-> IF ReplicaOf[h] = r THEN "idle" ELSE pc[h]]
    /\ call' = [h \in Handlers |-> IF ReplicaOf[h] = r THEN NoCall ELSE call[h]]
    /\ UNCHANGED <<persisted, tables, answered, stdout, calls, faults>>

Init ==
    /\ persisted \in BOOLEAN
    /\ boot = [r \in Replicas |-> "list"]
    /\ seeding = [r \in Replicas |-> NoCall]
    /\ catalog = [i \in Ids |-> 0]
    /\ writes = {}
    /\ pc = [h \in Handlers |-> "idle"]
    /\ call = [h \in Handlers |-> NoCall]
    /\ stdout = {}
    /\ ledger = {}
    /\ late = {}
    /\ lateRows = {}
    /\ answered = {}
    /\ calls = 0
    /\ faults = 0
    /\ crashes = 0

Next ==
    \/ \E r \in Replicas : SeedList(r) \/ SeedPut(r) \/ SeedFails(r) \/ Crash(r)
    \/ \E h \in Handlers :
          \/ \E kind \in Kinds, i \in Ids : Request(h, kind, i)
          \/ Read(h)
          \/ StoreLands(h) \/ StoreFails(h)
          \/ LogAudit(h) \/ AppendLands(h) \/ AppendFails(h)
          \/ Respond(h)
    \/ \E c \in late : LateLands(c) \/ LateLost(c)
    \/ \E e \in lateRows : LateRowLands(e) \/ LateRowLost(e)

Spec == Init /\ [][Next]_vars

----------------------------------------------------------------------------
(* Properties                                                              *)

\* Every variable has its type.
TypeOK ==
    /\ persisted \in BOOLEAN
    /\ boot \in [Replicas -> {"list", "put", "serving"}]
    /\ seeding \in [Replicas -> Call \cup {NoCall}]
    /\ catalog \in [Ids -> Nat]
    /\ pc \in [Handlers -> {"idle", "store", "stored", "append", "respond"}]
    /\ call \in [Handlers -> Call \cup {NoCall}]
    /\ writes \subseteq Call /\ late \subseteq Call
    /\ stdout \subseteq Event /\ ledger \subseteq Event /\ lateRows \subseteq Event
    /\ answered \subseteq Nat
    /\ calls \in Nat /\ faults \in 0..MaxFaults /\ crashes \in 0..MaxCrashes

\* Event e is the record of write w.
Records(e, w) == e.n = w.n /\ e.kind = w.kind /\ e.id = w.id /\ e.version = w.version
Logged(w) == \E e \in stdout : Records(e, w)

\* A publish or delete that was answered with success is in the log, with the id
\* and the version that the catalog gave it, whatever became of the ledger
\* ("Events always go to the stdout log", docs/PRODUCTION.en.md:179).
AcknowledgedIsLogged ==
    \A w \in writes :
        w.n \in answered /\ w.kind \in {"put.app", "delete.app"} => Logged(w)

\* The ledger never knows more than the log: a row, also one that arrives after
\* its process died, has its line ("the event is still in stdout", :185), and a
\* publish in the log is a write that happened, not just one that was asked for.
LedgerIsLogged ==
    /\ ledger \cup lateRows \subseteq stdout
    /\ \A e \in stdout : e.kind = "put.app" => \E w \in writes : Records(e, w)

\* "Every catalog write / delete emits an audit event" (docs/PRODUCTION.en.md:179):
\* once no request runs, each write of a client has its line.
EveryWriteAudited ==
    (\A h \in Handlers : pc[h] = "idle") =>
        \A w \in writes : w.kind # "seed" => Logged(w)
====
