---- MODULE ApiServerProofs ----
(***************************************************************************)
(* The audit trail of the api processes, for any number of processes,      *)
(* goroutines, definitions, failed calls and crashes.                      *)
(***************************************************************************)
EXTENDS ApiServer, TLAPS

Busy(h) == pc[h] # "idle"
Client(c) == c.kind # "seed"

\* A running request has a number of its own, that no finished request and no
\* call left behind has.
RequestNumbers ==
    /\ \A h \in Handlers : Busy(h) =>
           /\ call[h] \in Call
           /\ call[h].kind \in Kinds
           /\ call[h].n <= calls
           /\ call[h].n \notin answered
    /\ \A g, h \in Handlers : Busy(g) /\ Busy(h) /\ g # h => call[g].n # call[h].n
LateNumbers ==
    \A c \in late : Client(c) =>
        /\ c.n <= calls
        /\ c.n \notin answered
        /\ \A h \in Handlers : Busy(h) => call[h].n # c.n
UsedNumbers ==
    /\ \A n \in answered : n <= calls
    /\ \A w \in writes : Client(w) => w.n <= calls
    /\ \A r \in Replicas : boot[r] = "put" => seeding[r] \in Call /\ ~Client(seeding[r])

\* What the writes of a running request can be.
WriteOf(h, w) ==
    /\ pc[h] # "store"
    /\ pc[h] = "stored" => w = call[h]
    /\ pc[h] \in {"append", "respond"} => Logged(w)
RunningWrites ==
    \A w \in writes : Client(w) =>
        \A h \in Handlers : Busy(h) /\ call[h].n = w.n => WriteOf(h, w)
StoredIsWritten ==
    \A h \in Handlers :
        pc[h] = "stored" /\ call[h].kind = "put.app" => call[h] \in writes
\* A handler that appends has logged the event it appends.
AppendIsLogged ==
    \A h \in Handlers : pc[h] = "append" => EventOf(h) \in stdout

IInv == /\ TypeOK /\ RequestNumbers /\ LateNumbers /\ UsedNumbers
        /\ RunningWrites /\ StoredIsWritten
        /\ AppendIsLogged /\ AcknowledgedIsLogged /\ LedgerIsLogged

USE DEF Client

\* A step that starts no append and takes nothing from the log.
LEMMA AppendKept ==
    ASSUME IInv, stdout \subseteq stdout',
           \A h \in Handlers : pc'[h] = "append" => pc[h] = "append" /\ call'[h] = call[h]
    PROVE  AppendIsLogged'
  BY DEF IInv, AppendIsLogged, EventOf

LEMMA InitInv == Init => IInv
  <1> SUFFICES ASSUME Init PROVE IInv
    OBVIOUS
  <1>1. TypeOK
    BY ApiAssumption DEF Init, TypeOK
  <1>2. \A h \in Handlers : ~Busy(h)
    BY DEF Init, Busy
  <1>3. \A r \in Replicas : boot[r] # "put"
    BY DEF Init
  <1>4. RequestNumbers /\ LateNumbers /\ UsedNumbers /\ RunningWrites /\ StoredIsWritten
    BY <1>2, <1>3
    DEF Init, RequestNumbers, LateNumbers, UsedNumbers, RunningWrites, StoredIsWritten, Busy
  <1>5. AppendIsLogged /\ AcknowledgedIsLogged /\ LedgerIsLogged
    BY DEF Init, AppendIsLogged, AcknowledgedIsLogged, LedgerIsLogged
  <1> QED
    BY <1>1, <1>4, <1>5 DEF IInv

\* The change that call c makes.
Made(c) == [c EXCEPT !.version = Stored(c)]

LEMMA EffectFacts ==
    ASSUME TypeOK, NEW c \in Call, Effect(c)
    PROVE  /\ catalog' \in [Ids -> Nat]
           /\ writes' \subseteq writes \cup {Made(c)}
           /\ writes \subseteq writes'
           /\ c.kind = "put.app" => Made(c) \in writes'
           /\ Made(c) \in Call
           /\ Made(c).n = c.n /\ Made(c).kind = c.kind /\ Made(c).id = c.id
  <1>1. c.id \in Ids /\ catalog[c.id] \in Nat
    BY DEF TypeOK, Call
  <1>2. Stored(c) \in Nat
    BY <1>1 DEF Stored
  <1>3. catalog' \in [Ids -> Nat]
    BY <1>1, <1>2 DEF Effect, TypeOK
  <1>4. /\ Made(c) \in Call
        /\ Made(c).n = c.n /\ Made(c).kind = c.kind /\ Made(c).id = c.id
    BY <1>2 DEF Made, Call
  <1>5. Changes(c) \/ c.kind # "put.app"
    BY DEF Changes
  <1> QED
    BY <1>3, <1>4, <1>5 DEF Effect, Made

\* Nothing of the invariant looks at the counts but their types.
LEMMA SeedStep ==
    ASSUME IInv, NEW r \in Replicas, SeedList(r) \/ SeedPut(r) \/ SeedFails(r)
    PROVE  IInv'
  <1>1. CASE SeedList(r)
    <2>1. calls' \in Nat /\ calls' >= calls
      BY <1>1 DEF SeedList, NewCall, counts, IInv, TypeOK
    <2>2. TypeOK'
      BY <1>1, <2>1, ApiAssumption
      DEF SeedList, NewCall, counts, tables, requests, inFlight, IInv, TypeOK, Call
    <2>3. \A q \in Replicas : boot'[q] = "put" => seeding'[q] \in Call /\ ~Client(seeding'[q])
      BY <1>1, <2>1, <2>2, ApiAssumption
      DEF SeedList, NewCall, counts, IInv, UsedNumbers, TypeOK, Call
    <2>4. UsedNumbers'
      BY <1>1, <2>1, <2>3 DEF SeedList, tables, requests, IInv, UsedNumbers, TypeOK, Call
    <2>5. RequestNumbers' /\ LateNumbers'
      BY <1>1, <2>1
      DEF SeedList, requests, inFlight, IInv, RequestNumbers, LateNumbers, TypeOK, Call, Busy
    <2>6. AppendIsLogged'
      BY <1>1, AppendKept DEF SeedList, requests
    <2> QED
      BY <1>1, <2>2, <2>4, <2>5, <2>6
      DEF SeedList, tables, requests, inFlight, IInv, RunningWrites, WriteOf, StoredIsWritten,
          AcknowledgedIsLogged, LedgerIsLogged, Logged, Busy
  <1>2. CASE SeedPut(r)
    <2> DEFINE c == seeding[r]
    <2>1. c \in Call /\ c.kind = "seed"
      BY <1>2 DEF SeedPut, IInv, UsedNumbers
    <2>2. Effect(c)
      BY <1>2 DEF SeedPut
    <2>3. /\ catalog' \in [Ids -> Nat] /\ writes' \subseteq writes \cup {Made(c)}
          /\ writes \subseteq writes' /\ Made(c) \in Call /\ Made(c).kind = "seed"
      BY <2>1, <2>2, EffectFacts DEF IInv
    <2>4. \A w \in writes' : Client(w) => w \in writes
      BY <2>3
    <2>5. TypeOK'
      BY <1>2, <2>3 DEF SeedPut, Opened, requests, inFlight, counts, IInv, TypeOK
    <2>6. UsedNumbers'
      BY <1>2, <2>4
      DEF SeedPut, Opened, requests, counts, IInv, UsedNumbers, TypeOK
    <2>7. RequestNumbers' /\ LateNumbers'
      BY <1>2
      DEF SeedPut, requests, inFlight, counts, IInv, RequestNumbers, LateNumbers, Busy
    <2>8. RunningWrites' /\ AcknowledgedIsLogged'
      BY <1>2, <2>4
      DEF SeedPut, requests, IInv, RunningWrites, WriteOf, AcknowledgedIsLogged, Logged, Busy
    <2>9. StoredIsWritten' /\ LedgerIsLogged'
      BY <1>2, <2>3
      DEF SeedPut, requests, inFlight, IInv, StoredIsWritten, LedgerIsLogged
    <2>10. AppendIsLogged'
      BY <1>2, AppendKept DEF SeedPut, requests
    <2> QED
      BY <2>5, <2>6, <2>7, <2>8, <2>9, <2>10 DEF IInv
  <1>3. CASE SeedFails(r)
    <2>1. late' \subseteq late \cup {seeding[r]}
      BY <1>3 DEF SeedFails, Abandoned
    <2>2. \A c \in late' : c \in late \/ (c \in Call /\ ~Client(c))
      BY <1>3 DEF SeedFails, Abandoned, IInv, UsedNumbers
    <2>3. faults' \in 0..MaxFaults
      BY <1>3, ApiAssumption DEF SeedFails, Fault, IInv, TypeOK
    <2>4. TypeOK'
      BY <1>3, <2>2, <2>3 DEF SeedFails, Fault, Opened, tables, requests, IInv, TypeOK
    <2>5. LateNumbers'
      BY <1>3, <2>2 DEF SeedFails, Fault, requests, IInv, LateNumbers, Busy
    <2>6. UsedNumbers' /\ RequestNumbers'
      BY <1>3
      DEF SeedFails, Fault, Opened, tables, requests, IInv, UsedNumbers, RequestNumbers, TypeOK, Busy
    <2>7. AppendIsLogged'
      BY <1>3, AppendKept DEF SeedFails, requests
    <2> QED
      BY <1>3, <2>4, <2>5, <2>6, <2>7
      DEF SeedFails, tables, requests, IInv, RunningWrites, WriteOf, StoredIsWritten,
          AcknowledgedIsLogged, LedgerIsLogged, Logged, Busy
  <1> QED
    BY <1>1, <1>2, <1>3

\* The other handlers of a step of handler h.
LEMMA GotoFacts ==
    ASSUME TypeOK, NEW h \in Handlers, NEW l, Goto(h, l),
           l \in {"idle", "store", "stored", "append", "respond"}
    PROVE  /\ pc' \in [Handlers -> {"idle", "store", "stored", "append", "respond"}]
           /\ pc'[h] = l
           /\ \A g \in Handlers : g # h => pc'[g] = pc[g]
  BY DEF Goto, TypeOK

LEMMA RequestStep ==
    ASSUME IInv, NEW h \in Handlers, NEW kind \in Kinds, NEW i \in Ids, Request(h, kind, i)
    PROVE  IInv'
  <1> DEFINE c == [n |-> calls', kind |-> kind, id |-> i, version |-> 0]
  <1>1. TypeOK
    BY DEF IInv
  <1>2. /\ pc' \in [Handlers -> {"idle", "store", "stored", "append", "respond"}]
        /\ pc'[h] = "store" /\ pc[h] = "idle"
        /\ \A g \in Handlers : g # h => pc'[g] = pc[g]
    BY <1>1, GotoFacts DEF Request
  <1>3. calls' = calls + 1 /\ calls \in Nat /\ calls' \in Nat
    BY <1>1 DEF Request, NewCall, TypeOK
  <1>4. c \in Call /\ Client(c)
    BY <1>3, ApiAssumption DEF Call
  <1>5. /\ call' \in [Handlers -> Call \cup {NoCall}] /\ call'[h] = c
        /\ \A g \in Handlers : g # h => call'[g] = call[g]
    BY <1>1, <1>4 DEF Request, TypeOK
  <1>6. TypeOK'
    BY <1>1, <1>2, <1>3, <1>5 DEF Request, NewCall, starts, tables, inFlight, TypeOK
  <1>7. \A g \in Handlers : g # h /\ Busy(g)' => call'[g].n <= calls /\ call'[g].n \in Nat
    BY <1>2, <1>5 DEF IInv, RequestNumbers, Busy, Call
  <1>8. \A n \in answered : n <= calls /\ n \in Nat
    BY <1>1 DEF IInv, UsedNumbers, TypeOK
  <1>9. c.n = calls + 1 /\ c.n \notin answered
    BY <1>3, <1>8
  <1>10. RequestNumbers'
    BY <1>2, <1>3, <1>4, <1>5, <1>7, <1>9 DEF Request, IInv, RequestNumbers, Busy
  <1>11. \A x \in late : Client(x) => x.n <= calls /\ x.n \in Nat
    BY <1>1 DEF IInv, LateNumbers, TypeOK, Call
  <1>12. LateNumbers'
    BY <1>2, <1>3, <1>5, <1>9, <1>11 DEF Request, inFlight, IInv, LateNumbers, Busy
  <1>13. \A w \in writes : Client(w) => w.n <= calls /\ w.n \in Nat
    BY <1>1 DEF IInv, UsedNumbers, TypeOK, Call
  <1>14. UsedNumbers'
    BY <1>3, <1>8, <1>13 DEF Request, starts, tables, IInv, UsedNumbers
  <1>15. RunningWrites'
    BY <1>2, <1>3, <1>5, <1>9, <1>13
    DEF Request, tables, IInv, RunningWrites, WriteOf, Logged, Busy
  <1>16. StoredIsWritten'
    BY <1>2, <1>5 DEF Request, tables, IInv, StoredIsWritten
  <1>17. AcknowledgedIsLogged' /\ LedgerIsLogged'
    BY DEF Request, tables, inFlight, IInv, AcknowledgedIsLogged, LedgerIsLogged, Logged
  <1>18. AppendIsLogged'
    BY <1>2, <1>5, AppendKept DEF Request
  <1> QED
    BY <1>6, <1>10, <1>12, <1>14, <1>15, <1>16, <1>17, <1>18 DEF IInv

LEMMA StoreLandsStep ==
    ASSUME IInv, NEW h \in Handlers, StoreLands(h)
    PROVE  IInv'
  <1> DEFINE c == call[h]
  <1>1. TypeOK /\ pc[h] = "store" /\ Busy(h)
    BY DEF IInv, StoreLands, Busy
  <1>2. c \in Call /\ c.kind \in Kinds /\ Client(c) /\ c.n <= calls /\ c.n \notin answered
    BY <1>1, ApiAssumption DEF IInv, RequestNumbers
  <1>3. /\ catalog' \in [Ids -> Nat]
        /\ writes' \subseteq writes \cup {Made(c)} /\ writes \subseteq writes'
        /\ c.kind = "put.app" => Made(c) \in writes'
        /\ Made(c) \in Call /\ Made(c).n = c.n /\ Made(c).kind = c.kind
    BY <1>1, <1>2, EffectFacts DEF StoreLands
  <1>4. /\ pc' \in [Handlers -> {"idle", "store", "stored", "append", "respond"}]
        /\ pc'[h] = "stored" /\ \A g \in Handlers : g # h => pc'[g] = pc[g]
    BY <1>1, GotoFacts DEF StoreLands
  <1>5. /\ call' \in [Handlers -> Call \cup {NoCall}] /\ call'[h] = Made(c)
        /\ \A g \in Handlers : g # h => call'[g] = call[g]
    BY <1>1, <1>3 DEF StoreLands, TypeOK, Made
  <1>6. \A g \in Handlers : Busy(g)' <=> Busy(g)
    BY <1>1, <1>4 DEF Busy
  <1>7. \A g \in Handlers : Busy(g) => call'[g].n = call[g].n
    BY <1>3, <1>5
  <1>8. TypeOK'
    BY <1>1, <1>3, <1>4, <1>5 DEF StoreLands, starts, inFlight, counts, TypeOK
  <1>9. RequestNumbers'
    BY <1>2, <1>3, <1>5, <1>6, <1>7 DEF StoreLands, counts, IInv, RequestNumbers
  <1>10. LateNumbers'
    BY <1>6, <1>7 DEF StoreLands, inFlight, counts, IInv, LateNumbers
  <1>11. UsedNumbers'
    BY <1>2, <1>3 DEF StoreLands, starts, counts, IInv, UsedNumbers
  <1>12. \A w \in writes : Client(w) => w.n # c.n
    BY <1>1 DEF IInv, RunningWrites, WriteOf
  <1>13. RunningWrites'
    <2> SUFFICES ASSUME NEW w \in writes', Client(w), NEW g \in Handlers,
                        Busy(g)', call'[g].n = w.n
                 PROVE  WriteOf(g, w)'
      BY DEF RunningWrites
    <2>1. CASE g = h
      <3>1. w = Made(c)
        BY <1>3, <1>5, <1>12, <2>1
      <3> QED
        BY <1>4, <1>5, <2>1, <3>1 DEF WriteOf
    <2>2. CASE g # h
      <3>1. call[g].n # c.n /\ call[g].n = w.n
        BY <1>1, <1>6, <1>7, <2>2 DEF IInv, RequestNumbers
      <3>2. w \in writes
        BY <1>3, <3>1
      <3>3. WriteOf(g, w)
        BY <1>6, <3>1, <3>2 DEF IInv, RunningWrites
      <3> QED
        BY <1>4, <1>5, <2>2, <3>3 DEF WriteOf, Logged, StoreLands
    <2> QED
      BY <2>1, <2>2
  <1>14. StoredIsWritten'
    BY <1>3, <1>4, <1>5 DEF IInv, StoredIsWritten
  <1>15. AcknowledgedIsLogged'
    <2> SUFFICES ASSUME NEW w \in writes', w.n \in answered, w.kind \in {"put.app", "delete.app"}
                 PROVE  Logged(w)'
      BY DEF AcknowledgedIsLogged, StoreLands
    <2>1. w \in writes
      BY <1>2, <1>3
    <2> QED
      BY <2>1 DEF IInv, AcknowledgedIsLogged, Logged, StoreLands
  <1>16. LedgerIsLogged'
    BY <1>3 DEF StoreLands, inFlight, IInv, LedgerIsLogged
  <1>17. AppendIsLogged'
    BY <1>4, <1>5, AppendKept DEF StoreLands
  <1> QED
    BY <1>8, <1>9, <1>10, <1>11, <1>13, <1>14, <1>15, <1>16, <1>17 DEF IInv

LEMMA StoreFailsStep ==
    ASSUME IInv, NEW h \in Handlers, StoreFails(h)
    PROVE  IInv'
  <1>1. TypeOK /\ Busy(h)
    BY DEF IInv, StoreFails, Busy
  <1>2. /\ pc' \in [Handlers -> {"idle", "store", "stored", "append", "respond"}]
        /\ pc'[h] = "idle" /\ \A g \in Handlers : g # h => pc'[g] = pc[g]
    BY <1>1, GotoFacts DEF StoreFails, Return
  <1>3. /\ call' \in [Handlers -> Call \cup {NoCall}]
        /\ \A g \in Handlers : g # h => call'[g] = call[g]
    BY <1>1 DEF StoreFails, Return, TypeOK
  <1>4. /\ call[h] \in Call /\ call[h].n <= calls /\ call[h].n \notin answered
        /\ \A g \in Handlers : Busy(g) /\ g # h => call[g].n # call[h].n
    BY <1>1 DEF IInv, RequestNumbers
  <1>5. late' \subseteq late \cup {call[h]}
    BY DEF StoreFails, Abandoned
  <1>6. \A g \in Handlers : Busy(g)' => Busy(g) /\ g # h
    BY <1>2 DEF Busy
  <1>7. faults' \in 0..MaxFaults
    BY <1>1, ApiAssumption DEF StoreFails, Fault, TypeOK
  <1>8. TypeOK'
    BY <1>1, <1>2, <1>3, <1>4, <1>5, <1>7 DEF StoreFails, Fault, starts, tables, TypeOK
  <1>9. RequestNumbers' /\ UsedNumbers'
    BY <1>3, <1>6
    DEF StoreFails, Fault, starts, tables, IInv, RequestNumbers, UsedNumbers
  <1>10. LateNumbers'
    BY <1>3, <1>4, <1>5, <1>6 DEF StoreFails, Fault, IInv, LateNumbers
  <1>11. RunningWrites' /\ StoredIsWritten'
    BY <1>2, <1>3, <1>6
    DEF StoreFails, tables, IInv, RunningWrites, StoredIsWritten, WriteOf, Logged
  <1>12. AcknowledgedIsLogged' /\ LedgerIsLogged'
    BY DEF StoreFails, tables, IInv, AcknowledgedIsLogged, LedgerIsLogged, Logged
  <1>13. AppendIsLogged'
    BY <1>2, <1>3, AppendKept DEF StoreFails
  <1> QED
    BY <1>8, <1>9, <1>10, <1>11, <1>12, <1>13 DEF IInv

\* The log line of a write.
LEMMA LogStep ==
    ASSUME IInv, NEW h \in Handlers, LogAudit(h)
    PROVE  IInv'
  <1> DEFINE e == EventOf(h)
  <1>1. TypeOK /\ pc[h] = "stored" /\ Busy(h) /\ call[h].kind # "generate"
    BY DEF IInv, LogAudit, Audited, Busy
  <1>2. call[h] \in Call /\ call[h].kind \in Kinds
    BY <1>1 DEF IInv, RequestNumbers
  <1>3. /\ pc' \in [Handlers -> {"idle", "store", "stored", "append", "respond"}]
        /\ pc'[h] \in {"append", "respond"}
        /\ \A g \in Handlers : g # h => pc'[g] = pc[g]
    BY <1>1, GotoFacts DEF LogAudit, NextAfterLog
  <1>4. e \in Event /\ Records(e, call[h])
    BY <1>1, <1>2 DEF EventOf, Event, Call, TypeOK, Records
  <1>5. stdout' = stdout \cup {e} /\ call' = call
    BY DEF LogAudit
  <1>6. Logged(call[h])'
    BY <1>4, <1>5 DEF Logged, Records
  <1>7. \A w : Logged(w) => Logged(w)'
    BY <1>5 DEF Logged, Records
  <1>8. \A g \in Handlers : Busy(g)' <=> Busy(g)
    BY <1>1, <1>3 DEF Busy
  <1>9. TypeOK'
    BY <1>1, <1>3, <1>4, <1>5
    DEF LogAudit, starts, tables, inFlight, counts, TypeOK
  <1>10. RequestNumbers' /\ LateNumbers' /\ UsedNumbers'
    BY <1>5, <1>8
    DEF LogAudit, starts, tables, inFlight, counts, IInv,
        RequestNumbers, LateNumbers, UsedNumbers
  <1>11. RunningWrites'
    <2> SUFFICES ASSUME NEW w \in writes, Client(w), NEW g \in Handlers,
                        Busy(g), call[g].n = w.n
                 PROVE  WriteOf(g, w)'
      BY <1>5, <1>8 DEF RunningWrites, LogAudit, tables
    <2>1. WriteOf(g, w)
      BY DEF IInv, RunningWrites
    <2>2. CASE g = h
      <3>1. w = call[h]
        BY <1>1, <2>1, <2>2 DEF WriteOf
      <3> QED
        BY <1>3, <1>6, <2>2, <3>1, <1>5 DEF WriteOf
    <2>3. CASE g # h
      BY <1>3, <1>5, <1>7, <2>1, <2>3 DEF WriteOf
    <2> QED
      BY <2>2, <2>3
  <1>12. StoredIsWritten'
    BY <1>3, <1>5 DEF LogAudit, tables, IInv, StoredIsWritten
  <1>13. AcknowledgedIsLogged'
    BY <1>7 DEF LogAudit, tables, IInv, AcknowledgedIsLogged
  <1>14. LedgerIsLogged'
    <2>1. (ledger \cup lateRows)' \subseteq stdout'
      BY <1>5 DEF LogAudit, tables, inFlight, IInv, LedgerIsLogged
    <2>2. e.kind = "put.app" => call[h] \in writes
      BY <1>1, <1>4 DEF Records, IInv, StoredIsWritten
    <2>3. \A x \in stdout' : x.kind = "put.app" => \E w \in writes' : Records(x, w)
      BY <1>4, <1>5, <2>2 DEF LogAudit, tables, IInv, LedgerIsLogged
    <2> QED
      BY <2>1, <2>3 DEF LedgerIsLogged
  <1>15. AppendIsLogged'
    <2> SUFFICES ASSUME NEW g \in Handlers, pc'[g] = "append" PROVE EventOf(g)' \in stdout'
      BY DEF AppendIsLogged
    <2>1. EventOf(g)' = EventOf(g)
      BY <1>5 DEF EventOf
    <2>2. g = h \/ EventOf(g) \in stdout
      BY <1>3 DEF IInv, AppendIsLogged
    <2> QED
      BY <1>5, <2>1, <2>2
  <1> QED
    BY <1>9, <1>10, <1>11, <1>12, <1>13, <1>14, <1>15 DEF IInv

\* The ledger row of a write.
LEMMA AppendStep ==
    ASSUME IInv, NEW h \in Handlers, AppendLands(h) \/ AppendFails(h)
    PROVE  IInv'
  <1>1. TypeOK /\ pc[h] = "append" /\ Busy(h)
    BY DEF IInv, AppendLands, AppendFails, Busy
  <1>2. /\ pc' \in [Handlers -> {"idle", "store", "stored", "append", "respond"}]
        /\ pc'[h] = "respond" /\ \A g \in Handlers : g # h => pc'[g] = pc[g]
    BY <1>1, GotoFacts DEF AppendLands, AppendFails
  <1>3. \A g \in Handlers : Busy(g)' <=> Busy(g)
    BY <1>1, <1>2 DEF Busy
  <1>4. /\ call' = call /\ writes' = writes /\ catalog' = catalog /\ answered' = answered
        /\ stdout' = stdout /\ late' = late /\ calls' = calls /\ boot' = boot
        /\ seeding' = seeding /\ persisted' = persisted /\ crashes' = crashes
    BY DEF AppendLands, AppendFails, Fault, starts, tables, inFlight, counts
  <1>5. (ledger \cup lateRows)' \subseteq stdout
    <2>1. EventOf(h) \in stdout
      BY <1>1 DEF IInv, AppendIsLogged
    <2> QED
      BY <2>1 DEF AppendLands, AppendFails, inFlight, tables, IInv, LedgerIsLogged
  <1>6. faults' \in 0..MaxFaults
    BY <1>1, ApiAssumption DEF AppendLands, AppendFails, Fault, counts, TypeOK
  <1>7. TypeOK'
    BY <1>1, <1>2, <1>4, <1>5, <1>6 DEF TypeOK
  <1>8. RequestNumbers' /\ LateNumbers' /\ UsedNumbers'
    BY <1>3, <1>4 DEF IInv, RequestNumbers, LateNumbers, UsedNumbers
  <1>9. RunningWrites' /\ StoredIsWritten'
    BY <1>1, <1>2, <1>3, <1>4
    DEF IInv, RunningWrites, WriteOf, StoredIsWritten, Logged
  <1>10. AcknowledgedIsLogged' /\ LedgerIsLogged'
    BY <1>4, <1>5 DEF IInv, AcknowledgedIsLogged, LedgerIsLogged, Logged
  <1>11. AppendIsLogged'
    BY <1>1, <1>2, <1>4, AppendKept
  <1> QED
    BY <1>7, <1>8, <1>9, <1>10, <1>11 DEF IInv

\* The answer: only now is a number answered, and its writes are logged.
LEMMA RespondStep ==
    ASSUME IInv, NEW h \in Handlers, Respond(h)
    PROVE  IInv'
  <1>1. /\ TypeOK /\ Busy(h)
        /\ pc[h] = "respond" \/ (pc[h] = "stored" /\ call[h].kind = "generate")
    BY DEF IInv, Respond, Audited, Busy
  <1>2. /\ pc' \in [Handlers -> {"idle", "store", "stored", "append", "respond"}]
        /\ pc'[h] = "idle" /\ \A g \in Handlers : g # h => pc'[g] = pc[g]
    BY <1>1, GotoFacts DEF Respond, Return
  <1>3. /\ call' \in [Handlers -> Call \cup {NoCall}]
        /\ \A g \in Handlers : g # h => call'[g] = call[g]
    BY <1>1 DEF Respond, Return, TypeOK
  <1>4. /\ call[h] \in Call /\ call[h].n <= calls
        /\ \A g \in Handlers : Busy(g) /\ g # h => call[g].n # call[h].n
        /\ \A c \in late : Client(c) => c.n # call[h].n
    BY <1>1 DEF IInv, RequestNumbers, LateNumbers
  <1>5. \A g \in Handlers : Busy(g)' => Busy(g) /\ g # h
    BY <1>2 DEF Busy
  <1>6. answered' = answered \cup {call[h].n}
    BY DEF Respond
  <1>7. TypeOK'
    BY <1>1, <1>2, <1>3, <1>4, <1>6
    DEF Respond, starts, tables, inFlight, counts, TypeOK, Call
  <1>8. RequestNumbers' /\ LateNumbers' /\ UsedNumbers'
    BY <1>3, <1>4, <1>5, <1>6
    DEF Respond, starts, tables, inFlight, counts, IInv,
        RequestNumbers, LateNumbers, UsedNumbers
  <1>9. RunningWrites' /\ StoredIsWritten'
    BY <1>2, <1>3, <1>5
    DEF Respond, tables, IInv, RunningWrites, WriteOf, StoredIsWritten, Logged
  <1>10. AcknowledgedIsLogged'
    <2> SUFFICES ASSUME NEW w \in writes, w.n \in answered', w.kind \in {"put.app", "delete.app"}
                 PROVE  Logged(w)
      BY DEF AcknowledgedIsLogged, Respond, tables, Logged
    <2>1. CASE w.n \in answered
      BY <2>1 DEF IInv, AcknowledgedIsLogged
    <2>2. CASE w.n = call[h].n
      <3>1. WriteOf(h, w)
        BY <1>1, <2>2 DEF IInv, RunningWrites
      <3> QED
        BY <1>1, <3>1 DEF WriteOf
    <2> QED
      BY <1>6, <2>1, <2>2
  <1>11. LedgerIsLogged'
    BY DEF Respond, tables, inFlight, IInv, LedgerIsLogged
  <1>12. AppendIsLogged'
    BY <1>2, <1>3, AppendKept DEF Respond
  <1> QED
    BY <1>7, <1>8, <1>9, <1>10, <1>11, <1>12 DEF IInv

\* A call that outlived its caller: no running or answered request has its number.
LEMMA LateStep ==
    ASSUME IInv, NEW c \in late, LateLands(c) \/ LateLost(c)
    PROVE  IInv'
  <1>1. TypeOK /\ c \in Call
    BY DEF IInv, TypeOK
  <1>2. /\ catalog' \in [Ids -> Nat]
        /\ writes' \subseteq writes \cup {Made(c)} /\ writes \subseteq writes'
        /\ Made(c) \in Call \/ writes' = writes
        /\ writes' = writes \/ (Made(c).n = c.n /\ Made(c).kind = c.kind)
    BY <1>1, EffectFacts DEF LateLands, LateLost, tables, TypeOK
  <1>3. /\ pc' = pc /\ call' = call /\ answered' = answered /\ stdout' = stdout
        /\ late' \subseteq late /\ lateRows' = lateRows /\ ledger' = ledger
        /\ boot' = boot /\ seeding' = seeding /\ persisted' = persisted
        /\ calls' = calls /\ faults' = faults /\ crashes' = crashes
    BY DEF LateLands, LateLost, starts, tables, requests, inFlight, counts
  <1>4. \A w \in writes' : Client(w) =>
            \/ w \in writes
            \/ /\ w.n <= calls /\ w.n \notin answered
               /\ \A h \in Handlers : Busy(h) => call[h].n # w.n
    BY <1>2 DEF IInv, LateNumbers
  <1>5. writes' \subseteq Call
    BY <1>1, <1>2 DEF TypeOK
  <1>6. TypeOK'
    BY <1>1, <1>2, <1>3, <1>5 DEF TypeOK
  <1>7. RequestNumbers' /\ LateNumbers' /\ UsedNumbers'
    BY <1>3, <1>4 DEF IInv, RequestNumbers, LateNumbers, UsedNumbers, Busy
  <1>8. RunningWrites' /\ StoredIsWritten'
    BY <1>2, <1>3, <1>4
    DEF IInv, RunningWrites, WriteOf, StoredIsWritten, Logged, Busy
  <1>9. AcknowledgedIsLogged' /\ LedgerIsLogged'
    BY <1>2, <1>3, <1>4 DEF IInv, AcknowledgedIsLogged, LedgerIsLogged, Logged
  <1>10. AppendIsLogged'
    BY <1>3, AppendKept
  <1> QED
    BY <1>6, <1>7, <1>8, <1>9, <1>10 DEF IInv

\* A row that outlived its caller.
LEMMA LateRowStep ==
    ASSUME IInv, NEW e \in lateRows, LateRowLands(e) \/ LateRowLost(e)
    PROVE  IInv'
  <1>1. /\ UNCHANGED <<persisted, starts, catalog, writes, requests, stdout, late, counts>>
        /\ (ledger \cup lateRows)' \subseteq ledger \cup lateRows
    BY DEF LateRowLands, LateRowLost, tables
  <1>2. TypeOK'
    BY <1>1 DEF starts, requests, counts, IInv, TypeOK
  <1>3. RequestNumbers' /\ LateNumbers' /\ UsedNumbers' /\ RunningWrites' /\ StoredIsWritten'
    BY <1>1
    DEF starts, requests, counts, IInv, RequestNumbers, LateNumbers, UsedNumbers,
        RunningWrites, WriteOf, StoredIsWritten, Logged, Busy
  <1>4. AcknowledgedIsLogged' /\ LedgerIsLogged'
    BY <1>1 DEF requests, IInv, AcknowledgedIsLogged, LedgerIsLogged, Logged
  <1>5. AppendIsLogged'
    BY <1>1, AppendKept DEF requests
  <1> QED
    BY <1>2, <1>3, <1>4, <1>5 DEF IInv

\* A crash: the requests of the process are over, and none was answered.
LEMMA CrashStep ==
    ASSUME IInv, NEW r \in Replicas, Crash(r)
    PROVE  IInv'
  <1>1. TypeOK
    BY DEF IInv
  <1>2. /\ pc' \in [Handlers -> {"idle", "store", "stored", "append", "respond"}]
        /\ call' \in [Handlers -> Call \cup {NoCall}]
        /\ \A h \in Handlers : ReplicaOf[h] # r => pc'[h] = pc[h] /\ call'[h] = call[h]
        /\ \A h \in Handlers : ReplicaOf[h] = r => pc'[h] = "idle"
    BY <1>1 DEF Crash, TypeOK
  <1>3. \A h \in Handlers : Busy(h)' => Busy(h) /\ ReplicaOf[h] # r
    BY <1>2 DEF Busy
  <1>4. \A c \in late' :
            \/ c \in late
            \/ c \in Call /\ ~Client(c)
            \/ \E h \in Handlers : ReplicaOf[h] = r /\ Busy(h) /\ c = call[h]
    BY DEF Crash, Abandoned, HandlersOf, IInv, UsedNumbers, Busy
  <1>5. \A h \in Handlers : Busy(h) =>
            /\ call[h] \in Call /\ call[h].n <= calls /\ call[h].n \notin answered
            /\ \A g \in Handlers : Busy(g) /\ g # h => call[g].n # call[h].n
    BY DEF IInv, RequestNumbers
  <1>6. lateRows' \subseteq stdout
    BY DEF Crash, HandlersOf, IInv, LedgerIsLogged, AppendIsLogged
  <1>7. crashes' \in 0..MaxCrashes
    BY <1>1, ApiAssumption DEF Crash, TypeOK
  <1>8. late' \subseteq Call
    BY <1>1, <1>4, <1>5 DEF TypeOK
  <1>9. /\ boot' \in [Replicas -> {"list", "put", "serving"}]
        /\ seeding' \in [Replicas -> Call \cup {NoCall}]
        /\ \A q \in Replicas : boot'[q] = "put" => boot[q] = "put" /\ seeding'[q] = seeding[q]
    BY <1>1 DEF Crash, TypeOK
  <1>10. TypeOK'
    BY <1>1, <1>2, <1>6, <1>7, <1>8, <1>9 DEF Crash, tables, TypeOK
  <1>11. RequestNumbers' /\ UsedNumbers'
    BY <1>2, <1>3, <1>9 DEF Crash, tables, IInv, RequestNumbers, UsedNumbers
  <1>12. LateNumbers'
    BY <1>2, <1>3, <1>4, <1>5 DEF Crash, IInv, LateNumbers
  <1>13. RunningWrites' /\ StoredIsWritten'
    BY <1>2, <1>3
    DEF Crash, tables, IInv, RunningWrites, WriteOf, StoredIsWritten, Logged
  <1>14. AcknowledgedIsLogged' /\ LedgerIsLogged'
    BY <1>6 DEF Crash, tables, IInv, AcknowledgedIsLogged, LedgerIsLogged, Logged
  <1>15. AppendIsLogged'
    BY <1>2, AppendKept DEF Crash
  <1> QED
    BY <1>10, <1>11, <1>12, <1>13, <1>14, <1>15 DEF IInv

LEMMA SameStep ==
    ASSUME IInv, UNCHANGED vars
    PROVE  IInv'
  <1>1. UNCHANGED <<persisted, starts, tables, requests, stdout, inFlight, counts>>
    BY DEF vars
  <1>2. TypeOK'
    BY <1>1 DEF starts, tables, requests, inFlight, counts, IInv, TypeOK
  <1>3. RequestNumbers' /\ LateNumbers' /\ UsedNumbers' /\ RunningWrites' /\ StoredIsWritten'
    BY <1>1
    DEF starts, tables, requests, inFlight, counts, IInv, RequestNumbers, LateNumbers,
        UsedNumbers, RunningWrites, WriteOf, StoredIsWritten, Logged, Busy
  <1>4. AcknowledgedIsLogged' /\ LedgerIsLogged'
    BY <1>1
    DEF tables, requests, inFlight, IInv, AcknowledgedIsLogged, LedgerIsLogged, Logged
  <1>5. AppendIsLogged'
    BY <1>1, AppendKept DEF requests
  <1> QED
    BY <1>2, <1>3, <1>4, <1>5 DEF IInv

LEMMA Step == IInv /\ [Next]_vars => IInv'
  <1> SUFFICES ASSUME IInv, [Next]_vars PROVE IInv'
    OBVIOUS
  <1>1. ASSUME NEW r \in Replicas, SeedList(r) \/ SeedPut(r) \/ SeedFails(r) \/ Crash(r)
        PROVE  IInv'
    BY <1>1, SeedStep, CrashStep
  <1>2. ASSUME NEW h \in Handlers, NEW kind \in Kinds, NEW i \in Ids, Request(h, kind, i)
        PROVE  IInv'
    BY <1>2, RequestStep
  <1>3. ASSUME NEW h \in Handlers, StoreLands(h) \/ StoreFails(h)
        PROVE  IInv'
    BY <1>3, StoreLandsStep, StoreFailsStep
  <1>4. ASSUME NEW h \in Handlers,
               LogAudit(h) \/ AppendLands(h) \/ AppendFails(h) \/ Respond(h)
        PROVE  IInv'
    BY <1>4, LogStep, AppendStep, RespondStep
  <1>5. ASSUME NEW c \in late, LateLands(c) \/ LateLost(c)
        PROVE  IInv'
    BY <1>5, LateStep
  <1>6. ASSUME NEW e \in lateRows, LateRowLands(e) \/ LateRowLost(e)
        PROVE  IInv'
    BY <1>6, LateRowStep
  <1>7. CASE UNCHANGED vars \/ \E h \in Handlers : Read(h)
    BY <1>7, SameStep DEF Read
  <1> QED
    BY <1>1, <1>2, <1>3, <1>4, <1>5, <1>6, <1>7 DEF Next

LEMMA Inductive == Spec => []IInv
  BY InitInv, Step, PTL DEF Spec

\* Every variable of the api processes has its type.
THEOREM ApiTypeCorrect == Spec => []TypeOK
  <1>1. IInv => TypeOK
    BY DEF IInv
  <1> QED
    BY Inductive, <1>1, PTL

\* A publish or delete that was answered with success is in the log with the
\* version the catalog gave it, whatever fails or crashes (handlePut, handleDelete
\* and recordAudit).
THEOREM AcknowledgedIsLoggedHolds == Spec => []AcknowledgedIsLogged
  <1>1. IInv => AcknowledgedIsLogged
    BY DEF IInv
  <1> QED
    BY Inductive, <1>1, PTL

\* The ledger never knows more than the log, and the log never more than the
\* catalog: the row and the line are built apart from the same call, so this rests
\* on recordAudit logging before it appends, and after the store answered.
THEOREM LedgerIsLoggedHolds == Spec => []LedgerIsLogged
  <1>1. IInv => LedgerIsLogged
    BY DEF IInv
  <1> QED
    BY Inductive, <1>1, PTL
====
