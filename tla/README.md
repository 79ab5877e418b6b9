# Verification of feishu-plugin-platform

This directory holds TLA+ models of the platform, the TLC configurations that
check them on small instances, and TLAPS proofs of the properties that matter
most for every value of the constants. It is written against the Go and
TypeScript sources of this repository; paths below are relative to its root.

Contents: [1 The system](#1-the-system) ·
[2 Modules and code](#2-modules-and-code) ·
[3 Runs](#3-runs) ·
[4 What the runs found](#4-what-the-runs-found) ·
[5 Fairness](#5-fairness) ·
[6 Proofs](#6-proofs) ·
[7 Abstractions](#7-abstractions) ·
[8 Not modelled](#8-not-modelled) ·
[9 Plan](#9-plan)

## 1 The system

The platform turns a sentence into a plugin for a Feishu multi-dimensional
table (a *Bitable*). A **generator** asks a language model for a definition in a
small DSL and validates it; the **api** keeps the definitions in a catalog,
usually itself a Bitable table; a **widget** inside Feishu renders them; an
**execute-runner** runs the HTTP steps of a field shortcut under an allowlist of
hosts and keeps a ledger of what left the building; a **publisher** drives a
browser to publish exported shortcuts.

```
 widget ──HTTP──> api ──store.Store──> Bitable table (definitions)
                   │ ├─store.PluginStore─> Bitable table (owned plugins)
                   │ ├─audit──────────────> Bitable table (audit)
                   │ ├─HTTP──> generator ──HTTP──> language model
                   │ └─HTTP──> execute-runner ──HTTP──> allowlisted hosts
                   │                 └─egress recorder──> Bitable table (egress ledger)
```

Several replicas of each process may run (`deploy/k8s`); they share nothing but
the Feishu tables, which offer no transactions and no conditional writes.

### Components

| Component | State | Operations | What is hard | What makes it correct |
|---|---|---|---|---|
| **Bitable definition store** `internal/store/bitable.go` | write mutex, List cache with its age and generation, per process; the table, shared | Put, Delete, List, Get, Ping | find and write are two network calls; a List fetches without a lock; other replicas write the same table; calls time out while their request is still on its way; processes die | a List never goes back behind the replica's own completed writes; staleness is bounded; one id, few records; no mutex leaks; in one process it *is* an atomic catalog |
| **Store interface, memory store** `internal/store/store.go` | the catalog | Put, Delete, List, Get | the version is assigned by the store | each operation is atomic, the version counts up |
| **Plugin store** `internal/store/plugins*.go` | as the definition store, keyed by owner and id | SaveForUser, ListForUser, GetForUser, DeleteForUser | a cached hit is served unconfirmed, a cached miss is confirmed by a fetch that is not cached | a miss is never false; a read is never behind the process's own completed writes; one plugin, few records |
| **Audit ledger** `internal/store/audit_bitable.go` | a table, append only | Append, List | it is a second call after the catalog write | a completed write has a record or a log line |
| **API server** `internal/api`, `cmd/api` | rate limiter buckets, readiness cache, sessions in cookies | the REST handlers, seed, forwarding to generator and runner | write and audit are two steps; readiness is cached under a mutex held over a network call; seeding races between replicas | every write is audited; readiness recovers; the limiter bounds what a client may do |
| **Login and sessions** `internal/auth` | none (signed cookie) | Sign, Verify, OAuth exchange | expiry | a session is accepted exactly until it expires |
| **Execute-runner** `cmd/execute-runner`, `internal/httpx` | semaphore, channel of events, dropped counter, stop channel | /execute, RecordEgress, worker, Drain, Run | a ledger slower than the traffic; panics; shutdown with executions in flight; `select` picking `stop` over buffered events | executions never wait for the ledger; each event is accounted for; a drained shutdown flushes everything; the process exits |
| **Execute engine** `internal/execrt/engine.go` | one pipeline | Run, per step: render, check host, request, redirect, extract | failure in mid-pipeline; redirects; header order | each attempt is recorded; hosts outside the list are never contacted; results stop at the first failure |
| **Expression evaluator** `internal/execrt/eval.go`, `value.go` | none | eval, getPath, slice, round, truthy | numeric and boundary cases that must follow JavaScript | total, and equal to the exported JavaScript |
| **Shortcut DSL** `internal/shortcut` | none | Validate, validateSteps, validateExpr, export | what validation accepts the evaluator must run | accepted definitions refer only to what exists |
| **App DSL** `internal/dsl` | none | Validate | cross references between parts | accepted definitions are renderable |
| **Generator** `internal/generator`, `cmd/generator` | conversation of one request | generate, repair, verify | the model answers anything; retries | bounded attempts; only validated results |
| **Widget** `plugin/block/src` | React state | load, enrich, aggregate, pivot, filter, sort | empty groups, missing and mixed values, limits | group totals add up; filters, sorts and limits compose in the documented order |
| **Bootstrap, shortcutgen** `cmd/bitable-bootstrap`, `cmd/shortcutgen` | none | find or create tables | re-runs | a re-run creates nothing twice |
| **Publisher, scripts, deployment** | — | browser automation, shell, YAML | — | — |
| **Plugin center, web** | — | generated examples, static pages | — | — |

`PROJECT.json` lists the same components with their state of modelling, and under
`hazards` every place where this code can go wrong in a way a test would hardly
reach, with the properties that would notice.

## 2 Modules and code

| Module | Models |
|---|---|
| `DefinitionCatalog` | the promise of `store.Store` inside one process (abstract specification) |
| `BitableStore` | `internal/store/bitable.go`: replicas, mutex, cache, network calls, timeouts, crashes |
| `BitableStoreProofs` | its theorems, the refinement of `DefinitionCatalog` by one process among them |
| `MCBitableStore` | placements of goroutines on replicas, the symmetry and the view for TLC |
| `PluginStore` | `internal/store/plugins_bitable.go` |
| `PluginStoreProofs` | its theorems |
| `MCPluginStore` | placement of goroutines and the symmetry for TLC |
| `EgressRecorder` | `cmd/execute-runner/main.go` and `internal/httpx/httpx.go` |
| `EgressRecorderProofs` | its theorems |
| `ExecuteEngine` | `internal/execrt/engine.go`, with what `Validate` of `internal/shortcut` promises it |
| `ExecuteEngineProofs` | its theorems |
| `MCExecuteEngine` | the definitions submitted to TLC |
| `ApiServer` | `cmd/api/main.go` (seed), the handlers and `recordAudit` of `internal/api/server.go`, `Append` of `internal/store/audit_bitable.go` |
| `ApiServerProofs` | its theorems |
| `MCApiServer` | placements of handlers on processes for TLC |
| `RateLimiter` | `rateLimiter` of `internal/api/server.go` |
| `Generation` | a generate request from the limiter of the api through the loops of `internal/generator` and back; EXTENDS `RateLimiter` |
| `GenerationProofs` | its theorems and those of `RateLimiter` |
| `ExprGrammar` | `validateExpr` of `internal/shortcut/expr.go`, the parser of `internal/execrt/eval.go`, and the grammar they should share |
| `ExprFunctions` | the functions, operators, conversions and paths of `internal/execrt` |
| `ExprCompiled` | the JavaScript `internal/shortcut/expr.go` emits for the same, and where the two part |
| `ExprEval`, `MCExprEval` | an author who writes expressions, calls and paths, and what both sides make of them |
| `ExprProofs` | its theorems |
| `WidgetCells` | `cellValue.ts` and `filter.ts` of the widget |
| `WidgetTiles` | `ops.ts` and what each tile of `App.tsx` shows |
| `Widget`, `MCWidget` | the load of the panel, its sections and its enrich calls, while the base is edited |
| `WidgetProofs` | its theorems |

### BitableStore

| Model | Code |
|---|---|
| `log`, `Rows` | the table at Feishu, kept with its history so that "how old is what I see" can be said. A record is its id, the definition's id and version, and the number of the write its content came from |
| `stray` | requests whose caller no longer waits: a timeout, a cancelled request or a crash does not take a request back |
| `mu`, `cacheOK`, `cacheRev`, `cacheAt`, `cacheGen` | the fields of `BitableStore`; the cached slice is named by the snapshot (index of `log`) it was read from |
| `pc`, `request`, `gen`, `seen`, `started` | program counter and locals of one request goroutine |
| `floor`, `ackRev`, `answer` | history: the newest table content a completed write of the replica made, and what Lists returned |
| `Put`, `Delete`, `Acquire`, `Release` | the calls, `mu.Lock`, the deferred `Unlock` |
| `FindForUpdate`, `FindForCreate`, `FindForDelete`, `DeleteAbsent`, `FindFails` | the outcomes of `find` and the branch taken on each |
| `Land`, `Confirm`, `Refused`, `GiveUp` | the record call reaches the table; its answer is read and the cache invalidated; its error is returned; nothing is read any more |
| `StrayLands`, `StrayLost` | a request outlives its caller |
| `ListHit`, `ListMiss`, `ListFetch`, `ListCommit`, `ListFails` | `List`: the cached answer, or generation read, fetch, conditional fill |
| `Restart`, `Tick` | a process dies and is replaced; time passes |

Every network call is a step of its own. So is the moment between a call's effect
and its answer, which is where timeouts, cancellations and crashes bite.
`Alive(h)` is the context of `derive`: an operation whose context has expired
cannot complete, it can only fail.

### DefinitionCatalog

One process, as its callers should see it: `PutTakesEffect` and
`DeleteTakesEffect` change the catalog at one instant, and a `List` returns a
state the catalog has been in, no older than the writes that had returned when
it was called. `BitableStore!ImplementsCatalog` is the refinement: the catalog's
states are the table's contents, each with the version shown for each id.

### PluginStore

| Model | Code |
|---|---|
| `Plugins` | what `scanFor` compares: an owner and an id, taken together as one key |
| `log`, `late` | as `log` and `stray` of `BitableStore` |
| `mu`, `cached`, `cache`, `cacheGen` | the fields of `BitablePluginStore`; `cached` is `cacheOK` and an age below the TTL |
| `pc`, `plugin`, `record`, `gen`, `seen` | program counter and locals of a goroutine |
| `since`, `floor`, `acked` | history: the table and the replica's completed writes at the moment a read was called |
| `SaveForUser`, `DeleteForUser`, `Acquire`, `Find`, `Land`, `Confirm`, `ReturnUnwritten`, `GiveUp` | a write: entry, `mu.Lock`, `find`, the record call, its answer, the errors |
| `ListForUser`, `GetForUser`, `Fetch`, `Fill`, `Answer`, `ReadFails` | a read: `listRaw` and what it returns; `Fetch` from `"scan"` is the confirmation of a miss (`plugins_bitable.go:164`), which fills no cache |
| `LateLands`, `LateLost`, `Expire` | a call outlives its caller; the cache reaches its TTL |

It is the protocol of `BitableStore` with one more step, and it is checked for
what that step promises. Whatever the two have in common and needs a clock or a
crash is asked of `BitableStore` only.

### EgressRecorder

| Model | Code |
|---|---|
| `sem`, `ch`, `dropped`, `stop`, `worker`, `sink` | the semaphore channel, the events channel (events are interchangeable, so its length), the atomic counter, the stop channel, the worker goroutine, whether an audit table is configured |
| `main`, `drained` | where `main()` is: serving, in `Shutdown`, in `Drain`, gone; whether `Shutdown` saw the last request end |
| `pc`, `left` | one connection: idle, decoding, running, about to record; attempts an execution may still make |
| `Accept`, `Reject`, `Execute`, `Attempt`, `Finish` | the `/execute` handler around `execrt.Run`, and its deferred functions, which a panic runs too |
| `RecordEgress`/`Offer` | the non-blocking send |
| `Take`, `ObserveStop`, `Flush`, `FlushDone`, `Appended`, `AppendFails`, `Swap` | the worker: either arm of its `select`, the flush loop, the append and the `Swap` of the counter after it |
| `Signal`, `HttpDrained`, `DrainDeadlineExceeded`, `ServeFails` | `httpx.Run` |
| `DrainReturns`, `DrainTimesOut` | `Drain` and its timeout |
| `recorded`, `appended`, `failed`, `reported` | history: events recorded, confirmed, failed, and drops logged |

### ExecuteEngine

| Model | Code |
|---|---|
| `fs`, `inputs` | a `FieldShortcut` reduced to its mode, declared inputs, allowlist, requests (host, scheme, placeholders) and result; the inputs of the call, which need not match the form |
| `i`, `bound` | the loop variable of `runSteps`; the keys of `stepRes` |
| `host`, `hops` | the URL the client is about to ask, and `len(via)` of `CheckRedirect` |
| `sent`, `events` | history: the round trips that reached a server, and the calls of `RecordEgress` |
| `Valid` | `Validate`, `validateSteps`, `validateURLTemplate`, `validatePlaceholders`, as far as execution relies on them |
| `Run`, `PrepareFails`, `Prepare` | validation; rendering, the second look at the allowlist and at the scheme, and their early returns, none of which is recorded |
| `RoundTrip`, `DialFails`, `Lost`, `Redirected`, `TimesOut` | `client.Do` with its dialer, `CheckRedirect` and the client's timeout |
| `Responds`, `BodyFails`, `Parsed` | the rest of `fetch`, and the binding of the response |
| `MapResult` | `mapResult` |

`EgressRecorder` sees an execution as at most `MaxSteps` recorded attempts; that
this is what the engine makes is `EgressBounded` here. A definition is well formed
beyond what is modelled: the rest of `Validate` (lengths, enumerations, the syntax
of names) and the checks of expressions refuse definitions without looking at
another part of them.

### ApiServer

| Model | Code |
|---|---|
| `persisted` | whether `buildAuditStore` found a table, chosen once |
| `boot`, `seeding` | where start-up is: the List of `seed`, its Put, serving |
| `catalog`, `writes` | the catalog as `DefinitionCatalog` has it: a version for each id; every change that was made, with the request that made it |
| `pc`, `call` | one request goroutine between its calls; its operation, id and the version the store gave it |
| `stdout`, `ledger` | the `AUDIT` lines of all processes; the rows of the audit table |
| `late`, `lateRows` | catalog calls and appends whose caller no longer waits |
| `answered` | requests answered with success |
| `SeedList`, `SeedPut`, `SeedFails` | `seed`, which runs before the listener opens |
| `Request`, `StoreLands`, `StoreFails`, `Respond` | `handlePut`, `handleDelete` and `handleGenerate` with `save=true` |
| `LogAudit`, `AppendLands`, `AppendFails` | `recordAudit`: the line, then the append whose error is only logged |

The effect of a write, its answer, its log line, its ledger row and the answer to
the client are separate steps, so a crash or a timeout may separate any two of
them.

### RateLimiter

| Model | Code |
|---|---|
| `perMin`, `tokens`, `last` | the fields of `rateLimiter` (`max` is `Full`) |
| `Allow`, `Refuse`, `AllowUnlimited` | the three ways `allow` returns |
| `now`, `grants` | `time.Now`, and when calls were admitted |

The mutex of `allow` covers the whole call, the reading of the clock included, so
a call is one step. `tokens` counts fractions of a token so that a tick refills a
whole number of them.

### Generation

| Model | Code |
|---|---|
| `now`, `perMin`, `tokens`, `last`, `grants` | the limiter and the clock, from `RateLimiter` |
| `settings`, `track` | which keys and commands the generator was started with; which endpoint and what kind of prompt was asked |
| `pc`, `round`, `conv`, `begun`, `asked` | one loop: its place, its round, its messages after the prompt, when its context and its pending call began |
| `result`, `answer`, `spent` | what the loop produced; the status the api answered; history: the calls to the model |
| `Reject`, `Admit`, `GiveUp`, `PassOn`, `SaveFails` | `handleGenerate` and `proxyGenerator` of `internal/api/server.go` |
| `FromTemplate`, `Disabled`, `Fallback` | the handlers of `cmd/generator/main.go`: templates, a missing key, and for a definition the keyword router of `generator.go` (`RouterOutcome`: `firstLine`, `slug` and the limits of `Validate`) |
| `FirstCall`, `NextCall`, `Exhausted`, `Echo`, `Repair`, `ModelFails`, `ModelErrs`, `ModelEmits` | the loops of `deepseek.go`, `shortcut_llm.go`, `action_llm.go` and `claude.go`: one forced call of one tool each round, its problem fed back as the answer to the call |
| `StartBuild`, `BuildEnds`, `BuildFails` | `verifyField`: a verifier that is unavailable or out of time accepts |

The loop runs on `context.Background()` with its own timeout, so `GiveUp` leaves it
running: only its result is dropped.

### ExprGrammar, ExprFunctions, ExprCompiled, ExprEval

| Model | Code |
|---|---|
| `ValidateExpr` | `validateExpr`: looks at tokens only |
| `AddSub`, `MulDiv`, `Unary`, `Primary`, `ParseCall` | `parseAddSub` to `parseCall`: each is a table over the places of the expression, of what the function returns when it starts there, with the stack it needs as `deep`. `Unary` has one such table for each depth |
| `Chained`, `Close` | the loops of `parseAddSub`, `parseMulDiv` and of the arguments; the closing parenthesis |
| `code` | what the parser evaluates, in the order in which it does |
| `Sums`, `Factors`, `Derivations` | the grammar in the comment above `evalExpr` (`eval.go:21-27`): for each span of the expression, what its derivations evaluate. The reference for the parser: with no liberties it is the comment's |
| `Liberties`, `Taken` | the three ways in which `parseUnary`, `parsePrimary` and `parseCall` go beyond that comment, each by name; and those an expression has room for |
| `GoFn`, `ToStr`, `ToNum`, `Truthy`, `Slice`, `RoundTo`, `GetPath` | `exprFns` and its helpers, `toStr`, `toNum`, `truthy`, `jsSlice`, `roundTo`, `getPath` |
| `ParseFloat`, `GoBlanks` | what `toNum` reads in a text (`value.go:91-99`): `strings.TrimSpace`, `strconv.ParseFloat` |
| `JsFn`, `JsPath` | `exprHelperDefs` and `transformSeg` |
| `JsString`, `JsNumber`, `JsBlanks`, `JsUpper`, `JsLower`, `JsToFixed`, `Units` | the JavaScript built-ins those use, external and written from the language's definition. The two sides share what a decimal numeral is (`IsDecimal`, `DecimalValue`) and how an ordinary number is written (`Decimal`), and nothing else of their conversions |
| `Divergences`, `PathContract` | the inputs on which the two part, each by name |

The machine is a parameter: the conversion of a float outside the range of an int
differs between amd64 and arm64.

### WidgetCells, WidgetTiles, Widget

| Model | Code |
|---|---|
| the cell shapes, `ToNumber`, `ToLabel`, `ToDate` | the values the SDK returns, `cellValue.ts` |
| `RhsNum`, `RhsStr`, `RhsDate`, `CondMatches`, `Parses`, `ApplyFilter` | `filter.ts`, from the split condition on |
| `Aggregate`, `GroupAggregate`, `Pivot`, `SortLimit`, `ResolveColumns` | `ops.ts` |
| `StatTile` ... `CalendarTile` | the tiles of `App.tsx`: which records, which numbers, which cut |
| `base`, `active` | the host's tables and which is open; they change while the panel loads |
| `CurrentTable`, `FetchDefinitions`, `OpenTable`, `ListRecords`, `ReadCell`, `CellFails` | `load` of `App.tsx`, `api.ts` and `readHostData` of `bitableData.ts`, one step for each await |
| `Section`, `Render`, `Drawn` | the sections with their `ErrorBoundary`; the enrich tiles begin to load |
| `ExecuteAnswers`, `ExecuteFails`, `Gather` | `EnrichTile`: its calls settle one by one (`calls`), and `Promise.all` ends when the last has, which puts all the rows into `tiles` at once |
| `FilterByTable` | of `internal/store/store.go`, which answers `?tableId=` |
| `held` | history: what each cell has held since the list of records was read |

Operators whose comment starts with *Mutation* are not part of any
specification. Each is a definition with one plausible mistake; replacing the
right one by it makes TLC violate the property it is listed with in
`PROJECT.json`, which shows that the property depends on that line of the code.

## 3 Runs

| Run | Configuration | Question |
|---|---|---|
| `local` | one replica, two goroutines, two ids, three writes, fair scheduling | Is one process, whatever its goroutines do, an atomic catalog (`ImplementsCatalog`)? Does a List ever go behind the process's own writes (`CacheReflectsAcks`)? Does an id get two records (`RowsPerIdBounded`), a deleted definition come back from the cache (`DeleteIsReflected`)? Is the write mutex held just while its goroutine is inside (`MutexHeldInside`), and does every operation return (`OperationsReturn`)? |
| `clock` | two replicas, a goroutine each, TTL 1, timeout 2, three writes, two abandoned, clock to 4, one crash | How old can what a List shows be, with another replica writing and late requests landing (`BoundedStaleness`)? |
| `plugins` | two replicas, three writers, a reader, one plugin, three writes, one abandoned | Can a plugin be reported absent that was there all along (`MissIsTrue`)? Can a read be older than what its process had completed (`ReadsSeeOwnWrites`)? How many records can one plugin have (`RecordsPerPluginBounded`)? |
| `egress` | three handlers, two slots, a channel of two, four requests | Is a slot taken for each execution and for nothing else (`SlotsHeld`)? Is each event accounted for (`EventsAccounted`), is the flush complete (`FlushIsComplete`)? Do requests and the shutdown end even when the ledger stands still (`RequestsEnd`, `ShutdownEnds`)? If it does not, is every drop logged (`DropsGetReported`)? |
| `engine` | pipelines of one to three steps against a limit of two, single requests, computations; three hosts, an input, three step ids; servers that do anything | Do requests reach only allowlisted hosts (`ContactsAllowlisted`), is each in the ledger (`LedgerComplete`), does anything follow a failure (`StopsAtFailure`)? Can an accepted pipeline miss a response it names (`PipelineResolves`)? How much can one execution send (`EgressBounded`), and does it return when servers are silent (`RunReturns`)? |
| `api` | two processes, a handler each, two ids, an audit table or none, at most three calls (seeds included) before the last request, one fault, one crash | Is an acknowledged write always in the log, with the version the catalog has (`AcknowledgedIsLogged`)? Is every row of the ledger, late ones included, in the log (`LedgerIsLogged`)? |
| `expr` | every expression of up to six tokens of two vocabularies; every call with up to three arguments of 39; every path of up to three segments into twelve values | Does the parser accept what the commented grammar derives, and beyond it just what the liberties add, and evaluate it in the order of the derivation (`ParsesGrammar`)? Is its stack bounded whatever is written (`StackBounded`)? Does what validation passes run (`ValidatedRuns`)? Do interpreter and compiled program agree outside the named divergences (`AgreesWithCompiled`)? Does anything panic (`NeverPanics`)? |
| `generate` | two requests for a definition (of a prompt whose slug fits an id, or does not), a template or a field, limits 0 and 1, a minute of 2 ticks, one repair, call, api and loop timeouts 1, 2, 3, clock to 3 | How much can the limiter admit (`RateBounded`), and can polling keep it shut (`RefusalsAreBrief`)? Is every conversation one the model accepts (`ConversationAnswered`)? How often is the model called (`SpendBounded`)? Is 200 only answered with what validated (`AnswersSound`)? Does every loop end and every request get an answer (`GenerationEnds`)? |
| `widget` | two tables, three listed records and one that may be inserted, six definitions, 36 bases, one change of the base or of the open table at any moment of the load | Does a shown panel show the table it is bound to, row by row (`LoadIsFaithful`)? Do the tiles agree with each other (`SummariesAgree`), and filters with what they say (`FiltersPartition`)? Does a failure stay where it happens (`FailuresIsolated`)? Does the panel settle (`PanelSettles`)? |
| `delete`, `api_generate`, `generate_nl` | small | the divergences of section 4 |

**Bounds.** `MaxWrites`, `MaxSaves`, `MaxAbandoned`, `MaxRestarts`, `MaxTime`,
`MaxRequests`, `MaxCalls`, `MaxFaults`, `MaxCrashes`, `MaxChanges`, `MaxTokens` and `MaxSegments` count things that are
unbounded in the program; nothing but the guards that stop counting refers to
them. Two goroutines in a process, or three in two, are enough for the shapes
that matter: a List whose fetch spans another goroutine's write, a writer waiting
on the mutex behind a writer, a third that writes from another process meanwhile.
Three writes allow create, update, delete and re-create of an id. One abandoned
write suffices for a late request to meet a retry; `clock` has two, because with
fewer both goroutines could be left waiting for answers they have no time to read. With a timeout
of two units, time passes inside a fetch that succeeds, and what it fills is that much
older than the cache's age; a clock beyond the sum of TTL and timeout lets a cache that is
filled too late be as old as the bound excludes. (A TTL of two, checked
as well, more than doubles the run; the theorem is for any.) In the
runs with `MaxTime = 0` no time passes: the timeouts then come only through
`GiveUp`, `FindFails` and `ListFails`, which need no clock, and a cache entry
lives as long as the code lets it, which is the worst case for everything those
runs ask. A channel of two events with three handlers makes every combination of
full, partly filled, empty and "filled between two looks" occur.

In `engine` a pipeline may be longer than the limit, name itself, a later step or
an unknown one, repeat an id, and lie outside its allowlist; a redirect may lead
to any host, or to no host, at any hop. Two steps suffice for "an earlier one
succeeded", and a limit of two with three steps for a limit that bites.

In `plugins` the reader lives with two writers, so a cached list can be made
stale by the own process and, through the third writer, by another one between a
read's call, its fetch and its confirmation; a read that begins before a write and
ends after it is among them. In `api`, two requests next to a seed, or three
without, and one crash let a process die between any two steps of a write while
the other process writes the same id, and its late call and late row arrive in
either order.

In `generate` the three timeouts stand in the order of the code (45 s, 60 s,
120 s). A clock to 3 lets a loop outlive its caller's wait and use its own up; a
minute of two ticks with a limit of one lets the bucket empty, refill and be polled
meanwhile. Refused calls are not bounded. Two requests let a loop whose caller gave
up run next to the request that was admitted after it, which is what makes the
spending of one stretch of time differ from what was admitted in it. Longer
stretches are the theorems', `RateBoundedHolds` and `SpendBoundedHolds`.

In `expr` a depth limit of two is met and exceeded within six tokens by every
way to nest (parentheses, arguments, minuses), the vocabularies let every liberty be
taken, and one has names that are undeclared, not called, or called without being
functions. The arguments hold each
type, both infinities and NaN, an absent and a null value, fractions that tie when
rounded, negative and too large counts, -0, blank, numeric and wide texts, arrays, and
texts that only one side reads as a number (signs, exponents, underscores, prefixes,
spellings of infinity, blanks, numerals too large). Numbers are below, between and above
the thresholds of an exponent.
The largest int is 511, so that one index, and the sum of two, is beyond it.

In `widget` a table has every shape of cell the SDK returns, blanks, a text
that reads as a number, one that reads as a date, and an undefined entry in the list
of records. Every cap is one or two, below the number of records. One change per
load suffices to separate any two awaits; a second would repeat the first. All
filters of one condition, and the union and intersection of any two, are asked at
every set of records that a load can end with.

**Symmetry** is used in `plugins` (`MCPluginStore`): goroutines of one kind and one
process are interchangeable; and in `clock` (`MCBitableStore`): two processes with a
goroutine each may change places. No run that checks liveness uses it. `clock` also
identifies states by a view, `Essential`. It leaves out what neither a later step nor
`BoundedStaleness` reads: the history variables, versions and bodies of rows and
requests, what an expired cache holds, what a generation counts (only whether it is
still the current one matters), and of a snapshot everything but the time since which it
is behind.

`CHECK_DEADLOCK FALSE` stands where the system stops: the process exits
(`EgressRecorder`), an execution has returned (`ExecuteEngine`), all requests are
answered and the clock is at its bound (`Generation`), the panel is shown and
no tile loads (`Widget`), the author has written as much as the bound allows
(`ExprEval`). The other modules always have a next step, because a List, a read or a
call can always be made.

## 4 What the runs found

Three statements in comments and documentation say more than the code does.

1. **`delete`** — `bitable.go:44` says that writes of the same replica are reflected
   immediately. A delete that took effect but lost its answer does not
   invalidate, and neither does its retry, which finds nothing and returns
   success (`bitable.go:183-185`). With no abandoned writes the property holds (run
   `local`).
2. **`api_generate`** — `docs/PRODUCTION.en.md:179` says that every catalog write emits
   an audit event. `generate?save=true` writes through the same store and records
   nothing (`server.go:341-347`). What holds of publishes and deletes is
   `AcknowledgedIsLogged`, checked and proved.
3. **`generate_nl`** — `docs/PRODUCTION.en.md:115` says that without the model generation
   falls back to keyword routing without interrupting the service. The router
   names the definition after the first line of the prompt and makes its id of what
   `slug` keeps of that line (`generator.go:161-171`); `Validate` refuses a name of more
   than 256 bytes and an id of more than 128 characters, "app-" included. So a prompt
   with a first line of some 125 ASCII characters, or of 86 Chinese ones, is answered
   422. What holds is `AnswersSound`: the router's definition is refused for no other
   prompt.

More came up while reading, are plain from the code and have no run.

- `bitable.go:33-34` and `:43-44` and `docs/PRODUCTION.en.md:117` promise that other
  replicas' writes show up within the cache TTL. The age of a cache entry is
  counted from the moment the fetch is *committed* (`bitable.go:123`), not from the
  moment the table was read, so a slow fetch adds its own duration. What holds is
  TTL plus the timeout of the fetch, `BoundedStaleness`, checked and proved.
- `cmd/execute-runner/main.go:68-69` says that HTTP is fully drained when the recorder
  is flushed. `httpx.Run` also returns when its deadline passed with requests in
  flight, and when the listener failed. The events of those executions can miss
  the flush. With HTTP really drained the flush is complete, `FlushIsComplete`,
  checked and proved.
- The comment of `Put` (`bitable.go:138-141`) says that concurrent Puts of one process
  do not create duplicate rows. They do not as long as every call is answered; a
  create that times out can land after its retry found nothing. What holds is one
  record per replica, per abandoned write and per crash, `RowsPerIdBounded`.
- `server.go:43` and `docs/PRODUCTION.en.md:60` call the limiter a cap per minute; the
  bucket, which starts full, admits up to twice that in one (`RateBounded` is the
  bound that holds).
- `cmd/api/main.go:182-184` says the sample is inserted only into an empty store; the
  List and the Put that do so are two calls.
- `audit_bitable.go:33` says newest first; it keeps whole seconds
  (`audit_bitable.go:92`) in a sort that is not stable.
- `engine.go:376-377` says that placeholders resolve as the compiler resolves them. Outside
  of pipelines the compiler leaves `{a.b}` as text (`expr.go:26`), the engine refuses
  it: a definition with such text in a result template or in a single request
  passes validation and fails when it runs. In the steps of a pipeline the two
  agree, `PipelineResolves`. A value that embeds `{key}` in other text is a literal
  to `dsl.go:131-139` and a template to the engine.
- `engine.go:165` calls `maxRedirects` a cap on redirect hops. `via` counts the first
  request too, so two redirects are followed (`EgressBounded`).
- `docs/EXECUTE_RUNTIME.en.md:186` says that blocks by the domain allowlist are recorded
  as errors. Those of redirects are (`LedgerComplete`); a definition or a URL refused
  before its request leaves no record, and the ledger names the host a fetch began
  with, not the one a redirect led to.
- The loops of the generator run for up to 120 s on a context of their own, while
  the api answers 502 after 60 s (`shortcut_llm.go:201`): a caller who retries pays
  for two loops. `SpendBounded` is the bound that holds.
- A verifier that cannot run or does not finish accepts (`verifyField`): with a
  verifier configured, a field may still be answered 200 unbuilt.
- `eval.go:16-17` says the interpreter has the same grammar and the same functions as the
  compiled JavaScript. `Divergences` names the 21 inputs on which their functions differ:
  - values that have no text or number in one of them: absent and null values read as text
    (`absentText`), null read as a number (`nullNumber`), lists and objects (`composite`);
  - numbers written as text: infinities (`infiniteText`, `+Inf` against `Infinity`), -0
    (`minusZeroText`, `-0` against `0`), and numbers from 10^21 on or below 10^-6, which
    JavaScript gives an exponent and `value.go:64` never (`exponentText`: `1e+21` against
    `1000000000000000000000`);
  - texts read as numbers (`value.go:95` against `Number`): `0x10` (`prefixed`), `inf`
    (`spelledInf`), `1_0` (`underscored`), `1e999` (`huge`: not a number here, infinite
    there);
  - characters: the blanks one side trims only, U+0085 and U+FEFF (`blanks`), letters whose
    other case is two letters (`casing`), those outside the basic plane in lengths and slices
    (`wide`);
  - arguments: an empty search text of `replace` (`emptyPattern`), digits of `round` outside
    0 to 100 (`digits`), `round(-0)` (`minusZero`), infinite indices (`infiniteIndex`) and
    those, or their sum, that no int holds (`overflow`: `substr(s, 1, 9999999999999999999)`
    is empty in Go and the rest of the text in JavaScript; the proof was needed to notice
    it), fractional or missing lengths of `substr` (`fractional`, `nanIndex`), `min` and `max`
    of an infinity with a NaN (`infiniteNaN`).

  Elsewhere they agree, `AgreesWithCompiled`, over the values and characters of the model
  (section 7). Each name is needed: without any one of them run `expr` finds a call on
  which the two differ. Steps of a path into a text, `length`, and `in.a.b` of an absent
  `in.a` differ too (`PathContract`).
- The parser accepts more than the grammar of `eval.go:21-27`, in three ways (`Liberties`).
  It passes over arguments of `rand`, which the grammar and the comment at `eval.go:257`
  have as the atom `rand()`: the compiler replaces only that (`expr.go:128`), so the exported
  program of `rand(1)` calls a function nobody defines. Validation lets it pass beside a
  real `rand()` (`expr.go:83`). It compares the text of a token only, so the string literal
  `')'` closes a parenthesis (`eval.go:217`, `:253`). And it takes several minuses, where the
  grammar has `'-'?`; `--1`, without a blank, is no expression of JavaScript. Without the
  three it accepts exactly the grammar's expressions, `ParsesGrammar`.
- `expr.go:83` looks for `rand` anywhere: `res.brand` is refused unless the expression has a
  `rand()` too. And a numeral no float64 holds passes validation and fails when it runs
  (`eval.go:202-205`).
- `round` with more than 308 digits panics (`eval.go:416-421`). The handler recovers
  (`cmd/execute-runner/main.go:122`), so it is a 500 and not the error `eval.go:18`
  speaks of. `NeverPanics` shows that nothing else does.
- `eval.go:111` counts 4 stack frames for each level of nesting. A call has a fifth,
  `parseCall`; `StackBounded` is the bound that holds.
- `= TODAY` and `day(x) = TODAY` match no record and raise no warning, since `TODAY` has
  no number and no label (`filter.ts:57-72`, `:89-100`, `:114-121`), although
  `filter.ts:10` and `docs/ROADMAP.en.md:40` list it. A date literal on a date column
  likewise works with `>=` and not with `=`.
- The empty text and a person cell read as the number 0 (`cellValue.ts`), so they
  count in `sum`, `min` and `avg`. An empty text and an empty cell are two labels, so
  two groups of a chart.
- An enrich tile ignores its component's filter (`App.tsx:599-631`); the widget's calls
  have no timeout of their own; a definition bound to `current` is never among those
  listed by table; a shown panel is not read again after an edit; its cells come
  from different moments, though each row is one record's (`LoadIsFaithful`).

## 5 Fairness

`BitableStore!Fairness`: weak fairness of the steps of each operation, because a
goroutine that can run is run, and every network call ends, if only by the
timeout of its context (`derive`). Strong fairness of `Acquire`, because the
mutex is free and taken in turns, and Go's `sync.Mutex` enters starvation mode
after a waiter has waited for one millisecond and then hands the lock over. None
for `Put`, `Delete`, `ListMiss`, `Restart` or for requests in the network: nobody
has to call, and a lost request is allowed.

`EgressRecorder!FairSpec`: weak fairness of the handlers (the server's read and
write timeouts and the engine's own bound bodies and executions) and of what
`main` waits for (`Shutdown` and `Drain` both have deadlines). None for the
worker: `RequestsEnd` and `ShutdownEnds` hold although the ledger may stand still
for ever. `DropsGetReported` says in its own statement what it needs, weak
fairness of the worker, whose append has a timeout of its own; behaviours with
and without it are in the same run.

`ExecuteEngine!Spec`: weak fairness of what the engine does by itself, its client's
timeout included, which covers a fetch from the first dial to the end of the body.
None for servers and network.

`Generation!FairGenSpec`: weak fairness of one action, "some loop or some api handler
that can go on does". Each is a goroutine of its own that waits for nobody; the
model's answers and builds are under it because their clients and contexts have
timeouts, and both outcomes of a timeout are always possible. None for new
requests, and none for the clock.

`Widget!Spec`: weak fairness of the load, of settling calls and of the continuation of
a `Promise.all` whose calls have settled. Calls to the host and to the platform settle: the
SDK answers or rejects, and the platform's servers have write timeouts. None for people who edit.

## 6 Proofs

`tlapm` checks every leaf of the eight `...Proofs` modules. The assumptions are
`ReplicaAssumption`, `NumberAssumption`, `PluginAssumption`, `ReplicasFinite`,
`EgressAssumption`, `ApiAssumption`, `LimitAssumption`, `GenerationAssumption`,
`EngineAssumption`, `StringsAssumption`, `TilesAssumption`, `WidgetAssumption`,
`GrammarAssumption`, `FunctionsAssumption` and `EvalAssumption`: finitely many replicas and handlers, each goroutine in one replica, counts that are natural numbers, a semaphore and a channel with at least
one place, limits that are integers and a minute that has at least one tick. Replicas, ids, writes, timeouts, channel sizes,
definitions, hosts, requests, repairs and the limits on steps and redirects are arbitrary.
Of the widget it is assumed that a table has an index column, that no column has the empty
name, that a view lists no deleted record, that the empty string is text and no date, and that
`Scale` is even. Its strings, numerals, calendar, bases, views, catalog, caps and edits are
arbitrary, and there may be any number of tables, records and columns.
Of expressions it is assumed that the kinds of tokens are disjoint and a name is a function, an
input or a response and not two of them; that texts are made of characters that include
digits and the words conversions write; that an int holds 127, as every int of Go does, and the
length of every argument; that a float64 holds 10^100; and that a step into a response leads to
another response or input value. Tokens, names, nesting bound, lengths, arguments,
responses and machines are arbitrary.
`DeleteIsReflectedHolds` and `CatalogImplemented` assume `OneProcess` besides: one replica,
no abandoned write, no restart. `DeleteIsReflected` is false without it: in run `delete` a Delete takes effect and loses
its answer, and the retry, which finds nothing, leaves the cache as it is (section 4).
So is the refinement: another replica's writes are not seen by a cache that is
younger than its TTL.

| Theorem | Says | Argument |
|---|---|---|
| `TypeCorrect` | `[]TypeOK` | inductive together with "a snapshot is an index of the history" and "a write in flight is a record call"; the history only grows, so indices stay valid |
| `MutexCorrect` | `[]MutexHeldInside` | inductive as it stands, given the types: each return passes `Release` |
| `CacheReflectsAcksHolds` | `[]CacheReflectsAcks` | not inductive: strengthened by "as long as `cacheGen` is what a List read before it fetched, what it fetched is no older than the completed writes", which is the reason for the generation check |
| `BoundedStalenessHolds` | `[]BoundedStaleness` | strengthened by the ages of fetches in progress: what a List holds was current when its context was derived or later, and a commit happens before the context expires |
| `RowsPerIdBoundedHolds` | `[]RowsPerIdBounded` | a counting argument: records of an id, plus creates of it on the way, plus creates of it in the network are together at most replicas + abandoned + crashes. A `find` that found nothing pays for the create it sends with the replica's mutex; giving up or crashing moves that create into the network and is itself counted |
| `DeleteIsReflectedHolds` | `DeleteIsReflected` | in one process an id has one record, so the Delete that found it removed the definition; the rest is the argument of `CacheReflectsAcks` |
| `CatalogImplemented` | `ImplementsCatalog` | the record call is the point where a Put or a Delete takes effect. That it finds the table as `find` left it (`FoundIsTrue`) follows from the mutex; that the record it creates has a number of its own (`Numbered`) from the order the writes began in; a List's floor is below what it fetched (`ListInv`). Each step then maps to a step of `DefinitionCatalog` or to a stutter |
| `EgressTypeCorrect` | `[]TypeOK` of `EgressRecorder` | inductive with the slot count of the next row |
| `SlotsHeldHolds` | `[]SlotsHeld` | inductive with the types: the slots taken are the executions running, which a handler's deferred release keeps |
| `EventsAccountedHolds` | `[]EventsAccounted` | inductive given the types |
| `FlushIsCompleteHolds` | `[]FlushIsComplete` | strengthened by: a drop that is not yet logged has an event in the channel or in the worker's hands behind it, so that a `Swap` still follows; `stop` closes before the worker flushes; once HTTP is drained no handler runs |
| `EngineTypeCorrect` | `[]TypeOK` of `ExecuteEngine` | with the invariant of the next five rows (`IInv`), which ties the position in the pipeline to what was bound, recorded and sent |
| `ContactsAllowlistedHolds` | `[]ContactsAllowlisted` | strengthened by "before a round trip the host at hand is listed" |
| `LedgerCompleteHolds` | `[]LedgerComplete` | strengthened by "the m-th event is that of the m-th request" and the number of events at each position |
| `StopsAtFailureHolds` | `[]StopsAtFailure` | an error event is the last, and the execution has returned; what was sent belongs to requests whose predecessors are bound |
| `PipelineResolvesHolds` | `[]PipelineResolves` | while request i is rendered exactly 1..i-1 are bound, which are the steps validation looked up |
| `EgressBoundedHolds` | `[]EgressBounded` | finished fetches sent at most `maxRedirects` each, the current one `hops`; a definition that was refused sent nothing |
| `PluginTypeCorrect` | `[]TypeOK` of `PluginStore` | inductive with the facts below and "a goroutine inside a write has a record call" |
| `MissIsTrueHolds` | `MissIsTrue` | strengthened by: a confirmation read a content no older than the call (`ReadIsFresh`). A miss is answered only from a confirmation |
| `ReadsSeeOwnWritesHolds` | `ReadsSeeOwnWrites` | strengthened by the argument of `CacheReflectsAcks` (`CacheIsFresh`) and by "what a read holds is no older than the completed writes at its call" |
| `RecordsPerPluginBoundedHolds` | `[]RecordsPerPluginBounded` | the counting argument of `RowsPerIdBounded`: records of a plugin and creates that may still come |
| `LimiterTypeCorrect` | `[]TypeOK` of `RateLimiter` | inductive as it stands |
| `RateBoundedHolds` | `[]RateBounded` | not inductive: strengthened by "since the k-th admission, what was admitted and what the bucket holds are together at most a full bucket and what has flowed in since" (`Budget`) |
| `RefusalsAreBriefHolds` | `RefusalsAreBrief` | strengthened by "after an admission the bucket holds at least what has flowed in since, or is full" (`Fresh`) |
| `GenerationTypeCorrect` | `[]GenTypeOK` | inductive with "a request has no result before its handler is done"; the limiter's part comes from `LimiterTypeCorrect`, since every step of `Generation` is one of `RateLimiter` or leaves it alone |
| `AnswersSoundHolds` | `AnswersSound` | each outcome of a loop for a definition goes through the router, whose definition is valid when first line and slug fit (`RouterOutcome`), and `Reply` passes on what the handler left |
| `ConversationAnsweredHolds` | `[]ConversationAnswered` | a conversation stays answered when a turn of one call and the answer to it are put behind it (`EchoAnswered`) |
| `SpendBoundedHolds` | `[]SpendBounded` | not inductive: strengthened by "call k was made in a round of a request admitted no longer than `LoopTimeout` before, and no two calls share request and round" (`Owned`). The calls of a stretch of time then inject into the requests admitted around it times the rounds of a loop, by the pigeonhole theorem |
| `ApiTypeCorrect` | `[]TypeOK` of `ApiServer` | inductive with "a handler inside a request has a call, and so has a seed before its Put" |
| `AcknowledgedIsLoggedHolds` | `[]AcknowledgedIsLogged` | strengthened by: request numbers are unique among running, late and answered calls, so an answered number has no write that is still to come; a write of a running request has the version the request carries; past the log the line is there |
| `LedgerIsLoggedHolds` | `[]LedgerIsLogged` | strengthened by "a handler that appends has logged the event it builds for the row" (`AppendIsLogged`): the row comes from the call and not from the log, and that the line is there already is the order of `recordAudit`; what is logged carries the version of the write |
| `LoadIsFaithfulHolds` | `[]LoadIsFaithful` | not inductive: `IInv` of `WidgetProofs` adds what the awaits in between rely on, see below |
| `FailuresIsolatedHolds` | `FailuresIsolated` | from `CallsMade` of the same invariant (the calls of a component are one for each of its inputs) and from `TilesShow`: a tile past loading shows its calls, all of them settled. That the i-th row is of the i-th record with an input is `WhereOrder`, by induction on the records |
| `FiltersPartitionHolds` | `[]FiltersPartition` | needs the types of the records only; the rest is about the operators, see below |
| `SummariesAgreeHolds` | `[]SummariesAgree` | needs the types of the records only; the rest is about sorting, grouping and sums, see below |
| `TypesHold` | `[]TypeInv` of `ExprProofs` | inductive as it stands |
| `NothingPanics` | `[]NeverPanics` | from the types of the arguments. `NormIndex` returns a place from 0 to the length for every int, the ones a conversion leaves to the machine included, and the slice is empty unless they are in order |
| `CompiledAgrees` | `[]AgreesWithCompiled` | function by function: where none of `Divergences` applies, the two sides' conversions agree although their rules differ (`TextsAgree`, `ReadsAgree`, `NumbersAgree`, `TrimsAgree`, `CasesAgree`), and the rest below |
| `DescentParsesGrammar` | `[]ParsesGrammar` | induction on the nesting, see below. What the parser accepts is what the grammar with the liberties derives; that fewer liberties derive no more, and those an expression has room for no less, is by induction on the nesting too (`FewerLiberties`) |
| `StackIsBounded` | `[]StackBounded` | by the same induction: each level of the bound adds at most five frames to what the one below needs |
| `ValidatedExpressionsRun` | `[]ValidatedRuns` | every name that is evaluated is a token of the expression, and `DescentParsesGrammar` |
| `ShortExpressionsParse` | for an expression of at most `maxExprDepth` tokens `EvalExpr` returns what is derived, with the liberties, at any nesting | a derivation nested n levels deep has more than n tokens, so further levels add none (`Near`). The bound is tight: `maxExprDepth` minuses and a number are refused |

**The load of the widget.** `LoadIsFaithful` speaks of the end of a load only, so its
inductive invariant says what holds at each await. `Chosen`: from the answer on, the
definitions are all those bound to `tid`, or the one of `?app=`. `Opened`: the table
that was opened is the one they are bound to; for this `Chosen` has to exclude that
there are none. `Held`: while cells are read, what the base holds now is among what it
has held since the list was read, and a record listed that has since been deleted has
held nothing; this is where edits and deletions could break the load, and why a
deletion is noted in `held`. It needs `ListsNoDeleted`, or a record could be listed
that was deleted before. `Progress`: the records read and the cells of the next one
are each among what their record has held, at the place they will have, and the list
is not exhausted before the last. `CallsMade` ties the calls to the inputs of the records
read.

**Filters.** The model writes `filter`, `reduce` and the like as recursive functions
(`Where`, `Total`), and what they compute is proved by induction on the sequence. The
induction theorems of the library take a predicate as a parameter, which the provers
cannot instantiate. `SetInduction` and `SeqInduction` take the *set* of those that satisfy it
instead; the first is proved from the pigeonhole theorem, the second from the first.
On them rest the laws of `Where` (its length is the number of places it keeps, it
keeps their elements and no others, keeping more first changes nothing), those of `Total` and
those of grouping. A filter is then the set of places it keeps (`Places`): a
threshold and its opposite are two disjoint sets whose union is the places with a number
(`SharedOut`), OR and AND are union and intersection, and the counts follow from the
cardinalities, the sums by induction. For a chart group the labels of the records
are followed to the `in` list of one label, and for the calendar the days of a month
to the conditions on year, month and day.

**Summaries.** A stable sort is a permutation. The rank of a place is the number of places
that come before it or are it; ranks of two places differ, and there are as many of
them as places, so by the pigeonhole theorem every rank is taken once (`RankIsOrder`).
Hence a sorted sequence has every item once, the keys in order (`SortByIs`), and the
sorts of the code by value, time or number are instances of it. What TopN cuts off is
then no larger than what it keeps (`TopHolds`), a timeline is newest first, and the sorted
numbers of a column hold its median between its first and its last (`MedianBounds`); for
the average that follows from the bounds of the sum (`TotalBounds`, `QuotientBounds`). The groups
of a chart add up by induction on its labels: the records that have one of the labels are
those that have one of all but the last, and those that have the last (`AggregateSplits`,
`GroupsTotal`). For this no label may occur twice, which holds as the first occurrence of
each is what is counted (`FirstsDistinct`).

**Expressions.** The parser's functions call each other, and so do the rules of the grammar.
Both are written as recursive functions of the nesting, whose values are tables over
the places (or spans) of the expression; each recursion has a lemma, `...Def`, that it has
a solution, by `SetInduction`. What relates a table of the parser to one of the grammar
is `Parses`: what the parser accepts at a place is a derivation of the span it used
(`Sound`); a derivation of a span is what the parser accepts there, provided that no token
follows which would let it read on (`Complete`); a derivation is never of an empty span
(`Filled`); the stack is bounded (`Shallow`); nothing starts with a closing parenthesis
(`Opens`), so that a call without arguments is none with them. An
operand table that parses makes a chain that parses (`ChainedParses`), by induction on the
operators the loop has taken and on the end of the span: what is left of the last
operator of a span is followed by that operator, so the loop reads exactly it and goes on. Chains of chains are sums (`SumsParse`), and sums in
parentheses or as arguments, minuses and atoms are the next level (`LevelParses`). That gives
`UnaryParses` by induction on the levels, and for the whole expression `ParseIs`. A
level whose depth is exceeded parses the level of the grammar that has nothing below
it, which is how the two bounds meet: `maxExprDepth` in the parser is
`maxExprDepth - 1` levels below the first in the grammar. That no expression has two
derivations (`Unambiguous`) is not a second induction: the parser returns one result, and with
a nesting bound above the expression's length every derivation is that result.

**Functions.** `round` and `toFixed` are compared as quotients: both are the multiple
next to |k|, and the upper one at a tie (`RoundsAgree`). `min` and `max` differ in
how NaN and infinities meet; without the two together the reductions agree at every
step, by induction on the arguments (`ReductionsAgree`). For slices, an index that is an int is clamped to the
same place on both sides. Where a case could not be proved, an input was missing from
`Divergences`: that is how the overflow of an index was found. For texts read as numbers
the two parsers are followed branch by branch (`ReadsAgree`): a text without a prefix, an
underscore or the word Inf is a decimal numeral on both sides or on neither, so it has one
value, and below the largest float64 one result. That a numeral is made of known
characters, so that its text has the types the rest needs, is `NumeralValue`.

Only model-checked is all liveness, which together with `ENABLED` is out of the prover's
reach: `OperationsReturn`, `RequestsEnd`, `ShutdownEnds`, `DropsGetReported`, `RunReturns`,
`GenerationEnds` and `PanelSettles`. All invariants of the runs that pass, their action
properties and the refinement are stated by theorems.

`RateLimiter` has no run of its own: `Generation` extends it and run `generate` checks
the two properties of the limiter there, with the same clock. The type invariants
are proved and in no configuration.

## 7 Abstractions

- A fetch reads the table in one step. That is so for a table of up to one page
  (500 records); reading page by page during writes is listed as a hazard.
- A step of a goroutine between two network calls takes no time of its own.
  `ListCommit` happens while the context of the fetch is alive; the code commits
  right after the fetch returned.
- `find` returns some record of the id. The code returns the first match, whose
  position the Feishu API does not promise.
- Records whose definition does not parse are skipped by `find` and by `List`, and
  are left out of the table.
- `Get` and `Ping` are reads that change nothing and have no action. A Put with an
  invalid definition is refused before the store is reached.
- The Feishu table is external. It is modelled as the code uses it: create adds a
  record with a new record id, update and delete of an unknown record id are
  errors, calls take effect at one instant or not at all.
- Egress events are interchangeable: the channel, the ledger and the losses are
  counts. An execution is seen by the recorder as a number of outbound attempts.
- In `PluginStore` the age of the cache is left to chance: any cache may expire at
  any time, any call may fail. An update writes a new content that differs in
  nothing the model shows; what was saved is told by the snapshot's index. A save
  without an id is a save of a plugin of its own. Writers do not read and readers
  do not write: an idle goroutine has no memory that would link the two. There are
  no crashes; a new process starts with an empty cache and owes its clients
  nothing.
- In `ApiServer` a catalog write takes effect at one instant, as in
  `DefinitionCatalog`; the races inside the store are `BitableStore`'s. The
  catalog there is the persistent backend; with the memory store a crash would
  also empty it. Requests that are refused before they reach the store (bad JSON,
  failed validation, rate limit, a generator error) change nothing and have no
  action. Actor and IP address are left out of audit events.
- In `ExecuteEngine` a value matters only as present or missing. What a rendered
  value does to a URL is at most to make it unparsable: `urlHost` refuses
  placeholders in the authority, so they cannot change the host. A private address,
  a refused connection and a rejected header value are all `DialFails`. Repetitions
  inside Go's transport, on a connection that turns out to be closed, are its own.
  A caller that goes away cancels the request, which is `Lost`.
- In `Generation` a body is read in one piece, so an answer is there or not. The keys of
  the two model providers are one setting, and which of them serves a request is
  not told. A definition is valid or not. The router's depends on the first line of the
  prompt alone, of which the track tells whether it fits a name (`NameFits`) and its
  slug an id (`IdFits`): every other part of what the router makes is fixed and valid.
  A template's parameters may be anything. Actions are fields without a build.
- In `ExprGrammar` an expression is its tokens, and its result is the sequence of what is
  evaluated, each token with whether it has operands. Calls are recorded with or without
  arguments, and `ExprFunctions` takes the arguments. Literals are values that nothing looks
  into, but for the one whose text is `)`; numerals are those a float64 holds. `rand` is
  written without blanks before its parentheses and occurs in no longer name.
- In `ExprFunctions` a number is a multiple of 1/800, exact for eighths and their
  rounding to two digits, with -0 as a value of its own; `+ - * / %` on two numbers are one
  operation of IEEE on both sides and compared by their operands. Of a decimal numeral
  three decimals are read. Where JavaScript begins to write an exponent (`MinPlain`,
  `MaxPlain`; 10^-6 and 10^21) and the largest float64 (`MaxFloat`) are constants: the run has
  them at 0.25, 500 and 2000, so that small numerals are on both sides of each,
  and the theorems hold for any. A text is a sequence of characters, of which some
  stand for a class: those outside the basic plane, the blanks only one side trims, the
  letters whose other case is longer, the prefixes of a base, the spellings of Infinity
  that JavaScript does not know. The agreement proved is one over these values and
  classes: two characters of one class are not told apart, and what depends on the characters around a
  letter (the final sigma) or on the binary fraction of a decimal (`round(2.675, 2)`) is
  left out.
- In `Widget` what `Number` and `new Date` make of a string, and the calendar, are
  constants. Numbers are integers, scaled so that averages and medians are exact. A
  filter is its conditions in disjunctive form; how its text is cut into them is
  left out. An array of several texts is the text they join to, with `FirstText` for the
  first of them, the only one `toDate` reads. The columns of an enrich tile that names none
  are those of its first row with an answer (`App.tsx:634-638`); they are left out. An inserted record is at the end of the view.
- The floating point of the rate limiter is taken as exact.
- After a crash of a replica its memory is new and its requests remain on their
  way. Whatever its cache had promised is gone with its clients' connections;
  `answer` and `ackRev` keep counting over the crash, which asks more of the new
  process than its clients would.

## 8 Not modelled

Rendering of exported projects, prompts and exemplars, markup of the React views,
browser automation, shell scripts, YAML and static pages are text or input and
output without a protocol of their own. The language model, the OAuth server and
Feishu itself are external. `Validate` of app definitions and the rules of the
shortcut `Validate` that look at one field only have no state and no reference to
be compared with: a model would repeat them.

Within modelled components: the readiness cache and the middleware of the api, the
forwarding of executions (a proxy without state), the tenant token and the paging of
the Feishu client, cookies and their expiry, `stddev`, and the tokenizer.

## 9 Plan

1. *Done:* `DefinitionCatalog`, `BitableStore`, `PluginStore`, `EgressRecorder`,
   `ExecuteEngine`, the core of `ApiServer`, `RateLimiter`, `Generation`, `Widget`, `ExprEval`, with
   proofs, the refinement of `DefinitionCatalog` among them.
2. `FeishuClient`: token cache and paged list, which refines the one-step fetch used
   in `BitableStore` where the table does not change meanwhile.
3. The readiness cache (`checkReady`), sessions and their expiry.
4. `EgressRecorder` composed with `ExecuteEngine`: several executions that record into
   one channel.
5. An abstract owned map for `PluginStore`, as `DefinitionCatalog` is for
   `BitableStore`.
