------------------------------- MODULE Widget -------------------------------
(***************************************************************************)
(* The container widget: one load of the panel inside a Bitable             *)
(* (plugin/block/src/App.tsx, bitableData.ts, api.ts) while people go on    *)
(* editing the base and switching its tables.                               *)
(*                                                                          *)
(* load() finds the definitions for the table the panel was opened on (or   *)
(* the one named by ?app=), then reads the records of the host table one    *)
(* cell at a time: every await lets an edit in.  The rendered sections and  *)
(* the calls of the enrich components follow.  The host, the platform API   *)
(* and the execute runtime are external: a call to them may be refused, and *)
(* it settles.                                                              *)
(***************************************************************************)
EXTENDS WidgetTiles

CONSTANTS
    Tables, Records,
    NoId,          \* the undefined entries of getVisibleRecordIdList
    Bases,         \* the contents the base may have when the panel opens
    Catalog,       \* the definitions the platform has stored, in list order
    Apps,          \* the values of ?app=, "" for none
    Edited,        \* what an edit writes
    ENRICH_CAP,    \* rows an enrich component calls the runtime for
    Conditions,    \* the conditions the properties filter by
    Thresholds,    \* and the numbers they compare with
    MaxChanges     \* bound: edits, deletions and table switches of a load

Fields == ToSet(FieldOrder)

\* A table: its visible list, its cells and its deleted records.
HostTable ==
    [visible : Seq(Records \cup {NoId}), cell : [Records -> [Fields -> Cell]],
     deleted : SUBSET Records]

\* Every table has its index column, a column has a name, and a view lists no
\* deleted record.  A definition has an id, a bound table ("" or "current" for
\* the one that is open), a body ("tiles", "no ui" or "throws": a component that
\* cannot be rendered) and its enrich components.
ASSUME WidgetAssumption ==
    /\ NoId \notin Records /\ "" \notin Tables /\ "current" \notin Tables
    /\ ENRICH_CAP \in Nat \ {0} /\ MaxChanges \in Nat
    /\ FieldOrder \in Seq(Fields) /\ FieldOrder # <<>> /\ "" \notin Fields
    /\ Bases \subseteq [Tables -> HostTable] /\ Edited \subseteq Cell
    /\ \A b \in Bases, t \in Tables : ToSet(b[t].visible) \cap b[t].deleted = {}
    /\ \A cond \in Conditions : cond.ok
    /\ Thresholds \subseteq Int
    /\ Catalog \in Seq(ToSet(Catalog))
    /\ \A d \in DOMAIN Catalog :
          /\ Catalog[d].bind \in Tables \cup {"", "current", "elsewhere"}
          /\ Catalog[d].body \in {"tiles", "no ui", "throws"}

VARIABLES
    base,      \* the host's tables
    active,    \* the table that is open in the host
    changes,   \* how many changes the host has seen (bounded)
    app,       \* the ?app= of the page
    pc,        \* where load() is
    tid,       \* the table currentTableId resolved, "" before or without it
    defs,      \* the definitions found
    table,     \* the table the records are read from
    ids,       \* the record ids the view listed
    held,      \* what each cell has held since the list was read
    records,   \* the records read so far
    row,       \* the cells read of the next record
    calls,     \* for each definition and enrich component, its calls and answers
    tiles      \* and what its tile shows

vars ==
    <<base, active, changes, app, pc, tid, defs, table, ids, held, records, row, calls, tiles>>

host == <<base, active, changes>>

----------------------------------------------------------------------------
Init ==
    /\ base \in Bases /\ active \in Tables /\ changes = 0
    /\ app \in Apps
    /\ pc = IF app = "" THEN "table" ELSE "defs"
    /\ tid = "" /\ defs = <<>> /\ table = "" /\ ids = <<>>
    /\ held = <<>> /\ records = <<>> /\ row = <<>> /\ calls = <<>> /\ tiles = <<>>

(* load()                                                                   *)

LoadFails == pc' = "failed"

\* currentTableId: the selection's table, else the active one; neither may be
\* known, and then nothing is bound to the table.
CurrentTable ==
    /\ pc = "table"
    /\ \/ tid' = active /\ pc' = "defs"
       \/ tid' = "" /\ LoadFails
    /\ UNCHANGED <<host, app, defs, table, ids, held, records, row, calls, tiles>>

\* store.FilterByTable: exactly the definitions bound to the table.
FilterByTable(stored, tableId) ==
    IF tableId = "" THEN stored
    ELSE Where(stored, {k \in DOMAIN stored : stored[k].bind = tableId})

\* The definition stored under an id (getApp), as a list of at most one.
ById(stored, id) ==
    FirstOf(Where(stored, {k \in DOMAIN stored : stored[k].id = id}), 1)

\* Mutation: the widget asks for the whole catalog.
FoundAll ==
    IF app # "" THEN ById(Catalog, app) ELSE Catalog

\* What the API answers: getApp(?app) or listAppsByTable(tid).
Found ==
    IF app # "" THEN ById(Catalog, app) ELSE FilterByTable(Catalog, tid)

\* No definition is an error, as is a refused or failed fetch.
FetchDefinitions ==
    /\ pc = "defs"
    /\ \/ /\ Found # <<>>
          /\ defs' = Found /\ pc' = "bind"
       \/ defs' = <<>> /\ LoadFails
    /\ UNCHANGED <<host, app, tid, table, ids, held, records, row, calls, tiles>>

\* readHostData's table: the one the first definition names, else the one
\* that is open.
TableToRead ==
    IF defs[1].bind \notin {"", "current"} THEN defs[1].bind ELSE active

\* A table the base does not have, or no answer from the host, fails the load.
OpenTable ==
    /\ pc = "bind"
    /\ \/ /\ TableToRead \in Tables
          /\ table' = TableToRead /\ pc' = "list"
       \/ table' = "" /\ LoadFails
    /\ UNCHANGED <<host, app, tid, defs, ids, held, records, row, calls, tiles>>

\* The cells of the records listed, as they are now.
Holding ==
    [r \in Records |-> [f \in Fields |-> {base[table].cell[r][f]}]]

Without(list, id) == Where(list, {i \in DOMAIN list : list[i] # id})

\* The visible records of the grid view (undefined entries are skipped by the
\* loop that follows); a view that cannot be read fails the load.
ListRecords ==
    /\ pc = "list"
    /\ \/ /\ ids' = Without(base[table].visible, NoId)
          /\ held' = Holding
          /\ pc' = IF ids' = <<>> THEN "read" ELSE "cells"
       \/ LoadFails /\ UNCHANGED <<ids, held>>
    /\ UNCHANGED <<host, app, tid, defs, table, records, row, calls, tiles>>

NextRecord == ids[Len(records) + 1]

NextField == FieldOrder[Len(row) + 1]

\* The cell is the next of its row, and the last one completes the record.
Store(cell) ==
    LET cells == Append(row, cell)
        record == [f \in Fields |-> cells[CHOOSE j \in DOMAIN cells : FieldOrder[j] = f]]
    IN  IF Len(cells) = Len(FieldOrder)
        THEN /\ records' = Append(records, record)
             /\ row' = <<>>
             /\ pc' = IF Len(records') = Len(ids) THEN "read" ELSE "cells"
        ELSE row' = cells /\ UNCHANGED <<records, pc>>

\* getCellValue: one cell per await.  The cell of a record deleted since the
\* list was read comes back empty or not at all.
ReadCell ==
    /\ pc = "cells"
    /\ \/ /\ NextRecord \notin base[table].deleted
          /\ Store(base[table].cell[NextRecord][NextField])
       \/ /\ NextRecord \in base[table].deleted
          /\ Store(Null)
    /\ UNCHANGED <<host, app, tid, defs, table, ids, held, calls, tiles>>

CellFails ==
    /\ pc = "cells"
    /\ LoadFails
    /\ UNCHANGED <<host, app, tid, defs, table, ids, held, records, row, calls, tiles>>

----------------------------------------------------------------------------
(* Rendering.                                                               *)

\* What becomes of a definition: left out without ui.components, the
\* placeholder of its ErrorBoundary when a component throws, else its tiles.
Section(d) ==
    CASE defs[d].body = "no ui" -> "skipped"
      [] defs[d].body = "throws" -> "placeholder"
      [] defs[d].body = "tiles" -> "tiles"

\* cityOf: the input of a row, "" for a blank one.
InputOf(rec, field) ==
    LET s == ToLabel(rec[field]) IN IF s = Blank THEN "" ELSE s

EnrichInputs(c) ==
    LET withInput == Where(records, {i \in DOMAIN records :
                                        InputOf(records[i], c.inputField) # ""})
        rowsCalled == FirstOf(withInput, ENRICH_CAP)
    IN  [i \in DOMAIN rowsCalled |-> InputOf(rowsCalled[i], c.inputField)]

\* How a call stands: awaited, settled with the runtime's answer for an input,
\* or settled with an error.
Awaited == <<>>

AnswerFor(input) == <<"data", input>>

Refused == <<"error">>

\* What an enrich tile shows: that it is loading, its rows, or its own error.
Loading == [shows |-> "loading", rows |-> <<>>]

ShownRows(rows) == [shows |-> "rows", rows |-> rows]

OwnError == [shows |-> "error", rows |-> <<>>]

\* The effect of a mounted EnrichTile calls the runtime for each of its inputs;
\* an incomplete component throws before it calls.
Called(d, e) ==
    LET c == defs[d].enrich[e]
    IN  IF Section(d) = "tiles" /\ c.complete THEN EnrichInputs(c) ELSE <<>>

Mounted(d) ==
    [e \in DOMAIN defs[d].enrich |->
        [i \in DOMAIN Called(d, e) |-> [input |-> Called(d, e)[i], answer |-> Awaited]]]

\* The enrich tiles of a definition that is drawn.
Drawn(d) ==
    IF Section(d) = "tiles" THEN [e \in DOMAIN defs[d].enrich |-> Loading] ELSE <<>>

Render ==
    /\ pc = "read"
    /\ pc' = "shown"
    /\ calls' = [d \in DOMAIN defs |-> Mounted(d)]
    /\ tiles' = [d \in DOMAIN defs |-> Drawn(d)]
    /\ UNCHANGED <<host, app, tid, defs, table, ids, held, records, row>>

\* One call settles; the tile goes on loading.
Answer(d, e, i, answer) ==
    /\ pc = "shown"
    /\ calls[d][e][i].answer = Awaited
    /\ calls' = [calls EXCEPT ![d][e][i].answer = answer]
    /\ UNCHANGED <<host, app, pc, tid, defs, table, ids, held, records, row, tiles>>

\* execute() resolves for one row, whichever it is.
ExecuteAnswers(d, e, i) == Answer(d, e, i, AnswerFor(calls[d][e][i].input))

\* execute() rejects: the catch around the call makes the error the row's.
ExecuteFails(d, e, i) == Answer(d, e, i, Refused)

AllSettled(d, e) == \A i \in DOMAIN calls[d][e] : calls[d][e][i].answer # Awaited

\* Mutation: no catch around a row's call, so Promise.all rejects with the
\* first that is refused.
GatherUncaught(d, e) ==
    /\ pc = "shown" /\ tiles[d][e] = Loading
    /\ \/ /\ \E i \in DOMAIN calls[d][e] : calls[d][e][i].answer = Refused
          /\ tiles' = [tiles EXCEPT ![d][e] = OwnError]
       \/ /\ \A i \in DOMAIN calls[d][e] : calls[d][e][i].answer \notin {Awaited, Refused}
          /\ tiles' = [tiles EXCEPT ![d][e] = IF defs[d].enrich[e].complete
                                              THEN ShownRows(calls[d][e]) ELSE OwnError]
    /\ UNCHANGED <<host, app, pc, tid, defs, table, ids, held, records, row, calls>>

\* Mutation: the effect has no dependency list, so the render that the answers
\* cause starts the calls of the tile again.
GatherRerun(d, e) ==
    /\ pc = "shown" /\ tiles[d][e] = Loading
    /\ AllSettled(d, e)
    /\ calls' = [calls EXCEPT ![d][e] = Mounted(d)[e]]
    /\ UNCHANGED <<host, app, pc, tid, defs, table, ids, held, records, row, tiles>>

\* Promise.all: a tile leaves loading when the last of its calls has settled,
\* with all its rows, or with its own error when the component is incomplete.
Gather(d, e) ==
    /\ pc = "shown" /\ tiles[d][e] = Loading
    /\ AllSettled(d, e)
    /\ tiles' = [tiles EXCEPT ![d][e] = IF defs[d].enrich[e].complete
                                        THEN ShownRows(calls[d][e]) ELSE OwnError]
    /\ UNCHANGED <<host, app, pc, tid, defs, table, ids, held, records, row, calls>>

----------------------------------------------------------------------------
(* The host: people edit while the panel loads.  What they do once it is    *)
(* shown does not reach it.                                                 *)

Changes ==
    /\ changes < MaxChanges
    /\ pc \in {"table", "defs", "bind", "list", "cells"}
    /\ changes' = changes + 1
    /\ UNCHANGED <<app, pc, tid, defs, table, ids, records, row, calls, tiles>>

\* What the table being read now holds too.
Noted(t, r, f, v) ==
    IF pc = "cells" /\ t = table THEN [held EXCEPT ![r][f] = @ \cup {v}] ELSE held

EditCell(t, r, f, v) ==
    /\ Changes
    /\ r \notin base[t].deleted
    /\ base[t].cell[r][f] # v
    /\ base' = [base EXCEPT ![t].cell[r][f] = v]
    /\ held' = Noted(t, r, f, v)
    /\ UNCHANGED active

InsertRecord(t, r) ==
    /\ Changes
    /\ r \notin ToSet(base[t].visible) \cup base[t].deleted
    /\ base' = [base EXCEPT ![t].visible = Append(@, r)]
    /\ UNCHANGED <<active, held>>

DeleteRecord(t, r) ==
    /\ Changes
    /\ Contains(base[t].visible, r)
    /\ base' = [base EXCEPT ![t].visible = Without(@, r),
                            ![t].deleted = @ \cup {r}]
    /\ held' = IF pc = "cells" /\ t = table
               THEN [held EXCEPT ![r] = [f \in Fields |-> @[f] \cup {Null}]] ELSE held
    /\ UNCHANGED active

SwitchTable(t) ==
    /\ Changes
    /\ active # t
    /\ active' = t
    /\ UNCHANGED <<base, held>>

----------------------------------------------------------------------------
LoadStep ==
    \/ CurrentTable \/ FetchDefinitions \/ OpenTable \/ ListRecords
    \/ ReadCell \/ CellFails \/ Render

Settle ==
    \E d \in DOMAIN calls : \E e \in DOMAIN calls[d] : \E i \in DOMAIN calls[d][e] :
       ExecuteAnswers(d, e, i) \/ ExecuteFails(d, e, i)

Gathering == \E d \in DOMAIN tiles : \E e \in DOMAIN tiles[d] : Gather(d, e)

HostStep ==
    \E t \in Tables :
       \/ SwitchTable(t)
       \/ \E r \in Records :
             \/ InsertRecord(t, r)
             \/ DeleteRecord(t, r)
             \/ \E f \in Fields, v \in Edited : EditCell(t, r, f, v)

Next == LoadStep \/ Settle \/ Gathering \/ HostStep

\* The calls of load() and of the enrich components settle (the host answers,
\* and the platform API bounds every request it serves), and the browser runs
\* the continuation of a settled promise.
Fairness == WF_vars(LoadStep) /\ WF_vars(Settle) /\ WF_vars(Gathering)

Spec == Init /\ [][Next]_vars /\ Fairness

----------------------------------------------------------------------------
(* Properties of the load.                                                  *)

\* What a shown panel shows is this table's: every definition on it is bound
\* to the table its records were read from (or to whichever is open), no
\* definition bound to it is missing, every record listed has its row, and
\* every cell is one that record held after the list was read.  Editing and
\* table switching go on between the awaits (bitableData.ts:35-71).
LoadIsFaithful ==
    pc = "shown" =>
        /\ \A d \in DOMAIN defs : defs[d].bind \in {table, "", "current"}
        /\ app = "" => \A k \in DOMAIN Catalog :
                          Catalog[k].bind = table => Contains(defs, Catalog[k])
        /\ Len(records) = Len(ids)
        /\ \A i \in DOMAIN ids, f \in Fields : records[i][f] \in held[ids[i]][f]

\* The rows a tile shows are those of the first records with an input, up to
\* the cap, one each and in their order; each has the answer for its own input,
\* or the error of its own call (App.tsx:599-631).
ResultsBelong ==
    pc = "shown" =>
        \A d \in DOMAIN tiles : \A e \in DOMAIN tiles[d] : tiles[d][e].shows = "rows" =>
           LET label(k) == ToLabel(records[k][defs[d].enrich[e].inputField])
               withInput == {k \in DOMAIN records : label(k) \notin {"", Blank}}
               shown == tiles[d][e].rows
           IN  /\ Len(shown) = Min({ENRICH_CAP, Cardinality(withInput)})
               /\ \A i \in DOMAIN shown :
                     /\ \E k \in withInput :
                           /\ Cardinality({j \in withInput : j <= k}) = i
                           /\ shown[i].input = label(k)
                     /\ shown[i].answer = IF calls[d][e][i].answer = Refused
                                          THEN Refused ELSE AnswerFor(shown[i].input)

\* Every definition whose own components can be rendered has its enrich tiles,
\* and none of them ends in an error unless it is incomplete itself, whatever
\* the definitions around it are and whatever becomes of its calls
\* (App.tsx:700-703, "one bad def must not take down the rest").
NoneTakesDownTheRest ==
    pc = "shown" =>
        \A d \in DOMAIN defs : defs[d].body = "tiles" =>
           \A e \in DOMAIN defs[d].enrich :
              /\ e \in DOMAIN tiles[d]
              /\ tiles[d][e].shows = "error" <=> /\ tiles[d][e] # Loading
                                                 /\ ~ defs[d].enrich[e].complete

\* A tile shows its rows all at once, when the last of its calls has settled,
\* and what it shows stays.
ShownOnce ==
    \A d \in DOMAIN tiles : \A e \in DOMAIN tiles[d] :
       tiles'[d][e] # tiles[d][e] => tiles[d][e] = Loading /\ AllSettled(d, e)

\* A failure stays where it happens: of a definition, of an enrich call.
FailuresIsolated ==
    /\ [](ResultsBelong /\ NoneTakesDownTheRest)
    /\ [][pc = "shown" => ShownOnce]_vars

\* The panel settles: the error screen, or every section with every enrich
\* tile past loading.
PanelSettles ==
    <>(\/ pc = "failed"
       \/ /\ pc = "shown"
          /\ \A d \in DOMAIN tiles : \A e \in DOMAIN tiles[d] : tiles[d][e] # Loading)

----------------------------------------------------------------------------
(* Components and filters to ask about.                                     *)

Component ==
    [agg |-> "", field |-> "", filter |-> NoFilter, x |-> "", col |-> "",
     y |-> [agg |-> "", field |-> ""], columns |-> <<>>, sort |-> "", limit |-> 0,
     target |-> 0]

Cond(field, op, rhs) == [ok |-> TRUE, part |-> "", field |-> field, op |-> op, rhs |-> rhs]

PartCond(part, field, rhs) == [Cond(field, "=", rhs) EXCEPT !.part = part]

Unreadable == [Cond("", "", RhsString("")) EXCEPT !.ok = FALSE]

One(cond) == [given |-> TRUE, groups |-> <<<<cond>>>>]

\* p OR q, and p AND q in disjunctive form.
Either(p, q) == [given |-> TRUE, groups |-> p.groups \o q.groups]

Both(p, q) ==
    [given |-> TRUE,
     groups |-> LET width == Len(q.groups)
                IN  [k \in 1..(Len(p.groups) * width) |->
                        p.groups[((k - 1) \div width) + 1] \o q.groups[((k - 1) % width) + 1]]]

Filters == {One(cond) : cond \in Conditions}

\* The chart cut to its n largest (or smallest) groups.
TopNSound(c, bars, n) ==
    \A sort \in {"desc", "asc"} :
       LET top == ChartTile([c EXCEPT !.sort = sort, !.limit = n], records)
           ahead(a, b) == IF sort = "desc" THEN a.value > b.value ELSE a.value < b.value
           place(bar) == CHOOSE i \in DOMAIN bars : bars[i] = bar
       IN  /\ Len(top) = n
           /\ \A i \in 1..n : Contains(bars, top[i])
           /\ \A bar \in ToSet(bars) \ ToSet(top) :
                 \A i \in 1..n : /\ ~ ahead(bar, top[i])
                                 /\ bar.value = top[i].value => place(top[i]) < place(bar)
           /\ \A i, j \in 1..n : i < j =>
                 \/ ahead(top[i], top[j])
                 \/ top[i].value = top[j].value /\ place(top[i]) < place(top[j])

NewestFirst(entries, f) ==
    \A i, j \in DOMAIN entries :
       LET a == ToNumber(entries[i][f])
           b == ToNumber(entries[j][f])
       IN  i < j /\ a # None /\ b # None => a[1] >= b[1]

\* Of a column of plain numbers; a date written as text is read one way by the
\* calendar (a number) and another by the filter (a date).
BadgesMatch(c, f) ==
    (\A i \in DOMAIN records : records[i][f].shape \in {"number", "null"}) =>
       LET calendar == CalendarTile(c, records)
           on(day) == [given |-> TRUE, groups |-> <<
                         <<PartCond("year", f, RhsNumber(calendar.year)),
                           PartCond("month", f, RhsNumber(calendar.month)),
                           PartCond("day", f, RhsNumber(day)),
                           Cond(f, ">", RhsNumber(DateFloor))>> >>]
       IN  \A day \in DOMAIN calendar.badge :
              Scale * calendar.badge[day]
                 = StatTile([c EXCEPT !.filter = on(day), !.agg = "count"], records)

----------------------------------------------------------------------------
(* Properties of what the components compute from the records.              *)

\* The groups of a chart, the cells of a pivot row and the kanban headings add
\* up to the stat of the same records, and TopN is sound.
GroupsAddUp(c) ==
    LET bars == ChartTile(c, records)
        grid == PivotTile(c, records)
        kanban == KanbanTile(c, records)
        values(seq) == [i \in DOMAIN seq |-> seq[i].value]
    IN  /\ Total(values(bars)) = StatTile(c, records)
        /\ \A i \in DOMAIN bars :
              /\ grid.rows[i] = bars[i].label /\ Total(grid.grid[i]) = bars[i].value
              /\ c.agg = "count" => Scale * kanban[i].count = bars[i].value
        /\ \A n \in 1..Len(bars) : TopNSound(c, bars, n)

\* The statistics of one column, and the lists that draw its records.
ColumnAgrees(c) ==
    LET stat == [a \in {"count", "distinct", "sum", "min", "max", "avg", "median", "range"} |->
                    StatTile([c EXCEPT !.agg = a], records)]
    IN  /\ stat["distinct"] <= stat["count"]
        /\ stat["min"] <= stat["avg"] /\ stat["avg"] <= stat["max"]
        /\ stat["min"] <= stat["median"] /\ stat["median"] <= stat["max"]
        /\ stat["range"] = stat["max"] - stat["min"]
        /\ \A goal \in {1, 3} :
              (GaugeTile([c EXCEPT !.agg = "sum", !.target = goal], records) = Scale)
                 <=> (stat["sum"] >= Scale * goal)
        /\ Scale * TableTile(c, records).total = stat["count"]
        /\ GalleryTile(c, records).total = TableTile(c, records).total
        /\ NewestFirst(TimelineTile(c, records), c.field)

\* Stat, gauge, chart, pivot, kanban, table, gallery and timeline are
\* renderers over the same records, and a reader compares them: the groups of
\* a chart add up to the stat, the cells of a pivot row to its bar, a kanban
\* heading counts its bar, TopN leaves out no group larger than one it keeps
\* and keeps the order of equal ones, every list tells the full count, and the
\* statistics of a column lie between its extremes (ops.ts, App.tsx:166-549).
SummariesAgree ==
    pc = "read" =>
        \A filter \in Filters, f \in Fields :
           LET c == [Component EXCEPT !.filter = filter, !.field = f]
           IN  /\ ColumnAgrees(c)
               /\ \A x \in Fields, agg \in {"sum", "count"} : \A col \in Fields \ {x} :
                     GroupsAddUp([c EXCEPT !.x = x, !.col = col, !.agg = agg,
                                           !.y = [agg |-> agg, field |-> f]])

\* A filter divides the records the way it reads: a threshold and its opposite
\* share the column's numbers between them and its sum too, = and != share the
\* records, `in` a group's label selects the records of that chart group, OR
\* and AND count as union and intersection, a condition that does not parse
\* leaves every record in and raises the warning, and a day's badge in the
\* calendar counts what the year, month and day conditions select (filter.ts).
FiltersPartition ==
    pc = "read" =>
        \A f \in Fields :
           LET c == [Component EXCEPT !.field = f, !.x = f]
               count(filter) == StatTile([c EXCEPT !.filter = filter, !.agg = "count"], records)
               sum(filter)   == StatTile([c EXCEPT !.filter = filter, !.agg = "sum"], records)
               than(op, v)   == One(Cond(f, op, RhsNumber(v)))
               groups == ChartTile([c EXCEPT !.y = [agg |-> "count", field |-> f]], records)
           IN  /\ \A v \in Thresholds : \A opposite \in {<<">=", "<">>, <<">", "<=">>} :
                     /\ count(than(opposite[1], v)) + count(than(opposite[2], v))
                           = Scale * Len(Nums(records, f))
                     /\ sum(than(opposite[1], v)) + sum(than(opposite[2], v)) = sum(NoFilter)
                     /\ count(than("=", v)) + count(than("!=", v)) = count(NoFilter)
               /\ \A i \in DOMAIN groups :
                     count(One(Cond(f, "in", RhsList(<<RhsString(groups[i].label)>>))))
                        = groups[i].value
               /\ \A p, q \in Filters :
                     count(Either(p, q)) + count(Both(p, q)) = count(p) + count(q)
               /\ \A p \in Filters :
                     LET broken == ApplyFilter(records, Both(p, One(Unreadable)))
                     IN  broken.error /\ broken.records = records
               /\ BadgesMatch(c, f)

=============================================================================
