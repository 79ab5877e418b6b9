----------------------------- MODULE WidgetTiles -----------------------------
(***************************************************************************)
(* What each component of a plugin computes from the records of the host    *)
(* table: the operators of plugin/block/src/ops.ts and the renderers of     *)
(* App.tsx, up to the markup.                                               *)
(*                                                                          *)
(* Numbers are integers times Scale, so that avg and median stay exact on   *)
(* the small tables checked.  stddev, a square root, is left out.           *)
(***************************************************************************)
EXTENDS WidgetCells

CONSTANTS
    DaysIn(_, _),  \* the days of a month of a year
    FieldOrder,    \* the columns of the host table, in the view's order
    Scale,         \* divisible by 2 and by every number of records
    DateFloor,     \* 1e11: a number above it is taken for a date
    TABLE_CAP,     \* rows a table draws
    TIMELINE_CAP,  \* entries a timeline draws
    GALLERY_CAP,   \* cards a gallery draws
    KANBAN_CAP     \* cards a kanban column draws

ASSUME TilesAssumption ==
    /\ Scale \in Nat \ {0} /\ Scale % 2 = 0
    /\ {TABLE_CAP, TIMELINE_CAP, GALLERY_CAP, KANBAN_CAP} \subseteq Nat \ {0}

----------------------------------------------------------------------------
(* The aggregators.                                                         *)

\* nums: the readable numbers of a column.
Nums(records, field) ==
    IF field = "" THEN <<>>
    ELSE LET readable == Where(records, {i \in DOMAIN records :
                                           ToNumber(records[i][field]) # None})
         IN  [i \in DOMAIN readable |-> ToNumber(readable[i][field])[1]]

Total(v) ==
    LET sum[i \in 0..Len(v)] == IF i = 0 THEN 0 ELSE sum[i - 1] + v[i]
    IN  sum[Len(v)]

\* Array.prototype.sort, which is stable: the place of an item is after the
\* smaller ones and the equal ones before it.
StableSort(items, Key(_)) ==
    LET place(i) == Cardinality({j \in DOMAIN items :
                        \/ Key(items[j]) < Key(items[i])
                        \/ Key(items[j]) = Key(items[i]) /\ j <= i})
    IN  [p \in DOMAIN items |-> items[CHOOSE i \in DOMAIN items : place(i) = p]]

Median(v) ==
    LET s == StableSort(v, LAMBDA n : n)
        m == Len(v) \div 2
    IN  IF Len(v) % 2 = 1 THEN Scale * s[m + 1]
                          ELSE (Scale * (s[m] + s[m + 1])) \div 2

\* The aggregators of the numbers of a column; each is 0 of no numbers.
OfNumbers(agg, v) ==
    CASE v = <<>> -> 0
      [] v # <<>> /\ agg = "sum" -> Scale * Total(v)
      [] v # <<>> /\ agg = "avg" -> (Scale * Total(v)) \div Len(v)
      [] v # <<>> /\ agg = "max" -> Scale * Max(ToSet(v))
      [] v # <<>> /\ agg = "min" -> Scale * Min(ToSet(v))
      [] v # <<>> /\ agg = "median" -> Median(v)
      [] v # <<>> /\ agg = "range" -> Scale * (Max(ToSet(v)) - Min(ToSet(v)))

\* aggregate: count and distinct look at the records, not at the numbers; an
\* unknown name is 0.
Aggregate(records, agg, field) ==
    CASE agg = "count" -> Scale * Len(records)
      [] agg = "distinct" -> IF field = "" THEN 0
              ELSE Scale * Cardinality({ToLabel(records[i][field]) : i \in DOMAIN records})
      [] agg \in {"sum", "avg", "max", "min", "median", "range"} ->
              OfNumbers(agg, Nums(records, field))
      [] OTHER -> 0

----------------------------------------------------------------------------
(* Grouping.                                                                *)

\* The labels of a column in the order they first occur (the key order of a
\* Map and of pivot's rows and cols).
LabelsIn(records, field) ==
    LET labels == [i \in DOMAIN records |-> ToLabel(records[i][field])]
    IN  Where(labels, {i \in DOMAIN labels : \A j \in 1..(i - 1) : labels[j] # labels[i]})

WithLabel(records, field, label) ==
    Where(records, {i \in DOMAIN records : ToLabel(records[i][field]) = label})

\* groupAggregate.
GroupAggregate(records, x, y) ==
    IF x = "" \/ y.agg = "" THEN <<>>
    ELSE LET labels == LabelsIn(records, x)
         IN  [i \in DOMAIN labels |->
                [label |-> labels[i],
                 value |-> Aggregate(WithLabel(records, x, labels[i]), y.agg, y.field)]]

\* pivot: the bucket of a row and a column label holds the records with both.
Pivot(records, x, col, y) ==
    IF x = "" \/ col = "" \/ y.agg = "" THEN [rows |-> <<>>, cols |-> <<>>, grid |-> <<>>]
    ELSE LET rows == LabelsIn(records, x)
             cols == LabelsIn(records, col)
             bucket(r, c) == WithLabel(WithLabel(records, x, r), col, c)
         IN  [rows |-> rows, cols |-> cols,
              grid |-> [i \in DOMAIN rows |-> [j \in DOMAIN cols |->
                           Aggregate(bucket(rows[i], cols[j]), y.agg, y.field)]]]

FirstOf(seq, cap) == SubSeq(seq, 1, IF Len(seq) < cap THEN Len(seq) ELSE cap)

\* Mutation: the groups are cut before they are sorted.
SortLimitCutFirst(data, sort, limit) ==
    LET out == IF limit > 0 THEN FirstOf(data, limit) ELSE data
    IN  CASE sort = "desc" -> StableSort(out, LAMBDA d : - d.value)
          [] sort = "asc" -> StableSort(out, LAMBDA d : d.value)
          [] OTHER -> out

\* sortLimit; a limit of 0 is no limit.
SortLimit(data, sort, limit) ==
    LET out == CASE sort = "desc" -> StableSort(data, LAMBDA d : - d.value)
                 [] sort = "asc" -> StableSort(data, LAMBDA d : d.value)
                 [] OTHER -> data
    IN  IF limit > 0 THEN FirstOf(out, limit) ELSE out

\* resolveColumns: the columns named, else every field of the first record.
ResolveColumns(records, columns) ==
    IF columns # <<>> THEN columns
    ELSE IF records = <<>> THEN <<>> ELSE FieldOrder

----------------------------------------------------------------------------
(* The renderers.  A component has every field; "" , <<>> and 0 stand for   *)
(* one the definition leaves out.                                           *)

AggOrCount(c) == IF c.agg = "" THEN "count" ELSE c.agg

StatTile(c, records) ==
    Aggregate(ApplyFilter(records, c.filter).records, AggOrCount(c), c.field)

ChartTile(c, records) ==
    SortLimit(GroupAggregate(ApplyFilter(records, c.filter).records, c.x, c.y), c.sort, c.limit)

\* Cells drawn, and the number of rows the heading and the note tell.
TableTile(c, records) ==
    LET shown == ApplyFilter(records, c.filter).records
        cols  == ResolveColumns(shown, c.columns)
        rows  == FirstOf(shown, TABLE_CAP)
    IN  [cells |-> [i \in DOMAIN rows |-> [j \in DOMAIN cols |-> ToLabel(rows[i][cols[j]])]],
         total |-> Len(shown)]

\* The share of the ring that is filled, times Scale, between 0 and 1.
GaugeTile(c, records) ==
    LET val == StatTile(c, records)
    IN  IF c.target <= 0 THEN 0
        ELSE Max({0, Min({Scale, val \div c.target})})

PivotTile(c, records) ==
    Pivot(ApplyFilter(records, c.filter).records, c.x, c.col, c.y)

FieldOrX(c) == IF c.field = "" THEN c.x ELSE c.field

\* Newest first; a record whose date is not a number counts as 0.
TimelineTile(c, records) ==
    LET number(r) == IF FieldOrX(c) = "" THEN None ELSE ToNumber(r[FieldOrX(c)])
        when(r)   == IF number(r) = None THEN 0 ELSE number(r)[1]
    IN  FirstOf(StableSort(ApplyFilter(records, c.filter).records, LAMBDA r : - when(r)),
                TIMELINE_CAP)

\* One column per label: the count in its heading and the cards under it.
KanbanTile(c, records) ==
    LET shown  == ApplyFilter(records, c.filter).records
        labels == IF c.x = "" THEN <<>> ELSE LabelsIn(shown, c.x)
    IN  [i \in DOMAIN labels |->
           LET column == WithLabel(shown, c.x, labels[i])
           IN  [label |-> labels[i], count |-> Len(column),
                cards |-> FirstOf(column, KANBAN_CAP)]]

GalleryTile(c, records) ==
    LET shown == ApplyFilter(records, c.filter).records
    IN  [cards |-> FirstOf(shown, GALLERY_CAP), total |-> Len(shown)]

\* The month of the first record with a date (of today when there is none),
\* and how many records fall on each of its days.
CalendarTile(c, records) ==
    LET field == FieldOrX(c)
        shown == ApplyFilter(records, c.filter).records
        numbers == Nums(shown, field)
        dated == Where(numbers, {i \in DOMAIN numbers : numbers[i] > DateFloor})
        anchor == IF dated = <<>> THEN Now ELSE dated[1]
        on(n, day) == /\ YearOf(n) = YearOf(anchor) /\ MonthOf(n) = MonthOf(anchor)
                      /\ DayOf(n) = day
    IN  [year |-> YearOf(anchor), month |-> MonthOf(anchor),
         badge |-> [day \in 1..DaysIn(YearOf(anchor), MonthOf(anchor)) |->
                       Cardinality({i \in DOMAIN dated : on(dated[i], day)})]]

=============================================================================
