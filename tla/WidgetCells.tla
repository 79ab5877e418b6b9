----------------------------- MODULE WidgetCells -----------------------------
(***************************************************************************)
(* Cells of the host table and the predicates a component's filter is read  *)
(* into: plugin/block/src/cellValue.ts and filter.ts.                       *)
(*                                                                          *)
(* A cell has one of the shapes the SDK returns.  The string inside it is   *)
(* a value: what Number(s) and new Date(s) make of it are the constants     *)
(* Numerals and Dates.  A filter is modelled after its text has been split  *)
(* at OR, AND and the operator; a condition the regular expression does not *)
(* match is one that is not `ok`.                                           *)
(***************************************************************************)
EXTENDS Integers, Sequences, SequencesExt, FiniteSetsExt, TLC

CONSTANTS
    Strings,       \* the strings cells have
    Numerals,      \* the strings Number() can read, with their values
    Dates,         \* the strings new Date() can read, with their instants
    FirstText(_),  \* the first of the texts that make up a string
    Includes(_, _),\* String.prototype.includes on labels
    YearOf(_),     \* getFullYear of an instant
    MonthOf(_),    \* getMonth() + 1
    DayOf(_),      \* getDate
    Now            \* the instant NOW() returns

ASSUME StringsAssumption ==
    /\ \A s \in DOMAIN Numerals : Numerals[s] \in Int
    /\ "" \notin DOMAIN Dates
    /\ "" \in Strings

\* Array.prototype.filter: the elements of s at the places of I, in their order.
Where(s, I) ==
    LET kept[i \in 0..Len(s)] ==
          IF i = 0 THEN <<>>
          ELSE IF i \in I THEN Append(kept[i - 1], s[i]) ELSE kept[i - 1]
    IN  kept[Len(s)]

----------------------------------------------------------------------------
(* Cells.                                                                   *)

Cell ==
    [shape : {"null", "number", "string", "texts", "segments", "names", "text", "name", "boolean"},
     n : Int, s : Strings]

Null == [shape |-> "null", n |-> 0, s |-> ""]

Num(n) == [shape |-> "number", n |-> n, s |-> ""]

\* A string; an array of at most one {text}; an array of several, their texts
\* joined; an array of {name}; one object with a text; one object with a name;
\* a check box.
Str(s) == [shape |-> "string", n |-> 0, s |-> s]

Texts(s) == [shape |-> "texts", n |-> 0, s |-> s]

Segments(s) == [shape |-> "segments", n |-> 0, s |-> s]

Names(s) == [shape |-> "names", n |-> 0, s |-> s]

TextOf(s) == [shape |-> "text", n |-> 0, s |-> s]

NameOf(s) == [shape |-> "name", n |-> 0, s |-> s]

Check(s) == [shape |-> "boolean", n |-> 0, s |-> s]

None == <<>>

Blank == "(blank)"

\* Number(s), None for NaN.  The empty string is 0.
NumberOf(s) ==
    IF s = "" THEN <<0>>
    ELSE IF s \in DOMAIN Numerals THEN <<Numerals[s]>> ELSE None

\* toNumber.  An array of people has no text, so it joins to "" and is 0.
ToNumber(v) ==
    CASE v.shape = "number" -> <<v.n>>
      [] v.shape \in {"string", "texts", "segments", "text"} -> NumberOf(v.s)
      [] v.shape = "names" -> <<0>>
      [] OTHER -> None

\* toLabel.  Only null and an empty array are the blank label: an empty
\* string, or an object with an empty text, is the label "".
ToLabel(v) ==
    CASE v.shape = "null" -> Blank
      [] v.shape = "number" -> ToString(v.n)
      [] v.shape \in {"texts", "segments", "names"} /\ v.s = "" -> Blank
      [] OTHER -> v.s

\* new Date(s) for a string.
DateOf(s) ==
    IF s \in DOMAIN Dates THEN <<Dates[s]>> ELSE None

\* toDate: a number is an instant, a text is parsed as a date; of several
\* texts only the first is.
ToDate(v) ==
    CASE v.shape = "number" -> <<v.n>>
      [] v.shape \in {"string", "texts", "text"} -> DateOf(v.s)
      [] v.shape = "segments" -> DateOf(FirstText(v.s))
      [] OTHER -> None

----------------------------------------------------------------------------
(* The right-hand side of a condition.                                      *)

RhsNumber(n) == [k |-> "num", n |-> n, s |-> "", items |-> <<>>]

RhsString(s) == [k |-> "str", n |-> 0, s |-> s, items |-> <<>>]

RhsMacro(m) == [k |-> "macro", n |-> 0, s |-> m, items |-> <<>>]

RhsList(items) == [k |-> "list", n |-> 0, s |-> "", items |-> items]

\* rhsNum.  TODAY has no number.
RhsNum(r) ==
    CASE r.k = "num" -> <<r.n>>
      [] r.k = "macro" /\ r.s = "THIS_MONTH" -> <<MonthOf(Now)>>
      [] r.k = "macro" /\ r.s = "THIS_YEAR" -> <<YearOf(Now)>>
      [] r.k = "str" -> NumberOf(r.s)
      [] OTHER -> None

\* rhsStr.  A list has no string of its own.
RhsStr(r) ==
    CASE r.k = "num" -> ToString(r.n)
      [] r.k \in {"str", "macro"} -> r.s
      [] OTHER -> ""

\* rhsDate.
RhsDate(r) ==
    CASE r.k = "macro" /\ r.s = "TODAY" -> <<Now>>
      [] r.k = "str" -> DateOf(r.s)
      [] OTHER -> None

----------------------------------------------------------------------------
(* Conditions.                                                              *)

\* Mutation: >= is read as >.
CmpNumStrict(a, op, b) ==
    \/ op \in {">", ">="} /\ a > b
    \/ op = "<" /\ a < b
    \/ op = "<=" /\ a <= b
    \/ op = "=" /\ a = b
    \/ op = "!=" /\ a # b

\* cmpNum; an operator it does not list (contains, in) is false.
CmpNum(a, op, b) ==
    \/ op = ">" /\ a > b
    \/ op = ">=" /\ a >= b
    \/ op = "<" /\ a < b
    \/ op = "<=" /\ a <= b
    \/ op = "=" /\ a = b
    \/ op = "!=" /\ a # b

\* One of two optional numbers compared, false when either is missing.
Compared(a, op, b) ==
    a # None /\ b # None /\ CmpNum(a[1], op, b[1])

PartOf(part, instant) ==
    CASE part = "month" -> MonthOf(instant)
      [] part = "year" -> YearOf(instant)
      [] part = "day" -> DayOf(instant)

\* month(f), year(f), day(f): the part of the record's date, as a number.
PartMatches(cond, v) ==
    LET d == ToDate(v)
    IN  d # None /\ Compared(<<PartOf(cond.part, d[1])>>, cond.op, RhsNum(cond.rhs))

\* = and !=: numbers when both sides are, labels otherwise.
SameValue(v, rhs) ==
    LET ln == ToNumber(v)
        rn == RhsNum(rhs)
    IN  IF ln # None /\ rn # None THEN ln = rn
                                  ELSE ToLabel(v) = RhsStr(rhs)

\* > >= < <=: numbers when both sides are, dates otherwise.
InOrder(v, op, rhs) ==
    LET ln == ToNumber(v)
        rn == RhsNum(rhs)
    IN  IF ln # None /\ rn # None THEN Compared(ln, op, rn)
                                  ELSE Compared(ToDate(v), op, RhsDate(rhs))

\* The items `in` looks for: a list's, or the single right-hand side.
WantedLabels(rhs) ==
    LET items == IF rhs.k = "list" THEN rhs.items ELSE <<rhs>>
    IN  {RhsStr(items[i]) : i \in DOMAIN items}

\* The predicate parseCond returns, on one record.
CondMatches(cond, rec) ==
    LET v == rec[cond.field]
    IN  CASE cond.part # "" -> PartMatches(cond, v)
          [] cond.part = "" /\ cond.op = "contains" -> Includes(ToLabel(v), RhsStr(cond.rhs))
          [] cond.part = "" /\ cond.op = "in" -> ToLabel(v) \in WantedLabels(cond.rhs)
          [] cond.part = "" /\ cond.op = "=" -> SameValue(v, cond.rhs)
          [] cond.part = "" /\ cond.op = "!=" -> ~ SameValue(v, cond.rhs)
          [] OTHER -> InOrder(v, cond.op, cond.rhs)

----------------------------------------------------------------------------
(* Filters: OR of AND groups.                                               *)

NoFilter == [given |-> FALSE, groups |-> <<>>]

\* parseFilter gives no predicate when a condition does not parse, or when
\* nothing is left between the ORs.
Parses(filter) ==
    /\ filter.groups # <<>>
    /\ \A g \in DOMAIN filter.groups :
          \A i \in DOMAIN filter.groups[g] : filter.groups[g][i].ok

Passes(filter, rec) ==
    \E g \in DOMAIN filter.groups :
       \A i \in DOMAIN filter.groups[g] : CondMatches(filter.groups[g][i], rec)

\* applyFilter: all the records when there is no filter, all of them and the
\* warning when it does not parse.
ApplyFilter(records, filter) ==
    LET applied == filter.given /\ Parses(filter)
        passing == {i \in DOMAIN records : Passes(filter, records[i])}
    IN  [records |-> IF applied THEN Where(records, passing) ELSE records,
         applied |-> applied,
         error |-> filter.given /\ ~ Parses(filter)]

=============================================================================
