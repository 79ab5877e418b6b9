------------------------------ MODULE MCWidget ------------------------------
(***************************************************************************)
(* The widget on a base of two tables with the columns city and amount.     *)
(***************************************************************************)
EXTENDS Widget

CONSTANTS tA, tB, r1, r2, r3, rX

MCStrings == {"", "rome", "paris", "oslo", "ann", "bob", "02", "note", "true",
              "day7 note"}

MCNumerals == [s \in {"2", "02"} |-> 2]

MCDates == [s \in {"day7"} |-> 117]

MCFirstText(s) == IF s = "day7 note" THEN "day7" ELSE s

MCIncludes(label, needle) == needle = "" \/ label = needle

\* An instant is a count of days: 10 to a month, 3 months to a year.
MCYearOf(n) == n \div 30

MCMonthOf(n) == ((n \div 10) % 3) + 1

MCDayOf(n) == (n % 10) + 1

MCDaysIn(year, month) == 10

MCFieldOrder == <<"city", "amount">>

Row(city, amount) == [f \in {"city", "amount"} |-> IF f = "city" THEN city ELSE amount]

Cities == {Null, Texts("rome")}

Amounts == {Num(-1), Str("02"), Names("ann")}

\* Table A: two or three listed records with any cells, and an undefined
\* entry in the list.  Table B: one record.
TableA ==
    {[visible |-> list, deleted |-> {},
      cell |-> (r1 :> Row(c1, a1)) @@ (r2 :> Row(Str("paris"), a2))
               @@ (r3 :> Row(Names("rome"), Num(118))) @@ (rX :> Row(NameOf("bob"), Check("true")))] :
        list \in {<<r1, NoId, r2, r3>>, <<r2, r1>>},
        c1 \in Cities, a1 \in Amounts, a2 \in {Num(2), Num(117), Segments("day7 note")}}

TableB ==
    [visible |-> <<r1>>, deleted |-> {},
     cell |-> [r \in {r1, r2, r3, rX} |-> Row(Str("oslo"), TextOf("note"))]]

MCBases == {(tA :> a) @@ (tB :> TableB) : a \in TableA}

Enrich(complete) == [inputField |-> "city", complete |-> complete]

Def(id, bind, body, enrich) == [id |-> id, bind |-> bind, body |-> body, enrich |-> enrich]

MCCatalog ==
    <<Def("weather", tA, "tiles", <<Enrich(TRUE)>>),
      Def("broken", tA, "throws", <<Enrich(TRUE)>>),
      Def("other", tB, "tiles", <<Enrich(FALSE)>>),
      Def("legacy", tA, "no ui", <<Enrich(TRUE)>>),
      Def("here", "current", "tiles", <<Enrich(TRUE)>>),
      Def("lost", "elsewhere", "tiles", <<>>)>>

MCApps == {"", "here", "lost"}

MCEdited == {Texts("")}

MCConditions ==
    {Cond("amount", ">=", RhsNumber(2)), Cond("amount", "<", RhsString("day7")),
     Cond("city", "contains", RhsString("paris")),
     Cond("city", "in", RhsList(<<RhsString("rome"), RhsNumber(4)>>)),
     [Cond("amount", ">", RhsMacro("THIS_MONTH")) EXCEPT !.part = "month"]}

MCThresholds == {0, 2, 4}

=============================================================================
