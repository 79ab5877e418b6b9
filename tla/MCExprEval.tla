---- MODULE MCExprEval ----
EXTENDS ExprEval

\* Nested operators; calls, their arguments and the names a call may have.
Operations == {"1", "in.a", "+", "-", "*", "(", ")"}
Callings   == {"1", "')'", "in.b", "res.x", "len", "rand", "(", ")", ","}

Vocabulary == {Operations, Callings}

KeyOf == ("in.a" :> "a") @@ ("in.b" :> "b")

Numerals ==
    {Num(0), Num(Unit), Num(2 * Unit), Num(-Unit), Num(-2000), Num(2000), Num(100), Num(9700)}
    \cup {Num(400 * Unit), Num(600 * Unit)}     \* their sum, and one, beyond an int

Texts ==
    {Text(<<>>), Text(<<"a">>), Text(<<" ", "a", ",", "G">>), Text(<<"-", "1">>),
     Text(<<"1", "2", " ">>), Text(<<"a", "A", "a">>)}
\* Texts one of the two reads as another number, or writes in another case.
OddTexts ==
    {Text(<<"-", "0">>), Text(<<"+", "1", ".", "5">>), Text(<<"6", "e", "2">>), Text(<<"5", "e", "-", "1">>),
     Text(<<"9", "e", "3">>), Text(<<"1", "_", "0">>), Text(<<"0x", "1">>), Text(<<"Inf">>),
     Text(<<"-", "Infinity">>), Text(<<"NEL", "1">>), Text(<<"BOM", "a">>), Text(<<"eszett", "Idot">>)}
Characters ==
    ToSet(Digit) \cup {"a", "A", " ", ",", "G", "-", "+", ".", "e", "_", "0x", "NEL", "BOM", "eszett", "Idot"}
    \cup {"NaN", "Inf", "Infinity", "true", "false"}
AllValues ==
    Numerals \cup Texts \cup OddTexts \cup {MinusZero, NaN, Inf(1), Inf(-1), Bool(TRUE), Bool(FALSE), Missing, Null}
    \cup {List(<<>>), List(<<Text(<<"1">>)>>), List(<<Text(<<"a">>), Null>>)}

Arities ==
    [fn \in {"substr", "slice", "replace"} |-> 3]
    @@ [fn \in {"if", "concat", "round", "min", "max", "eq", "ne", "gt", "gte", "lt", "lte", "and",
                "or", "coalesce", "default", "split", "+", "-", "*", "/", "%"} |-> 2]
    @@ [fn \in {"upper", "lower", "trim", "len", "urlencode", "floor", "ceil", "abs", "not", "neg"} |-> 1]

Pair     == Dict("x" :> Num(0))
Inner    == Dict(("x" :> Text(<<"G", "a">>)) @@ ("1" :> Null) @@ ("l" :> List(<<Num(Unit), Pair>>)))
Nested   == List(<<Text(<<"a">>)>>)
AllRoots ==
    {Missing, Null, Num(0), Num(Unit), Text(<<"a">>), Text(<<"G", "a">>), Pair, Inner, Nested,
     List(<<Num(Unit), Pair>>), List(<<Inner, Nested>>), Dict("x" :> Inner)}
====
