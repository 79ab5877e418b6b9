---- MODULE ExprCompiled ----
(***************************************************************************)
(* The same expressions as the compiler emits them: the JavaScript helper  *)
(* of each function (exprHelperDefs) and the lowering of a path            *)
(* (transformSeg), both in internal/shortcut/expr.go; and the inputs on    *)
(* which that JavaScript and the interpreter part, each by name.           *)
(***************************************************************************)
EXTENDS ExprFunctions

----------------------------------------------------------------------------
(* JavaScript's own conversions, outside of the repository.                *)

\* A small or a large number takes an exponent: 1.25e-7, 1e+21.
Exponential(k) == k # 0 /\ (Abs(k) < MinPlain \/ Abs(k) >= MaxPlain)
Scientific(k) ==
    LET all    == Numeral((5 * Abs(k)) \div 4)       \* in thousandths
        digits == SubSeq(all, 1, Max({n \in DOMAIN all : all[n] # "0"}))
        e      == Len(all) - 4
    IN  Minus(k) \o <<digits[1]>> \o (IF Len(digits) = 1 THEN <<>> ELSE <<".">> \o Tail(digits))
        \o <<"e">> \o (IF e < 0 THEN <<"-">> ELSE <<"+">>) \o Numeral(Abs(e))

JsScalar(v) ==
    CASE v.t = "missing" -> <<"undefined">>
      [] v.t = "null"    -> <<"null">>
      [] v.t = "num"     -> IF Exponential(v.k) THEN Scientific(v.k) ELSE Decimal(v.k)
      [] v.t = "zero"    -> <<"0">>
      [] v.t = "nan"     -> <<"NaN">>
      [] v.t = "inf"     -> IF v.sign > 0 THEN <<"Infinity">> ELSE <<"-", "Infinity">>
      [] v.t = "bool"    -> IF v.b THEN <<"true">> ELSE <<"false">>
      [] v.t = "str"     -> v.s
      [] OTHER           -> <<"[object Object]">>

JsString(v) ==
    IF v.t # "list" THEN JsScalar(v)
    ELSE Joined([n \in DOMAIN v.l |-> IF IsNil(v.l[n]) THEN <<>> ELSE JsScalar(v.l[n])], <<",">>)

\* trim and Number take a BOM for a blank, and no NEL.
JsBlanks == {" ", "BOM"}

\* A text as a number: a prefix takes no sign, and out of range is infinite.
Prefixed(s) == s # <<>> /\ s[1] = "0x"
HexValue(s) ==
    LET upTo[n \in 0..Len(s)] == IF n = 0 THEN 0 ELSE 16 * upTo[n - 1] + DigitValue(s[n])
    IN  upTo[Len(s)]
JsParse(s) ==
    LET m == Unsigned(s)
    IN  IF Prefixed(s) THEN IF IsNumeral(Tail(s)) THEN Num(Unit * HexValue(Tail(s))) ELSE NaN
        ELSE IF m = <<"Infinity">> THEN SignedInf(s)
        ELSE IF ~IsDecimal(m) THEN NaN
        ELSE IF DecimalValue(m) > MaxFloat THEN SignedInf(s)
        ELSE SignedNumber(s, DecimalValue(m))
JsRead(s) == IF Trim(s, JsBlanks) = <<>> THEN Num(0) ELSE JsParse(Trim(s, JsBlanks))

JsNumber(v) ==
    CASE Number(v)    -> v
      [] v.t = "null" -> Num(0)
      [] v.t = "bool" -> Num(IF v.b THEN Unit ELSE 0)
      [] v.t \in {"str", "list"} -> JsRead(JsString(v))
      [] OTHER        -> NaN

\* toUpperCase and toLowerCase write some letters with two.
JsUpper(c) == IF c = "eszett" THEN <<"S", "S">> ELSE <<Upper(c)>>
JsLower(c) == IF c = "Idot" THEN <<"i", "dot">> ELSE <<Lower(c)>>

\* A text as its UTF-16 units, and a value up to undefined and null.
Units(s) == FlattenSeq([n \in DOMAIN s |-> IF s[n] = "G" THEN <<"G1", "G2">> ELSE <<s[n]>>])
Seen(v) ==
    CASE IsNil(v)     -> Missing
      [] v.t = "str"  -> Text(Units(v.s))
      [] v.t = "list" -> List([n \in DOMAIN v.l |-> IF v.l[n].t = "str" THEN Text(Units(v.l[n].s))
                                                    ELSE v.l[n]])
      [] OTHER        -> v

\* slice takes any number for an index: NaN is 0, an infinity is an end.
JsIndex(x, n) ==
    CASE x = NaN      -> 0
      [] x.t = "inf"  -> IF x.sign > 0 THEN n ELSE 0
      [] OTHER        -> LET j == Truncate(x.k)
                         IN  IF j < 0 THEN Max({0, j + n}) ELSE Min({j, n})
JsSlice(s, x, y) ==
    LET u == Units(s) IN Text(SubSeq(u, JsIndex(x, Len(u)) + 1, JsIndex(y, Len(u))))
JsSum(x, y) ==
    CASE x = NaN \/ y = NaN -> NaN
      [] x.t = "inf" \/ y.t = "inf" ->
            IF x.t = "inf" /\ y.t = "inf" /\ x # y THEN NaN ELSE IF x.t = "inf" THEN x ELSE y
      [] OTHER -> Num(x.k + y.k)

\* toFixed: the multiple of 10^-d nearest to |k|, the larger of two.  (From 1e21
\* on it returns the number, which is whole and so its own multiple.)
JsToFixed(k, d) ==
    LET step == Unit \div Pow10(d)
        near == {m \in {(Abs(k) \div step) * step, (Abs(k) \div step + 1) * step} :
                   2 * Abs(m - Abs(k)) <= step}
    IN  Signed(k, Max(near))

----------------------------------------------------------------------------
(* The helpers.                                                            *)

JsRound(a) ==
    LET d == IF Len(a) < 2 \/ Arg(a, 2) = Missing THEN Num(0) ELSE JsNumber(a[2])
        n == IF Finite(d) THEN Truncate(d.k) ELSE 0
        x == JsNumber(Arg(a, 1))
    IN  IF d.t = "inf" \/ n \notin 0..100 THEN Throws
        ELSE IF x = MinusZero THEN Num(0)             \* toFixed drops the sign of a -0
        ELSE OnNum(LAMBDA k : IF Exact(n) THEN k ELSE JsToFixed(k, n), x)

JsAdd(l, r) ==
    IF {l.t, r.t} \cap {"str", "list", "map"} = {} THEN Arith("+", JsNumber(l), JsNumber(r))
    ELSE Text(JsString(l) \o JsString(r))

JsFn(fn, a) ==
    LET s    == JsString(Arg(a, 1))
        x    == JsNumber(Arg(a, 1))
        y    == JsNumber(Arg(a, 2))
        text(n) == JsString(Arg(a, n))
        nums == [n \in DOMAIN a |-> JsNumber(a[n])]
    IN  CASE fn = "concat"  -> Text(FlattenSeq([n \in DOMAIN a |-> JsString(a[n])]))
          [] fn = "upper"   -> Text(FlattenSeq(MapText(JsUpper, s)))
          [] fn = "lower"   -> Text(FlattenSeq(MapText(JsLower, s)))
          [] fn = "trim"    -> Text(Trim(s, JsBlanks))
          [] fn = "substr"  -> JsSlice(s, y, JsSum(y, JsNumber(Arg(a, 3))))
          [] fn = "slice"   -> JsSlice(s, y, JsNumber(Arg(a, 3)))
          [] fn = "replace" -> Text(Joined(IF text(2) = <<>> THEN Letters(Units(s)) ELSE Cut(s, text(2)),
                                           text(3)))
          [] fn = "len"     -> Num(Unit * Len(Units(s)))
          [] fn = "urlencode" -> Text(Encode(s))
          [] fn = "round"   -> JsRound(a)
          [] fn = "floor"   -> OnNum(Floor, x)
          [] fn = "ceil"    -> OnNum(Ceil, x)
          [] fn = "abs"     -> AbsNum(x)
          [] fn = "min"     -> Reduce([v \in Numbers |-> [u \in Numbers |-> MinNum(v, u)]], Inf(1), nums)
          [] fn = "max"     -> Reduce([v \in Numbers |-> [u \in Numbers |-> MaxNum(v, u)]], Inf(-1), nums)
          [] fn = "eq"      -> Bool(s = text(2))
          [] fn = "ne"      -> Bool(s # text(2))
          [] fn = "gt"      -> Bool(Less(y, x))
          [] fn = "gte"     -> Bool(AtMost(y, x))
          [] fn = "lt"      -> Bool(Less(x, y))
          [] fn = "lte"     -> Bool(AtMost(x, y))
          [] fn = "and"     -> Bool(\A n \in DOMAIN a : Truthy(a[n]))
          [] fn = "or"      -> Bool(\E n \in DOMAIN a : Truthy(a[n]))
          [] fn = "not"     -> Bool(~Truthy(Arg(a, 1)))
          [] fn = "if"      -> IF Truthy(Arg(a, 1)) THEN Arg(a, 2) ELSE Arg(a, 3)
          [] fn = "coalesce" -> LET kept == {n \in DOMAIN a : ~IsNil(a[n]) /\ a[n] # Text(<<>>)}
                                IN  IF kept = {} THEN Text(<<>>) ELSE a[Min(kept)]
          [] fn = "default" -> IF IsNil(Arg(a, 1)) \/ a[1] = Text(<<>>) THEN Arg(a, 2) ELSE a[1]
          [] fn = "split"   -> Pieces(Parts(s, text(2), Units(s)), JsBlanks)
          [] fn = "+"       -> JsAdd(Arg(a, 1), Arg(a, 2))
          [] fn \in {"-", "*", "/", "%"} -> Arith(fn, x, y)
          [] fn = "neg"     -> Arith("neg", x, NaN)

\* res?.a?.[0]: a text has indices and a length too.
JsStep(v, seg) ==
    CASE v.t = "str" /\ seg \in DOMAIN Indices ->
            IF Indices[seg] < Len(Units(v.s)) THEN Text(<<Units(v.s)[Indices[seg] + 1]>>) ELSE Missing
      [] v.t = "str" /\ seg = "length"  -> Num(Unit * Len(Units(v.s)))
      [] v.t = "list" /\ seg = "length" -> Num(Unit * Len(v.l))
      [] OTHER                          -> GetStep(v, seg)

JsAfter(root, segs) ==
    LET after[n \in 0..Len(segs)] == IF n = 0 THEN root ELSE JsStep(after[n - 1], segs[n])
    IN  after

\* in.a.b is inp.a.b, with no chaining: it throws on an input that is absent.
JsPath(space, root, segs) ==
    IF space = "in" /\ \E n \in 1..(Len(segs) - 1) : IsNil(JsAfter(root, segs)[n]) THEN Throws
    ELSE JsAfter(root, segs)[Len(segs)]

----------------------------------------------------------------------------
(* Where the two part.                                                     *)

\* The arguments a function reads as text, and as a number: + joins when one of
\* them is a text, a list or an object, and adds otherwise.
Joins(a) == {Arg(a, 1).t, Arg(a, 2).t} \cap {"str", "list", "map"} # {}
AsText(fn, a) ==
    CASE fn \in {"upper", "lower", "trim", "substr", "slice", "len", "urlencode"} -> {1}
      [] fn \in {"eq", "ne", "split"} -> {1, 2}
      [] fn = "replace" -> {1, 2, 3}
      [] fn = "concat" -> DOMAIN a
      [] fn = "+" /\ Joins(a) -> {1, 2}
      [] OTHER -> {}
AsNumber(fn, a) ==
    CASE fn \in {"floor", "ceil", "abs", "neg"} -> {1}
      [] fn \in {"round", "gt", "gte", "lt", "lte", "-", "*", "/", "%"} -> {1, 2}
      [] fn \in {"substr", "slice"} -> {2, 3}
      [] fn \in {"min", "max"} -> DOMAIN a
      [] fn = "+" /\ ~Joins(a) -> {1, 2}
      [] OTHER -> {}

Composite(v) == v.t \in {"list", "map"}
Fractional(v) == ToNum(v).t = "num" /\ ToNum(v).k % Unit # 0
Wide(v)     == Contains(ToStr(v), "G")
OddBlank(s) == {"NEL", "BOM"} \cap ToSet(s) # {}
OutOfRange(x) == x.t = "num" /\ ~InRange(Truncate(x.k))
Digits(a)   == JsNumber(a[2])

Divergences(fn, a) ==
    LET text(Odd(_))   == \E n \in AsText(fn, a) : Odd(Arg(a, n))
        number(Odd(_)) == \E n \in AsNumber(fn, a) : Odd(Arg(a, n))
        numeral(Odd(_)) == \E n \in AsNumber(fn, a) :
                              Arg(a, n).t = "str" /\ Odd(Trim(Arg(a, n).s, GoBlanks))
    IN
    [ \* an absent value is the empty text here, "undefined" or "null" there
      absentText  |-> text(IsNil),
      \* a null counts as 0 there, as not a number here; as digits it is 0 on both
      nullNumber  |-> \E n \in AsNumber(fn, a) : Arg(a, n) = Null /\ ~(fn = "round" /\ n = 2),
      \* a list or an object has no text and no number here
      composite   |-> text(Composite) \/ number(Composite),
      \* an infinity is spelled +Inf here, the sign of -0 is not dropped, and no
      \* number takes an exponent ('f' is the format of value.go:64)
      infiniteText  |-> text(LAMBDA v : v.t = "inf"),
      minusZeroText |-> text(LAMBDA v : v = MinusZero),
      exponentText  |-> text(LAMBDA v : v.t = "num" /\ Exponential(v.k)),
      \* 0x1 is a number there, Inf and 1_0 are here, and 1e999 is infinite
      \* there and not a number here (value.go:95)
      prefixed    |-> numeral(Prefixed),
      spelledInf  |-> numeral(LAMBDA s : Unsigned(s) = <<"Inf">>),
      underscored |-> numeral(LAMBDA s : Separated(Unsigned(s))),
      huge        |-> numeral(LAMBDA s : IsDecimal(Unsigned(s)) /\ DecimalValue(Unsigned(s)) > MaxFloat),
      \* each side trims a character the other keeps
      blanks      |-> \/ number(LAMBDA v : v.t = "str" /\ OddBlank(v.s))
                      \/ fn = "trim" /\ OddBlank(ToStr(Arg(a, 1)))
                      \/ fn = "split" /\ (\E p \in ToSet(Parts(ToStr(Arg(a, 1)), ToStr(Arg(a, 2)),
                                                               ToStr(Arg(a, 1)))) : OddBlank(p)),
      \* the other case of a letter is one letter here
      casing      |-> \/ fn = "upper" /\ Contains(ToStr(Arg(a, 1)), "eszett")
                      \/ fn = "lower" /\ Contains(ToStr(Arg(a, 1)), "Idot"),
      \* toFixed drops the sign of -0
      minusZero   |-> fn = "round" /\ ToNum(Arg(a, 1)) = MinusZero,
      \* a character outside of the basic plane counts once here, twice there
      wide        |-> \/ fn \in {"len", "slice", "substr"} /\ Wide(Arg(a, 1))
                      \/ fn = "split" /\ Wide(Arg(a, 1)) /\ ToStr(Arg(a, 2)) = <<>>,
      emptyPattern |-> fn = "replace" /\ ToStr(Arg(a, 2)) = <<>>,
      \* toFixed takes 0 to 100 digits; here fewer are none, and 309 panic
      digits      |-> fn = "round" /\ Len(a) > 1 /\
                        (Digits(a).t = "inf" \/ (Digits(a).t = "num" /\ Truncate(Digits(a).k) \notin 0..100)),
      infiniteIndex |-> fn \in {"slice", "substr"} /\ (\E n \in 2..3 : ToNum(Arg(a, n)).t = "inf"),
      \* an index outside of the range of an int is some int here
      overflow    |-> \/ fn \in {"slice", "substr"} /\ (\E n \in 2..3 : OutOfRange(ToNum(Arg(a, n))))
                      \/ fn = "substr" /\ OutOfRange(JsSum(ToNum(Arg(a, 2)), ToNum(Arg(a, 3)))),
      \* start and length are truncated apart here, their sum there
      fractional  |-> fn = "substr" /\ \E n \in 2..3 : Fractional(Arg(a, n)),
      \* NaN is some int here, 0 or the least, and makes the sum NaN there
      nanIndex    |-> fn = "substr" /\ \E n \in 2..3 : ToNum(Arg(a, n)) = NaN,
      \* math.Min(-Inf, NaN) is -Inf
      infiniteNaN |-> fn \in {"min", "max"} /\ NaN \in {ToNum(a[n]) : n \in DOMAIN a}
                        /\ \E n \in DOMAIN a : ToNum(a[n]).t = "inf" ]

Contract(fn, a) == LET apart == Divergences(fn, a) IN \A d \in DOMAIN apart : ~apart[d]

\* in.<key> is one step; a step of res goes into an object or a list, and no
\* step asks for a length.
PathContract(space, root, segs) ==
    /\ space = "in" => Len(segs) = 1
    /\ \A n \in DOMAIN segs :
          /\ segs[n] # "length"
          /\ JsAfter(root, segs)[n - 1].t # "str"
====
