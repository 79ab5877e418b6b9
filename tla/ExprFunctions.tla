---- MODULE ExprFunctions ----
(***************************************************************************)
(* The functions and operators of the expression language, twice: as the   *)
(* interpreter computes them (exprFns, toStr, toNum, getPath in            *)
(* internal/execrt) and as the JavaScript the compiler emits computes them *)
(* (exprHelperDefs and translateExpr, internal/shortcut/expr.go).  The     *)
(* JavaScript built-ins those use (String, Number, slice, toFixed, ...)    *)
(* are outside of the repository and are named Js...                       *)
(*                                                                         *)
(* A number is k/800, exact for the eighths arguments are made of and for  *)
(* their rounding to two digits, and -0 is one of its own.  A text is a    *)
(* sequence of characters, and some stand for many: "G" for those that     *)
(* take two UTF-16 units, "NEL" and "BOM" for the blanks one side trims    *)
(* only, "eszett" and "Idot" for the letters whose other case is longer,   *)
(* "0x" for the prefixes of a base, "Inf" for the spellings of Infinity    *)
(* JavaScript does not know; the words NaN, true, ... are one each.        *)
(***************************************************************************)
EXTENDS Integers, Sequences, FiniteSets, SequencesExt

CONSTANTS
    Chars,      \* what texts are made of
    Archs,      \* machines the runner is built for, subset of {"amd64", "arm64"}
    MaxInt,     \* the largest int (2^63 - 1 in the code)
    maxPow10,   \* the largest power of ten a float64 holds (308)
    \* thresholds of numbers, as k/800
    MinPlain,   \* below it JavaScript writes an exponent (1e-6) ...
    MaxPlain,   \* ... and from it on (1e21)
    MaxFloat    \* the largest float64

Digit == <<"0", "1", "2", "3", "4", "5", "6", "7", "8", "9">>

ASSUME FunctionsAssumption ==
    /\ ToSet(Digit) \cup {"-", "+", ".", "NaN", "Inf", "true", "false"} \subseteq Chars
    /\ Archs \subseteq {"amd64", "arm64"}
    /\ MaxInt \in Nat /\ MaxInt >= 127
    /\ maxPow10 \in Nat /\ maxPow10 >= 100
    /\ {MinPlain, MaxPlain, MaxFloat} \subseteq Nat

Unit    == 800
Num(k)  == [t |-> "num", k |-> k]
MinusZero == [t |-> "zero", k |-> 0]
Inf(s)  == [t |-> "inf", sign |-> s]
NaN     == [t |-> "nan"]
Text(s) == [t |-> "str", s |-> s]
Bool(b) == [t |-> "bool", b |-> b]
Missing == [t |-> "missing"]      \* absent: undefined in JavaScript, nil in Go
Null    == [t |-> "null"]         \* a JSON null: null in JavaScript, nil in Go
List(l) == [t |-> "list", l |-> l]
Dict(d) == [t |-> "map", d |-> d]
Throws  == [t |-> "throws"]       \* a panic, an exception
Arith(op, x, y) == [t |-> "arith", op |-> op, x |-> x, y |-> y]   \* IEEE on both sides

IsNil(v) == v.t \in {"missing", "null"}
Arg(a, n) == IF n \in DOMAIN a THEN a[n] ELSE Missing

Abs(k)      == IF k < 0 THEN -k ELSE k
Signed(k, m) == IF k < 0 THEN -m ELSE m          \* m with the sign of k
Floor(k)    == (k \div Unit) * Unit
Ceil(k)     == -Floor(-k)
Truncate(k) == Signed(k, Abs(k) \div Unit)
Tens        == <<1, 10, 100>>
Pow10(d)    == Tens[d + 1]
Exact(d)    == d > 2                             \* an eighth has three decimals

----------------------------------------------------------------------------
(* What the conversions of both sides are made of: decimal numerals.       *)

Numeral(n) ==
    LET text[m \in 0..n] ==
            IF m < 10 THEN <<Digit[m + 1]>> ELSE Append(text[m \div 10], Digit[(m % 10) + 1])
    IN  text[n]
Eighths == <<<<>>, <<".", "1", "2", "5">>, <<".", "2", "5">>, <<".", "3", "7", "5">>,
             <<".", "5">>, <<".", "6", "2", "5">>, <<".", "7", "5">>, <<".", "8", "7", "5">>>>
Minus(k)   == IF k < 0 THEN <<"-">> ELSE <<>>
Decimal(k) == Minus(k) \o Numeral(Abs(k) \div Unit) \o Eighths[((Abs(k) % Unit) \div 100) + 1]

Trim(s, blanks) ==
    LET ink == {n \in DOMAIN s : s[n] \notin blanks}
    IN  IF ink = {} THEN <<>> ELSE SubSeq(s, Min(ink), Max(ink))

DigitValue(c) == CHOOSE n \in 0..9 : Digit[n + 1] = c
IsNumeral(s)  == s # <<>> /\ \A n \in DOMAIN s : s[n] \in ToSet(Digit)
Value(s)      ==
    LET upTo[n \in 0..Len(s)] == IF n = 0 THEN 0 ELSE 10 * upTo[n - 1] + DigitValue(s[n])
    IN  upTo[Len(s)]

\* A text up to the first c, and behind it.
At(s, c)     == {n \in DOMAIN s : s[n] = c}
Before(s, c) == IF At(s, c) = {} THEN s ELSE SubSeq(s, 1, Min(At(s, c)) - 1)
Behind(s, c) == IF At(s, c) = {} THEN <<>> ELSE SubSeq(s, Min(At(s, c)) + 1, Len(s))

Negative(s) == s # <<>> /\ s[1] = "-"
Unsigned(s) == IF s # <<>> /\ s[1] \in {"+", "-"} THEN Tail(s) ELSE s

\* 12.5e-1: a mantissa with a digit at least, and digits behind an e.
Whole(m)     == Before(Before(m, "e"), ".")
Fraction(m)  == Behind(Before(m, "e"), ".")
IsDecimal(m) == /\ IsNumeral(Whole(m) \o Fraction(m))
                /\ At(m, "e") # {} => IsNumeral(Unsigned(Behind(m, "e")))
Exponent(m)  ==
    LET x == Behind(m, "e")
    IN  IF x = <<>> THEN 0 ELSE IF Negative(x) THEN -Value(Unsigned(x)) ELSE Value(Unsigned(x))

\* Its value, of which three decimals are read.
Padded(digits, n) == [i \in 1..n |-> IF i \in DOMAIN digits THEN digits[i] ELSE "0"]
DecimalValue(m) ==
    (4 * Value(Padded(Whole(m) \o Fraction(m), Len(Whole(m)) + Exponent(m) + 3))) \div 5

\* k with the sign of the text it was read from: "-0" is -0.
SignedNumber(s, k) ==
    IF ~Negative(s) THEN Num(k) ELSE IF k = 0 THEN MinusZero ELSE Num(-k)
SignedInf(s) == IF Negative(s) THEN Inf(-1) ELSE Inf(1)

Upper(c) == IF c = "a" THEN "A" ELSE c
Lower(c) == CASE c = "A" -> "a" [] c = "Idot" -> "i" [] OTHER -> c
MapText(F(_), s) == [n \in DOMAIN s |-> F(s[n])]

\* Percent-encoding keeps letters, digits and some marks.
Unreserved ==
    ToSet(Digit) \cup {"a", "A", "e", "-", ".", "_", "0x", "NaN", "Inf", "Infinity", "true", "false"}
Encode(s) ==
    FlattenSeq([n \in DOMAIN s |->
        IF s[n] \in Unreserved THEN <<s[n]>> ELSE <<"%", s[n]>>])

\* s cut at each occurrence of sep, which is not empty, from the left.
Cut(s, sep) ==
    LET from[p \in 1..(Len(s) + 1)] ==
            LET at == {n \in p..(Len(s) - Len(sep) + 1) : SubSeq(s, n, n + Len(sep) - 1) = sep}
            IN  IF at = {} THEN <<SubSeq(s, p, Len(s))>>
                ELSE <<SubSeq(s, p, Min(at) - 1)>> \o from[Min(at) + Len(sep)]
    IN  from[1]
Letters(s)    == [n \in DOMAIN s |-> <<s[n]>>]
Joined(l, sep) == IF l = <<>> THEN <<>>
                  ELSE FoldLeft(LAMBDA acc, x : acc \o sep \o x, l[1], Tail(l))
Parts(s, sep, letters) == IF sep = <<>> THEN Letters(letters) ELSE Cut(s, sep)
Pieces(parts, blanks) ==
    LET trimmed == [n \in DOMAIN parts |-> Trim(parts[n], blanks)]
    IN  List(SelectSeq([n \in DOMAIN trimmed |-> Text(trimmed[n])], LAMBDA x : x # Text(<<>>)))

Finite(x) == x.t \in {"num", "zero"}
Number(x) == Finite(x) \/ x.t \in {"nan", "inf"}
Numbers   == [t : {"num"}, k : Int] \cup [t : {"inf"}, sign : {-1, 1}] \cup {NaN, MinusZero}
Scalars   == Numbers \cup [t : {"str"}, s : Seq(Chars)] \cup [t : {"bool"}, b : BOOLEAN]
                     \cup {Missing, Null}
Less(x, y) ==
    CASE x = NaN \/ y = NaN -> FALSE
      [] x.t = "inf" -> x.sign < 0 /\ y # x
      [] y.t = "inf" -> y.sign > 0
      [] OTHER -> x.k < y.k
AtMost(x, y) == x # NaN /\ y # NaN /\ ~Less(y, x)
Below(x, y)  == Less(x, y) \/ (x = MinusZero /\ y = Num(0))      \* of a minimum, -0 is less
MinNum(x, y) == IF x = NaN \/ y = NaN THEN NaN ELSE IF Below(y, x) THEN y ELSE x
MaxNum(x, y) == IF x = NaN \/ y = NaN THEN NaN ELSE IF Below(x, y) THEN y ELSE x

\* F of a number; what comes to 0 from below is -0.
OnNum(F(_), x) ==
    IF x.t # "num" THEN x ELSE IF x.k < 0 /\ F(x.k) = 0 THEN MinusZero ELSE Num(F(x.k))
AbsNum(x) == CASE x = MinusZero -> Num(0) [] x.t = "inf" -> Inf(1) [] OTHER -> OnNum(Abs, x)

----------------------------------------------------------------------------
(* The interpreter.                                                        *)

\* strconv.FormatFloat(x, 'f', -1, 64): never an exponent.
ToStr(v) ==
    CASE v.t = "num"  -> Decimal(v.k)
      [] v.t = "zero" -> <<"-", "0">>
      [] v.t = "nan"  -> <<"NaN">>
      [] v.t = "inf"  -> IF v.sign > 0 THEN <<"+", "Inf">> ELSE <<"-", "Inf">>
      [] v.t = "bool" -> IF v.b THEN <<"true">> ELSE <<"false">>
      [] v.t = "str"  -> v.s
      [] OTHER        -> <<>>

\* strings.TrimSpace takes a NEL (U+0085) for a blank, and no BOM (U+FEFF).
GoBlanks == {" ", "NEL"}

\* An underscore between two digits is skipped, anywhere else an error.
Separated(m) ==
    /\ At(m, "_") # {}
    /\ \A n \in At(m, "_") : {n - 1, n + 1} \subseteq DOMAIN m /\ {m[n - 1], m[n + 1]} \subseteq ToSet(Digit)
Plain(m) ==
    LET kept[n \in 0..Len(m)] ==
            IF n = 0 THEN <<>> ELSE IF m[n] = "_" THEN kept[n - 1] ELSE Append(kept[n - 1], m[n])
    IN  kept[Len(m)]

\* strconv.ParseFloat; out of range is an error, which toNum makes a NaN.
ParseFloat(s) ==
    LET m == Unsigned(s)
        p == IF Separated(m) THEN Plain(m) ELSE m
    IN  IF m \in {<<"Inf">>, <<"Infinity">>} THEN SignedInf(s)
        ELSE IF ~IsDecimal(p) \/ DecimalValue(p) > MaxFloat THEN NaN
        ELSE SignedNumber(s, DecimalValue(p))

ToNum(v) ==
    CASE Number(v)    -> v
      [] v.t = "bool" -> Num(IF v.b THEN Unit ELSE 0)
      [] v.t = "str"  -> LET s == Trim(v.s, GoBlanks) IN IF s = <<>> THEN Num(0) ELSE ParseFloat(s)
      [] OTHER        -> NaN

Truthy(v) ==
    CASE v.t \in {"missing", "null", "nan", "zero"} -> FALSE
      [] v.t = "num"  -> v.k # 0
      [] v.t = "bool" -> v.b
      [] v.t = "str"  -> v.s # <<>>
      [] OTHER        -> TRUE

IsNumberLike(v) == Number(v) \/ v.t = "bool" \/ IsNil(v)
IsBlankValue(v) == IsNil(v) \/ v = Text(<<>>)

\* A conversion float64 -> int outside of the range is left to the machine.
MinInt  == -MaxInt - 1
Wrap(n) == ((n - MinInt) % (2 * (MaxInt + 1))) + MinInt
InRange(n) == MinInt <= n /\ n <= MaxInt
Positive(x) == IF x.t = "inf" THEN x.sign > 0 ELSE x.k > 0
ToInt(x, arch) ==
    IF Finite(x) /\ InRange(Truncate(x.k)) THEN Truncate(x.k)
    ELSE IF arch = "amd64" THEN MinInt
    ELSE IF x = NaN THEN 0
    ELSE IF Positive(x) THEN MaxInt ELSE MinInt

\* Mutation: an index that is still negative after adding n is not clamped.
NormUnclamped(i, n) == IF i < 0 THEN i + n ELSE IF i > n THEN n ELSE i

NormIndex(i, n) ==
    LET j == IF i < 0 THEN i + n ELSE i
    IN  IF j < 0 THEN 0 ELSE IF j > n THEN n ELSE j

\* string(r[a:b]): panics unless 0 <= a <= b <= n.
Reslice(s, a, b) == IF 0 <= a /\ b <= Len(s) THEN Text(SubSeq(s, a + 1, b)) ELSE Throws

Slice(s, start, end) ==
    LET a == NormIndex(start, Len(s))
        b == NormIndex(end, Len(s))
    IN  IF a >= b THEN Text(<<>>) ELSE Reslice(s, a, b)

\* Mutation: half is added before the sign is taken off.
RoundSigned(k, d) ==
    LET m == (2 * k * Pow10(d) + Unit) \div (2 * Unit) IN m * (Unit \div Pow10(d))

\* Half up on |k|, then the sign restored.
RoundTo(k, d) ==
    LET m == (2 * Abs(k) * Pow10(d) + Unit) \div (2 * Unit)
    IN  Signed(k, m * (Unit \div Pow10(d)))

\* Beyond maxPow10 digits math.Pow is infinite, Int(nil) of the product is nil
\* and SetInt(nil) panics.
TooManyDigits(d) == d > maxPow10

RoundFn(a, arch) ==
    LET i == IF Len(a) > 1 THEN ToInt(ToNum(a[2]), arch) ELSE 0
        d == IF i < 0 THEN 0 ELSE i
        x == ToNum(Arg(a, 1))
    IN  IF Finite(x) /\ TooManyDigits(d) THEN Throws
        ELSE OnNum(LAMBDA k : IF Exact(d) THEN k ELSE RoundTo(k, d), x)

\* strings.ReplaceAll puts b around every character when the pattern is empty.
ReplaceFn(s, old, b) ==
    IF old = <<>> THEN b \o FlattenSeq([n \in DOMAIN s |-> <<s[n]>> \o b])
    ELSE Joined(Cut(s, old), b)

\* math.Min and math.Max let an infinity win over a NaN.
GoMin(x, y) == IF Inf(-1) \in {x, y} THEN Inf(-1) ELSE MinNum(x, y)
GoMax(x, y) == IF Inf(1) \in {x, y} THEN Inf(1) ELSE MaxNum(x, y)

\* nums reduced from the left by f, a function of one number, then of the next.
Reduce(f, seed, nums) ==
    LET acc[n \in 0..Len(nums)] == IF n = 0 THEN seed ELSE f[acc[n - 1]][nums[n]]
    IN  acc[Len(nums)]

Blanks(a) == {n \in DOMAIN a : ~IsBlankValue(a[n])}

Add(l, r) ==
    IF IsNumberLike(l) /\ IsNumberLike(r) THEN Arith("+", ToNum(l), ToNum(r))
    ELSE Text(ToStr(l) \o ToStr(r))

\* The helpers, and the operators by their tokens.
exprFns ==
    {"concat", "upper", "lower", "trim", "substr", "slice", "replace", "len", "urlencode",
     "round", "floor", "ceil", "abs", "min", "max", "eq", "ne", "gt", "gte", "lt", "lte",
     "and", "or", "not", "if", "coalesce", "default", "split", "+", "-", "*", "/", "%", "neg"}

GoFn(fn, a, arch) ==
    LET s    == ToStr(Arg(a, 1))
        x    == ToNum(Arg(a, 1))
        y    == ToNum(Arg(a, 2))
        i(n) == ToInt(ToNum(Arg(a, n)), arch)
        nums == [n \in DOMAIN a |-> ToNum(a[n])]
    IN  CASE fn = "concat"  -> Text(FlattenSeq([n \in DOMAIN a |-> ToStr(a[n])]))
          [] fn = "upper"   -> Text(MapText(Upper, s))
          [] fn = "lower"   -> Text(MapText(Lower, s))
          [] fn = "trim"    -> Text(Trim(s, GoBlanks))
          [] fn = "substr"  -> Slice(s, i(2), Wrap(i(2) + i(3)))
          [] fn = "slice"   -> Slice(s, i(2), i(3))
          [] fn = "replace" -> Text(ReplaceFn(s, ToStr(Arg(a, 2)), ToStr(Arg(a, 3))))
          [] fn = "len"     -> Num(Unit * Len(s))
          [] fn = "urlencode" -> Text(Encode(s))
          [] fn = "round"   -> RoundFn(a, arch)
          [] fn = "floor"   -> OnNum(Floor, x)
          [] fn = "ceil"    -> OnNum(Ceil, x)
          [] fn = "abs"     -> AbsNum(x)
          [] fn = "min"     -> Reduce([v \in Numbers |-> [u \in Numbers |-> GoMin(v, u)]], Inf(1), nums)
          [] fn = "max"     -> Reduce([v \in Numbers |-> [u \in Numbers |-> GoMax(v, u)]], Inf(-1), nums)
          [] fn = "eq"      -> Bool(s = ToStr(Arg(a, 2)))
          [] fn = "ne"      -> Bool(s # ToStr(Arg(a, 2)))
          [] fn = "gt"      -> Bool(Less(y, x))
          [] fn = "gte"     -> Bool(AtMost(y, x))
          [] fn = "lt"      -> Bool(Less(x, y))
          [] fn = "lte"     -> Bool(AtMost(x, y))
          [] fn = "and"     -> Bool(\A n \in DOMAIN a : Truthy(a[n]))
          [] fn = "or"      -> Bool(\E n \in DOMAIN a : Truthy(a[n]))
          [] fn = "not"     -> Bool(~Truthy(Arg(a, 1)))
          [] fn = "if"      -> IF Truthy(Arg(a, 1)) THEN Arg(a, 2) ELSE Arg(a, 3)
          [] fn = "coalesce" -> IF Blanks(a) = {} THEN Text(<<>>) ELSE a[Min(Blanks(a))]
          [] fn = "default" -> IF IsBlankValue(Arg(a, 1)) THEN Arg(a, 2) ELSE a[1]
          [] fn = "split"   -> Pieces(Parts(s, ToStr(Arg(a, 2)), s), GoBlanks)
          [] fn = "+"       -> Add(Arg(a, 1), Arg(a, 2))
          [] fn \in {"-", "*", "/", "%"} -> Arith(fn, x, y)
          [] fn = "neg"     -> Arith("neg", x, NaN)

\* Numeric segments index arrays, and are ordinary keys of an object.
Indices == ("0" :> 0) @@ ("1" :> 1)

GetStep(v, seg) ==
    CASE v.t = "map"  -> IF seg \in DOMAIN v.d THEN v.d[seg] ELSE Missing
      [] v.t = "list" -> IF seg \notin DOMAIN Indices \/ Indices[seg] >= Len(v.l) THEN Missing
                         ELSE v.l[Indices[seg] + 1]
      [] OTHER        -> Missing

GetPath(root, segs) ==
    LET after[n \in 0..Len(segs)] == IF n = 0 THEN root ELSE GetStep(after[n - 1], segs[n])
    IN  after[Len(segs)]
====
