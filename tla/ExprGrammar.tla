---- MODULE ExprGrammar ----
(***************************************************************************)
(* The expression language of a shortcut: the check a definition passes    *)
(* before it is saved or run (validateExpr, internal/shortcut/expr.go) and *)
(* the recursive-descent parser that runs it (internal/execrt/eval.go).    *)
(*                                                                         *)
(* An expression is the sequence of its tokens, each written as in the     *)
(* source; a string literal with its quotes.  The parser evaluates as it   *)
(* goes; here it writes down what it evaluates, in that order: "code" is a *)
(* sequence of <<token, operands>>, and "deep" the stack frames it needed. *)
(* Parsers and grammars are functions of the place in the expression where *)
(* they start, defined by recursion on the nesting.                        *)
(***************************************************************************)
EXTENDS Naturals, Sequences, SequencesExt

CONSTANTS
    NumberTokens,    \* numerals
    StringTokens,    \* string literals: plain ones and the literal ')'
    NameTokens,      \* identifiers, functions included
    InRefs,          \* the names that are in.<key>, a function to their keys
    ResRefs,         \* the names that are res.<path>
    exprFuncs,       \* the names of the allowlist that occur in expressions
    formKeys,        \* the declared inputs
    maxExprDepth     \* 64 in the code

Operators == {"+", "-", "*", "/", "%", "(", ")", ","}
Tokens    == NumberTokens \cup StringTokens \cup NameTokens \cup Operators

EOF       == ""

ASSUME GrammarAssumption ==
    /\ maxExprDepth \in Nat \ {0}
    /\ ResRefs \subseteq NameTokens /\ DOMAIN InRefs \subseteq NameTokens
    /\ ResRefs \cap DOMAIN InRefs = {}
    /\ exprFuncs \cup {"rand"} \subseteq NameTokens \ (ResRefs \cup DOMAIN InRefs)
    /\ NameTokens \cap (NumberTokens \cup StringTokens) = {}
    /\ Operators \cap (NameTokens \cup NumberTokens \cup StringTokens) = {}
    /\ EOF \notin Tokens

----------------------------------------------------------------------------
(* The validator: it looks at the tokens, never at the structure.          *)

\* Mutation: an input need not be declared.
AnyInput(t) == t \in exprFuncs \cup {"rand"} \cup ResRefs \cup DOMAIN InRefs

ValidIdent(t) ==
    \/ t \in exprFuncs \cup {"rand"} \cup ResRefs
    \/ t \in DOMAIN InRefs /\ InRefs[t] \in formKeys

\* strings.Contains(masked, "rand()"): one call without arguments is enough.
RandAsCall(w) ==
    Contains(w, "rand") => \E p \in 1..(Len(w) - 2) : SubSeq(w, p, p + 2) = <<"rand", "(", ")">>

ValidateExpr(w) ==
    /\ w # <<>>
    /\ RandAsCall(w)
    /\ \A p \in DOMAIN w : w[p] \in NameTokens => ValidIdent(w[p])

----------------------------------------------------------------------------
(* The parser.  Each function of it is a table: its result at every place  *)
(* p, given the tables of the functions it calls.                          *)

Places(w) == 1..(Len(w) + 1)
Cur(w, p) == IF p \in DOMAIN w THEN w[p] ELSE EOF

\* Only the text is compared, so the string literal ')' closes too.
Closes(t) == t \in {")", "')'"}

Failed(f)     == [ok |-> FALSE, code |-> <<>>, p |-> 0, deep |-> f]
Done(code, p) == [ok |-> TRUE, code |-> code, p |-> p, deep |-> 0]
Larger(x, y)  == IF x > y THEN x ELSE y

\* A call: one more frame.
Frame(r) == [r EXCEPT !.deep = @ + 1]

\* Both operands, then the operator.
Binary(t, l, r) == l \o r \o << <<t, 2>> >>

Join(t, l, r) ==
    [ok |-> r.ok, code |-> Binary(t, l.code, r.code), p |-> r.p,
     deep |-> Larger(l.deep, r.deep)]

TooDeep(d, max) == d > max

\* Mutation: parentheses and arguments do not count.
LevelFree(d) == d

LevelDepth(d) == d + 1

\* Mutation: a unary minus does not count.
UnaryFree(d) == d

UnaryDepth(d) == d + 1

\* An operand, and one more as long as an operator of ops follows.
Chained(w, ops, operand, p) ==
    LET left[n \in 0..Len(w)] ==
            IF n = 0 THEN operand[p]
            ELSE LET l == left[n - 1]
                 IN  IF l.ok /\ Cur(w, l.p) \in ops THEN Join(w[l.p], l, operand[l.p + 1]) ELSE l
    IN  left[Len(w)]

ResolveRef(t, p) ==
    IF t \in ResRefs \cup DOMAIN InRefs THEN Done(<< <<t, 0>> >>, p) ELSE Failed(0)

\* The closing parenthesis, and what is evaluated then.
Close(w, v, op) ==
    IF v.ok /\ Closes(Cur(w, v.p))
    THEN [ok |-> TRUE, code |-> Append(v.code, op), p |-> v.p + 1, deep |-> v.deep]
    ELSE Failed(v.deep)

ParseCall(w, name, p, addSub) ==
    LET none == Cur(w, p) = ")"
        args == IF none THEN Done(<<>>, p) ELSE Chained(w, {","}, addSub, p)
        call == Close(w, args, <<name, IF none THEN 0 ELSE 1>>)
    IN  IF name \in exprFuncs \cup {"rand"} THEN call ELSE Failed(call.deep)

Primary(w, p, addSub) ==
    LET t == Cur(w, p)
    IN  CASE t \in NumberTokens \cup StringTokens -> Done(<< <<t, 0>> >>, p + 1)
          [] t = "(" -> Close(w, addSub[p + 1], <<"(", 1>>)
          [] t \in NameTokens -> IF Cur(w, p + 1) = "(" THEN Frame(ParseCall(w, t, p + 2, addSub))
                                 ELSE ResolveRef(t, p + 1)
          [] OTHER -> Failed(0)

Negate(v) == [v EXCEPT !.code = Append(@, <<"-", 1>>)]

MulDiv(w, unary) == [p \in Places(w) |-> Frame(Chained(w, {"*", "/", "%"}, unary, p))]

\* parseAddSub below its check of the depth.
AddSub(w, unary) == [p \in Places(w) |-> Frame(Chained(w, {"+", "-"}, MulDiv(w, unary), p))]

NoParse(w) == [p \in Places(w) |-> Failed(1)]

\* parseUnary at each depth.
Unary(w, max) ==
    LET unary[d \in 0..max] ==
            LET addSub == IF TooDeep(LevelDepth(d), max) THEN NoParse(w)
                          ELSE AddSub(w, unary[LevelDepth(d)])
            IN  [p \in Places(w) |->
                    IF Cur(w, p) # "-" THEN Frame(Frame(Primary(w, p, addSub)))
                    ELSE IF TooDeep(UnaryDepth(d), max) THEN Failed(1)
                    ELSE Frame(Negate(unary[UnaryDepth(d)][p + 1]))]
    IN  unary

Parse(w, max) ==
    LET v == IF TooDeep(LevelDepth(0), max) THEN Failed(1)
             ELSE AddSub(w, Unary(w, max)[LevelDepth(0)])[1]
    IN  IF v.ok /\ Cur(w, v.p) # EOF THEN Failed(v.deep) ELSE v

EvalExpr(w) == Parse(w, maxExprDepth)

----------------------------------------------------------------------------
(* The grammar of the comment above evalExpr: for each span i..j of the    *)
(* expression the set of what its derivations evaluate.  The parser takes  *)
(* liberties with it, three of them, and "may" is the set of those a       *)
(* derivation may take: with {} the grammar is the comment's.              *)

\* More than one minus; the string literal ')' for a closing parenthesis; and
\* arguments of rand.
Liberties == {"minuses", "literal", "arguments"}

\* The liberties that w has room for.
Taken(w) ==
    {liberty \in Liberties : \E p \in DOMAIN w :
        \/ liberty = "minuses" /\ w[p] = "-" /\ Cur(w, p + 1) = "-"
        \/ liberty = "literal" /\ w[p] = "')'"
        \/ liberty = "arguments" /\ w[p] = "rand" /\ Cur(w, p + 1) = "(" /\ Cur(w, p + 2) # ")"}

\* The spans from i on: operands of ops, grouped to the left.
Combined(t, left, right) == {Binary(t, l, r) : l \in left, r \in right}

ChainFrom(w, ops, operand, i) ==
    LET upTo[j \in 0..Len(w)] ==
            operand[i][j] \cup
            UNION {Combined(w[k], upTo[k - 1], operand[k + 1][j]) :
                     k \in {k \in (i + 1)..(j - 1) : w[k] \in ops}}
    IN  upTo

Chain(w, ops, operand) == [i \in Places(w) |-> ChainFrom(w, ops, operand, i)]

Nothing(w)       == [i \in Places(w) |-> [j \in 0..Len(w) |-> {}]]
Sums(w, factors) == Chain(w, {"+", "-"}, Chain(w, {"*", "/", "%"}, factors))

When(condition, S) == IF condition THEN S ELSE {}

\* The factors of i..j, given those one level down and the sums of those.
Atoms(w, i, j) ==
    When(i = j /\ w[i] \in NumberTokens \cup StringTokens \cup ResRefs \cup DOMAIN InRefs,
         {<< <<w[i], 0>> >>})

Negations(w, i, j, below, may) ==
    When(w[i] = "-" /\ ("minuses" \in may \/ Cur(w, i + 1) # "-"),
         {Append(c, <<"-", 1>>) : c \in below[i + 1][j]})

ClosedBy(t, may) == \/ t = ")"
                    \/ "literal" \in may /\ t = "')'"

Parens(w, i, j, inner, may) ==
    When(j > i + 1 /\ w[i] = "(" /\ ClosedBy(w[j], may),
         {Append(c, <<"(", 1>>) : c \in inner[i + 1][j - 1]})

\* rand() is an atom; func '(' args? ')'.
CallsOf(w, i, j, inner, may) ==
    When(j > i + 1 /\ w[i] \in exprFuncs \cup {"rand"} /\ w[i + 1] = "(" /\ ClosedBy(w[j], may),
         When(j = i + 2 /\ w[j] = ")", {<< <<w[i], 0>> >>})
         \cup When(w[i] # "rand" \/ "arguments" \in may,
                   {Append(c, <<w[i], 1>>) : c \in Chain(w, {","}, inner)[i + 2][j - 1]}))

Level(w, below, inner, may) ==
    [i \in Places(w) |-> [j \in 0..Len(w) |->
        When(i <= j, Atoms(w, i, j) \cup Negations(w, i, j, below, may)
                     \cup Parens(w, i, j, inner, may) \cup CallsOf(w, i, j, inner, may))]]

\* Factors nested at most n levels.
Factors(w, n, may) ==
    LET nested[k \in 0..n] ==
            IF k = 0 THEN Level(w, Nothing(w), Nothing(w), may)
            ELSE Level(w, nested[k - 1], Sums(w, nested[k - 1]), may)
    IN  nested[n]

\* What the expression may evaluate, nested at most n levels below the first.
Derivations(w, n, may) == Sums(w, Factors(w, n, may))[1][Len(w)]
====
