---- MODULE ExprEval ----
(***************************************************************************)
(* An author writes an expression token by token, or a call argument by    *)
(* argument, or a path segment by segment; at each point the interpreter   *)
(* and the compiled program are asked for the same thing.                  *)
(***************************************************************************)
EXTENDS ExprGrammar, ExprCompiled, FiniteSets

CONSTANTS
    Vocabularies,  \* the tokens of one expression, a set of sets of tokens
    MaxTokens,     \* tokens of an expression
    Values,        \* arguments
    Arity,         \* the calls written: from a function to its most arguments
    Roots,         \* responses and inputs, and whatever is inside of them
    Segments,      \* of paths
    MaxSegments

ASSUME EvalAssumption ==
    /\ \A V \in Vocabularies : V \subseteq Tokens
    /\ MaxTokens \in Nat /\ MaxSegments \in Nat
    /\ DOMAIN Arity \subseteq exprFns
    /\ \A v \in Values : (v \in Scalars \/ v.t \in {"list", "map"}) /\ Len(ToStr(v)) <= MaxInt
    /\ \A r \in Roots : r # Throws /\ \A seg \in Segments : GetStep(r, seg) \in Roots

VARIABLES
    about,   \* what is written: a vocabulary, a function or a root
    word     \* what is written so far

vars == <<about, word>>

Exprs == {<<"expr", V>> : V \in Vocabularies}
Calls == {<<"call", fn>> : fn \in DOMAIN Arity}
Paths == {<<"path", r>> : r \in Roots}

Init == about \in Exprs \cup Calls \cup Paths /\ word = <<>>

Write(S, bound) ==
    /\ Len(word) < bound
    /\ \E x \in S : word' = Append(word, x)
    /\ UNCHANGED about

WriteToken    == about \in Exprs /\ Write(about[2], MaxTokens)
WriteArgument == about \in Calls /\ Write(Values, Arity[about[2]])
WriteSegment  == about \in Paths /\ Write(Segments, MaxSegments)

Next == WriteToken \/ WriteArgument \/ WriteSegment

Spec == Init /\ [][Next]_vars

----------------------------------------------------------------------------
(* Properties                                                              *)

Outcome == EvalExpr(word)

\* The recursive descent accepts what the grammar above evalExpr derives within
\* the nesting bound, and evaluates in the order of the one derivation:
\* precedence and left associativity included (eval.go:21-27).  What it accepts
\* beyond the grammar takes a liberty of the three that Liberties names.
ParsesGrammar ==
    about \in Exprs =>
        LET derived(may) == Derivations(word, maxExprDepth - 1, may)
            accepted == IF Outcome.ok THEN {Outcome.code} ELSE {}
        IN  /\ derived({}) \subseteq accepted
            /\ accepted = derived(Taken(word))
            /\ \A c1, c2 \in Derivations(word, Len(word), Liberties) : c1 = c2

\* No expression, accepted or not, can grow the stack beyond what the nesting
\* bound allows: an overflow is fatal and recover() cannot catch it, "crashing
\* the whole shared runner" (eval.go:110-114).  A level has at most the five
\* frames of parseAddSub, parseMulDiv, parseUnary, parsePrimary, parseCall,
\* and one call finds the bound exceeded.
StackBounded == about \in Exprs => Outcome.deep <= 5 * maxExprDepth + 1

\* What validateExpr lets through reads declared inputs and calls allowlisted
\* functions only, and fails at run time only where the structure, which
\* validateExpr never looks at, is at fault ("the caller MUST have run
\* shortcut.ValidateExpr first", eval.go:17).
ValidatedRuns ==
    about \in Exprs /\ ValidateExpr(word) =>
        /\ Outcome.ok => \A n \in DOMAIN Outcome.code :
              LET t == Outcome.code[n][1] IN t \in DOMAIN InRefs => InRefs[t] \in formKeys
        /\ ~Outcome.ok => Derivations(word, maxExprDepth - 1, Liberties) = {}

\* Interpreter and compiled program return the same value for the same call
\* ("the SAME helper functions shortcut emits as JS", eval.go:15), on every
\* machine, but for the divergences listed by name; round in particular rounds
\* like toFixed ("so the execrt interpreter and the basekit-on-FaaS path write
\* the SAME number for the same DSL", eval.go:400).  A path into a response
\* reads the same value too, the steps into texts and "length" aside
\* ("matching the compiler's res.list.0.x -> optional-chaining lowering",
\* value.go:20-21).
AgreesWithCompiled ==
    /\ about \in Calls /\ Contract(about[2], word) =>
          \A arch \in Archs : Seen(GoFn(about[2], word, arch)) = Seen(JsFn(about[2], word))
    /\ about \in Paths => \A space \in {"res", "in"} :
          PathContract(space, about[2], word) =>
             Seen(GetPath(about[2], word)) = Seen(JsPath(space, about[2], word))

\* No arguments, whatever their types and however few, and no path make the
\* interpreter panic, on any machine: an index outside of a text above all ("errors
\* instead of panicking on bad shapes", eval.go:18).  Only round does, when
\* asked for more digits than a float64 has powers of ten.
NeverPanics ==
    /\ about \in Calls => \A arch \in Archs :
          \/ GoFn(about[2], word, arch) # Throws
          \/ about[2] = "round" /\ TooManyDigits(ToInt(ToNum(word[2]), arch))
    /\ about \in Paths => GetPath(about[2], word) # Throws

====
