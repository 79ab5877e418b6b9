SPECIFICATION Spec
CONSTANTS
    NumberTokens = {"1"}
    StringTokens = {"')'"}
    NameTokens = {"in.a", "in.b", "res.x", "len", "rand"}
    InRefs <- KeyOf
    ResRefs = {"res.x"}
    exprFuncs = {"len"}
    formKeys = {"a"}
    maxExprDepth = 2
    Chars <- Characters
    Archs = {"amd64", "arm64"}
    MaxInt = 511
    maxPow10 = 308
    MinPlain = 200
    MaxPlain = 400000
    MaxFloat = 1600000
    Vocabularies <- Vocabulary
    MaxTokens = 6
    Values <- AllValues
    Arity <- Arities
    Roots <- AllRoots
    Segments = {"x", "l", "0", "1", "length"}
    MaxSegments = 3
INVARIANTS
    ParsesGrammar
    StackBounded
    ValidatedRuns
    AgreesWithCompiled
    NeverPanics
CHECK_DEADLOCK FALSE
