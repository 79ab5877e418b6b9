----------------------------- MODULE ExprProofs -----------------------------
(***************************************************************************)
(* What ExprEval promises of expressions, calls and paths, for every       *)
(* vocabulary, every nesting bound, every set of arguments and responses,  *)
(* every machine and every width of an int.                                *)
(*                                                                         *)
(* The parser, the grammar and the functions are recursive functions, so   *)
(* each has a lemma ...Def that its recursion has a solution, by induction *)
(* on a set of naturals, and what it computes is proved from that.         *)
(***************************************************************************)
EXTENDS ExprEval, FiniteSetTheorems, SequenceTheorems, TLAPS

----------------------------------------------------------------------------
(* Induction and recursion                                                 *)

\* A set of naturals that has 0 and every successor of its own has them all:
\* induction, with a set for the predicate.
LEMMA SetInduction ==
    ASSUME NEW S, 0 \in S, \A n \in Nat : n \in S => n + 1 \in S
    PROVE  Nat \subseteq S
  <1> SUFFICES ASSUME NEW n \in Nat, n \notin S PROVE FALSE
    OBVIOUS
  <1> DEFINE M == {m \in 1..n : m \notin S}
             f == [m \in M |-> m - 1]
  <1>1. n \in M /\ \A m \in M : m - 1 \in M
    OBVIOUS
  <1>2. IsFiniteSet(M)
    <2>1. IsFiniteSet(1..n) /\ M \in SUBSET (1..n)
      BY FS_Interval
    <2> QED
      BY <2>1, FS_Subset
  <1>3. f \in Injection(M, M)
    BY <1>1 DEF Injection, IsInjective
  <1>4. f \in Surjection(M, M)
    BY <1>2, <1>3, FS_Injection
  <1>5. PICK m \in M : f[m] = n
    BY <1>1, <1>4 DEF Surjection
  <1> QED
    BY <1>5

\* The same with all smaller naturals in the hypothesis.
LEMMA StrongInduction ==
    ASSUME NEW S, \A n \in Nat : (\A m \in 0..(n - 1) : m \in S) => n \in S
    PROVE  Nat \subseteq S
  <1> DEFINE T == {n \in Nat : \A m \in 0..n : m \in S}
  <1>1. 0 \in T
    OBVIOUS
  <1>2. ASSUME NEW n \in Nat, n \in T PROVE n + 1 \in T
    <2>1. \A m \in 0..((n + 1) - 1) : m \in S
      BY <1>2
    <2>2. n + 1 \in S
      BY <2>1
    <2> QED BY <1>2, <2>2
  <1>3. Nat \subseteq T
    <2> HIDE DEF T
    <2> QED BY <1>1, <1>2, SetInduction
  <1> QED BY <1>3

\* k follows the recursion of Reduce; the same below for the other recursions.
ReducedAt(f, seed, nums, k) ==
    k[0] = seed /\ \A i \in 1..Len(nums) : k[i] = f[k[i - 1]][nums[i]]

\* The recursion of Reduce has a solution, and Reduce is its last value.
LEMMA ReduceDef ==
    ASSUME NEW f, NEW seed, NEW nums, Len(nums) \in Nat
    PROVE  \E k : ReducedAt(f, seed, nums, k) /\ Reduce(f, seed, nums) = k[Len(nums)]
  <1> DEFINE step(v, i) == f[v][nums[i]]
             Kept(k) == k = [i \in 0..Len(nums) |-> IF i = 0 THEN seed ELSE step(k[i - 1], i)]
             Rec(k, m) == k[0] = seed /\ \A i \in 1..m : k[i] = step(k[i - 1], i)
             Fun(k, m) == k = [i \in 0..m |-> k[i]]
             S == {m \in Nat : \E k : Fun(k, m) /\ Rec(k, m)}
  <1> HIDE DEF step
  <1>1. 0 \in S
    <2> DEFINE k == [i \in 0..0 |-> seed]
    <2>1. Fun(k, 0) /\ Rec(k, 0)
      OBVIOUS
    <2> QED BY <2>1
  <1>2. ASSUME NEW m \in Nat, m \in S PROVE m + 1 \in S
    <2>1. PICK k : Fun(k, m) /\ Rec(k, m)
      BY <1>2
    <2> DEFINE new == step(k[m], m + 1)
               h == [i \in 0..(m + 1) |-> IF i <= m THEN k[i] ELSE new]
    <2> HIDE DEF new
    <2>2. Fun(h, m + 1) /\ h[m + 1] = new /\ \A i \in 0..m : h[i] = k[i]
      OBVIOUS
    <2> HIDE DEF h, Fun
    <2>3. ASSUME NEW i \in 1..(m + 1) PROVE h[i] = step(h[i - 1], i)
      <3>1. CASE i = m + 1
        BY <2>2, <3>1 DEF new
      <3>2. CASE i # m + 1
        <4>1. i \in 1..m /\ i - 1 \in 0..m /\ i \in 0..m
          BY <3>2
        <4> QED BY <2>1, <2>2, <4>1
      <3> QED BY <3>1, <3>2
    <2> QED BY <2>1, <2>2, <2>3
  <1>3. Len(nums) \in S
    <2> HIDE DEF S
    <2> QED BY <1>1, <1>2, SetInduction
  <1>4. \E k : Kept(k)
    <2>1. PICK k : Fun(k, Len(nums)) /\ Rec(k, Len(nums))
      BY <1>3
    <2>2. ASSUME NEW i \in 0..Len(nums) PROVE k[i] = IF i = 0 THEN seed ELSE step(k[i - 1], i)
      <3>1. i = 0 \/ i \in 1..Len(nums)
        OBVIOUS
      <3>2. k[0] = seed /\ \A j \in 1..Len(nums) : k[j] = step(k[j - 1], j)
        BY <2>1, Zenon
      <3> QED BY <3>1, <3>2
    <2> QED BY <2>1, <2>2
  <1>5. PICK k : Kept(k) /\ k = CHOOSE g : Kept(g)
    BY <1>4, Zenon
  <1>6. Rec(k, Len(nums))
    <2>1. \A i \in 0..Len(nums) : k[i] = IF i = 0 THEN seed ELSE step(k[i - 1], i)
      BY <1>5, Zenon
    <2> HIDE DEF Kept
    <2> QED BY <2>1
  <1>7. Reduce(f, seed, nums) = k[Len(nums)]
    BY <1>5, Zenon DEF Kept, step, Reduce
  <1> QED BY <1>6, <1>7 DEF ReducedAt, step

PathAt(root, segs, k) ==
    k[0] = root /\ \A i \in 1..Len(segs) : k[i] = GetStep(k[i - 1], segs[i])

\* The same of GetPath.
LEMMA GetPathDef ==
    ASSUME NEW root, NEW segs, Len(segs) \in Nat
    PROVE  \E k : PathAt(root, segs, k) /\ GetPath(root, segs) = k[Len(segs)]
  <1> DEFINE step(v, i) == GetStep(v, segs[i])
             Kept(k) == k = [i \in 0..Len(segs) |-> IF i = 0 THEN root ELSE step(k[i - 1], i)]
             Rec(k, m) == k[0] = root /\ \A i \in 1..m : k[i] = step(k[i - 1], i)
             Fun(k, m) == k = [i \in 0..m |-> k[i]]
             S == {m \in Nat : \E k : Fun(k, m) /\ Rec(k, m)}
  <1> HIDE DEF step
  <1>1. 0 \in S
    <2> DEFINE k == [i \in 0..0 |-> root]
    <2>1. Fun(k, 0) /\ Rec(k, 0)
      OBVIOUS
    <2> QED BY <2>1
  <1>2. ASSUME NEW m \in Nat, m \in S PROVE m + 1 \in S
    <2>1. PICK k : Fun(k, m) /\ Rec(k, m)
      BY <1>2
    <2> DEFINE new == step(k[m], m + 1)
               h == [i \in 0..(m + 1) |-> IF i <= m THEN k[i] ELSE new]
    <2> HIDE DEF new
    <2>2. Fun(h, m + 1) /\ h[m + 1] = new /\ \A i \in 0..m : h[i] = k[i]
      OBVIOUS
    <2> HIDE DEF h, Fun
    <2>3. ASSUME NEW i \in 1..(m + 1) PROVE h[i] = step(h[i - 1], i)
      <3>1. CASE i = m + 1
        BY <2>2, <3>1 DEF new
      <3>2. CASE i # m + 1
        <4>1. i \in 1..m /\ i - 1 \in 0..m /\ i \in 0..m
          BY <3>2
        <4> QED BY <2>1, <2>2, <4>1
      <3> QED BY <3>1, <3>2
    <2> QED BY <2>1, <2>2, <2>3
  <1>3. Len(segs) \in S
    <2> HIDE DEF S
    <2> QED BY <1>1, <1>2, SetInduction
  <1>4. \E k : Kept(k)
    <2>1. PICK k : Fun(k, Len(segs)) /\ Rec(k, Len(segs))
      BY <1>3
    <2>2. ASSUME NEW i \in 0..Len(segs) PROVE k[i] = IF i = 0 THEN root ELSE step(k[i - 1], i)
      <3>1. i = 0 \/ i \in 1..Len(segs)
        OBVIOUS
      <3>2. k[0] = root /\ \A j \in 1..Len(segs) : k[j] = step(k[j - 1], j)
        BY <2>1, Zenon
      <3> QED BY <3>1, <3>2
    <2> QED BY <2>1, <2>2
  <1>5. PICK k : Kept(k) /\ k = CHOOSE g : Kept(g)
    BY <1>4, Zenon
  <1>6. Rec(k, Len(segs))
    <2>1. \A i \in 0..Len(segs) : k[i] = IF i = 0 THEN root ELSE step(k[i - 1], i)
      BY <1>5, Zenon
    <2> HIDE DEF Kept
    <2> QED BY <2>1
  <1>7. GetPath(root, segs) = k[Len(segs)]
    BY <1>5, Zenon DEF Kept, step, GetPath
  <1> QED BY <1>6, <1>7 DEF PathAt, step

JsPathAt(root, segs, k) ==
    k[0] = root /\ \A i \in 1..Len(segs) : k[i] = JsStep(k[i - 1], segs[i])

\* The same of JsAfter.
LEMMA JsAfterDef ==
    ASSUME NEW root, NEW segs, Len(segs) \in Nat
    PROVE  \E k : JsPathAt(root, segs, k) /\ JsAfter(root, segs) = k
  <1> DEFINE step(v, i) == JsStep(v, segs[i])
             Kept(k) == k = [i \in 0..Len(segs) |-> IF i = 0 THEN root ELSE step(k[i - 1], i)]
             Rec(k, m) == k[0] = root /\ \A i \in 1..m : k[i] = step(k[i - 1], i)
             Fun(k, m) == k = [i \in 0..m |-> k[i]]
             S == {m \in Nat : \E k : Fun(k, m) /\ Rec(k, m)}
  <1> HIDE DEF step
  <1>1. 0 \in S
    <2> DEFINE k == [i \in 0..0 |-> root]
    <2>1. Fun(k, 0) /\ Rec(k, 0)
      OBVIOUS
    <2> QED BY <2>1
  <1>2. ASSUME NEW m \in Nat, m \in S PROVE m + 1 \in S
    <2>1. PICK k : Fun(k, m) /\ Rec(k, m)
      BY <1>2
    <2> DEFINE new == step(k[m], m + 1)
               h == [i \in 0..(m + 1) |-> IF i <= m THEN k[i] ELSE new]
    <2> HIDE DEF new
    <2>2. Fun(h, m + 1) /\ h[m + 1] = new /\ \A i \in 0..m : h[i] = k[i]
      OBVIOUS
    <2> HIDE DEF h, Fun
    <2>3. ASSUME NEW i \in 1..(m + 1) PROVE h[i] = step(h[i - 1], i)
      <3>1. CASE i = m + 1
        BY <2>2, <3>1 DEF new
      <3>2. CASE i # m + 1
        <4>1. i \in 1..m /\ i - 1 \in 0..m /\ i \in 0..m
          BY <3>2
        <4> QED BY <2>1, <2>2, <4>1
      <3> QED BY <3>1, <3>2
    <2> QED BY <2>1, <2>2, <2>3
  <1>3. Len(segs) \in S
    <2> HIDE DEF S
    <2> QED BY <1>1, <1>2, SetInduction
  <1>4. \E k : Kept(k)
    <2>1. PICK k : Fun(k, Len(segs)) /\ Rec(k, Len(segs))
      BY <1>3
    <2>2. ASSUME NEW i \in 0..Len(segs) PROVE k[i] = IF i = 0 THEN root ELSE step(k[i - 1], i)
      <3>1. i = 0 \/ i \in 1..Len(segs)
        OBVIOUS
      <3>2. k[0] = root /\ \A j \in 1..Len(segs) : k[j] = step(k[j - 1], j)
        BY <2>1, Zenon
      <3> QED BY <3>1, <3>2
    <2> QED BY <2>1, <2>2
  <1>5. PICK k : Kept(k) /\ k = CHOOSE g : Kept(g)
    BY <1>4, Zenon
  <1>6. Rec(k, Len(segs))
    <2>1. \A i \in 0..Len(segs) : k[i] = IF i = 0 THEN root ELSE step(k[i - 1], i)
      BY <1>5, Zenon
    <2> HIDE DEF Kept
    <2> QED BY <2>1
  <1>7. JsAfter(root, segs) = k
    BY <1>5, Zenon DEF Kept, step, JsAfter
  <1> QED BY <1>6, <1>7 DEF JsPathAt, step

ValueAt(s, k) ==
    k[0] = 0 /\ \A i \in 1..Len(s) : k[i] = 10 * k[i - 1] + DigitValue(s[i])

\* The same of Value.
LEMMA ValueDef ==
    ASSUME NEW s, Len(s) \in Nat
    PROVE  \E k : ValueAt(s, k) /\ Value(s) = k[Len(s)]
  <1> DEFINE step(v, i) == 10 * v + DigitValue(s[i])
             Kept(k) == k = [i \in 0..Len(s) |-> IF i = 0 THEN 0 ELSE step(k[i - 1], i)]
             Rec(k, m) == k[0] = 0 /\ \A i \in 1..m : k[i] = step(k[i - 1], i)
             Fun(k, m) == k = [i \in 0..m |-> k[i]]
             S == {m \in Nat : \E k : Fun(k, m) /\ Rec(k, m)}
  <1> HIDE DEF step
  <1>1. 0 \in S
    <2> DEFINE k == [i \in 0..0 |-> 0]
    <2>1. Fun(k, 0) /\ Rec(k, 0)
      OBVIOUS
    <2> QED BY <2>1
  <1>2. ASSUME NEW m \in Nat, m \in S PROVE m + 1 \in S
    <2>1. PICK k : Fun(k, m) /\ Rec(k, m)
      BY <1>2
    <2> DEFINE new == step(k[m], m + 1)
               h == [i \in 0..(m + 1) |-> IF i <= m THEN k[i] ELSE new]
    <2> HIDE DEF new
    <2>2. Fun(h, m + 1) /\ h[m + 1] = new /\ \A i \in 0..m : h[i] = k[i]
      OBVIOUS
    <2> HIDE DEF h, Fun
    <2>3. ASSUME NEW i \in 1..(m + 1) PROVE h[i] = step(h[i - 1], i)
      <3>1. CASE i = m + 1
        BY <2>2, <3>1 DEF new
      <3>2. CASE i # m + 1
        <4>1. i \in 1..m /\ i - 1 \in 0..m /\ i \in 0..m
          BY <3>2
        <4> QED BY <2>1, <2>2, <4>1
      <3> QED BY <3>1, <3>2
    <2> QED BY <2>1, <2>2, <2>3
  <1>3. Len(s) \in S
    <2> HIDE DEF S
    <2> QED BY <1>1, <1>2, SetInduction
  <1>4. \E k : Kept(k)
    <2>1. PICK k : Fun(k, Len(s)) /\ Rec(k, Len(s))
      BY <1>3
    <2>2. ASSUME NEW i \in 0..Len(s) PROVE k[i] = IF i = 0 THEN 0 ELSE step(k[i - 1], i)
      <3>1. i = 0 \/ i \in 1..Len(s)
        OBVIOUS
      <3>2. k[0] = 0 /\ \A j \in 1..Len(s) : k[j] = step(k[j - 1], j)
        BY <2>1, Zenon
      <3> QED BY <3>1, <3>2
    <2> QED BY <2>1, <2>2
  <1>5. PICK k : Kept(k) /\ k = CHOOSE g : Kept(g)
    BY <1>4, Zenon
  <1>6. Rec(k, Len(s))
    <2>1. \A i \in 0..Len(s) : k[i] = IF i = 0 THEN 0 ELSE step(k[i - 1], i)
      BY <1>5, Zenon
    <2> HIDE DEF Kept
    <2> QED BY <2>1
  <1>7. Value(s) = k[Len(s)]
    BY <1>5, Zenon DEF Kept, step, Value
  <1> QED BY <1>6, <1>7 DEF ValueAt, step

----------------------------------------------------------------------------
(* Numbers and texts                                                       *)

\* A set of places that is not empty has a first and a last one.
LEMMA FirstAndLast ==
    ASSUME NEW n \in Nat, NEW S \in SUBSET (1..n), S # {}
    PROVE  /\ Min(S) \in S /\ \A i \in S : Min(S) <= i
           /\ Max(S) \in S /\ \A i \in S : i <= Max(S)
  <1> DEFINE Ends(T) == /\ \E i \in T : \A j \in T : i =< j
                        /\ \E i \in T : \A j \in T : i >= j
             G == {m \in Nat : \A T \in SUBSET (1..m) : T # {} => Ends(T)}
  <1>1. 0 \in G
    <2>1. 1..0 = {}
      OBVIOUS
    <2> HIDE DEF Ends
    <2> QED BY <2>1
  <1>2. ASSUME NEW m \in Nat, m \in G PROVE m + 1 \in G
    <2> SUFFICES ASSUME NEW T \in SUBSET (1..(m + 1)), T # {} PROVE Ends(T)
      OBVIOUS
    <2> DEFINE U == T \cap (1..m)
    <2>1. CASE U = {}
      <3>1. \A j \in T : j = m + 1
        <4> TAKE j \in T
        <4>1. j \in 1..(m + 1) /\ j \notin 1..m
          BY <2>1
        <4> QED BY <4>1
      <3>2. PICK x : x \in T
        OBVIOUS
      <3>3. x \in T /\ \A j \in T : x =< j /\ x >= j
        BY <3>1, <3>2
      <3> QED BY <3>3
    <2>2. CASE U # {}
      <3>1. Ends(U)
        BY <1>2, <2>2
      <3>2. PICK i \in U : \A j \in U : i =< j
        BY <3>1
      <3>3. PICK l \in U : \A j \in U : l >= j
        BY <3>1
      <3>4. \A j \in T : j \in U \/ j = m + 1
        OBVIOUS
      <3>5. \A j \in T : i =< j
        BY <3>2, <3>4
      <3>6. \E k \in T : \A j \in T : k >= j
        <4>1. CASE m + 1 \in T
          BY <4>1
        <4>2. CASE m + 1 \notin T
          BY <3>3, <3>4, <4>2
        <4> QED BY <4>1, <4>2
      <3> QED BY <3>2, <3>5, <3>6
    <2> QED BY <2>1, <2>2
  <1>3. n \in G
    <2> HIDE DEF G
    <2> QED BY <1>1, <1>2, SetInduction
  <1>4. Ends(S)
    BY <1>3
  <1> QED BY <1>4 DEF Min, Max

\* What is left of a text when it is trimmed is a text.
LEMMA TrimIs ==
    ASSUME NEW s \in Seq(Chars), NEW blanks
    PROVE  Trim(s, blanks) \in Seq(Chars)
  <1> DEFINE ink == {n \in DOMAIN s : s[n] \notin blanks}
  <1>1. CASE ink = {}
    BY <1>1 DEF Trim
  <1>2. CASE ink # {}
    <2>1. Len(s) \in Nat /\ DOMAIN s = 1..Len(s)
      OBVIOUS
    <2>2. ink \in SUBSET (1..Len(s))
      BY <2>1
    <2> HIDE DEF ink
    <2>3. Min(ink) \in 1..Len(s) /\ Max(ink) \in 1..Len(s)
      BY <1>2, <2>1, <2>2, FirstAndLast
    <2>4. SubSeq(s, Min(ink), Max(ink)) \in Seq(Chars)
      BY <2>1, <2>3, SubSeqProperties
    <2> QED BY <1>2, <2>4 DEF Trim, ink
  <1> QED BY <1>1, <1>2

\* Digits have a value.
LEMMA ValueIs ==
    ASSUME NEW s, Len(s) \in Nat, \A n \in 1..Len(s) : s[n] \in ToSet(Digit)
    PROVE  Value(s) \in Int
  <1>1. Len(s) \in Nat
    OBVIOUS
  <1>2. PICK k : ValueAt(s, k) /\ Value(s) = k[Len(s)]
    BY <1>1, ValueDef
  <1>3. ASSUME NEW i \in 1..Len(s) PROVE DigitValue(s[i]) \in 0..9
    <2>1. s[i] \in ToSet(Digit)
      OBVIOUS
    <2>2. DOMAIN Digit = 1..10
      BY DEF Digit
    <2>3. PICK m \in 1..10 : Digit[m] = s[i]
      BY <2>1, <2>2 DEF ToSet
    <2>4. m - 1 \in 0..9 /\ Digit[(m - 1) + 1] = s[i]
      BY <2>3
    <2> QED BY <2>4 DEF DigitValue
  <1> DEFINE S == {m \in Nat : m <= Len(s) => k[m] \in Int}
  <1>4. 0 \in S
    BY <1>2 DEF ValueAt
  <1>5. ASSUME NEW m \in Nat, m \in S PROVE m + 1 \in S
    <2> SUFFICES ASSUME m + 1 <= Len(s) PROVE k[m + 1] \in Int
      OBVIOUS
    <2>1. m + 1 \in 1..Len(s) /\ (m + 1) - 1 = m /\ k[m] \in Int
      BY <1>1, <1>5
    <2>2. k[m + 1] = 10 * k[m] + DigitValue(s[m + 1])
      BY <1>2, <2>1 DEF ValueAt
    <2>3. DigitValue(s[m + 1]) \in Int
      BY <1>3, <2>1
    <2> QED BY <2>1, <2>2, <2>3
  <1>6. Len(s) \in S
    <2> HIDE DEF S
    <2> QED BY <1>1, <1>4, <1>5, SetInduction
  <1> QED BY <1>1, <1>2, <1>6

\* A text is cut before and behind a character, and loses its sign, to texts.
LEMMA PiecesAre ==
    ASSUME NEW s \in Seq(Chars), NEW c
    PROVE  Before(s, c) \in Seq(Chars) /\ Behind(s, c) \in Seq(Chars) /\ Unsigned(s) \in Seq(Chars)
  <1>1. Len(s) \in Nat /\ DOMAIN s = 1..Len(s)
    OBVIOUS
  <1>2. Unsigned(s) \in Seq(Chars)
    <2>1. s # <<>> => Tail(s) \in Seq(Chars)
      OBVIOUS
    <2> QED BY <2>1 DEF Unsigned
  <1>3. CASE At(s, c) = {}
    BY <1>2, <1>3 DEF Before, Behind
  <1>4. CASE At(s, c) # {}
    <2>1. At(s, c) \in SUBSET (1..Len(s))
      BY <1>1 DEF At
    <2>2. PICK m \in 1..Len(s) : m = Min(At(s, c))
      BY <1>1, <1>4, <2>1, FirstAndLast
    <2>3. SubSeq(s, 1, m - 1) \in Seq(Chars) /\ SubSeq(s, m + 1, Len(s)) \in Seq(Chars)
      <3>1. m - 1 \in Int /\ m + 1 \in Int /\ 1 \in Int /\ Len(s) \in Int
        BY <1>1, <2>2
      <3>2. /\ \A i \in 1..(m - 1) : i \in 1..Len(s)
            /\ \A i \in (m + 1)..Len(s) : i \in 1..Len(s)
        BY <1>1, <2>2
      <3> QED BY <1>1, <2>2, <3>1, <3>2, SubSeqProperties
    <2> QED BY <1>2, <1>4, <2>2, <2>3 DEF Before, Behind
  <1> QED BY <1>3, <1>4

\* A numeral has a value.
LEMMA NumeralValue ==
    ASSUME NEW s \in Seq(Chars), IsNumeral(s)
    PROVE  Value(s) \in Int
  <1>1. Len(s) \in Nat /\ DOMAIN s = 1..Len(s)
    OBVIOUS
  <1> QED BY <1>1, ValueIs DEF IsNumeral

\* So does a decimal, whatever its exponent.
LEMMA DecimalValueIs ==
    ASSUME NEW m \in Seq(Chars), IsDecimal(m)
    PROVE  DecimalValue(m) \in Int
  <1>1. /\ Before(m, "e") \in Seq(Chars) /\ Behind(m, "e") \in Seq(Chars)
        /\ Unsigned(Behind(m, "e")) \in Seq(Chars)
    BY PiecesAre
  <1>2. Whole(m) \in Seq(Chars) /\ Fraction(m) \in Seq(Chars)
    BY <1>1, PiecesAre DEF Whole, Fraction
  <1>3. PICK d \in Seq(Chars) : d = Whole(m) \o Fraction(m) /\ IsNumeral(d)
    <2>1. Whole(m) \o Fraction(m) \in Seq(Chars)
      BY <1>2, ConcatProperties
    <2>2. IsNumeral(Whole(m) \o Fraction(m))
      BY DEF IsDecimal
    <2> QED BY <2>1, <2>2, Zenon
  <1>4. Exponent(m) \in Int
    <2>1. CASE Behind(m, "e") = <<>>
      BY <2>1 DEF Exponent
    <2>2. CASE Behind(m, "e") # <<>>
      <3>1. IsNumeral(Unsigned(Behind(m, "e")))
        BY <2>2 DEF IsDecimal, Behind
      <3>2. PICK v \in Int : v = Value(Unsigned(Behind(m, "e")))
        BY <1>1, <3>1, NumeralValue
      <3>3. -v \in Int
        OBVIOUS
      <3> QED BY <2>2, <3>2, <3>3 DEF Exponent
    <2> QED BY <2>1, <2>2
  <1>5. PICK n \in Int : n = Len(Whole(m)) + Exponent(m) + 3
    <2>1. Len(Whole(m)) \in Int
      BY <1>2
    <2> QED BY <1>4, <2>1
  <1>6. PICK l \in Nat : 1..n = 1..l
    <2>1. CASE n >= 0
      BY <2>1
    <2>2. CASE n < 0
      <3>1. 1..n = 1..0
        BY <2>2
      <3> QED BY <3>1
    <2> QED BY <2>1, <2>2
  <1>7. Value(Padded(d, n)) \in Int
    <2>1. "0" \in ToSet(Digit) /\ \A i \in DOMAIN d : d[i] \in ToSet(Digit)
      <3>1. DOMAIN Digit = 1..10 /\ Digit[1] = "0"
        BY DEF Digit
      <3> QED BY <1>3, <3>1 DEF ToSet, IsNumeral
    <2>2. Padded(d, n) = [i \in 1..l |-> IF i \in DOMAIN d THEN d[i] ELSE "0"]
      BY <1>6 DEF Padded
    <2>3. Padded(d, n) \in [1..l -> ToSet(Digit)]
      BY <2>1, <2>2
    <2>4. Len(Padded(d, n)) = l /\ \A i \in 1..l : Padded(d, n)[i] \in ToSet(Digit)
      BY <2>3
    <2> QED BY <2>4, ValueIs
  <1>8. DecimalValue(m) = (4 * Value(Padded(d, n))) \div 5
    BY <1>3, <1>5 DEF DecimalValue
  <1> QED BY <1>7, <1>8

PlainAt(s, k) ==
    k[0] = <<>> /\ \A i \in 1..Len(s) : k[i] = IF s[i] = "_" THEN k[i - 1] ELSE Append(k[i - 1], s[i])

\* The recursion of Plain has a solution.
LEMMA PlainDef ==
    ASSUME NEW s, Len(s) \in Nat
    PROVE  \E k : PlainAt(s, k) /\ Plain(s) = k[Len(s)]
  <1> DEFINE step(v, i) == IF s[i] = "_" THEN v ELSE Append(v, s[i])
             Kept(k) == k = [i \in 0..Len(s) |-> IF i = 0 THEN <<>> ELSE step(k[i - 1], i)]
             Rec(k, m) == k[0] = <<>> /\ \A i \in 1..m : k[i] = step(k[i - 1], i)
             Fun(k, m) == k = [i \in 0..m |-> k[i]]
             S == {m \in Nat : \E k : Fun(k, m) /\ Rec(k, m)}
  <1> HIDE DEF step
  <1>1. 0 \in S
    <2> DEFINE k == [i \in 0..0 |-> <<>>]
    <2>1. Fun(k, 0) /\ Rec(k, 0)
      OBVIOUS
    <2> QED BY <2>1
  <1>2. ASSUME NEW m \in Nat, m \in S PROVE m + 1 \in S
    <2>1. PICK k : Fun(k, m) /\ Rec(k, m)
      BY <1>2
    <2> DEFINE new == step(k[m], m + 1)
               h == [i \in 0..(m + 1) |-> IF i <= m THEN k[i] ELSE new]
    <2> HIDE DEF new
    <2>2. Fun(h, m + 1) /\ h[m + 1] = new /\ \A i \in 0..m : h[i] = k[i]
      OBVIOUS
    <2> HIDE DEF h, Fun
    <2>3. ASSUME NEW i \in 1..(m + 1) PROVE h[i] = step(h[i - 1], i)
      <3>1. CASE i = m + 1
        BY <2>2, <3>1 DEF new
      <3>2. CASE i # m + 1
        <4>1. i \in 1..m /\ i - 1 \in 0..m /\ i \in 0..m
          BY <3>2
        <4> QED BY <2>1, <2>2, <4>1
      <3> QED BY <3>1, <3>2
    <2> QED BY <2>1, <2>2, <2>3
  <1>3. Len(s) \in S
    <2> HIDE DEF S
    <2> QED BY <1>1, <1>2, SetInduction
  <1>4. \E k : Kept(k)
    <2>1. PICK k : Fun(k, Len(s)) /\ Rec(k, Len(s))
      BY <1>3
    <2>2. ASSUME NEW i \in 0..Len(s) PROVE k[i] = IF i = 0 THEN <<>> ELSE step(k[i - 1], i)
      <3>1. i = 0 \/ i \in 1..Len(s)
        OBVIOUS
      <3>2. k[0] = <<>> /\ \A j \in 1..Len(s) : k[j] = step(k[j - 1], j)
        BY <2>1, Zenon
      <3> QED BY <3>1, <3>2
    <2> QED BY <2>1, <2>2
  <1>5. PICK k : Kept(k) /\ k = CHOOSE g : Kept(g)
    BY <1>4, Zenon
  <1>6. Rec(k, Len(s))
    <2>1. \A i \in 0..Len(s) : k[i] = IF i = 0 THEN <<>> ELSE step(k[i - 1], i)
      BY <1>5, Zenon
    <2> HIDE DEF Kept
    <2> QED BY <2>1
  <1>7. Plain(s) = (CHOOSE g : g = [i \in 0..Len(s) |-> IF i = 0 THEN <<>> ELSE
                       IF s[i] = "_" THEN g[i - 1] ELSE Append(g[i - 1], s[i])])[Len(s)]
    BY Zenon DEF Plain
  <1>8. Plain(s) = k[Len(s)]
    BY <1>5, <1>7, Zenon DEF Kept, step
  <1> QED BY <1>6, <1>8 DEF PlainAt, step

\* A text without its underscores is a text.
LEMMA PlainIs ==
    ASSUME NEW s \in Seq(Chars)
    PROVE  Plain(s) \in Seq(Chars)
  <1>1. Len(s) \in Nat /\ \A i \in 1..Len(s) : s[i] \in Chars
    OBVIOUS
  <1>2. PICK k : PlainAt(s, k) /\ Plain(s) = k[Len(s)]
    BY <1>1, PlainDef
  <1> DEFINE S == {m \in Nat : m <= Len(s) => k[m] \in Seq(Chars)}
  <1>3. 0 \in S
    <2>1. k[0] = <<>>
      BY <1>2, Zenon DEF PlainAt
    <2>2. <<>> \in Seq(Chars)
      OBVIOUS
    <2>3. k[0] \in Seq(Chars)
      BY <2>1, <2>2, Zenon
    <2> QED BY <2>3
  <1>4. ASSUME NEW m \in Nat, m \in S PROVE m + 1 \in S
    <2> SUFFICES ASSUME m + 1 <= Len(s) PROVE k[m + 1] \in Seq(Chars)
      OBVIOUS
    <2>1. m + 1 \in 1..Len(s) /\ (m + 1) - 1 = m /\ k[m] \in Seq(Chars)
      BY <1>1, <1>4
    <2>2. k[m + 1] = IF s[m + 1] = "_" THEN k[m] ELSE Append(k[m], s[m + 1])
      BY <1>2, <2>1 DEF PlainAt
    <2>3. s[m + 1] \in Chars
      BY <1>1, <2>1
    <2>4. Append(k[m], s[m + 1]) \in Seq(Chars)
      BY <2>1, <2>3, AppendProperties
    <2> QED BY <2>1, <2>2, <2>4, Zenon
  <1>5. Len(s) \in S
    <2> HIDE DEF S
    <2> QED BY <1>1, <1>3, <1>4, SetInduction
  <1> QED BY <1>1, <1>2, <1>5

\* What is read with a sign is a number.
LEMMA SignedAre ==
    ASSUME NEW s, NEW k \in Int
    PROVE  SignedNumber(s, k) \in Numbers /\ SignedInf(s) \in Numbers
  <1>1. Num(k) \in Numbers /\ Num(-k) \in Numbers /\ MinusZero \in Numbers
    BY DEF Num, Numbers
  <1>2. Inf(1) \in Numbers /\ Inf(-1) \in Numbers
    BY DEF Inf, Numbers
  <1> QED BY <1>1, <1>2 DEF SignedNumber, SignedInf

\* ParseFloat returns a number.
LEMMA ParseFloatIs ==
    ASSUME NEW s \in Seq(Chars)
    PROVE  ParseFloat(s) \in Numbers
  <1> DEFINE m == Unsigned(s)
             p == IF Separated(m) THEN Plain(m) ELSE m
  <1>1. p \in Seq(Chars)
    <2>1. m \in Seq(Chars)
      BY PiecesAre
    <2> QED BY <2>1, PlainIs
  <1>2. IsDecimal(p) => DecimalValue(p) \in Int
    BY <1>1, DecimalValueIs
  <1>3. NaN \in Numbers /\ SignedInf(s) \in Numbers
    BY SignedAre DEF Numbers
  <1>4. ParseFloat(s) = IF m \in {<<"Inf">>, <<"Infinity">>} THEN SignedInf(s)
                        ELSE IF ~IsDecimal(p) \/ DecimalValue(p) > MaxFloat THEN NaN
                        ELSE SignedNumber(s, DecimalValue(p))
    BY Zenon DEF ParseFloat
  <1> HIDE DEF m, p
  <1> QED BY <1>2, <1>3, <1>4, SignedAre

\* toNum returns a number.
LEMMA ToNumIs ==
    ASSUME NEW v, v \in Scalars \/ v.t \in {"list", "map"}
    PROVE  ToNum(v) \in Numbers
  <1>1. CASE v \in Numbers
    BY <1>1 DEF Numbers, ToNum, Number, Finite, NaN, MinusZero
  <1>2. CASE v \in [t : {"bool"}, b : BOOLEAN]
    BY <1>2 DEF Numbers, ToNum, Number, Finite, Num, Unit
  <1>3. CASE v \in [t : {"str"}, s : Seq(Chars)]
    <2>1. v.t = "str" /\ v.s \in Seq(Chars)
      BY <1>3
    <2>2. PICK s \in Seq(Chars) : s = Trim(v.s, GoBlanks)
      BY <2>1, TrimIs
    <2>3. ToNum(v) = IF s = <<>> THEN Num(0) ELSE ParseFloat(s)
      BY <2>1, <2>2 DEF ToNum, Number, Finite
    <2>4. Num(0) \in Numbers
      BY DEF Num, Numbers
    <2> QED BY <2>3, <2>4, ParseFloatIs
  <1>4. CASE v \in {Missing, Null} \/ v.t \in {"list", "map"}
    BY <1>4 DEF Numbers, ToNum, Number, Finite, Missing, Null
  <1> QED BY <1>1, <1>2, <1>3, <1>4 DEF Scalars

\* A whole number is left of a number.
LEMMA TruncateIs == ASSUME NEW k \in Int PROVE Truncate(k) \in Int
  BY DEF Truncate, Signed, Abs, Unit

\* Whatever the machine makes of a number, it is an int.
LEMMA ToIntIs ==
    ASSUME NEW x \in Numbers, NEW arch
    PROVE  ToInt(x, arch) \in MinInt..MaxInt
  <1>1. MaxInt \in Int /\ MinInt \in Int /\ MinInt <= 0 /\ 0 <= MaxInt
    BY FunctionsAssumption DEF MinInt
  <1>2. Finite(x) => Truncate(x.k) \in Int
    <2>1. Finite(x) => x.k \in Int
      BY DEF Numbers, NaN, MinusZero, Finite
    <2> QED BY <2>1, TruncateIs
  <1>3. (Finite(x) /\ InRange(Truncate(x.k))) => Truncate(x.k) \in MinInt..MaxInt
    BY <1>1, <1>2 DEF InRange
  <1> QED BY <1>1, <1>3 DEF ToInt


NumeralAt(n, k) ==
    \A i \in 0..n : k[i] = IF i < 10 THEN <<Digit[i + 1]>>
                           ELSE Append(k[i \div 10], Digit[(i % 10) + 1])

\* The recursion of Numeral has a solution: a place looks only at earlier ones.
LEMMA NumeralDef ==
    ASSUME NEW n \in Nat
    PROVE  \E k : NumeralAt(n, k) /\ Numeral(n) = k[n]
  <1> DEFINE step(v, i) == IF i < 10 THEN <<Digit[i + 1]>> ELSE Append(v, Digit[(i % 10) + 1])
             Fun(k, m) == k = [i \in 0..m |-> k[i]]
             Rec(k, m) == \A i \in 0..m : k[i] = step(k[i \div 10], i)
             S == {m \in Nat : \E k : Fun(k, m) /\ Rec(k, m)}
  <1>1. 0 \in S
    <2> DEFINE k == [i \in 0..0 |-> <<Digit[i + 1]>>]
    <2>1. Fun(k, 0) /\ Rec(k, 0)
      OBVIOUS
    <2> QED BY <2>1
  <1>2. ASSUME NEW m \in Nat, m \in S PROVE m + 1 \in S
    <2> HIDE DEF step
    <2>1. PICK k : Fun(k, m) /\ Rec(k, m)
      BY <1>2
    <2>2. \A i \in Nat : i \div 10 \in Nat /\ (i # 0 => i \div 10 < i)
      OBVIOUS
    <2> DEFINE new == step(k[(m + 1) \div 10], m + 1)
               h == [i \in 0..(m + 1) |-> IF i <= m THEN k[i] ELSE new]
    <2> HIDE DEF new
    <2>3. Fun(h, m + 1) /\ h[m + 1] = new /\ \A i \in 0..m : h[i] = k[i]
      OBVIOUS
    <2> HIDE DEF h, Fun
    <2>4. ASSUME NEW i \in 0..(m + 1) PROVE h[i] = step(h[i \div 10], i)
      <3>1. CASE i = m + 1
        <4>1. (m + 1) \div 10 \in 0..m
          BY <2>2
        <4> QED BY <2>3, <3>1, <4>1 DEF new
      <3>2. CASE i # m + 1
        <4>1. i \in 0..m /\ i \div 10 \in 0..m
          BY <2>2, <3>2
        <4> QED BY <2>1, <2>3, <4>1
      <3> QED BY <3>1, <3>2
    <2> QED BY <2>3, <2>4
  <1>3. n \in S
    <2> HIDE DEF S
    <2> QED BY <1>1, <1>2, SetInduction
  <1> DEFINE Kept(k) == k = [i \in 0..n |-> step(k[i \div 10], i)]
  <1>4. \E k : Kept(k)
    <2>1. PICK k : Fun(k, n) /\ Rec(k, n)
      BY <1>3
    <2> HIDE DEF step
    <2> QED BY <2>1
  <1>5. PICK k : Kept(k) /\ k = CHOOSE g : Kept(g)
    BY <1>4, Zenon
  <1>6. NumeralAt(n, k)
    BY <1>5, Zenon DEF NumeralAt
  <1>7. Numeral(n) = k[n]
    BY <1>5, Zenon DEF Numeral
  <1> QED BY <1>6, <1>7

\* A numeral is made of digits.
LEMMA NumeralIs ==
    ASSUME NEW n \in Nat
    PROVE  Numeral(n) \in Seq(Chars)
  <1>1. PICK k : NumeralAt(n, k) /\ Numeral(n) = k[n]
    BY NumeralDef
  <1>2. \A d \in 0..9 : Digit[d + 1] \in Chars
    <2>1. DOMAIN Digit = 1..10
      BY DEF Digit
    <2>2. \A i \in DOMAIN Digit : Digit[i] \in ToSet(Digit)
      BY DEF ToSet
    <2> HIDE DEF Digit
    <2> QED BY <2>1, <2>2, FunctionsAssumption
  <1> DEFINE S == {m \in Nat : m <= n => k[m] \in Seq(Chars)}
  <1>3. ASSUME NEW m \in Nat, \A l \in 0..(m - 1) : l \in S PROVE m \in S
    <2> SUFFICES ASSUME m <= n PROVE k[m] \in Seq(Chars)
      OBVIOUS
    <2>1. k[m] = IF m < 10 THEN <<Digit[m + 1]>> ELSE Append(k[m \div 10], Digit[(m % 10) + 1])
      BY <1>1 DEF NumeralAt
    <2>2. CASE m < 10
      <3>1. Digit[m + 1] \in Chars
        BY <1>2, <2>2
      <3> QED BY <2>1, <2>2, <3>1
    <2>3. CASE ~(m < 10)
      <3>1. m \div 10 \in 0..(m - 1) /\ m \div 10 <= n /\ m % 10 \in 0..9
        BY <2>3
      <3>2. k[m \div 10] \in Seq(Chars) /\ Digit[(m % 10) + 1] \in Chars
        BY <1>2, <1>3, <3>1
      <3> QED BY <2>1, <2>3, <3>2
    <2> QED BY <2>2, <2>3
  <1>4. n \in S
    <2> HIDE DEF S
    <2> QED BY <1>3, StrongInduction
  <1> QED BY <1>1, <1>4

\* A finite number is written as a text.
LEMMA DecimalIs ==
    ASSUME NEW k \in Int
    PROVE  Decimal(k) \in Seq(Chars)
  <1>1. Abs(k) \in Nat
    BY DEF Abs
  <1>2. Abs(k) \div Unit \in Nat /\ (Abs(k) % Unit) \div 100 \in 0..7
    BY <1>1 DEF Unit
  <1>3. \A e \in 0..7 : Eighths[e + 1] \in Seq(Chars)
    <2> TAKE e \in 0..7
    <2>1. "." \in Chars /\ \A c \in {"1", "2", "3", "5", "6", "7", "8"} : c \in Chars
      <3>1. \A i \in 1..10 : Digit[i] \in Chars
        <4>1. DOMAIN Digit = 1..10
          BY DEF Digit
        <4>2. \A i \in DOMAIN Digit : Digit[i] \in ToSet(Digit)
          BY DEF ToSet
        <4> QED BY <4>1, <4>2, FunctionsAssumption
      <3>2. /\ Digit[2] = "1" /\ Digit[3] = "2" /\ Digit[4] = "3"
            /\ Digit[6] = "5" /\ Digit[7] = "6" /\ Digit[8] = "7" /\ Digit[9] = "8"
        BY DEF Digit
      <3> QED BY <3>1, <3>2, FunctionsAssumption
    <2>2. /\ <<>> \in Seq(Chars) /\ <<".", "1", "2", "5">> \in Seq(Chars)
          /\ <<".", "2", "5">> \in Seq(Chars) /\ <<".", "3", "7", "5">> \in Seq(Chars)
          /\ <<".", "5">> \in Seq(Chars) /\ <<".", "6", "2", "5">> \in Seq(Chars)
          /\ <<".", "7", "5">> \in Seq(Chars) /\ <<".", "8", "7", "5">> \in Seq(Chars)
      BY <2>1
    <2>3. /\ Eighths[1] \in Seq(Chars) /\ Eighths[2] \in Seq(Chars)
          /\ Eighths[3] \in Seq(Chars) /\ Eighths[4] \in Seq(Chars)
          /\ Eighths[5] \in Seq(Chars) /\ Eighths[6] \in Seq(Chars)
          /\ Eighths[7] \in Seq(Chars) /\ Eighths[8] \in Seq(Chars)
      BY <2>2 DEF Eighths
    <2>4. \A i \in 1..8 : i = 1 \/ i = 2 \/ i = 3 \/ i = 4 \/ i = 5 \/ i = 6 \/ i = 7 \/ i = 8
      OBVIOUS
    <2>5. \A i \in 1..8 : Eighths[i] \in Seq(Chars)
      BY <2>3, <2>4, Zenon
    <2>6. e + 1 \in 1..8
      OBVIOUS
    <2> QED BY <2>5, <2>6, Zenon
  <1>4. Numeral(Abs(k) \div Unit) \in Seq(Chars)
    BY <1>2, NumeralIs
  <1>5. Minus(k) \in Seq(Chars)
    <2>1. <<"-">> \in Seq(Chars) /\ <<>> \in Seq(Chars)
      BY FunctionsAssumption
    <2> QED BY <2>1 DEF Minus
  <1>6. Eighths[((Abs(k) % Unit) \div 100) + 1] \in Seq(Chars)
    BY <1>2, <1>3
  <1> QED BY <1>4, <1>5, <1>6 DEF Decimal

\* toStr returns a text.
LEMMA ToStrIs ==
    ASSUME NEW v, v \in Scalars \/ v.t \in {"list", "map"}
    PROVE  ToStr(v) \in Seq(Chars)
  <1>1. CASE v \in [t : {"num"}, k : Int]
    BY <1>1, DecimalIs DEF ToStr
  <1>2. CASE v \in [t : {"inf"}, sign : {-1, 1}] \cup {NaN, MinusZero}
    <2>1. /\ <<"NaN">> \in Seq(Chars) /\ <<"-", "0">> \in Seq(Chars)
          /\ <<"+", "Inf">> \in Seq(Chars) /\ <<"-", "Inf">> \in Seq(Chars)
      <3>1. "0" \in Chars
        <4>1. DOMAIN Digit = 1..10 /\ Digit[1] = "0"
          BY DEF Digit
        <4> QED BY <4>1, FunctionsAssumption DEF ToSet
      <3> QED BY <3>1, FunctionsAssumption
    <2>2. v.t \in {"inf", "nan", "zero"}
      BY <1>2 DEF NaN, MinusZero
    <2> QED BY <2>1, <2>2 DEF ToStr
  <1>3. CASE v \in [t : {"str"}, s : Seq(Chars)]
    BY <1>3 DEF ToStr
  <1>4. CASE v \in [t : {"bool"}, b : BOOLEAN]
    <2>1. <<"true">> \in Seq(Chars) /\ <<"false">> \in Seq(Chars) /\ v.t = "bool"
      BY <1>4, FunctionsAssumption
    <2> QED BY <2>1 DEF ToStr
  <1>5. CASE v \in {Missing, Null} \/ v.t \in {"list", "map"}
    <2>1. <<>> \in Seq(Chars) /\ v.t \in {"missing", "null", "list", "map"}
      BY <1>5 DEF Missing, Null
    <2> QED BY <2>1 DEF ToStr
  <1> QED BY <1>1, <1>2, <1>3, <1>4, <1>5 DEF Scalars, Numbers

----------------------------------------------------------------------------
(* Arguments                                                               *)

\* What a call is given, or does not give.
Argument(v) ==
    /\ v \in Scalars \/ v.t \in {"list", "map"}
    /\ ToStr(v) \in Seq(Chars) /\ Len(ToStr(v)) \in 0..MaxInt
    /\ ToNum(v) \in Numbers

\* An argument, absent ones included, is one of the values.
LEMMA ArgIs ==
    ASSUME NEW a \in Seq(Values), NEW n
    PROVE  Argument(Arg(a, n))
  <1>1. MaxInt \in Nat
    BY FunctionsAssumption
  <1>2. CASE n \in DOMAIN a
    <2>1. PICK v \in Values : v = Arg(a, n)
      BY <1>2 DEF Arg
    <2>2. (v \in Scalars \/ v.t \in {"list", "map"}) /\ Len(ToStr(v)) <= MaxInt
      BY EvalAssumption
    <2> QED BY <1>1, <2>1, <2>2, ToStrIs, ToNumIs DEF Argument
  <1>3. CASE n \notin DOMAIN a
    <2>1. Arg(a, n) = Missing /\ Missing \in Scalars /\ ToStr(Missing) = <<>>
      BY <1>3 DEF Arg, Scalars, ToStr, Missing
    <2> QED BY <1>1, <2>1, ToStrIs, ToNumIs DEF Argument
  <1> QED BY <1>2, <1>3


\* No argument is a panic.
LEMMA ArgumentReturns ==
    ASSUME NEW v, Argument(v)
    PROVE  v # Throws
  BY DEF Argument, Throws, Scalars, Numbers, NaN, MinusZero, Missing, Null

----------------------------------------------------------------------------
(* Nothing panics                                                          *)

LEMMA IndexIs ==
    ASSUME NEW i \in Int, NEW n \in Nat
    PROVE  NormIndex(i, n) \in 0..n
  BY DEF NormIndex

\* string(r[a:b]) finds its bounds in order.
LEMMA SliceReturns ==
    ASSUME NEW s \in Seq(Chars), NEW i \in Int, NEW j \in Int
    PROVE  Slice(s, i, j) # Throws
  <1>1. PICK n \in Nat : n = Len(s)
    OBVIOUS
  <1>2. PICK a \in 0..n : a = NormIndex(i, Len(s))
    BY <1>1, IndexIs
  <1>3. PICK b \in 0..n : b = NormIndex(j, Len(s))
    BY <1>1, IndexIs
  <1> QED BY <1>1, <1>2, <1>3 DEF Slice, Reslice, Text, Throws

\* A sum that wraps is an int.
LEMMA WrapIs == ASSUME NEW n \in Int PROVE Wrap(n) \in Int
  <1>1. PICK m \in Nat \ {0} : m = 2 * (MaxInt + 1)
    BY FunctionsAssumption
  <1>2. MinInt \in Int
    BY FunctionsAssumption DEF MinInt
  <1>3. (n - MinInt) % m \in Int
    BY <1>1, <1>2
  <1> QED BY <1>1, <1>2, <1>3 DEF Wrap

\* What a function of two numbers keeps within the numbers, so does Reduce.
LEMMA ReduceIs ==
    ASSUME NEW f \in [Numbers -> [Numbers -> Numbers]], NEW seed \in Numbers,
           NEW nums, Len(nums) \in Nat, \A n \in 1..Len(nums) : nums[n] \in Numbers
    PROVE  Reduce(f, seed, nums) \in Numbers
  <1>1. PICK k : ReducedAt(f, seed, nums, k) /\ Reduce(f, seed, nums) = k[Len(nums)]
    BY ReduceDef
  <1> DEFINE S == {m \in Nat : m <= Len(nums) => k[m] \in Numbers}
  <1>2. 0 \in S
    BY <1>1 DEF ReducedAt
  <1>3. ASSUME NEW m \in Nat, m \in S PROVE m + 1 \in S
    <2> SUFFICES ASSUME m + 1 <= Len(nums) PROVE k[m + 1] \in Numbers
      OBVIOUS
    <2>1. m + 1 \in 1..Len(nums) /\ (m + 1) - 1 = m /\ k[m] \in Numbers
      BY <1>3
    <2>2. k[m + 1] = f[k[m]][nums[m + 1]] /\ nums[m + 1] \in Numbers
      BY <1>1, <2>1 DEF ReducedAt
    <2> QED BY <2>1, <2>2
  <1>4. Len(nums) \in S
    <2> HIDE DEF S
    <2> QED BY <1>2, <1>3, SetInduction
  <1> QED BY <1>1, <1>4

\* The smaller and the larger of two numbers are numbers.
LEMMA ExtremesAre ==
    ASSUME NEW x \in Numbers, NEW y \in Numbers
    PROVE  /\ GoMin(x, y) \in Numbers /\ GoMax(x, y) \in Numbers
           /\ MinNum(x, y) \in Numbers /\ MaxNum(x, y) \in Numbers
  <1>1. Inf(-1) \in Numbers /\ Inf(1) \in Numbers /\ NaN \in Numbers
    BY DEF Inf, Numbers
  <1> QED BY <1>1 DEF GoMin, GoMax, MinNum, MaxNum

\* Every function returns, round with too many digits aside.
LEMMA CallsReturn ==
    ASSUME NEW fn \in exprFns, NEW a \in Seq(Values), NEW arch,
           ~(fn = "round" /\ TooManyDigits(ToInt(ToNum(a[2]), arch)))
    PROVE  GoFn(fn, a, arch) # Throws
  <1>1. \A n : Argument(Arg(a, n)) /\ Arg(a, n) # Throws
    BY ArgIs, ArgumentReturns
  <1>2. \A n : ToInt(ToNum(Arg(a, n)), arch) \in Int
    <2> TAKE n
    <2>1. ToNum(Arg(a, n)) \in Numbers
      BY <1>1 DEF Argument
    <2>2. MinInt \in Int /\ MaxInt \in Int
      BY FunctionsAssumption DEF MinInt
    <2> QED BY <2>1, <2>2, ToIntIs
  <1>3. Len(a) \in Nat /\ DOMAIN a = 1..Len(a) /\ \A n \in DOMAIN a : a[n] = Arg(a, n)
    BY DEF Arg
  <1>4. \A s : Text(s) # Throws /\ Num(s) # Throws /\ Bool(s) # Throws
    BY DEF Text, Num, Bool, Throws
  <1>5. \A x \in Numbers : x # Throws
    BY DEF Numbers, NaN, MinusZero, Throws
  <1>6. ToNum(Arg(a, 1)) \in Numbers /\ ToStr(Arg(a, 1)) \in Seq(Chars)
    BY <1>1 DEF Argument
  <1>7. CASE fn \in {"concat", "upper", "lower", "trim", "replace", "len", "urlencode", "eq", "ne",
                     "gt", "gte", "lt", "lte", "and", "or", "not"}
    <2>1. CASE fn = "concat"
      BY <1>4, <2>1 DEF GoFn, MapText, OnNum
    <2>2. CASE fn = "upper"
      BY <1>4, <2>2 DEF GoFn, MapText, OnNum
    <2>3. CASE fn = "lower"
      BY <1>4, <2>3 DEF GoFn, MapText, OnNum
    <2>4. CASE fn = "trim"
      BY <1>4, <2>4 DEF GoFn, MapText, OnNum
    <2>5. CASE fn = "replace"
      BY <1>4, <2>5 DEF GoFn, MapText, OnNum
    <2>6. CASE fn = "len"
      BY <1>4, <2>6 DEF GoFn, MapText, OnNum
    <2>7. CASE fn = "urlencode"
      BY <1>4, <2>7 DEF GoFn, MapText, OnNum
    <2>8. CASE fn = "eq"
      BY <1>4, <2>8 DEF GoFn, MapText, OnNum
    <2>9. CASE fn = "ne"
      BY <1>4, <2>9 DEF GoFn, MapText, OnNum
    <2>10. CASE fn = "gt"
      BY <1>4, <2>10 DEF GoFn, MapText, OnNum
    <2>11. CASE fn = "gte"
      BY <1>4, <2>11 DEF GoFn, MapText, OnNum
    <2>12. CASE fn = "lt"
      BY <1>4, <2>12 DEF GoFn, MapText, OnNum
    <2>13. CASE fn = "lte"
      BY <1>4, <2>13 DEF GoFn, MapText, OnNum
    <2>14. CASE fn = "and"
      BY <1>4, <2>14 DEF GoFn, MapText, OnNum
    <2>15. CASE fn = "or"
      BY <1>4, <2>15 DEF GoFn, MapText, OnNum
    <2>16. CASE fn = "not"
      BY <1>4, <2>16 DEF GoFn, MapText, OnNum
    <2> QED BY <1>7, <2>1, <2>2, <2>3, <2>4, <2>5, <2>6, <2>7, <2>8, <2>9, <2>10, <2>11, <2>12, <2>13, <2>14, <2>15, <2>16
  <1>8. CASE fn \in {"+", "-", "*", "/", "%", "neg"}
    <2>1. CASE fn = "+"
      BY <2>1 DEF GoFn, MapText, OnNum, Add, Arith, Text, Throws
    <2>2. CASE fn = "-"
      BY <2>2 DEF GoFn, MapText, OnNum, Add, Arith, Text, Throws
    <2>3. CASE fn = "*"
      BY <2>3 DEF GoFn, MapText, OnNum, Add, Arith, Text, Throws
    <2>4. CASE fn = "/"
      BY <2>4 DEF GoFn, MapText, OnNum, Add, Arith, Text, Throws
    <2>5. CASE fn = "%"
      BY <2>5 DEF GoFn, MapText, OnNum, Add, Arith, Text, Throws
    <2>6. CASE fn = "neg"
      BY <2>6 DEF GoFn, MapText, OnNum, Add, Arith, Text, Throws
    <2> QED BY <1>8, <2>1, <2>2, <2>3, <2>4, <2>5, <2>6
  <1>9. CASE fn \in {"floor", "ceil", "abs"}
    <2>1. CASE fn = "floor"
      BY <1>5, <1>6, <2>1 DEF GoFn, MapText, OnNum, AbsNum, Num, Inf, MinusZero, Throws
    <2>2. CASE fn = "ceil"
      BY <1>5, <1>6, <2>2 DEF GoFn, MapText, OnNum, AbsNum, Num, Inf, MinusZero, Throws
    <2>3. CASE fn = "abs"
      BY <1>5, <1>6, <2>3 DEF GoFn, MapText, OnNum, AbsNum, Num, Inf, MinusZero, Throws
    <2> QED BY <1>9, <2>1, <2>2, <2>3
  <1>10. CASE fn \in {"substr", "slice"}
    <2>1. PICK i \in Int : i = ToInt(ToNum(Arg(a, 2)), arch)
      BY <1>2
    <2>2. PICK j \in Int : j = ToInt(ToNum(Arg(a, 3)), arch)
      BY <1>2
    <2>3. PICK l \in Int : l = Wrap(i + j)
      BY WrapIs
    <2>4. Slice(ToStr(Arg(a, 1)), i, l) # Throws /\ Slice(ToStr(Arg(a, 1)), i, j) # Throws
      BY <1>6, SliceReturns
    <2>5. CASE fn = "substr"
      BY <2>1, <2>2, <2>3, <2>4, <2>5 DEF GoFn, MapText, OnNum
    <2>6. CASE fn = "slice"
      BY <2>1, <2>2, <2>4, <2>6 DEF GoFn, MapText, OnNum
    <2> QED BY <1>10, <2>5, <2>6
  <1>11. CASE fn = "round"
    <2>1. GoFn(fn, a, arch) = RoundFn(a, arch)
      BY <1>11 DEF GoFn, MapText, OnNum
    <2>2. ~TooManyDigits(0)
      BY FunctionsAssumption DEF TooManyDigits
    <2>3. Len(a) > 1 => ~TooManyDigits(ToInt(ToNum(a[2]), arch))
      BY <1>11
    <2> QED BY <1>5, <1>6, <2>1, <2>2, <2>3 DEF RoundFn, OnNum, Num, MinusZero, Throws
  <1>12. CASE fn \in {"min", "max"}
    <2> DEFINE nums == [n \in DOMAIN a |-> ToNum(a[n])]
               least == [v \in Numbers |-> [u \in Numbers |-> GoMin(v, u)]]
               most  == [v \in Numbers |-> [u \in Numbers |-> GoMax(v, u)]]
    <2>1. Len(nums) = Len(a) /\ \A n \in 1..Len(nums) : nums[n] \in Numbers
      BY <1>1, <1>3 DEF Argument
    <2>2. least \in [Numbers -> [Numbers -> Numbers]] /\ most \in [Numbers -> [Numbers -> Numbers]]
      BY ExtremesAre
    <2>3. Inf(1) \in Numbers /\ Inf(-1) \in Numbers
      BY DEF Inf, Numbers
    <2>4. GoFn(fn, a, arch) = Reduce(least, Inf(1), nums) \/ GoFn(fn, a, arch) = Reduce(most, Inf(-1), nums)
      <3>1. CASE fn = "min"
        BY <3>1 DEF GoFn, MapText, OnNum
      <3>2. CASE fn = "max"
        BY <3>2 DEF GoFn, MapText, OnNum
      <3> QED BY <1>12, <3>1, <3>2
    <2> HIDE DEF nums, least, most
    <2>5. Reduce(least, Inf(1), nums) \in Numbers /\ Reduce(most, Inf(-1), nums) \in Numbers
      BY <1>3, <2>1, <2>2, <2>3, ReduceIs
    <2> QED BY <1>5, <2>4, <2>5
  <1>13. CASE fn = "if"
    BY <1>1, <1>13 DEF GoFn, MapText, OnNum
  <1>14. CASE fn = "coalesce"
    <2>1. Blanks(a) \in SUBSET (1..Len(a))
      BY <1>3 DEF Blanks
    <2>2. Blanks(a) # {} => Min(Blanks(a)) \in DOMAIN a
      BY <1>3, <2>1, FirstAndLast
    <2>3. GoFn(fn, a, arch) = IF Blanks(a) = {} THEN Text(<<>>) ELSE a[Min(Blanks(a))]
      BY <1>14 DEF GoFn, MapText, OnNum
    <2> QED BY <1>1, <1>3, <1>4, <2>2, <2>3
  <1>15. CASE fn = "default"
    <2>1. GoFn(fn, a, arch) = IF IsBlankValue(Arg(a, 1)) THEN Arg(a, 2) ELSE a[1]
      BY <1>15 DEF GoFn, MapText, OnNum
    <2>2. ~IsBlankValue(Arg(a, 1)) => a[1] = Arg(a, 1)
      BY DEF Arg, IsBlankValue, IsNil, Missing
    <2> QED BY <1>1, <2>1, <2>2
  <1>16. CASE fn = "split"
    <2>1. \A p, blanks : Pieces(p, blanks).t = "list"
      BY DEF Pieces, List
    <2>2. Throws.t # "list"
      BY DEF Throws
    <2> QED BY <1>16, <2>1, <2>2 DEF GoFn, MapText, OnNum
  <1> QED BY <1>7, <1>8, <1>9, <1>10, <1>11, <1>12, <1>13, <1>14, <1>15, <1>16 DEF exprFns


\* A path stays within the values there are.
LEMMA PathsReturn ==
    ASSUME NEW root \in Roots, NEW segs \in Seq(Segments)
    PROVE  GetPath(root, segs) # Throws
  <1>1. Len(segs) \in Nat /\ \A n \in 1..Len(segs) : segs[n] \in Segments
    OBVIOUS
  <1>2. PICK k : PathAt(root, segs, k) /\ GetPath(root, segs) = k[Len(segs)]
    BY <1>1, GetPathDef
  <1> DEFINE S == {m \in Nat : m <= Len(segs) => k[m] \in Roots}
  <1>3. 0 \in S
    BY <1>2 DEF PathAt
  <1>4. ASSUME NEW m \in Nat, m \in S PROVE m + 1 \in S
    <2> SUFFICES ASSUME m + 1 <= Len(segs) PROVE k[m + 1] \in Roots
      OBVIOUS
    <2>1. m + 1 \in 1..Len(segs) /\ (m + 1) - 1 = m /\ k[m] \in Roots
      BY <1>1, <1>4
    <2>2. k[m + 1] = GetStep(k[m], segs[m + 1]) /\ segs[m + 1] \in Segments
      BY <1>1, <1>2, <2>1 DEF PathAt
    <2> QED BY <2>1, <2>2, EvalAssumption
  <1>5. Len(segs) \in S
    <2> HIDE DEF S
    <2> QED BY <1>1, <1>3, <1>4, SetInduction
  <1> QED BY <1>1, <1>2, <1>5, EvalAssumption

\* What is written is a word of the alphabet it is about.
TypeInv ==
    /\ about \in Exprs \cup Calls \cup Paths
    /\ about \in Exprs => word \in Seq(Tokens)
    /\ about \in Calls => word \in Seq(Values)
    /\ about \in Paths => word \in Seq(Segments)

\* Whatever is written is made of what its kind is written with.
THEOREM TypesHold == Spec => []TypeInv
  <1>1. Init => TypeInv
    BY DEF Init, TypeInv
  <1>2. TypeInv /\ [Next]_vars => TypeInv'
    <2> SUFFICES ASSUME TypeInv, [Next]_vars PROVE TypeInv'
      OBVIOUS
    <2>1. about[1] \in {"expr", "call", "path"} /\ (about \in Exprs <=> about[1] = "expr")
          /\ (about \in Calls <=> about[1] = "call") /\ (about \in Paths <=> about[1] = "path")
      BY DEF TypeInv, Exprs, Calls, Paths
    <2>2. CASE WriteToken
      <3>1. about[2] \subseteq Tokens
        BY <2>2, EvalAssumption DEF WriteToken, Exprs
      <3> QED BY <2>1, <2>2, <3>1 DEF TypeInv, WriteToken, Write, Exprs, Calls, Paths
    <2>3. CASE WriteArgument
      BY <2>1, <2>3 DEF TypeInv, WriteArgument, Write, Exprs, Calls, Paths
    <2>4. CASE WriteSegment
      BY <2>1, <2>4 DEF TypeInv, WriteSegment, Write, Exprs, Calls, Paths
    <2>5. CASE UNCHANGED vars
      BY <2>5 DEF TypeInv, vars, Exprs, Calls, Paths
    <2> QED BY <2>2, <2>3, <2>4, <2>5 DEF Next
  <1> QED BY <1>1, <1>2, PTL DEF Spec

\* No call and no path panics, whatever the arguments and the response, on any
\* machine; round with more digits than there are powers of ten aside.
THEOREM NothingPanics == Spec => []NeverPanics
  <1>1. TypeInv => NeverPanics
    <2> SUFFICES ASSUME TypeInv PROVE NeverPanics
      OBVIOUS
    <2>1. ASSUME about \in Calls, NEW arch \in Archs,
                 ~(about[2] = "round" /\ TooManyDigits(ToInt(ToNum(word[2]), arch)))
          PROVE  GoFn(about[2], word, arch) # Throws
      <3>1. PICK fn \in exprFns : fn = about[2]
        BY <2>1, EvalAssumption DEF Calls
      <3>2. word \in Seq(Values)
        BY <2>1 DEF TypeInv
      <3> QED BY <2>1, <3>1, <3>2, CallsReturn
    <2>2. ASSUME about \in Paths PROVE GetPath(about[2], word) # Throws
      <3>1. about[2] \in Roots
        BY <2>2 DEF Paths
      <3> QED BY <2>2, <3>1, PathsReturn DEF TypeInv
    <2> QED BY <2>1, <2>2 DEF NeverPanics
  <1> QED BY <1>1, TypesHold, PTL

----------------------------------------------------------------------------
(* The interpreter and the compiled program agree                          *)

Apart(fn, a, name) == name \in DOMAIN Divergences(fn, a) /\ Divergences(fn, a)[name]

\* The contract excludes each divergence by its name.
LEMMA NotApart ==
    ASSUME NEW fn, NEW a, Contract(fn, a)
    PROVE  \A name : ~Apart(fn, a, name)
  BY DEF Contract, Apart

\* So of the arguments read as text none is absent, a list, an object, an
\* infinity, -0 or a number with an exponent.
LEMMA PlainTexts ==
    ASSUME NEW fn, NEW a, Contract(fn, a), NEW n \in AsText(fn, a)
    PROVE  /\ ~IsNil(Arg(a, n)) /\ ~Composite(Arg(a, n))
           /\ Arg(a, n).t # "inf" /\ Arg(a, n) # MinusZero
           /\ ~(Arg(a, n).t = "num" /\ Exponential(Arg(a, n).k))
  <1>1. ~Apart(fn, a, "absentText") /\ ~Apart(fn, a, "composite") /\ ~Apart(fn, a, "infiniteText")
        /\ ~Apart(fn, a, "minusZeroText") /\ ~Apart(fn, a, "exponentText")
    BY NotApart
  <1>2. ~\E m \in AsText(fn, a) : IsNil(Arg(a, m))
    BY <1>1, Zenon DEF Apart, Divergences
  <1>3. ~\E m \in AsText(fn, a) : Composite(Arg(a, m))
    BY <1>1, Zenon DEF Apart, Divergences
  <1>4. ~\E m \in AsText(fn, a) : Arg(a, m).t = "inf"
    BY <1>1, Zenon DEF Apart, Divergences
  <1>5. ~\E m \in AsText(fn, a) : Arg(a, m) = MinusZero
    BY <1>1, Zenon DEF Apart, Divergences
  <1>6. ~\E m \in AsText(fn, a) : Arg(a, m).t = "num" /\ Exponential(Arg(a, m).k)
    BY <1>1, Zenon DEF Apart, Divergences
  <1> QED BY <1>2, <1>3, <1>4, <1>5, <1>6

\* A text JavaScript reads as a number as the interpreter does.
Readable(s) ==
    LET t == Trim(s, GoBlanks) IN
    /\ ~OddBlank(s)
    /\ ~Prefixed(t)
    /\ Unsigned(t) # <<"Inf">>
    /\ ~Separated(Unsigned(t))
    /\ ~(IsDecimal(Unsigned(t)) /\ DecimalValue(Unsigned(t)) > MaxFloat)

\* And of those read as a number none is null, a list or an object, and no text
\* is one the two read apart.
LEMMA PlainNumbers ==
    ASSUME NEW fn, NEW a, Contract(fn, a), NEW n \in AsNumber(fn, a)
    PROVE  /\ Arg(a, n) = Null => fn = "round" /\ n = 2
           /\ ~Composite(Arg(a, n))
           /\ Arg(a, n).t = "str" => Readable(Arg(a, n).s)
  <1>1. ~Apart(fn, a, "nullNumber") /\ ~Apart(fn, a, "composite") /\ ~Apart(fn, a, "prefixed")
        /\ ~Apart(fn, a, "spelledInf") /\ ~Apart(fn, a, "underscored") /\ ~Apart(fn, a, "huge")
        /\ ~Apart(fn, a, "blanks")
    BY NotApart
  <1>2. ~\E m \in AsNumber(fn, a) : Arg(a, m) = Null /\ ~(fn = "round" /\ m = 2)
    BY <1>1, Zenon DEF Apart, Divergences
  <1>3. ~\E m \in AsNumber(fn, a) : Composite(Arg(a, m))
    BY <1>1, Zenon DEF Apart, Divergences
  <1> DEFINE numeral(m) == Trim(Arg(a, m).s, GoBlanks)
  <1>4. ~\E m \in AsNumber(fn, a) : Arg(a, m).t = "str" /\ Prefixed(numeral(m))
    BY <1>1, Zenon DEF Apart, Divergences
  <1>5. ~\E m \in AsNumber(fn, a) : Arg(a, m).t = "str" /\ Unsigned(numeral(m)) = <<"Inf">>
    BY <1>1, Zenon DEF Apart, Divergences
  <1>6. ~\E m \in AsNumber(fn, a) : Arg(a, m).t = "str" /\ Separated(Unsigned(numeral(m)))
    BY <1>1, Zenon DEF Apart, Divergences
  <1>7. ~\E m \in AsNumber(fn, a) : Arg(a, m).t = "str" /\ IsDecimal(Unsigned(numeral(m)))
                                    /\ DecimalValue(Unsigned(numeral(m))) > MaxFloat
    BY <1>1, Zenon DEF Apart, Divergences
  <1>8. ~\E m \in AsNumber(fn, a) : Arg(a, m).t = "str" /\ OddBlank(Arg(a, m).s)
    BY <1>1, Zenon DEF Apart, Divergences
  <1> QED BY <1>2, <1>3, <1>4, <1>5, <1>6, <1>7, <1>8, Zenon DEF Readable

\* A value that is none of these has one text.
LEMMA TextsAgree ==
    ASSUME NEW fn, NEW a \in Seq(Values), Contract(fn, a), NEW n \in AsText(fn, a)
    PROVE  JsString(Arg(a, n)) = ToStr(Arg(a, n))
  <1>1. PICK v : v = Arg(a, n)
    OBVIOUS
  <1>2. /\ ~IsNil(v) /\ ~Composite(v) /\ v.t # "inf" /\ v # MinusZero
        /\ ~(v.t = "num" /\ Exponential(v.k)) /\ Argument(v)
    BY <1>1, PlainTexts, ArgIs
  <1>3. v.t \in {"num", "nan", "bool", "str"}
    BY <1>2 DEF Argument, Scalars, Numbers, IsNil, Composite, NaN, Missing, Null
  <1> QED BY <1>1, <1>2, <1>3 DEF JsString, JsScalar, ToStr

\* Without the blanks that only one side trims, both trim to the same.
LEMMA TrimsAgree ==
    ASSUME NEW s, ~OddBlank(s)
    PROVE  Trim(s, JsBlanks) = Trim(s, GoBlanks)
  <1>1. \A n \in DOMAIN s : s[n] # "NEL" /\ s[n] # "BOM"
    BY DEF OddBlank, ToSet
  <1>2. {n \in DOMAIN s : s[n] \notin JsBlanks} = {n \in DOMAIN s : s[n] \notin GoBlanks}
    BY <1>1 DEF JsBlanks, GoBlanks
  <1> QED BY <1>2, Zenon DEF Trim

\* A text both can read is one number.
LEMMA ReadsAgree ==
    ASSUME NEW s, Readable(s)
    PROVE  JsRead(s) = IF Trim(s, GoBlanks) = <<>> THEN Num(0) ELSE ParseFloat(Trim(s, GoBlanks))
  <1>1. PICK t : t = Trim(s, GoBlanks)
    OBVIOUS
  <1>2. /\ Trim(s, JsBlanks) = t /\ ~Prefixed(t) /\ Unsigned(t) # <<"Inf">> /\ ~Separated(Unsigned(t))
        /\ ~(IsDecimal(Unsigned(t)) /\ DecimalValue(Unsigned(t)) > MaxFloat)
    BY <1>1, TrimsAgree, Zenon DEF Readable
  <1>3. PICK m : m = Unsigned(t)
    OBVIOUS
  <1>4. ParseFloat(t) = IF m \in {<<"Inf">>, <<"Infinity">>} THEN SignedInf(t)
                        ELSE IF ~IsDecimal(m) \/ DecimalValue(m) > MaxFloat THEN NaN
                        ELSE SignedNumber(t, DecimalValue(m))
    BY <1>2, <1>3, Zenon DEF ParseFloat
  <1>5. JsParse(t) = IF m = <<"Infinity">> THEN SignedInf(t)
                     ELSE IF ~IsDecimal(m) THEN NaN
                     ELSE IF DecimalValue(m) > MaxFloat THEN SignedInf(t)
                     ELSE SignedNumber(t, DecimalValue(m))
    BY <1>2, <1>3, Zenon DEF JsParse
  <1>6. m \in {<<"Inf">>, <<"Infinity">>} <=> m = <<"Infinity">>
    BY <1>2, <1>3, Zenon
  <1>7. IsDecimal(m) => ~(DecimalValue(m) > MaxFloat)
    BY <1>2, <1>3
  <1>8. ParseFloat(t) = JsParse(t)
    <2>1. CASE m = <<"Infinity">>
      BY <1>4, <1>5, <1>6, <2>1, Zenon
    <2>2. CASE m # <<"Infinity">> /\ ~IsDecimal(m)
      BY <1>4, <1>5, <1>6, <2>2, Zenon
    <2>3. CASE m # <<"Infinity">> /\ IsDecimal(m)
      BY <1>4, <1>5, <1>6, <1>7, <2>3, Zenon
    <2> QED BY <2>1, <2>2, <2>3
  <1> QED BY <1>1, <1>2, <1>8, Zenon DEF JsRead

\* A value that is read as a number is the same one, a null for the digits of
\* round aside.
LEMMA NumbersAgree ==
    ASSUME NEW fn, NEW a \in Seq(Values), Contract(fn, a), NEW n \in AsNumber(fn, a)
    PROVE  (fn = "round" /\ n = 2 /\ Arg(a, n) = Null) \/ JsNumber(Arg(a, n)) = ToNum(Arg(a, n))
  <1>1. PICK v : v = Arg(a, n)
    OBVIOUS
  <1>2. ~Composite(v) /\ Argument(v) /\ (v.t = "str" => Readable(v.s))
    BY <1>1, PlainNumbers, ArgIs
  <1>3. CASE v = Null
    BY <1>1, <1>3, PlainNumbers
  <1>4. CASE v.t = "str"
    <2>1. JsNumber(v) = JsRead(v.s)
      BY <1>4 DEF JsNumber, JsString, JsScalar, Number, Finite
    <2>2. ToNum(v) = IF Trim(v.s, GoBlanks) = <<>> THEN Num(0) ELSE ParseFloat(Trim(v.s, GoBlanks))
      BY <1>4 DEF ToNum, Number, Finite
    <2> QED BY <1>1, <1>2, <1>4, <2>1, <2>2, ReadsAgree
  <1>5. CASE v # Null /\ v.t # "str"
    <2>1. v.t \notin {"null", "str", "list", "map"}
      BY <1>2, <1>5 DEF Argument, Scalars, Numbers, Null, Composite, NaN, MinusZero, Missing
    <2> QED BY <1>1, <2>1 DEF JsNumber, ToNum
  <1> QED BY <1>3, <1>4, <1>5

\* JavaScript's slice counts an index as the interpreter does.
LEMMA JsIndexIs ==
    ASSUME NEW x \in Numbers, NEW n \in 0..MaxInt, NEW arch, x.t # "inf", ~OutOfRange(x)
    PROVE  JsIndex(x, n) = NormIndex(ToInt(x, arch), n)
  <1>1. MaxInt \in Nat /\ MinInt = -MaxInt - 1 /\ n \in Nat
    BY FunctionsAssumption DEF MinInt
  <1>2. CASE x = NaN
    <2>1. ToInt(x, arch) \in {MinInt, 0} /\ JsIndex(x, n) = 0
      BY <1>2 DEF ToInt, JsIndex, NaN, Finite
    <2>2. NormIndex(0, n) = 0 /\ NormIndex(MinInt, n) = 0
      BY <1>1 DEF NormIndex
    <2> QED BY <2>1, <2>2
  <1>3. CASE x # NaN
    <2>1. Finite(x) /\ x.k \in Int /\ Truncate(x.k) \in Int
      <3>1. Finite(x) /\ x.k \in Int
        BY <1>3 DEF Numbers, NaN, Finite, MinusZero
      <3> QED BY <3>1, TruncateIs
    <2>2. PICK j \in Int : j = Truncate(x.k)
      BY <2>1
    <2>3. ToInt(x, arch) = j
      <3>1. CASE x.t = "num"
        BY <2>1, <2>2, <3>1 DEF ToInt, OutOfRange
      <3>2. CASE x = MinusZero
        <4>1. j = 0 /\ InRange(0)
          BY <1>1, <2>2, <3>2 DEF MinusZero, Truncate, Signed, Abs, Unit, InRange
        <4> QED BY <2>1, <2>2, <4>1 DEF ToInt
      <3> QED BY <2>1, <3>1, <3>2 DEF Numbers, NaN, Finite
    <2>4. JsIndex(x, n) = IF j < 0 THEN Max({0, j + n}) ELSE Min({j, n})
      BY <1>3, <2>1, <2>2 DEF JsIndex, Finite
    <2>5. \A p, q \in Int : Max({p, q}) = (IF p < q THEN q ELSE p) /\ Min({p, q}) = (IF p < q THEN p ELSE q)
      <3> TAKE p, q \in Int
      <3>1. Max({p, q}) = (IF p < q THEN q ELSE p)
        BY DEF Max
      <3>2. Min({p, q}) = (IF p < q THEN p ELSE q)
        BY DEF Min
      <3> QED BY <3>1, <3>2
    <2>6. Max({0, j + n}) = (IF 0 < j + n THEN j + n ELSE 0) /\ Min({j, n}) = (IF j < n THEN j ELSE n)
      <3>1. j + n \in Int /\ 0 \in Int /\ n \in Int
        BY <1>1
      <3> QED BY <2>5, <3>1
    <2>7. NormIndex(j, n) = IF j < 0 THEN (IF 0 < j + n THEN j + n ELSE 0) ELSE IF j < n THEN j ELSE n
      BY <1>1 DEF NormIndex
    <2> QED BY <2>3, <2>4, <2>6, <2>7
  <1> QED BY <1>2, <1>3

\* slice, and substr by its sum, cut the same text on both sides.
LEMMA SlicesAgree ==
    ASSUME NEW s \in Seq(Chars), Len(s) <= MaxInt, Units(s) = s, NEW arch,
           NEW x \in Numbers, x.t # "inf", ~OutOfRange(x),
           NEW y \in Numbers, y.t # "inf", ~OutOfRange(y)
    PROVE  JsSlice(s, x, y) = Slice(s, ToInt(x, arch), ToInt(y, arch))
  <1>1. MaxInt \in Nat /\ Len(s) \in 0..MaxInt
    BY FunctionsAssumption
  <1>2. ToInt(x, arch) \in Int /\ ToInt(y, arch) \in Int
    BY FunctionsAssumption, ToIntIs DEF MinInt
  <1> DEFINE Place(z) == NormIndex(ToInt(z, arch), Len(s))
  <1>3. JsIndex(x, Len(s)) = Place(x) /\ JsIndex(y, Len(s)) = Place(y)
    BY <1>1, JsIndexIs
  <1>4. Place(x) \in 0..Len(s) /\ Place(y) \in 0..Len(s)
    BY <1>2, IndexIs
  <1>5. PICK a \in 0..Len(s) : a = NormIndex(ToInt(x, arch), Len(s)) /\ a = JsIndex(x, Len(s))
    BY <1>3, <1>4
  <1>6. PICK b \in 0..Len(s) : b = NormIndex(ToInt(y, arch), Len(s)) /\ b = JsIndex(y, Len(s))
    BY <1>3, <1>4
  <1>7. JsSlice(s, x, y) = Text(SubSeq(s, a + 1, b))
    BY <1>5, <1>6 DEF JsSlice
  <1>8. CASE a >= b
    <2>1. SubSeq(s, a + 1, b) = <<>>
      BY <1>1, <1>8, SubSeqProperties
    <2>2. Slice(s, ToInt(x, arch), ToInt(y, arch)) = Text(<<>>)
      BY <1>5, <1>6, <1>8 DEF Slice
    <2> QED BY <1>7, <2>1, <2>2
  <1>9. CASE ~(a >= b)
    BY <1>1, <1>5, <1>6, <1>7, <1>9 DEF Slice, Reslice
  <1> QED BY <1>8, <1>9


\* Pieces of one character each, put together again.
LEMMA FlattenSingles ==
    ASSUME NEW S, NEW s \in Seq(S)
    PROVE  FlattenSeq([n \in DOMAIN s |-> <<s[n]>>]) = s
  <1> DEFINE ones == [n \in DOMAIN s |-> <<s[n]>>]
             L == Len(s)
             Kept(k) == k = [i \in 1..L |-> IF i = 1 THEN ones[i] ELSE k[i - 1] \o ones[i]]
  <1>1. L \in Nat /\ DOMAIN s = 1..L /\ ones \in Seq(Seq(S)) /\ Len(ones) = L
        /\ \A i \in 1..L : ones[i] = <<s[i]>>
    <2>1. L \in Nat /\ DOMAIN s = 1..L /\ \A i \in 1..L : s[i] \in S
      OBVIOUS
    <2>2. \A x \in S : <<x>> \in Seq(S)
      OBVIOUS
    <2>3. ones = [i \in 1..L |-> <<s[i]>>] /\ \A i \in 1..L : <<s[i]>> \in Seq(S)
      BY <2>1, <2>2
    <2>4. ones \in [1..L -> Seq(S)]
      BY <2>3
    <2> HIDE DEF L
    <2>5. ones \in Seq(Seq(S)) /\ Len(ones) = L
      BY <2>1, <2>4, SeqDef, LenProperties
    <2> QED BY <2>1, <2>3, <2>5
  <1>2. CASE L = 0
    <2>1. s = <<>> /\ ones = <<>>
      BY <1>1, <1>2
    <2> QED BY <2>1 DEF FlattenSeq
  <1>3. CASE L # 0
    <2>1. \A i \in 1..L : i # 1 => SubSeq(s, 1, i - 1) \o <<s[i]>> = SubSeq(s, 1, i)
      <3> TAKE i \in 1..L
      <3> HAVE i # 1
      <3>1. 1 \in 1..Len(s) /\ i \in 1..Len(s)
        BY <1>1
      <3> QED BY <3>1, SubSeqRecursiveSecond
    <2>2. SubSeq(s, 1, 1) = <<s[1]>> /\ SubSeq(s, 1, L) = s
      <3>1. 1 \in 1..Len(s)
        BY <1>1, <1>3
      <3>2. SubSeq(s, 1, 1) = SubSeq(s, 1, 1 - 1) \o <<s[1]>>
        BY <3>1, SubSeqRecursiveSecond
      <3>3. SubSeq(s, 1, 1 - 1) = <<>>
        BY SubSeqEmpty
      <3>4. <<s[1]>> \in Seq(S)
        BY <1>1, <3>1
      <3> QED BY <3>2, <3>3, <3>4, SubSeqFull, ConcatEmptySeq
    <2>3. \E k : Kept(k)
      <3> DEFINE k == [i \in 1..L |-> SubSeq(s, 1, i)]
      <3>1. \A i \in 1..L : k[i] = IF i = 1 THEN ones[i] ELSE k[i - 1] \o ones[i]
        <4> TAKE i \in 1..L
        <4>1. i # 1 => i - 1 \in 1..L
          BY <1>1
        <4> HIDE DEF ones
        <4> QED BY <1>1, <2>1, <2>2, <4>1
      <3>2. k = [i \in 1..L |-> IF i = 1 THEN ones[i] ELSE k[i - 1] \o ones[i]]
        <4> HIDE DEF ones
        <4> QED BY <3>1
      <3> HIDE DEF k
      <3> QED BY <3>2
    <2>4. PICK k : Kept(k) /\ k = CHOOSE g : Kept(g)
      BY <2>3, Zenon
    <2>5. FlattenSeq(ones) = k[L]
      <3>1. FlattenSeq(ones) = IF Len(ones) = 0 THEN ones
                               ELSE (CHOOSE g : g = [i \in 1..Len(ones) |->
                                        IF i = 1 THEN ones[i] ELSE g[i - 1] \o ones[i]])[Len(ones)]
        BY Zenon DEF FlattenSeq
      <3>2. Len(ones) = L /\ Len(ones) # 0
        BY <1>1, <1>3
      <3>3. FlattenSeq(ones) = (CHOOSE g : Kept(g))[L]
        BY <3>1, <3>2, Zenon
      <3> QED BY <2>4, <3>3, Zenon
    <2>6. \A i \in 1..L : k[i] = IF i = 1 THEN ones[i] ELSE k[i - 1] \o ones[i]
      BY <2>4, Zenon
    <2> HIDE DEF ones, Kept
    <2> DEFINE G == {m \in Nat : m + 1 <= L => k[m + 1] = SubSeq(s, 1, m + 1)}
    <2>7. 0 \in G
      BY <1>1, <1>3, <2>2, <2>6
    <2>8. ASSUME NEW m \in Nat, m \in G PROVE m + 1 \in G
      <3> SUFFICES ASSUME (m + 1) + 1 <= L PROVE k[(m + 1) + 1] = SubSeq(s, 1, (m + 1) + 1)
        OBVIOUS
      <3>1. PICK i \in 1..L : i = (m + 1) + 1 /\ i # 1 /\ i - 1 = m + 1
        BY <1>1
      <3>2. k[i - 1] = SubSeq(s, 1, i - 1)
        BY <1>1, <2>8, <3>1
      <3> QED BY <1>1, <2>1, <2>6, <3>1, <3>2
    <2>9. L - 1 \in G
      <3> HIDE DEF G
      <3>1. L - 1 \in Nat
        BY <1>1, <1>3
      <3> QED BY <2>7, <2>8, <3>1, SetInduction
    <2> QED BY <1>1, <1>3, <2>2, <2>5, <2>9 DEF ones
  <1> QED BY <1>2, <1>3

\* A text without characters of two units is as long in JavaScript.
LEMMA UnitsAre ==
    ASSUME NEW s \in Seq(Chars), ~Contains(s, "G")
    PROVE  Units(s) = s
  <1>1. \A n \in DOMAIN s : s[n] # "G"
    BY DEF Contains
  <1>2. [n \in DOMAIN s |-> IF s[n] = "G" THEN <<"G1", "G2">> ELSE <<s[n]>>] = [n \in DOMAIN s |-> <<s[n]>>]
    BY <1>1
  <1>3. Units(s) = FlattenSeq([n \in DOMAIN s |-> <<s[n]>>])
    BY <1>2, Zenon DEF Units
  <1> QED BY <1>3, FlattenSingles

\* q is the quotient and r the remainder, and rounding picks q or the next one.
HalvedBy(m, step, P, q, r) ==
    /\ q = m \div step /\ m = q * step + r /\ r < step
    /\ (2 * m * P + 800) \div 1600 = IF 2 * r < step THEN q ELSE q + 1

\* Half up, to zero, one and two digits.
Halved(m, step, P) == \E q, r \in Nat : HalvedBy(m, step, P, q, r)

\* Rounding half up of a natural by division.
LEMMA HalvedIs ==
    ASSUME NEW m \in Nat
    PROVE  Halved(m, 800, 1) /\ Halved(m, 80, 10) /\ Halved(m, 8, 100)
  <1>1. Halved(m, 800, 1)
    <2>1. m \div 800 \in Nat /\ m % 800 \in Nat /\ m % 800 < 800 /\ m = (m \div 800) * 800 + (m % 800)
      OBVIOUS
    <2>2. (2 * m * 1 + 800) \div 1600 = IF 2 * (m % 800) < 800 THEN m \div 800 ELSE (m \div 800) + 1
      OBVIOUS
    <2>3. HalvedBy(m, 800, 1, m \div 800, m % 800)
      BY <2>1, <2>2 DEF HalvedBy
    <2> QED BY <2>1, <2>3 DEF Halved
  <1>2. Halved(m, 80, 10)
    <2>1. m \div 80 \in Nat /\ m % 80 \in Nat /\ m % 80 < 80 /\ m = (m \div 80) * 80 + (m % 80)
      OBVIOUS
    <2>2. (2 * m * 10 + 800) \div 1600 = IF 2 * (m % 80) < 80 THEN m \div 80 ELSE (m \div 80) + 1
      OBVIOUS
    <2>3. HalvedBy(m, 80, 10, m \div 80, m % 80)
      BY <2>1, <2>2 DEF HalvedBy
    <2> QED BY <2>1, <2>3 DEF Halved
  <1>3. Halved(m, 8, 100)
    <2>1. m \div 8 \in Nat /\ m % 8 \in Nat /\ m % 8 < 8 /\ m = (m \div 8) * 8 + (m % 8)
      OBVIOUS
    <2>2. (2 * m * 100 + 800) \div 1600 = IF 2 * (m % 8) < 8 THEN m \div 8 ELSE (m \div 8) + 1
      OBVIOUS
    <2>3. HalvedBy(m, 8, 100, m \div 8, m % 8)
      BY <2>1, <2>2 DEF HalvedBy
    <2> QED BY <2>1, <2>3 DEF Halved
  <1> QED BY <1>1, <1>2, <1>3

\* Half up on |k|, then the sign: what toFixed does.
LEMMA RoundsAgree ==
    ASSUME NEW k \in Int, NEW d \in 0..2
    PROVE  RoundTo(k, d) = JsToFixed(k, d)
  <1>1. PICK m \in Nat : m = Abs(k)
    BY DEF Abs
  <1>2. PICK step \in Nat : step = Unit \div Pow10(d) /\ Halved(m, step, Pow10(d)) /\ step > 0
    <2>1. Unit = 800 /\ Pow10(0) = 1 /\ Pow10(1) = 10 /\ Pow10(2) = 100
      BY DEF Unit, Pow10, Tens
    <2>2. d = 0 \/ d = 1 \/ d = 2
      OBVIOUS
    <2> QED BY <2>1, <2>2, HalvedIs
  <1>3. PICK q \in Nat, r \in 0..(step - 1) :
           /\ q = m \div step /\ m = q * step + r
           /\ (2 * m * Pow10(d) + 800) \div 1600 = IF 2 * r < step THEN q ELSE q + 1
    BY <1>2 DEF Halved, HalvedBy
  <1>4. PICK low \in Int, high \in Int : low = q * step /\ high = (q + 1) * step /\ high = low + step
    BY <1>2
  <1>5. m = low + r
    BY <1>3, <1>4
  <1> DEFINE c    == IF 2 * r < step THEN low ELSE high
             near == {x \in {low, high} : 2 * Abs(x - m) <= step}
  <1>6. 2 * Abs(low - m) = 2 * r /\ 2 * Abs(high - m) = 2 * (step - r)
    BY <1>2, <1>4, <1>5 DEF Abs
  <1>7. c \in near /\ c \in Int /\ \A x \in near : x \in Int /\ c >= x
    BY <1>2, <1>4, <1>6
  <1>8. Max(near) = c
    <2> HIDE DEF near, c
    <2>1. \A x \in near : (\A y \in near : x >= y) => x = c
      BY <1>7
    <2> QED BY <1>7, <2>1 DEF Max
  <1>9. JsToFixed(k, d) = Signed(k, Max(near))
    <2>1. JsToFixed(k, d) =
             Signed(k, Max({x \in {(m \div step) * step, ((m \div step) + 1) * step} :
                              2 * Abs(x - m) <= step}))
      BY <1>1, <1>2, Zenon DEF JsToFixed
    <2>2. m \div step = q
      BY <1>3
    <2> QED BY <1>4, <2>1, <2>2, Zenon
  <1>10. RoundTo(k, d) = Signed(k, (IF 2 * r < step THEN q ELSE q + 1) * step)
    BY <1>1, <1>2, <1>3 DEF RoundTo, Unit
  <1>11. (IF 2 * r < step THEN q ELSE q + 1) * step = c
    BY <1>4
  <1> QED BY <1>8, <1>9, <1>10, <1>11


\* Two functions that agree on what comes up reduce to the same.
SameOn(G, f, g, nums) ==
    \A x \in G : \A n \in 1..Len(nums) : f[x][nums[n]] \in G /\ f[x][nums[n]] = g[x][nums[n]]

\* Functions that agree on all numbers reduce alike.
LEMMA ReduceSame ==
    ASSUME NEW f, NEW g, NEW G, NEW seed \in G, NEW nums, Len(nums) \in Nat, SameOn(G, f, g, nums)
    PROVE  Reduce(f, seed, nums) = Reduce(g, seed, nums)
  <1>1. PICK k : ReducedAt(f, seed, nums, k) /\ Reduce(f, seed, nums) = k[Len(nums)]
    BY ReduceDef
  <1>2. PICK l : ReducedAt(g, seed, nums, l) /\ Reduce(g, seed, nums) = l[Len(nums)]
    BY ReduceDef
  <1> DEFINE S == {m \in Nat : m <= Len(nums) => k[m] \in G /\ k[m] = l[m]}
  <1>3. 0 \in S
    BY <1>1, <1>2 DEF ReducedAt
  <1>4. ASSUME NEW m \in Nat, m \in S PROVE m + 1 \in S
    <2> SUFFICES ASSUME m + 1 <= Len(nums) PROVE k[m + 1] \in G /\ k[m + 1] = l[m + 1]
      OBVIOUS
    <2>1. m + 1 \in 1..Len(nums) /\ (m + 1) - 1 = m /\ k[m] \in G /\ k[m] = l[m]
      BY <1>4
    <2>2. k[m + 1] = f[k[m]][nums[m + 1]] /\ l[m + 1] = g[l[m]][nums[m + 1]]
      BY <1>1, <1>2, <2>1 DEF ReducedAt
    <2> QED BY <2>1, <2>2 DEF SameOn
  <1>5. Len(nums) \in S
    <2> HIDE DEF S
    <2> QED BY <1>3, <1>4, SetInduction
  <1> QED BY <1>1, <1>2, <1>5


\* math.Min and Math.min differ only where -Inf meets a NaN; math.Max likewise.
LEMMA ExtremesAgree ==
    ASSUME NEW x \in Numbers, NEW y \in Numbers
    PROVE  /\ (NaN \notin {x, y} \/ Inf(-1) \notin {x, y}) => GoMin(x, y) = MinNum(x, y)
           /\ (NaN \notin {x, y} \/ Inf(1) \notin {x, y}) => GoMax(x, y) = MaxNum(x, y)
           /\ NaN \notin {x, y} => MinNum(x, y) # NaN /\ MaxNum(x, y) # NaN
           /\ MinNum(x, y) \in {x, y, NaN} /\ MaxNum(x, y) \in {x, y, NaN}
  <1>1. Inf(1).t = "inf" /\ Inf(1).sign = 1 /\ Inf(-1).t = "inf" /\ Inf(-1).sign = -1
        /\ NaN.t = "nan"
    BY DEF Inf, NaN
  <1>2. \A z \in Numbers : z.t = "inf" => z = Inf(1) \/ z = Inf(-1)
    BY DEF Numbers, Inf, NaN, MinusZero
  <1>3. Inf(-1) \in {x, y} /\ NaN \notin {x, y} => MinNum(x, y) = Inf(-1)
    BY <1>1, <1>2 DEF MinNum, Below, Less, MinusZero, Num
  <1>4. Inf(1) \in {x, y} /\ NaN \notin {x, y} => MaxNum(x, y) = Inf(1)
    BY <1>1, <1>2 DEF MaxNum, Below, Less, MinusZero, Num
  <1>5. (NaN \notin {x, y} \/ Inf(-1) \notin {x, y}) => GoMin(x, y) = MinNum(x, y)
    BY <1>3 DEF GoMin
  <1>6. (NaN \notin {x, y} \/ Inf(1) \notin {x, y}) => GoMax(x, y) = MaxNum(x, y)
    BY <1>4 DEF GoMax
  <1> QED BY <1>5, <1>6 DEF MinNum, MaxNum

\* min and max over all arguments agree.
LEMMA ReductionsAgree ==
    ASSUME NEW nums, Len(nums) \in Nat, \A n \in 1..Len(nums) : nums[n] \in Numbers,
           ~((\E n \in 1..Len(nums) : nums[n] = NaN) /\ (\E n \in 1..Len(nums) : nums[n].t = "inf"))
    PROVE  /\ Reduce([v \in Numbers |-> [u \in Numbers |-> GoMin(v, u)]], Inf(1), nums)
                = Reduce([v \in Numbers |-> [u \in Numbers |-> MinNum(v, u)]], Inf(1), nums)
           /\ Reduce([v \in Numbers |-> [u \in Numbers |-> GoMax(v, u)]], Inf(-1), nums)
                = Reduce([v \in Numbers |-> [u \in Numbers |-> MaxNum(v, u)]], Inf(-1), nums)
  <1> DEFINE goMin == [v \in Numbers |-> [u \in Numbers |-> GoMin(v, u)]]
             jsMin == [v \in Numbers |-> [u \in Numbers |-> MinNum(v, u)]]
             goMax == [v \in Numbers |-> [u \in Numbers |-> GoMax(v, u)]]
             jsMax == [v \in Numbers |-> [u \in Numbers |-> MaxNum(v, u)]]
             noNaN == \A n \in 1..Len(nums) : nums[n] # NaN
             GMin  == IF noNaN THEN Numbers \ {NaN} ELSE Numbers \ {Inf(-1)}
             GMax  == IF noNaN THEN Numbers \ {NaN} ELSE Numbers \ {Inf(1)}
  <1>1. \A v, u \in Numbers : /\ goMin[v][u] = GoMin(v, u) /\ jsMin[v][u] = MinNum(v, u)
                              /\ goMax[v][u] = GoMax(v, u) /\ jsMax[v][u] = MaxNum(v, u)
    OBVIOUS
  <1>2. Inf(1) \in Numbers /\ Inf(-1) \in Numbers /\ NaN \in Numbers
        /\ Inf(1) # NaN /\ Inf(-1) # NaN /\ Inf(1) # Inf(-1)
    BY DEF Inf, NaN, Numbers
  <1>3. Inf(1) \in GMin /\ Inf(-1) \in GMax
    BY <1>2
  <1>4. noNaN \/ \A n \in 1..Len(nums) : nums[n] # Inf(1) /\ nums[n] # Inf(-1)
    BY DEF Inf
  <1> HIDE DEF goMin, jsMin, goMax, jsMax, noNaN
  <1>5. ASSUME NEW x \in GMin, NEW n \in 1..Len(nums)
        PROVE  goMin[x][nums[n]] \in GMin /\ goMin[x][nums[n]] = jsMin[x][nums[n]]
    <2>1. PICK y \in Numbers : y = nums[n]
      OBVIOUS
    <2>2. x \in Numbers /\ (NaN \notin {x, y} \/ Inf(-1) \notin {x, y})
      BY <1>4, <2>1 DEF noNaN
    <2>3. MinNum(x, y) \in Numbers
      BY <2>2, ExtremesAre
    <2>4. MinNum(x, y) \in GMin
      BY <1>2, <1>4, <2>1, <2>2, <2>3, ExtremesAgree DEF noNaN
    <2> QED BY <1>1, <2>1, <2>2, <2>4, ExtremesAgree
  <1>6. ASSUME NEW x \in GMax, NEW n \in 1..Len(nums)
        PROVE  goMax[x][nums[n]] \in GMax /\ goMax[x][nums[n]] = jsMax[x][nums[n]]
    <2>1. PICK y \in Numbers : y = nums[n]
      OBVIOUS
    <2>2. x \in Numbers /\ (NaN \notin {x, y} \/ Inf(1) \notin {x, y})
      BY <1>4, <2>1 DEF noNaN
    <2>3. MaxNum(x, y) \in Numbers
      BY <2>2, ExtremesAre
    <2>4. MaxNum(x, y) \in GMax
      BY <1>2, <1>4, <2>1, <2>2, <2>3, ExtremesAgree DEF noNaN
    <2> QED BY <1>1, <2>1, <2>2, <2>4, ExtremesAgree
  <1> HIDE DEF GMin, GMax
  <1>7. Reduce(goMin, Inf(1), nums) = Reduce(jsMin, Inf(1), nums)
    <2>1. PICK seed \in GMin : seed = Inf(1)
      BY <1>3
    <2>2. SameOn(GMin, goMin, jsMin, nums)
      BY <1>5 DEF SameOn
    <2>3. Reduce(goMin, seed, nums) = Reduce(jsMin, seed, nums)
      BY <2>2, ReduceSame
    <2> QED BY <2>1, <2>3
  <1>8. Reduce(goMax, Inf(-1), nums) = Reduce(jsMax, Inf(-1), nums)
    <2>1. PICK seed \in GMax : seed = Inf(-1)
      BY <1>3
    <2>2. SameOn(GMax, goMax, jsMax, nums)
      BY <1>6 DEF SameOn
    <2>3. Reduce(goMax, seed, nums) = Reduce(jsMax, seed, nums)
      BY <2>2, ReduceSame
    <2> QED BY <2>1, <2>3
  <1> QED BY <1>7, <1>8 DEF goMin, jsMin, goMax, jsMax


\* Whole numbers within the range: the sum of the indices is the index of the sum.
LEMMA WholeSum ==
    ASSUME NEW x, NEW y, NEW arch,
           Finite(x), x.k \in Int, x.k % Unit = 0, InRange(Truncate(x.k)),
           Finite(y), y.k \in Int, y.k % Unit = 0, InRange(Truncate(y.k)),
           ~OutOfRange(JsSum(x, y))
    PROVE  /\ ToInt(JsSum(x, y), arch) = Wrap(ToInt(x, arch) + ToInt(y, arch))
           /\ JsSum(x, y) \in Numbers /\ JsSum(x, y).t # "inf"
  <1>1. JsSum(x, y) = Num(x.k + y.k)
    BY DEF JsSum, NaN, Finite
  <1>2. PICK p \in Int : x.k = 800 * p
    BY DEF Unit
  <1>3. PICK q \in Int : y.k = 800 * q
    BY DEF Unit
  <1>4. \A r \in Int : Truncate(800 * r) = r
    BY DEF Truncate, Signed, Abs, Unit
  <1>5. x.k + y.k = 800 * (p + q) /\ p + q \in Int
    BY <1>2, <1>3
  <1>6. Truncate(x.k) = p /\ Truncate(y.k) = q /\ Truncate(x.k + y.k) = p + q
    BY <1>2, <1>3, <1>4, <1>5
  <1>7. InRange(p) /\ InRange(q) /\ InRange(p + q)
    BY <1>1, <1>6 DEF OutOfRange, Num
  <1>8. ToInt(x, arch) = p /\ ToInt(y, arch) = q /\ ToInt(JsSum(x, y), arch) = p + q
    BY <1>1, <1>6, <1>7 DEF ToInt, Num, Finite
  <1>9. Wrap(p + q) = p + q
    <2>1. PICK m \in Nat : m = MaxInt /\ MinInt = -m - 1
      BY FunctionsAssumption DEF MinInt
    <2>2. PICK n \in Nat : n = (p + q) - MinInt /\ n < 2 * (m + 1)
      BY <1>5, <1>7, <2>1 DEF InRange
    <2>3. n % (2 * (m + 1)) = n
      BY <2>1, <2>2
    <2>4. Wrap(p + q) = n + MinInt
      BY <2>1, <2>2, <2>3 DEF Wrap
    <2> QED BY <1>5, <2>1, <2>2, <2>4
  <1>10. Num(x.k + y.k) \in Numbers /\ Num(x.k + y.k).t # "inf"
    BY <1>5 DEF Num, Numbers
  <1> QED BY <1>1, <1>8, <1>9, <1>10

\* round writes the number toFixed writes.
LEMMA RoundCallsAgree ==
    ASSUME NEW a \in Seq(Values), NEW arch, Contract("round", a)
    PROVE  Seen(GoFn("round", a, arch)) = Seen(JsFn("round", a))
  <1> DEFINE x == ToNum(Arg(a, 1))
             e == JsNumber(a[2])
             n == IF Len(a) < 2 \/ Arg(a, 2) = Missing THEN 0
                  ELSE IF Finite(e) THEN Truncate(e.k) ELSE 0
             i == ToInt(ToNum(a[2]), arch)
  <1>1. JsNumber(Arg(a, 1)) = x /\ x \in Numbers /\ x # MinusZero
    <2>1. 1 \in AsNumber("round", a)
      BY DEF AsNumber
    <2>2. ~("round" = "round" /\ ToNum(Arg(a, 1)) = MinusZero)
      <3>1. ~Apart("round", a, "minusZero")
        BY NotApart
      <3> QED BY <3>1, Zenon DEF Apart, Divergences
    <2> QED BY <2>1, <2>2, NumbersAgree, ArgIs DEF Argument
  <1>2. ~(Len(a) > 1 /\ (e.t = "inf" \/ (e.t = "num" /\ Truncate(e.k) \notin 0..100)))
    <2>1. ~("round" = "round" /\ Len(a) > 1 /\
              (Digits(a).t = "inf" \/ (Digits(a).t = "num" /\ Truncate(Digits(a).k) \notin 0..100)))
      <3>1. ~Apart("round", a, "digits")
        BY NotApart
      <3> QED BY <3>1, Zenon DEF Apart, Divergences
    <2> QED BY <2>1 DEF Digits
  <1>3. Len(a) \in Nat /\ (Len(a) > 1 => 2 \in DOMAIN a /\ a[2] = Arg(a, 2))
    BY DEF Arg
  <1>4. Len(a) > 1 => /\ Argument(a[2]) /\ ~Composite(a[2]) /\ e \in Numbers
                      /\ (a[2] = Null /\ e = Num(0)) \/ e = ToNum(a[2])
    <2> SUFFICES ASSUME Len(a) > 1
                 PROVE  /\ Argument(a[2]) /\ ~Composite(a[2]) /\ e \in Numbers
                        /\ (a[2] = Null /\ e = Num(0)) \/ e = ToNum(a[2])
      OBVIOUS
    <2>1. 2 \in AsNumber("round", a)
      BY DEF AsNumber
    <2>2. Argument(a[2]) /\ ~Composite(a[2])
      BY <1>3, <2>1, ArgIs, PlainNumbers
    <2>3. a[2] = Null \/ e = ToNum(a[2])
      BY <1>3, <2>1, NumbersAgree
    <2>4. a[2] = Null => e = Num(0)
      BY DEF JsNumber, Number, Finite, Null
    <2>5. Num(0) \in Numbers /\ ToNum(a[2]) \in Numbers
      BY <2>2 DEF Argument, Num, Numbers
    <2> QED BY <2>2, <2>3, <2>4, <2>5
  <1>5. Truncate(0) = 0
    BY DEF Truncate, Signed, Abs, Unit
  <1>6. n \in 0..100
    <2>1. Len(a) > 1 /\ e.t = "zero" => e.k = 0
      BY <1>4 DEF Numbers, NaN, MinusZero
    <2>2. CASE Len(a) > 1 /\ e.t = "num"
      BY <1>2, <2>2 DEF Finite
    <2>3. CASE Len(a) > 1 /\ e.t # "num"
      <3>1. n = 0
        BY <1>5, <2>1, <2>3 DEF Finite
      <3> QED BY <3>1
    <2>4. CASE ~(Len(a) > 1)
      BY <1>3, <2>4
    <2> QED BY <2>2, <2>3, <2>4
  <1>7. (IF Len(a) > 1 THEN IF i < 0 THEN 0 ELSE i ELSE 0) = n
    <2>1. CASE Len(a) > 1
      <3>1. Argument(a[2]) /\ ~Composite(a[2]) /\ ToNum(a[2]) \in Numbers
        BY <1>4, <2>1 DEF Argument
      <3>2. MaxInt \in Nat /\ MaxInt >= 127 /\ MinInt = -MaxInt - 1
        BY FunctionsAssumption DEF MinInt
      <3>3. CASE ToNum(a[2]) = NaN
        <4>1. i \in {MinInt, 0}
          BY <3>3 DEF ToInt, NaN, Finite
        <4>2. n = 0
          BY <1>4, <1>5, <2>1, <3>3 DEF NaN, Num, Finite
        <4> QED BY <2>1, <3>2, <4>1, <4>2
      <3>4. CASE ToNum(a[2]) # NaN
        <4>1. a[2] # Null /\ a[2] # Missing
          BY <3>4 DEF ToNum, Number, Finite, Null, Missing
        <4>2. e = ToNum(a[2])
          BY <1>4, <2>1, <4>1
        <4>3. Finite(e)
          BY <1>2, <2>1, <3>1, <3>4, <4>2 DEF Numbers, NaN, Finite, MinusZero
        <4>4. n = Truncate(e.k)
          BY <1>3, <2>1, <4>1, <4>3
        <4>5. PICK m \in 0..100 : m = Truncate(e.k)
          BY <1>6, <4>4
        <4>6. InRange(m)
          BY <3>2 DEF InRange
        <4>7. i = m
          BY <4>2, <4>3, <4>5, <4>6 DEF ToInt
        <4>8. n = m
          BY <4>4, <4>5
        <4> HIDE DEF n, i
        <4> QED BY <2>1, <4>7, <4>8
      <3> QED BY <3>3, <3>4
    <2>2. CASE ~(Len(a) > 1)
      BY <1>3, <2>2
    <2> QED BY <2>1, <2>2
  <1>8. GoFn("round", a, arch) = RoundFn(a, arch) /\ JsFn("round", a) = JsRound(a)
    BY DEF GoFn, JsFn, MapText, OnNum
  <1>9. RoundFn(a, arch) = OnNum(LAMBDA k : IF Exact(n) THEN k ELSE RoundTo(k, n), x)
    <2>1. ~TooManyDigits(n)
      <3> HIDE DEF n
      <3> QED BY <1>6, FunctionsAssumption DEF TooManyDigits
    <2>2. (LET j == IF Len(a) > 1 THEN i ELSE 0 IN IF j < 0 THEN 0 ELSE j) = n
      BY <1>7
    <2> HIDE DEF n
    <2> QED BY <2>1, <2>2 DEF RoundFn, OnNum
  <1>10. JsRound(a) = OnNum(LAMBDA k : IF Exact(n) THEN k ELSE JsToFixed(k, n), x)
    <2> DEFINE d == IF Len(a) < 2 \/ Arg(a, 2) = Missing THEN Num(0) ELSE e
    <2>1. (IF Finite(d) THEN Truncate(d.k) ELSE 0) = n
      BY <1>5 DEF Num, Finite
    <2>2. d.t # "inf"
      BY <1>2, <1>3 DEF Num
    <2> HIDE DEF n
    <2> QED BY <1>1, <1>6, <2>1, <2>2 DEF JsRound, OnNum
  <1>11. ~Exact(n) => n \in 0..2
    <2> HIDE DEF n
    <2> QED BY <1>6 DEF Exact
  <1>12. x.t = "num" => x.k \in Int
    BY <1>1 DEF Numbers, NaN, MinusZero
  <1> HIDE DEF n, x
  <1>13. x.t = "num" => (IF Exact(n) THEN x.k ELSE RoundTo(x.k, n))
                          = (IF Exact(n) THEN x.k ELSE JsToFixed(x.k, n))
    BY <1>11, <1>12, RoundsAgree
  <1>14. RoundFn(a, arch) = JsRound(a)
    BY <1>9, <1>10, <1>13 DEF OnNum
  <1> QED BY <1>8, <1>14

\* + adds numbers and joins texts on both sides.
LEMMA SumsAgree ==
    ASSUME NEW a \in Seq(Values), NEW arch, Contract("+", a)
    PROVE  Seen(GoFn("+", a, arch)) = Seen(JsFn("+", a))
  <1>1. PICK l, r : l = Arg(a, 1) /\ r = Arg(a, 2)
    OBVIOUS
  <1>2. Argument(l) /\ Argument(r)
    BY <1>1, ArgIs
  <1>3. GoFn("+", a, arch) = Add(l, r) /\ JsFn("+", a) = JsAdd(l, r)
    BY <1>1 DEF GoFn, JsFn, MapText, OnNum
  <1>4. Joins(a) <=> {l.t, r.t} \cap {"str", "list", "map"} # {}
    BY <1>1 DEF Joins
  <1>5. CASE Joins(a)
    <2>1. 1 \in AsText("+", a) /\ 2 \in AsText("+", a)
      BY <1>5 DEF AsText
    <2>2. /\ JsString(l) = ToStr(l) /\ JsString(r) = ToStr(r)
          /\ ~Composite(l) /\ ~Composite(r)
      BY <1>1, <2>1, TextsAgree, PlainTexts
    <2>3. ~(IsNumberLike(l) /\ IsNumberLike(r))
      BY <1>4, <1>5, <2>2 DEF IsNumberLike, Number, Finite, IsNil, Composite
    <2> QED BY <1>3, <1>4, <1>5, <2>2, <2>3 DEF Add, JsAdd
  <1>6. CASE ~Joins(a)
    <2>1. 1 \in AsNumber("+", a) /\ 2 \in AsNumber("+", a)
      BY <1>6 DEF AsNumber
    <2>2. JsNumber(l) = ToNum(l) /\ JsNumber(r) = ToNum(r)
      BY <1>1, <2>1, NumbersAgree
    <2>3. l.t \notin {"str", "list", "map"} /\ r.t \notin {"str", "list", "map"}
      BY <1>4, <1>6
    <2>4. \A v : Argument(v) /\ v.t \notin {"str", "list", "map"} => IsNumberLike(v)
      BY DEF Argument, Scalars, Numbers, NaN, MinusZero, Missing, Null,
             IsNumberLike, Number, Finite, IsNil
    <2>5. IsNumberLike(l) /\ IsNumberLike(r)
      BY <1>2, <2>3, <2>4
    <2> QED BY <1>3, <1>4, <1>6, <2>2, <2>5 DEF Add, JsAdd
  <1> QED BY <1>5, <1>6

\* Without the letters whose other case is longer, both sides write one case.
LEMMA CasesAgree ==
    ASSUME NEW s \in Seq(Chars)
    PROVE  /\ ~Contains(s, "eszett") => FlattenSeq(MapText(JsUpper, s)) = MapText(Upper, s)
           /\ ~Contains(s, "Idot") => FlattenSeq(MapText(JsLower, s)) = MapText(Lower, s)
  <1>1. Len(s) \in Nat /\ DOMAIN s = 1..Len(s) /\ \A n \in DOMAIN s : s[n] \in Chars
    OBVIOUS
  <1>2. ASSUME ~Contains(s, "eszett") PROVE FlattenSeq(MapText(JsUpper, s)) = MapText(Upper, s)
    <2> DEFINE S == {Upper(c) : c \in Chars}
               t == [n \in DOMAIN s |-> Upper(s[n])]
    <2>1. t \in Seq(S) /\ DOMAIN t = DOMAIN s
      <3>1. \A n \in DOMAIN s : Upper(s[n]) \in S
        BY <1>1
      <3> HIDE DEF S
      <3>2. t \in [1..Len(s) -> S]
        BY <1>1, <3>1
      <3> QED BY <1>1, <3>2, SeqDef
    <2>2. \A n \in DOMAIN s : JsUpper(s[n]) = <<Upper(s[n])>>
      BY <1>1, <1>2 DEF Contains, JsUpper
    <2>3. [n \in DOMAIN s |-> JsUpper(s[n])] = [n \in DOMAIN t |-> <<t[n]>>]
      BY <2>1, <2>2
    <2>4. FlattenSeq([n \in DOMAIN t |-> <<t[n]>>]) = t
      <3> HIDE DEF S, t
      <3> QED BY <2>1, FlattenSingles
    <2> QED BY <2>3, <2>4, Zenon DEF MapText
  <1>3. ASSUME ~Contains(s, "Idot") PROVE FlattenSeq(MapText(JsLower, s)) = MapText(Lower, s)
    <2> DEFINE S == {Lower(c) : c \in Chars}
               t == [n \in DOMAIN s |-> Lower(s[n])]
    <2>1. t \in Seq(S) /\ DOMAIN t = DOMAIN s
      <3>1. \A n \in DOMAIN s : Lower(s[n]) \in S
        BY <1>1
      <3> HIDE DEF S
      <3>2. t \in [1..Len(s) -> S]
        BY <1>1, <3>1
      <3> QED BY <1>1, <3>2, SeqDef
    <2>2. \A n \in DOMAIN s : JsLower(s[n]) = <<Lower(s[n])>>
      BY <1>1, <1>3 DEF Contains, JsLower
    <2>3. [n \in DOMAIN s |-> JsLower(s[n])] = [n \in DOMAIN t |-> <<t[n]>>]
      BY <2>1, <2>2
    <2>4. FlattenSeq([n \in DOMAIN t |-> <<t[n]>>]) = t
      <3> HIDE DEF S, t
      <3> QED BY <2>1, FlattenSingles
    <2> QED BY <2>3, <2>4, Zenon DEF MapText
  <1> QED BY <1>2, <1>3

\* Each function of exprFns, interpreted and compiled, on any arguments it has
\* a contract for.
LEMMA CallsAgree ==
    ASSUME NEW fn \in exprFns, NEW a \in Seq(Values), NEW arch, Contract(fn, a)
    PROVE  Seen(GoFn(fn, a, arch)) = Seen(JsFn(fn, a))
  <1>0. /\ ~Apart(fn, a, "casing") /\ ~Apart(fn, a, "blanks") /\ ~Apart(fn, a, "wide")
        /\ ~Apart(fn, a, "emptyPattern") /\ ~Apart(fn, a, "infiniteIndex")
        /\ ~Apart(fn, a, "overflow") /\ ~Apart(fn, a, "fractional")
        /\ ~Apart(fn, a, "nanIndex") /\ ~Apart(fn, a, "infiniteNaN")
    BY NotApart
  <1>1. \A n : Argument(Arg(a, n))
    BY ArgIs
  <1>2. Len(a) \in Nat /\ DOMAIN a = 1..Len(a) /\ \A n \in DOMAIN a : a[n] = Arg(a, n)
    BY DEF Arg
  <1>3. \A n \in AsText(fn, a) : JsString(Arg(a, n)) = ToStr(Arg(a, n))
    BY TextsAgree
  <1>4. fn # "round" => \A n \in AsNumber(fn, a) : JsNumber(Arg(a, n)) = ToNum(Arg(a, n))
    BY NumbersAgree
  <1>5. \A n : ToStr(Arg(a, n)) \in Seq(Chars) /\ Len(ToStr(Arg(a, n))) \in 0..MaxInt
               /\ ToNum(Arg(a, n)) \in Numbers
    BY <1>1 DEF Argument
  <1>6. CASE fn \in {"upper", "lower", "trim", "urlencode"}
    <2>1. JsString(Arg(a, 1)) = ToStr(Arg(a, 1))
      BY <1>3, <1>6 DEF AsText
    <2>2. CASE fn = "upper"
      <3>1. ~(fn = "upper" /\ Contains(ToStr(Arg(a, 1)), "eszett"))
        BY <1>0, Zenon DEF Apart, Divergences
      <3>2. FlattenSeq(MapText(JsUpper, ToStr(Arg(a, 1)))) = MapText(Upper, ToStr(Arg(a, 1)))
        BY <1>5, <2>2, <3>1, CasesAgree
      <3> QED BY <2>1, <2>2, <3>2 DEF GoFn, JsFn, MapText, OnNum
    <2>3. CASE fn = "lower"
      <3>1. ~(fn = "lower" /\ Contains(ToStr(Arg(a, 1)), "Idot"))
        BY <1>0, Zenon DEF Apart, Divergences
      <3>2. FlattenSeq(MapText(JsLower, ToStr(Arg(a, 1)))) = MapText(Lower, ToStr(Arg(a, 1)))
        BY <1>5, <2>3, <3>1, CasesAgree
      <3> QED BY <2>1, <2>3, <3>2 DEF GoFn, JsFn, MapText, OnNum
    <2>4. CASE fn = "trim"
      <3>1. ~(fn = "trim" /\ OddBlank(ToStr(Arg(a, 1))))
        BY <1>0, Zenon DEF Apart, Divergences
      <3>2. Trim(ToStr(Arg(a, 1)), JsBlanks) = Trim(ToStr(Arg(a, 1)), GoBlanks)
        BY <2>4, <3>1, TrimsAgree
      <3> QED BY <2>1, <2>4, <3>2 DEF GoFn, JsFn, MapText, OnNum
    <2>5. CASE fn = "urlencode"
      BY <2>1, <2>5 DEF GoFn, JsFn, MapText, OnNum
    <2> QED BY <1>6, <2>2, <2>3, <2>4, <2>5
  <1>7. CASE fn \in {"eq", "ne"}
    <2>1. JsString(Arg(a, 1)) = ToStr(Arg(a, 1)) /\ JsString(Arg(a, 2)) = ToStr(Arg(a, 2))
      BY <1>3, <1>7 DEF AsText
    <2>2. CASE fn = "eq"
      BY <2>1, <2>2 DEF GoFn, JsFn, MapText, OnNum
    <2>3. CASE fn = "ne"
      BY <2>1, <2>3 DEF GoFn, JsFn, MapText, OnNum
    <2> QED BY <1>7, <2>2, <2>3
  <1>8. CASE fn = "concat"
    <2>1. \A n \in DOMAIN a : JsString(a[n]) = ToStr(a[n])
      BY <1>2, <1>3, <1>8 DEF AsText
    <2>2. [n \in DOMAIN a |-> JsString(a[n])] = [n \in DOMAIN a |-> ToStr(a[n])]
      BY <2>1
    <2>3. GoFn(fn, a, arch) = Text(FlattenSeq([n \in DOMAIN a |-> ToStr(a[n])]))
      BY <1>8 DEF GoFn, MapText, OnNum
    <2>4. JsFn(fn, a) = Text(FlattenSeq([n \in DOMAIN a |-> JsString(a[n])]))
      BY <1>8 DEF JsFn, MapText, OnNum
    <2> QED BY <2>2, <2>3, <2>4, Zenon
  <1>9. CASE fn = "len"
    <2>1. JsString(Arg(a, 1)) = ToStr(Arg(a, 1))
      BY <1>3, <1>9 DEF AsText
    <2>2. ~(fn \in {"len", "slice", "substr"} /\ Wide(Arg(a, 1)))
      BY <1>0, Zenon DEF Apart, Divergences
    <2>3. Units(ToStr(Arg(a, 1))) = ToStr(Arg(a, 1))
      BY <1>5, <1>9, <2>2, UnitsAre DEF Wide
    <2> QED BY <1>9, <2>1, <2>3 DEF GoFn, JsFn, MapText, OnNum
  <1>10. CASE fn \in {"substr", "slice"}
    <2> DEFINE s == ToStr(Arg(a, 1))
               x == ToNum(Arg(a, 2))
               y == ToNum(Arg(a, 3))
    <2>1. JsString(Arg(a, 1)) = s /\ JsNumber(Arg(a, 2)) = x /\ JsNumber(Arg(a, 3)) = y
      BY <1>3, <1>4, <1>10 DEF AsText, AsNumber
    <2>2. ~(fn \in {"len", "slice", "substr"} /\ Wide(Arg(a, 1)))
      BY <1>0, Zenon DEF Apart, Divergences
    <2>3. Units(s) = s /\ s \in Seq(Chars) /\ Len(s) <= MaxInt /\ x \in Numbers /\ y \in Numbers
      BY <1>5, <1>10, <2>2, FunctionsAssumption, UnitsAre DEF Wide
    <2>4. x.t # "inf" /\ y.t # "inf"
      <3>1. ~(fn \in {"slice", "substr"} /\ (\E n \in 2..3 : ToNum(Arg(a, n)).t = "inf"))
        BY <1>0, Zenon DEF Apart, Divergences
      <3> QED BY <1>10, <3>1
    <2>5. ~OutOfRange(x) /\ ~OutOfRange(y) /\ (fn = "substr" => ~OutOfRange(JsSum(x, y)))
      <3>1. ~(fn \in {"slice", "substr"} /\ (\E n \in 2..3 : OutOfRange(ToNum(Arg(a, n)))))
        BY <1>0, Zenon DEF Apart, Divergences
      <3>2. ~(fn = "substr" /\ OutOfRange(JsSum(ToNum(Arg(a, 2)), ToNum(Arg(a, 3)))))
        BY <1>0, Zenon DEF Apart, Divergences
      <3> QED BY <1>10, <3>1, <3>2
    <2>6. CASE fn = "slice"
      <3>1. JsFn(fn, a) = JsSlice(s, x, y)
        BY <2>1, <2>6 DEF JsFn, MapText, OnNum
      <3>2. GoFn(fn, a, arch) = Slice(s, ToInt(x, arch), ToInt(y, arch))
        BY <2>6 DEF GoFn, MapText, OnNum
      <3> HIDE DEF s, x, y
      <3> QED BY <2>3, <2>4, <2>5, <3>1, <3>2, SlicesAgree
    <2>7. CASE fn = "substr"
      <3>1. JsFn(fn, a) = JsSlice(s, x, JsSum(x, y))
        BY <2>1, <2>7 DEF JsFn, MapText, OnNum
      <3>2. GoFn(fn, a, arch) = Slice(s, ToInt(x, arch), Wrap(ToInt(x, arch) + ToInt(y, arch)))
        BY <2>7 DEF GoFn, MapText, OnNum
      <3>3. x # NaN /\ y # NaN
        <4>1. ~(fn = "substr" /\ \E n \in 2..3 : ToNum(Arg(a, n)) = NaN)
          BY <1>0, Zenon DEF Apart, Divergences
        <4> QED BY <2>7, <4>1
      <3>4. ~(x.t = "num" /\ x.k % Unit # 0) /\ ~(y.t = "num" /\ y.k % Unit # 0)
        <4>1. ~(fn = "substr" /\ \E n \in 2..3 : Fractional(Arg(a, n)))
          BY <1>0, Zenon DEF Apart, Divergences
        <4> QED BY <2>7, <4>1 DEF Fractional
      <3> HIDE DEF s, x, y
      <3>5. \A z \in {x, y} : Finite(z) /\ z.k \in Int /\ z.k % Unit = 0 /\ InRange(Truncate(z.k))
        <4> SUFFICES ASSUME NEW z \in {x, y}
                     PROVE  Finite(z) /\ z.k \in Int /\ z.k % Unit = 0 /\ InRange(Truncate(z.k))
          OBVIOUS
        <4>1. CASE z.t = "num"
          BY <2>3, <2>5, <3>4, <4>1 DEF Numbers, NaN, MinusZero, Finite, OutOfRange
        <4>2. CASE z = MinusZero
          <5>1. Truncate(0) = 0 /\ InRange(0) /\ 0 % Unit = 0
            BY FunctionsAssumption DEF Truncate, Signed, Abs, Unit, InRange, MinInt
          <5> QED BY <4>2, <5>1 DEF MinusZero, Finite
        <4> QED BY <2>3, <2>4, <3>3, <4>1, <4>2 DEF Numbers
      <3>6. ToInt(JsSum(x, y), arch) = Wrap(ToInt(x, arch) + ToInt(y, arch))
            /\ JsSum(x, y) \in Numbers /\ JsSum(x, y).t # "inf"
        BY <2>5, <2>7, <3>5, WholeSum
      <3>7. JsSlice(s, x, JsSum(x, y)) = Slice(s, ToInt(x, arch), ToInt(JsSum(x, y), arch))
        BY <2>3, <2>4, <2>5, <2>7, <3>6, SlicesAgree
      <3> QED BY <3>1, <3>2, <3>6, <3>7
    <2> QED BY <1>10, <2>6, <2>7
  <1>11. CASE fn = "replace"
    <2>1. JsString(Arg(a, 1)) = ToStr(Arg(a, 1)) /\ JsString(Arg(a, 2)) = ToStr(Arg(a, 2))
          /\ JsString(Arg(a, 3)) = ToStr(Arg(a, 3))
      BY <1>3, <1>11 DEF AsText
    <2>2. ~(fn = "replace" /\ ToStr(Arg(a, 2)) = <<>>)
      BY <1>0, Zenon DEF Apart, Divergences
    <2>3. GoFn(fn, a, arch) = Text(ReplaceFn(ToStr(Arg(a, 1)), ToStr(Arg(a, 2)), ToStr(Arg(a, 3))))
      BY <1>11 DEF GoFn, MapText, OnNum
    <2>4. ReplaceFn(ToStr(Arg(a, 1)), ToStr(Arg(a, 2)), ToStr(Arg(a, 3)))
            = Joined(Cut(ToStr(Arg(a, 1)), ToStr(Arg(a, 2))), ToStr(Arg(a, 3)))
      BY <1>11, <2>2 DEF ReplaceFn
    <2>5. JsFn(fn, a) = Text(Joined(Cut(ToStr(Arg(a, 1)), ToStr(Arg(a, 2))), ToStr(Arg(a, 3))))
      BY <1>11, <2>1, <2>2 DEF JsFn, MapText, OnNum
    <2> QED BY <2>3, <2>4, <2>5
  <1>12. CASE fn = "split"
    <2>1. JsString(Arg(a, 1)) = ToStr(Arg(a, 1)) /\ JsString(Arg(a, 2)) = ToStr(Arg(a, 2))
      BY <1>3, <1>12 DEF AsText
    <2>2. ~(fn = "split" /\ Wide(Arg(a, 1)) /\ ToStr(Arg(a, 2)) = <<>>)
      BY <1>0, Zenon DEF Apart, Divergences
    <2>3. ToStr(Arg(a, 2)) = <<>> => Units(ToStr(Arg(a, 1))) = ToStr(Arg(a, 1))
      BY <1>5, <1>12, <2>2, UnitsAre DEF Wide
    <2> DEFINE parts == Parts(ToStr(Arg(a, 1)), ToStr(Arg(a, 2)), ToStr(Arg(a, 1)))
    <2>4. Parts(ToStr(Arg(a, 1)), ToStr(Arg(a, 2)), Units(ToStr(Arg(a, 1)))) = parts
      BY <2>3 DEF Parts
    <2>5. ~(fn = "split" /\ (\E p \in ToSet(parts) : OddBlank(p)))
      BY <1>0, Zenon DEF Apart, Divergences
    <2>6. GoFn(fn, a, arch) = Pieces(parts, GoBlanks) /\ JsFn(fn, a) = Pieces(parts, JsBlanks)
      BY <1>12, <2>1, <2>4 DEF GoFn, JsFn, MapText, OnNum
    <2> HIDE DEF parts
    <2>7. \A n \in DOMAIN parts : Trim(parts[n], JsBlanks) = Trim(parts[n], GoBlanks)
      BY <1>12, <2>5, TrimsAgree DEF ToSet
    <2>8. [n \in DOMAIN parts |-> Trim(parts[n], JsBlanks)] = [n \in DOMAIN parts |-> Trim(parts[n], GoBlanks)]
      BY <2>7
    <2>9. Pieces(parts, JsBlanks) = Pieces(parts, GoBlanks)
      BY <2>8, Zenon DEF Pieces
    <2> QED BY <2>6, <2>9
  <1>13. CASE fn = "round"
    BY <1>13, RoundCallsAgree
  <1>14. CASE fn \in {"floor", "ceil", "abs", "neg"}
    <2>1. JsNumber(Arg(a, 1)) = ToNum(Arg(a, 1))
      BY <1>4, <1>14 DEF AsNumber
    <2>2. CASE fn = "floor"
      BY <2>1, <2>2 DEF GoFn, JsFn, MapText, OnNum
    <2>3. CASE fn = "ceil"
      BY <2>1, <2>3 DEF GoFn, JsFn, MapText, OnNum
    <2>4. CASE fn = "abs"
      BY <2>1, <2>4 DEF GoFn, JsFn, MapText, OnNum
    <2>5. CASE fn = "neg"
      BY <2>1, <2>5 DEF GoFn, JsFn, MapText, OnNum
    <2> QED BY <1>14, <2>2, <2>3, <2>4, <2>5
  <1>15. CASE fn \in {"gt", "gte", "lt", "lte", "-", "*", "/", "%"}
    <2>1. JsNumber(Arg(a, 1)) = ToNum(Arg(a, 1)) /\ JsNumber(Arg(a, 2)) = ToNum(Arg(a, 2))
      BY <1>4, <1>15 DEF AsNumber
    <2>2. CASE fn = "gt"
      BY <2>1, <2>2 DEF GoFn, JsFn, MapText, OnNum
    <2>3. CASE fn = "gte"
      BY <2>1, <2>3 DEF GoFn, JsFn, MapText, OnNum
    <2>4. CASE fn = "lt"
      BY <2>1, <2>4 DEF GoFn, JsFn, MapText, OnNum
    <2>5. CASE fn = "lte"
      BY <2>1, <2>5 DEF GoFn, JsFn, MapText, OnNum
    <2>6. CASE fn \in {"-", "*", "/", "%"}
      BY <2>1, <2>6 DEF GoFn, JsFn, MapText, OnNum
    <2> QED BY <1>15, <2>2, <2>3, <2>4, <2>5, <2>6
  <1>16. CASE fn \in {"min", "max"}
    <2> DEFINE nums == [n \in DOMAIN a |-> ToNum(a[n])]
    <2>1. \A n \in DOMAIN a : JsNumber(a[n]) = ToNum(a[n])
      BY <1>2, <1>4, <1>16 DEF AsNumber
    <2>2. [n \in DOMAIN a |-> JsNumber(a[n])] = nums
      BY <2>1
    <2>3. Len(nums) = Len(a) /\ \A n \in 1..Len(nums) : nums[n] \in Numbers /\ nums[n] = ToNum(a[n])
      BY <1>2, <1>5
    <2>4. ~(fn \in {"min", "max"} /\ NaN \in {ToNum(a[n]) : n \in DOMAIN a}
              /\ \E n \in DOMAIN a : ToNum(a[n]).t = "inf")
      BY <1>0, Zenon DEF Apart, Divergences
    <2>5. ~((\E n \in 1..Len(nums) : nums[n] = NaN) /\ (\E n \in 1..Len(nums) : nums[n].t = "inf"))
      BY <1>2, <1>16, <2>3, <2>4
    <2>6. CASE fn = "min"
      <3>1. GoFn(fn, a, arch) = Reduce([v \in Numbers |-> [u \in Numbers |-> GoMin(v, u)]], Inf(1), nums)
        BY <2>6 DEF GoFn, MapText, OnNum
      <3>2. JsFn(fn, a) = Reduce([v \in Numbers |-> [u \in Numbers |-> MinNum(v, u)]], Inf(1),
                                 [n \in DOMAIN a |-> JsNumber(a[n])])
        BY <2>6 DEF JsFn, MapText, OnNum
      <3> HIDE DEF nums
      <3>3. GoFn(fn, a, arch) = JsFn(fn, a)
        BY <1>2, <2>2, <2>3, <2>5, <3>1, <3>2, ReductionsAgree
      <3> QED BY <3>3
    <2>7. CASE fn = "max"
      <3>1. GoFn(fn, a, arch) = Reduce([v \in Numbers |-> [u \in Numbers |-> GoMax(v, u)]], Inf(-1), nums)
        BY <2>7 DEF GoFn, MapText, OnNum
      <3>2. JsFn(fn, a) = Reduce([v \in Numbers |-> [u \in Numbers |-> MaxNum(v, u)]], Inf(-1),
                                 [n \in DOMAIN a |-> JsNumber(a[n])])
        BY <2>7 DEF JsFn, MapText, OnNum
      <3> HIDE DEF nums
      <3>3. GoFn(fn, a, arch) = JsFn(fn, a)
        BY <1>2, <2>2, <2>3, <2>5, <3>1, <3>2, ReductionsAgree
      <3> QED BY <3>3
    <2> QED BY <1>16, <2>6, <2>7
  <1>17. CASE fn \in {"and", "or", "not", "if"}
    <2>1. CASE fn = "and"
      BY <2>1 DEF GoFn, JsFn, MapText, OnNum
    <2>2. CASE fn = "or"
      BY <2>2 DEF GoFn, JsFn, MapText, OnNum
    <2>3. CASE fn = "not"
      BY <2>3 DEF GoFn, JsFn, MapText, OnNum
    <2>4. CASE fn = "if"
      BY <2>4 DEF GoFn, JsFn, MapText, OnNum
    <2> QED BY <1>17, <2>1, <2>2, <2>3, <2>4
  <1>18. CASE fn = "coalesce"
    <2>1. Blanks(a) = {n \in DOMAIN a : ~IsNil(a[n]) /\ a[n] # Text(<<>>)}
      BY DEF Blanks, IsBlankValue
    <2>2. GoFn(fn, a, arch) = IF Blanks(a) = {} THEN Text(<<>>) ELSE a[Min(Blanks(a))]
      BY <1>18 DEF GoFn, MapText, OnNum
    <2>3. JsFn(fn, a) = LET kept == {n \in DOMAIN a : ~IsNil(a[n]) /\ a[n] # Text(<<>>)}
                        IN  IF kept = {} THEN Text(<<>>) ELSE a[Min(kept)]
      BY <1>18 DEF JsFn, MapText, OnNum
    <2> QED BY <2>1, <2>2, <2>3, Zenon
  <1>19. CASE fn = "default"
    <2>1. GoFn(fn, a, arch) = IF IsBlankValue(Arg(a, 1)) THEN Arg(a, 2) ELSE a[1]
      BY <1>19 DEF GoFn, MapText, OnNum
    <2>2. JsFn(fn, a) = IF IsNil(Arg(a, 1)) \/ a[1] = Text(<<>>) THEN Arg(a, 2) ELSE a[1]
      BY <1>19 DEF JsFn, MapText, OnNum
    <2>3. ~IsNil(Arg(a, 1)) => a[1] = Arg(a, 1)
      BY DEF Arg, IsNil, Missing
    <2> QED BY <2>1, <2>2, <2>3 DEF IsBlankValue
  <1>20. CASE fn = "+"
    BY <1>20, SumsAgree
  <1> QED BY <1>6, <1>7, <1>8, <1>9, <1>10, <1>11, <1>12, <1>13, <1>14, <1>15, <1>16, <1>17, <1>18,
             <1>19, <1>20 DEF exprFns


\* A path, interpreted and compiled, where it steps into no text and asks for
\* no length; a path of an input is one step.
LEMMA PathsAgree ==
    ASSUME NEW root, NEW segs \in Seq(Segments), NEW space \in {"res", "in"},
           PathContract(space, root, segs)
    PROVE  GetPath(root, segs) = JsPath(space, root, segs)
  <1>1. Len(segs) \in Nat /\ DOMAIN segs = 1..Len(segs)
    OBVIOUS
  <1>2. PICK k : PathAt(root, segs, k) /\ GetPath(root, segs) = k[Len(segs)]
    BY <1>1, GetPathDef
  <1>3. PICK l : JsPathAt(root, segs, l) /\ JsAfter(root, segs) = l
    BY <1>1, JsAfterDef
  <1>4. \A n \in 1..Len(segs) : segs[n] # "length" /\ l[n - 1].t # "str"
    BY <1>1, <1>3 DEF PathContract
  <1> DEFINE S == {m \in Nat : m <= Len(segs) => k[m] = l[m]}
  <1>5. 0 \in S
    BY <1>2, <1>3 DEF PathAt, JsPathAt
  <1>6. ASSUME NEW m \in Nat, m \in S PROVE m + 1 \in S
    <2> SUFFICES ASSUME m + 1 <= Len(segs) PROVE k[m + 1] = l[m + 1]
      OBVIOUS
    <2>1. m + 1 \in 1..Len(segs) /\ (m + 1) - 1 = m /\ k[m] = l[m]
      BY <1>1, <1>6
    <2>2. k[m + 1] = GetStep(k[m], segs[m + 1]) /\ l[m + 1] = JsStep(l[m], segs[m + 1])
      BY <1>2, <1>3, <2>1 DEF PathAt, JsPathAt
    <2>3. segs[m + 1] # "length" /\ l[m].t # "str"
      BY <1>4, <2>1
    <2>4. JsStep(l[m], segs[m + 1]) = GetStep(l[m], segs[m + 1])
      BY <2>3 DEF JsStep
    <2> QED BY <2>1, <2>2, <2>4
  <1>7. Len(segs) \in S
    <2> HIDE DEF S
    <2> QED BY <1>1, <1>5, <1>6, SetInduction
  <1>8. JsPath(space, root, segs) = l[Len(segs)]
    BY <1>3 DEF JsPath, PathContract
  <1> QED BY <1>1, <1>2, <1>7, <1>8

\* On every call, every path and every machine the interpreter and the
\* compiled program return the same, the divergences listed by name aside.
THEOREM CompiledAgrees == Spec => []AgreesWithCompiled
  <1>1. TypeInv => AgreesWithCompiled
    <2> SUFFICES ASSUME TypeInv PROVE AgreesWithCompiled
      OBVIOUS
    <2>1. ASSUME about \in Calls, Contract(about[2], word), NEW arch \in Archs
          PROVE  Seen(GoFn(about[2], word, arch)) = Seen(JsFn(about[2], word))
      <3>1. PICK fn \in exprFns : fn = about[2]
        BY <2>1, EvalAssumption DEF Calls
      <3>2. word \in Seq(Values)
        BY <2>1 DEF TypeInv
      <3> QED BY <2>1, <3>1, <3>2, CallsAgree
    <2>2. ASSUME about \in Paths, NEW space \in {"res", "in"}, PathContract(space, about[2], word)
          PROVE  Seen(GetPath(about[2], word)) = Seen(JsPath(space, about[2], word))
      <3>1. GetPath(about[2], word) = JsPath(space, about[2], word)
        BY <2>2, PathsAgree DEF TypeInv
      <3> QED BY <3>1
    <2> QED BY <2>1, <2>2 DEF AgreesWithCompiled
  <1> QED BY <1>1, TypesHold, PTL


----------------------------------------------------------------------------
(* The parser and the grammar: what their recursions compute               *)

Longer(w, ops, operand, l) ==
    IF l.ok /\ Cur(w, l.p) \in ops THEN Join(w[l.p], l, operand[l.p + 1]) ELSE l

ChainedAt(w, ops, operand, p, k) ==
    k[0] = operand[p] /\ \A i \in 1..Len(w) : k[i] = Longer(w, ops, operand, k[i - 1])

\* The loop of Chained, one round after the other.
LEMMA ChainedDef ==
    ASSUME NEW w, NEW ops, NEW operand, NEW p, Len(w) \in Nat
    PROVE  \E k : ChainedAt(w, ops, operand, p, k) /\ Chained(w, ops, operand, p) = k[Len(w)]
  <1> DEFINE step(v, i) == Longer(w, ops, operand, v)
             Kept(k) == k = [i \in 0..Len(w) |-> IF i = 0 THEN operand[p] ELSE step(k[i - 1], i)]
             Rec(k, m) == k[0] = operand[p] /\ \A i \in 1..m : k[i] = step(k[i - 1], i)
             Fun(k, m) == k = [i \in 0..m |-> k[i]]
             S == {m \in Nat : \E k : Fun(k, m) /\ Rec(k, m)}
  <1> HIDE DEF step
  <1>1. 0 \in S
    <2> DEFINE k == [i \in 0..0 |-> operand[p]]
    <2>1. Fun(k, 0) /\ Rec(k, 0)
      OBVIOUS
    <2> QED BY <2>1
  <1>2. ASSUME NEW m \in Nat, m \in S PROVE m + 1 \in S
    <2>1. PICK k : Fun(k, m) /\ Rec(k, m)
      BY <1>2
    <2> DEFINE new == step(k[m], m + 1)
               h == [i \in 0..(m + 1) |-> IF i <= m THEN k[i] ELSE new]
    <2> HIDE DEF new
    <2>2. Fun(h, m + 1) /\ h[m + 1] = new /\ \A i \in 0..m : h[i] = k[i]
      OBVIOUS
    <2> HIDE DEF h, Fun
    <2>3. ASSUME NEW i \in 1..(m + 1) PROVE h[i] = step(h[i - 1], i)
      <3>1. CASE i = m + 1
        BY <2>2, <3>1 DEF new
      <3>2. CASE i # m + 1
        <4>1. i \in 1..m /\ i - 1 \in 0..m /\ i \in 0..m
          BY <3>2
        <4> QED BY <2>1, <2>2, <4>1
      <3> QED BY <3>1, <3>2
    <2> QED BY <2>1, <2>2, <2>3
  <1>3. Len(w) \in S
    <2> HIDE DEF S
    <2> QED BY <1>1, <1>2, SetInduction
  <1>4. \E k : Kept(k)
    <2>1. PICK k : Fun(k, Len(w)) /\ Rec(k, Len(w))
      BY <1>3
    <2>2. ASSUME NEW i \in 0..Len(w) PROVE k[i] = IF i = 0 THEN operand[p] ELSE step(k[i - 1], i)
      <3>1. i = 0 \/ i \in 1..Len(w)
        OBVIOUS
      <3>2. k[0] = operand[p] /\ \A j \in 1..Len(w) : k[j] = step(k[j - 1], j)
        BY <2>1, Zenon
      <3> QED BY <3>1, <3>2
    <2> QED BY <2>1, <2>2
  <1>5. PICK k : Kept(k) /\ k = CHOOSE g : Kept(g)
    BY <1>4, Zenon
  <1>6. Rec(k, Len(w))
    <2>1. \A i \in 0..Len(w) : k[i] = IF i = 0 THEN operand[p] ELSE step(k[i - 1], i)
      BY <1>5, Zenon
    <2> HIDE DEF Kept
    <2> QED BY <2>1
  <1>7. Chained(w, ops, operand, p) = k[Len(w)]
    BY <1>5, Zenon DEF Kept, step, Chained, Longer
  <1> QED BY <1>6, <1>7 DEF ChainedAt, step

FactorsAt(w, n, may, k) ==
    k[0] = Level(w, Nothing(w), Nothing(w), may)
    /\ \A i \in 1..n : k[i] = Level(w, k[i - 1], Sums(w, k[i - 1]), may)

\* The levels of Factors, one below the other.
LEMMA FactorsDef ==
    ASSUME NEW w, NEW n \in Nat, NEW may
    PROVE  \E k : FactorsAt(w, n, may, k) /\ Factors(w, n, may) = k[n]
  <1> DEFINE step(v, i) == Level(w, v, Sums(w, v), may)
             Kept(k) == k = [i \in 0..n |-> IF i = 0 THEN Level(w, Nothing(w), Nothing(w), may) ELSE step(k[i - 1], i)]
             Rec(k, m) == k[0] = Level(w, Nothing(w), Nothing(w), may) /\ \A i \in 1..m : k[i] = step(k[i - 1], i)
             Fun(k, m) == k = [i \in 0..m |-> k[i]]
             S == {m \in Nat : \E k : Fun(k, m) /\ Rec(k, m)}
  <1> HIDE DEF step
  <1>1. 0 \in S
    <2> DEFINE k == [i \in 0..0 |-> Level(w, Nothing(w), Nothing(w), may)]
    <2>1. Fun(k, 0) /\ Rec(k, 0)
      OBVIOUS
    <2> QED BY <2>1
  <1>2. ASSUME NEW m \in Nat, m \in S PROVE m + 1 \in S
    <2>1. PICK k : Fun(k, m) /\ Rec(k, m)
      BY <1>2
    <2> DEFINE new == step(k[m], m + 1)
               h == [i \in 0..(m + 1) |-> IF i <= m THEN k[i] ELSE new]
    <2> HIDE DEF new
    <2>2. Fun(h, m + 1) /\ h[m + 1] = new /\ \A i \in 0..m : h[i] = k[i]
      OBVIOUS
    <2> HIDE DEF h, Fun
    <2>3. ASSUME NEW i \in 1..(m + 1) PROVE h[i] = step(h[i - 1], i)
      <3>1. CASE i = m + 1
        BY <2>2, <3>1 DEF new
      <3>2. CASE i # m + 1
        <4>1. i \in 1..m /\ i - 1 \in 0..m /\ i \in 0..m
          BY <3>2
        <4> QED BY <2>1, <2>2, <4>1
      <3> QED BY <3>1, <3>2
    <2> QED BY <2>1, <2>2, <2>3
  <1>3. n \in S
    <2> HIDE DEF S
    <2> QED BY <1>1, <1>2, SetInduction
  <1>4. \E k : Kept(k)
    <2>1. PICK k : Fun(k, n) /\ Rec(k, n)
      BY <1>3
    <2>2. ASSUME NEW i \in 0..n PROVE k[i] = IF i = 0 THEN Level(w, Nothing(w), Nothing(w), may) ELSE step(k[i - 1], i)
      <3>1. i = 0 \/ i \in 1..n
        OBVIOUS
      <3>2. k[0] = Level(w, Nothing(w), Nothing(w), may) /\ \A j \in 1..n : k[j] = step(k[j - 1], j)
        BY <2>1, Zenon
      <3> QED BY <3>1, <3>2
    <2> QED BY <2>1, <2>2
  <1>5. PICK k : Kept(k) /\ k = CHOOSE g : Kept(g)
    BY <1>4, Zenon
  <1>6. Rec(k, n)
    <2>1. \A i \in 0..n : k[i] = IF i = 0 THEN Level(w, Nothing(w), Nothing(w), may) ELSE step(k[i - 1], i)
      BY <1>5, Zenon
    <2> HIDE DEF Kept
    <2> QED BY <2>1
  <1>7. Factors(w, n, may) = k[n]
    BY <1>5, Zenon DEF Kept, step, Factors
  <1> QED BY <1>6, <1>7 DEF FactorsAt, step

ChainFromAt(w, ops, G, i, k) ==
    \A j \in 0..Len(w) :
        k[j] = G[i][j] \cup
               UNION {Combined(w[m], k[m - 1], G[m + 1][j]) :
                        m \in {m \in (i + 1)..(j - 1) : w[m] \in ops}}

\* The recursion of ChainFrom looks only at shorter spans.
LEMMA ChainFromDef ==
    ASSUME NEW w, NEW ops, NEW G, NEW i \in Nat, Len(w) \in Nat
    PROVE  \E k : ChainFromAt(w, ops, G, i, k) /\ ChainFrom(w, ops, G, i) = k
  <1> DEFINE step(k, j) == G[i][j] \cup
                UNION {Combined(w[m], k[m - 1], G[m + 1][j]) :
                         m \in {m \in (i + 1)..(j - 1) : w[m] \in ops}}
             Fun(k, n) == k = [j \in 0..n |-> k[j]]
             Rec(k, n) == \A j \in 0..n : k[j] = step(k, j)
             S == {n \in Nat : \E k : Fun(k, n) /\ Rec(k, n)}
  <1>1. ASSUME NEW k, NEW h, NEW j \in Nat, \A m \in 0..(j - 1) : h[m] = k[m]
        PROVE  step(h, j) = step(k, j)
    <2>1. \A m \in (i + 1)..(j - 1) : h[m - 1] = k[m - 1]
      BY <1>1
    <2> QED BY <2>1
  <1>2. 0 \in S
    <2> DEFINE k == [j \in 0..0 |-> step(<<>>, j)]
    <2>1. k[0] = step(<<>>, 0) /\ step(<<>>, 0) = step(k, 0)
      <3>1. \A m \in 0..(0 - 1) : k[m] = <<>>[m]
        OBVIOUS
      <3>2. step(k, 0) = step(<<>>, 0)
        <4> HIDE DEF k, step
        <4> QED BY <1>1, <3>1
      <3> HIDE DEF step
      <3> QED BY <3>2
    <2>2. Fun(k, 0) /\ Rec(k, 0)
      <3> HIDE DEF step
      <3> QED BY <2>1
    <2> HIDE DEF k, Fun, Rec
    <2> QED BY <2>2
  <1>3. ASSUME NEW n \in Nat, n \in S PROVE n + 1 \in S
    <2> HIDE DEF step
    <2>1. PICK k : Fun(k, n) /\ Rec(k, n)
      BY <1>3
    <2> DEFINE new == step(k, n + 1)
               h == [j \in 0..(n + 1) |-> IF j <= n THEN k[j] ELSE new]
    <2> HIDE DEF new
    <2>2. Fun(h, n + 1) /\ h[n + 1] = new /\ \A j \in 0..n : h[j] = k[j]
      OBVIOUS
    <2> HIDE DEF h, Fun
    <2>3. ASSUME NEW j \in 0..(n + 1) PROVE h[j] = step(h, j)
      <3>1. \A m \in 0..(j - 1) : h[m] = k[m]
        BY <2>2
      <3>2. step(h, j) = step(k, j)
        BY <1>1, <3>1
      <3>3. CASE j = n + 1
        BY <2>2, <3>2, <3>3 DEF new
      <3>4. CASE j # n + 1
        <4>1. j \in 0..n
          BY <3>4
        <4> QED BY <2>1, <2>2, <3>2, <4>1
      <3> QED BY <3>3, <3>4
    <2> QED BY <2>2, <2>3
  <1>4. Len(w) \in S
    <2> HIDE DEF S
    <2> QED BY <1>2, <1>3, SetInduction
  <1> DEFINE Kept(k) == k = [j \in 0..Len(w) |-> step(k, j)]
  <1>5. \E k : Kept(k)
    <2>1. PICK k : Fun(k, Len(w)) /\ Rec(k, Len(w))
      BY <1>4
    <2> HIDE DEF step
    <2> QED BY <2>1
  <1>6. PICK k : Kept(k) /\ k = CHOOSE g : Kept(g)
    BY <1>5, Zenon
  <1>7. ChainFromAt(w, ops, G, i, k)
    <2>1. \A j \in 0..Len(w) : k[j] = step(k, j)
      <3> HIDE DEF step
      <3> QED BY <1>6, Zenon
    <2> HIDE DEF Kept
    <2> QED BY <2>1, Zenon DEF ChainFromAt
  <1>8. ChainFrom(w, ops, G, i) = k
    BY <1>6, Zenon DEF ChainFrom
  <1> QED BY <1>7, <1>8

\* An expression of a span of a chain is an operand, or a shorter chain, an
\* operator and an operand.
Link(w, ops, G, D, i, j, c) ==
    \/ c \in G[i][j]
    \/ \E m \in (i + 1)..(j - 1) :
          w[m] \in ops /\ \E l \in D[i][m - 1] : \E r \in G[m + 1][j] : c = Binary(w[m], l, r)

\* The members of a chain, in one equivalence.
LEMMA ChainIs ==
    ASSUME NEW w, NEW ops, NEW G, Len(w) \in Nat, NEW i \in Places(w), NEW j \in 0..Len(w), NEW c
    PROVE  c \in Chain(w, ops, G)[i][j] <=> Link(w, ops, G, Chain(w, ops, G), i, j, c)
  <1>1. i \in Nat
    BY DEF Places
  <1>2. PICK k : ChainFromAt(w, ops, G, i, k) /\ ChainFrom(w, ops, G, i) = k
    BY <1>1, ChainFromDef
  <1>3. Chain(w, ops, G)[i] = k
    BY <1>2 DEF Chain
  <1>4. k[j] = G[i][j] \cup
               UNION {Combined(w[m], k[m - 1], G[m + 1][j]) :
                        m \in {m \in (i + 1)..(j - 1) : w[m] \in ops}}
    BY <1>2, Zenon DEF ChainFromAt
  <1>5. c \in k[j] <=> \/ c \in G[i][j]
                       \/ \E m \in (i + 1)..(j - 1) :
                             w[m] \in ops /\ c \in Combined(w[m], k[m - 1], G[m + 1][j])
    BY <1>4
  <1>6. \A t, L, R : c \in Combined(t, L, R) <=> \E l \in L : \E r \in R : c = Binary(t, l, r)
    BY DEF Combined
  <1> QED BY <1>3, <1>5, <1>6 DEF Link

\* parseUnary at depth d, given the depth below.
UnaryStep(w, max, below, d) ==
    LET addSub == IF d = max THEN NoParse(w) ELSE AddSub(w, below)
    IN  [p \in Places(w) |->
            IF Cur(w, p) # "-" THEN Frame(Frame(Primary(w, p, addSub)))
            ELSE IF d = max THEN Failed(1)
            ELSE Frame(Negate(below[p + 1]))]

UnaryAt(w, max, k) == \A d \in 0..max : k[d] = UnaryStep(w, max, k[d + 1], d)

\* The recursion of Unary goes down to the depth max.
LEMMA UnaryDef ==
    ASSUME NEW w, NEW max \in Nat
    PROVE  UnaryAt(w, max, Unary(w, max))
  <1> DEFINE step(v, d) == UnaryStep(w, max, v, d)
             Fun(k, m) == k = [d \in (max - m)..max |-> k[d]]
             Rec(k, m) == \A d \in (max - m)..max : k[d] = step(k[d + 1], d)
             S == {m \in Nat : m <= max => \E k : Fun(k, m) /\ Rec(k, m)}
  <1>1. \A u, v : step(u, max) = step(v, max)
    BY DEF UnaryStep
  <1> HIDE DEF step
  <1>2. 0 \in S
    <2> DEFINE k == [d \in (max - 0)..max |-> step(<<>>, max)]
    <2>1. max - 0 = max /\ \A d \in (max - 0)..max : d = max
      OBVIOUS
    <2>2. Fun(k, 0) /\ k[max] = step(<<>>, max)
      BY <2>1
    <2>3. Rec(k, 0)
      BY <1>1, <2>1, <2>2
    <2> HIDE DEF k
    <2> QED BY <2>2, <2>3
  <1>3. ASSUME NEW m \in Nat, m \in S PROVE m + 1 \in S
    <2> SUFFICES ASSUME m + 1 <= max PROVE \E k : Fun(k, m + 1) /\ Rec(k, m + 1)
      OBVIOUS
    <2>1. PICK k : Fun(k, m) /\ Rec(k, m)
      BY <1>3
    <2>2. PICK e \in Nat : e = max - (m + 1) /\ e + 1 = max - m /\ e < max
      OBVIOUS
    <2> DEFINE new == step(k[e + 1], e)
               h == [d \in e..max |-> IF d = e THEN new ELSE k[d]]
    <2> HIDE DEF new
    <2>3. Fun(h, m + 1) /\ h[e] = new /\ \A d \in (max - m)..max : h[d] = k[d]
      BY <2>2
    <2> HIDE DEF h, Fun
    <2>4. ASSUME NEW d \in (max - (m + 1))..max PROVE h[d] = step(h[d + 1], d)
      <3>1. CASE d = e
        <4>1. e + 1 \in (max - m)..max
          BY <2>2
        <4> QED BY <2>3, <3>1, <4>1 DEF new
      <3>2. CASE d # e /\ d # max
        <4>1. d \in (max - m)..max /\ d + 1 \in (max - m)..max
          BY <2>2, <3>2
        <4> QED BY <2>1, <2>3, <4>1
      <3>3. CASE d # e /\ d = max
        <4>1. max \in (max - m)..max
          OBVIOUS
        <4> QED BY <1>1, <2>1, <2>3, <3>3, <4>1
      <3> QED BY <3>1, <3>2, <3>3
    <2> QED BY <2>3, <2>4
  <1>4. max \in S
    <2> HIDE DEF S
    <2> QED BY <1>2, <1>3, SetInduction
  <1> DEFINE body(k, d) ==
                LET addSub == IF TooDeep(LevelDepth(d), max) THEN NoParse(w)
                              ELSE AddSub(w, k[LevelDepth(d)])
                IN  [p \in Places(w) |->
                        IF Cur(w, p) # "-" THEN Frame(Frame(Primary(w, p, addSub)))
                        ELSE IF TooDeep(UnaryDepth(d), max) THEN Failed(1)
                        ELSE Frame(Negate(k[UnaryDepth(d)][p + 1]))]
             Kept(k) == k = [d \in 0..max |-> body(k, d)]
  <1>5. \A k : \A d \in 0..max : body(k, d) = step(k[d + 1], d)
    <2> TAKE k
    <2> TAKE d \in 0..max
    <2>1. LevelDepth(d) = d + 1 /\ UnaryDepth(d) = d + 1 /\ (TooDeep(d + 1, max) <=> d = max)
      BY DEF LevelDepth, UnaryDepth, TooDeep
    <2> QED BY <2>1, Zenon DEF step, UnaryStep
  <1>6. \E k : Kept(k)
    <2>1. PICK k : Fun(k, max) /\ Rec(k, max)
      BY <1>4
    <2>2. max - max = 0
      OBVIOUS
    <2>3. \A d \in 0..max : k[d] = body(k, d)
      <3> HIDE DEF body
      <3> QED BY <1>5, <2>1, <2>2
    <2>4. k = [d \in 0..max |-> k[d]]
      BY <2>1, <2>2
    <2> HIDE DEF body
    <2> QED BY <2>3, <2>4
  <1>7. PICK k : Kept(k) /\ k = CHOOSE g : Kept(g)
    BY <1>6, Zenon
  <1>8. Unary(w, max) = k
    BY <1>7, Zenon DEF Unary
  <1>9. \A d \in 0..max : k[d] = body(k, d)
    <2> HIDE DEF body
    <2> QED BY <1>7, Zenon
  <1> HIDE DEF body, Kept
  <1> QED BY <1>5, <1>8, <1>9 DEF UnaryAt, step

----------------------------------------------------------------------------
(* The parser is the grammar                                               *)

Codes(w)   == Seq(ToSet(w) \X {0, 1, 2})
Results(w) == [ok : BOOLEAN, code : Codes(w), p : Nat, deep : Nat]

\* What a parser returns, it read from where it started, and is of the grammar.
Sound(w, T, G) ==
    \A i \in Places(w) :
        /\ T[i] \in Results(w)
        /\ T[i].ok => T[i].p \in (i + 1)..(Len(w) + 1) /\ T[i].code \in G[i][T[i].p - 1]

\* What is of the grammar it returns, unless a token of Stop comes next.
Complete(w, T, G, Stop) ==
    \A i \in Places(w) : \A j \in 0..Len(w) : \A c \in G[i][j] :
        Cur(w, j + 1) \notin Stop => T[i].ok /\ T[i].p = j + 1 /\ T[i].code = c

\* Spans of the grammar are not empty.
Filled(w, G) == \A i \in Places(w) : \A j \in 0..Len(w) : G[i][j] # {} => i <= j

Shallow(w, T, h) == \A i \in Places(w) : T[i].deep <= h

\* Nothing starts with a closing parenthesis.
Opens(w, T) == \A i \in Places(w) : Cur(w, i) = ")" => ~T[i].ok

Parses(w, T, G, Stop, h) ==
    Sound(w, T, G) /\ Complete(w, T, G, Stop) /\ Filled(w, G) /\ Shallow(w, T, h) /\ Opens(w, T)

\* Two codes and an operator of the expression make a code.
LEMMA BinaryIs ==
    ASSUME NEW w, NEW t \in ToSet(w), NEW l \in Codes(w), NEW r \in Codes(w)
    PROVE  Binary(t, l, r) \in Codes(w)
  <1>1. <<t, 2>> \in ToSet(w) \X {0, 1, 2}
    OBVIOUS
  <1>2. << <<t, 2>> >> \in Codes(w)
    BY <1>1 DEF Codes
  <1>3. l \o r \in Codes(w)
    BY DEF Codes
  <1> HIDE DEF Codes
  <1> QED BY <1>2, <1>3 DEF Binary, Codes

\* A token that is not the end is one of the expression.
LEMMA CurIs ==
    ASSUME NEW w \in Seq(Tokens), NEW i, Cur(w, i) # EOF
    PROVE  i \in 1..Len(w) /\ w[i] = Cur(w, i) /\ w[i] \in ToSet(w) /\ i + 1 \in Places(w)
  BY DEF Cur, ToSet, Places

\* A chain of what a parser reads is read, whatever follows but its operators.
LEMMA ChainedParses ==
    ASSUME NEW w \in Seq(Tokens), NEW ops, NEW Stop, ops \cap Stop = {}, EOF \notin ops,
           NEW T, NEW G, NEW h \in Nat, Parses(w, T, G, Stop, h),
           NEW C, \A i \in Places(w) : C[i] = Chained(w, ops, T, i)
    PROVE  Parses(w, C, Chain(w, ops, G), Stop \cup ops, h)
  <1> DEFINE L == Len(w)
             D == Chain(w, ops, G)
  <1>1. L \in Nat /\ Places(w) = 1..(L + 1)
    BY DEF Places
  <1>2. \A i \in Places(w) : \A j \in 0..L : \A c :
           c \in D[i][j] <=> \/ c \in G[i][j]
                             \/ \E m \in (i + 1)..(j - 1) :
                                   w[m] \in ops /\ \E l \in D[i][m - 1] : \E r \in G[m + 1][j] :
                                      c = Binary(w[m], l, r)
    <2> SUFFICES ASSUME NEW i \in Places(w), NEW j \in 0..L, NEW c
                 PROVE  c \in D[i][j] <=> Link(w, ops, G, D, i, j, c)
      BY DEF Link
    <2> QED BY <1>1, ChainIs
  <1> HIDE DEF D
  <1>3. \A i \in Places(w) : T[i] \in Results(w) /\ T[i].deep <= h /\ (T[i].ok =>
           T[i].p \in (i + 1)..(L + 1) /\ T[i].code \in G[i][T[i].p - 1])
    BY DEF Parses, Sound, Shallow
  <1>4. ASSUME NEW i \in Places(w), NEW k, ChainedAt(w, ops, T, i, k), NEW n \in 0..L
        PROVE  /\ k[n] \in Results(w) /\ k[n].deep <= h /\ (k[n].ok => T[i].ok)
               /\ k[n].ok => k[n].p \in (i + 1)..(L + 1) /\ k[n].code \in D[i][k[n].p - 1]
    <2> DEFINE Fine(x) == /\ x \in Results(w) /\ x.deep <= h /\ (x.ok => T[i].ok)
                          /\ x.ok => x.p \in (i + 1)..(L + 1) /\ x.code \in D[i][x.p - 1]
               S == {m \in Nat : m <= L => Fine(k[m])}
    <2>1. 0 \in S
      <3>1. k[0] = T[i]
        BY <1>4 DEF ChainedAt
      <3>2. T[i].ok => T[i].p - 1 \in 0..L
        BY <1>1, <1>3
      <3> QED BY <1>2, <1>3, <3>1, <3>2
    <2>2. ASSUME NEW m \in Nat, m \in S PROVE m + 1 \in S
      <3> SUFFICES ASSUME m + 1 <= L PROVE Fine(k[m + 1])
        OBVIOUS
      <3>1. PICK x : x = k[m] /\ Fine(x)
        BY <1>1, <2>2
      <3>2. k[m + 1] = Longer(w, ops, T, x)
        <4>1. m + 1 \in 1..L /\ (m + 1) - 1 = m
          BY <1>1
        <4> QED BY <1>4, <3>1, <4>1 DEF ChainedAt
      <3>3. CASE ~(x.ok /\ Cur(w, x.p) \in ops)
        BY <3>1, <3>2, <3>3 DEF Longer
      <3>4. CASE x.ok /\ Cur(w, x.p) \in ops
        <4>1. x.p \in 1..L /\ w[x.p] = Cur(w, x.p) /\ w[x.p] \in ToSet(w) /\ x.p + 1 \in Places(w)
          BY <3>4, CurIs
        <4>2. PICK t : t = w[x.p]
          OBVIOUS
        <4>3. PICK r : r = T[x.p + 1]
          OBVIOUS
        <4>4. r \in Results(w) /\ r.deep <= h /\ (r.ok =>
                 r.p \in (x.p + 2)..(L + 1) /\ r.code \in G[x.p + 1][r.p - 1])
          BY SMTT(20), <1>1, <1>3, <4>1, <4>3
        <4>5. k[m + 1] = Join(t, x, r)
          BY <3>2, <3>4, <4>2, <4>3 DEF Longer
        <4>6. Binary(t, x.code, r.code) \in Codes(w)
          BY <3>1, <4>1, <4>2, <4>4, BinaryIs DEF Results
        <4>7. Join(t, x, r) \in Results(w) /\ Join(t, x, r).deep <= h
          BY <3>1, <4>4, <4>6 DEF Join, Larger, Results
        <4>8. Join(t, x, r).ok = r.ok /\ Join(t, x, r).p = r.p
              /\ Join(t, x, r).code = Binary(t, x.code, r.code)
          BY DEF Join
        <4>9. ASSUME r.ok PROVE Binary(t, x.code, r.code) \in D[i][r.p - 1]
          <5>1. r.p - 1 \in 0..L /\ x.p \in (i + 1)..((r.p - 1) - 1)
            <6>1. PICK xp \in (i + 1)..(L + 1) : xp = x.p
              BY <3>1, <3>4
            <6>2. PICK rp \in (xp + 2)..(L + 1) : rp = r.p
              BY <4>4, <4>9, <6>1
            <6>3. rp - 1 \in 0..L /\ xp \in (i + 1)..((rp - 1) - 1)
              BY <1>1
            <6> QED BY <6>1, <6>2, <6>3
          <5>2. w[x.p] \in ops /\ x.code \in D[i][x.p - 1] /\ r.code \in G[x.p + 1][r.p - 1]
            BY <3>1, <3>4, <4>1, <4>4, <4>9
          <5> QED BY <1>2, <4>2, <5>1, <5>2
        <4>10. r.ok => r.p \in (i + 1)..(L + 1)
          BY SMTT(20), <1>1, <3>1, <3>4, <4>4
        <4> QED BY <3>1, <3>4, <4>5, <4>7, <4>8, <4>9, <4>10
      <3> QED BY <3>3, <3>4
    <2>3. n \in S
      <3> HIDE DEF S
      <3> QED BY <1>1, <2>1, <2>2, SetInduction
    <2> QED BY <1>1, <2>3
  <1>5. \A i \in Places(w) : \E k : ChainedAt(w, ops, T, i, k) /\ C[i] = k[L]
    BY <1>1, ChainedDef
  <1>6. Sound(w, C, D)
    <2> SUFFICES ASSUME NEW i \in Places(w)
                 PROVE  /\ C[i] \in Results(w)
                        /\ C[i].ok => C[i].p \in (i + 1)..(L + 1) /\ C[i].code \in D[i][C[i].p - 1]
      BY DEF Sound
    <2>1. PICK k : ChainedAt(w, ops, T, i, k) /\ C[i] = k[L]
      BY <1>5
    <2> QED BY <1>1, <1>4, <2>1
  <1>7. Shallow(w, C, h) /\ Opens(w, C)
    <2> SUFFICES ASSUME NEW i \in Places(w)
                 PROVE  C[i].deep <= h /\ (Cur(w, i) = ")" => ~C[i].ok)
      BY DEF Shallow, Opens
    <2>1. PICK k : ChainedAt(w, ops, T, i, k) /\ C[i] = k[L]
      BY <1>5
    <2>2. Cur(w, i) = ")" => ~T[i].ok
      BY DEF Parses, Opens
    <2> QED BY <1>1, <1>4, <2>1, <2>2
  <1>8. Filled(w, D)
    <2> SUFFICES ASSUME NEW i \in Places(w), NEW j \in 0..L, NEW c \in D[i][j] PROVE i <= j
      BY DEF Filled
    <2>1. CASE c \in G[i][j]
      BY <2>1 DEF Parses, Filled
    <2>2. CASE \E m \in (i + 1)..(j - 1) : TRUE
      BY <1>1, <2>2
    <2> QED BY <1>2, <2>1, <2>2
  <1>9. Complete(w, C, D, Stop \cup ops)
    <2> SUFFICES ASSUME NEW i \in Places(w)
                 PROVE  \A j \in 0..L : \A c \in D[i][j] :
                          Cur(w, j + 1) \notin Stop \cup ops => C[i].ok /\ C[i].p = j + 1 /\ C[i].code = c
      BY DEF Complete
    <2>1. PICK k : ChainedAt(w, ops, T, i, k) /\ C[i] = k[L]
      BY <1>5
    <2> DEFINE Read(n, j, c) == k[n].ok /\ k[n].p = j + 1 /\ k[n].code = c
               S == {j \in Nat : j <= L => \A c \in D[i][j] : Cur(w, j + 1) \notin Stop =>
                                     i <= j /\ \E n \in 0..(j - i) : Read(n, j, c)}
    <2>2. ASSUME NEW j \in Nat, \A m \in 0..(j - 1) : m \in S PROVE j \in S
      <3> SUFFICES ASSUME j <= L, NEW c \in D[i][j], Cur(w, j + 1) \notin Stop
                   PROVE  i <= j /\ \E n \in 0..(j - i) : Read(n, j, c)
        OBVIOUS
      <3>1. j \in 0..L /\ i \in Nat /\ i <= j
        BY <1>1, <1>8 DEF Filled
      <3>2. CASE c \in G[i][j]
        <4>1. T[i].ok /\ T[i].p = j + 1 /\ T[i].code = c
          BY <3>1, <3>2 DEF Parses, Complete
        <4>2. k[0] = T[i]
          BY <2>1 DEF ChainedAt
        <4>3. 0 \in 0..(j - i)
          BY <3>1
        <4> QED BY <3>1, <4>1, <4>2, <4>3
      <3>3. ASSUME NEW m \in (i + 1)..(j - 1), w[m] \in ops,
                   NEW l \in D[i][m - 1], NEW r \in G[m + 1][j], c = Binary(w[m], l, r)
            PROVE  \E n \in 0..(j - i) : Read(n, j, c)
        <4>1. m \in 1..L /\ m - 1 \in 0..(j - 1) /\ m + 1 \in Places(w) /\ m - 1 <= L
          BY <1>1, <3>1
        <4>2. Cur(w, m) = w[m] /\ (m - 1) + 1 = m
          BY <1>1, <4>1 DEF Cur
        <4>3. PICK n \in 0..((m - 1) - i) : Read(n, m - 1, l)
          BY <2>2, <3>3, <4>1, <4>2
        <4>4. n + 1 \in 1..L /\ (n + 1) - 1 = n /\ n + 1 \in 0..(j - i)
          BY <1>1, <3>1, <4>1, <4>3, SMTT(20)
        <4>5. k[n + 1] = Longer(w, ops, T, k[n])
          BY <2>1, <4>4 DEF ChainedAt
        <4>6. k[n].ok /\ k[n].p = m /\ k[n].code = l
          BY <4>2, <4>3
        <4>7. k[n + 1] = Join(w[m], k[n], T[m + 1])
          BY <3>3, <4>2, <4>5, <4>6 DEF Longer
        <4>8. T[m + 1].ok /\ T[m + 1].p = j + 1 /\ T[m + 1].code = r
          BY <3>1, <4>1 DEF Parses, Complete
        <4>9. Read(n + 1, j, c)
          BY <3>3, <4>6, <4>7, <4>8 DEF Join
        <4> QED BY <4>4, <4>9
      <3> QED BY <1>2, <3>1, <3>2, <3>3
    <2>3. \A j \in 0..L : j \in S
      <3> HIDE DEF S
      <3>1. Nat \subseteq S
        BY <2>2, StrongInduction
      <3> QED BY <3>1
    <2> SUFFICES ASSUME NEW j \in 0..L, NEW c \in D[i][j], Cur(w, j + 1) \notin Stop \cup ops
                 PROVE  Read(L, j, c)
      BY <2>1
    <2>4. PICK n \in 0..L : Read(n, j, c)
      <3>1. i <= j /\ \E n \in 0..(j - i) : Read(n, j, c)
        BY <2>3
      <3>2. \A n \in 0..(j - i) : n \in 0..L
        BY <1>1
      <3> QED BY <3>1, <3>2
    <2> DEFINE Q == {m \in Nat : n + m <= L => Read(n + m, j, c)}
    <2>5. 0 \in Q
      BY <2>4
    <2>6. ASSUME NEW m \in Nat, m \in Q PROVE m + 1 \in Q
      <3> SUFFICES ASSUME n + (m + 1) <= L PROVE Read(n + (m + 1), j, c)
        OBVIOUS
      <3>1. n + (m + 1) \in 1..L /\ (n + (m + 1)) - 1 = n + m /\ n + m <= L
        BY <1>1
      <3>2. Read(n + m, j, c)
        BY <2>6, <3>1
      <3>3. k[n + (m + 1)] = Longer(w, ops, T, k[n + m])
        BY <2>1, <3>1 DEF ChainedAt
      <3>4. k[n + (m + 1)] = k[n + m]
        BY <3>2, <3>3 DEF Longer
      <3> QED BY <3>2, <3>4
    <2>7. L - n \in Q
      <3> HIDE DEF Q
      <3>1. L - n \in Nat
        BY <1>1
      <3> QED BY <2>5, <2>6, <3>1, SetInduction
    <2>8. n + (L - n) = L
      BY <1>1
    <2> QED BY <1>1, <2>7, <2>8
  <1> QED BY <1>6, <1>7, <1>8, <1>9 DEF Parses, D

\* One more frame, and nothing else.
LEMMA FrameIs ==
    ASSUME NEW w, NEW r \in Results(w), NEW n \in Nat, r.deep <= n
    PROVE  /\ Frame(r) \in Results(w) /\ Frame(r).deep <= n + 1
           /\ Frame(r).ok = r.ok /\ Frame(r).p = r.p /\ Frame(r).code = r.code
  BY DEF Frame, Results

\* So a frame more reads what was read without it.
LEMMA FrameParses ==
    ASSUME NEW w, NEW Stop, NEW T, NEW G, NEW h \in Nat, Parses(w, T, G, Stop, h),
           NEW C, \A i \in Places(w) : C[i] = Frame(T[i])
    PROVE  Parses(w, C, G, Stop, h + 1)
  <1>1. ASSUME NEW i \in Places(w)
        PROVE  /\ C[i] \in Results(w) /\ C[i].deep <= h + 1
               /\ C[i].ok = T[i].ok /\ C[i].p = T[i].p /\ C[i].code = T[i].code
    <2>1. PICK r \in Results(w) : r = T[i] /\ r.deep <= h
      BY DEF Parses, Sound, Shallow
    <2>2. C[i] = Frame(r)
      BY <2>1
    <2> QED BY <2>1, <2>2 DEF Frame, Results
  <1>2. Sound(w, C, G)
    BY <1>1 DEF Parses, Sound
  <1>3. Complete(w, C, G, Stop)
    BY <1>1 DEF Parses, Complete
  <1>4. Shallow(w, C, h + 1) /\ Opens(w, C)
    BY <1>1 DEF Parses, Shallow, Opens
  <1> QED BY <1>2, <1>3, <1>4 DEF Parses

\* What continues a sum.
SumStop == ({"("} \cup {"*", "/", "%"}) \cup {"+", "-"}

\* parseAddSub and parseMulDiv over what parseUnary reads.
LEMMA SumsParse ==
    ASSUME NEW w \in Seq(Tokens), NEW U, NEW F, NEW h \in Nat, Parses(w, U, F, {"("}, h)
    PROVE  Parses(w, AddSub(w, U), Sums(w, F), SumStop, h + 2)
  <1> DEFINE mul == [i \in Places(w) |-> Chained(w, {"*", "/", "%"}, U, i)]
             products == Chain(w, {"*", "/", "%"}, F)
             M == MulDiv(w, U)
             add == [i \in Places(w) |-> Chained(w, {"+", "-"}, M, i)]
  <1>1. EOF \notin {"*", "/", "%"} /\ EOF \notin {"+", "-"}
    BY DEF EOF
  <1>2. {"*", "/", "%"} \cap {"("} = {} /\ {"+", "-"} \cap ({"("} \cup {"*", "/", "%"}) = {}
    OBVIOUS
  <1>3. \A i \in Places(w) : mul[i] = Chained(w, {"*", "/", "%"}, U, i)
    OBVIOUS
  <1>4. \A i \in Places(w) : M[i] = Frame(mul[i])
    BY DEF MulDiv
  <1>5. \A i \in Places(w) : add[i] = Chained(w, {"+", "-"}, M, i)
    OBVIOUS
  <1>6. \A i \in Places(w) : AddSub(w, U)[i] = Frame(add[i])
    BY DEF AddSub
  <1> HIDE DEF mul, products, M, add
  <1>7. Parses(w, mul, Chain(w, {"*", "/", "%"}, F), {"("} \cup {"*", "/", "%"}, h)
    BY <1>1, <1>2, <1>3, ChainedParses
  <1>8. Parses(w, M, products, {"("} \cup {"*", "/", "%"}, h + 1)
    BY <1>4, <1>7, FrameParses DEF products
  <1>9. Parses(w, add, Chain(w, {"+", "-"}, products), SumStop, h + 1)
    BY <1>1, <1>2, <1>5, <1>8, ChainedParses DEF SumStop
  <1>10. Parses(w, AddSub(w, U), Chain(w, {"+", "-"}, products), SumStop, (h + 1) + 1)
    BY <1>6, <1>9, FrameParses
  <1>11. (h + 1) + 1 = h + 2
    OBVIOUS
  <1> QED BY <1>10, <1>11 DEF Sums, products

\* Below the greatest depth nothing is read, and nothing is of the grammar.
LEMMA NothingParses ==
    ASSUME NEW w \in Seq(Tokens), NEW Stop
    PROVE  Parses(w, NoParse(w), Nothing(w), Stop, 1)
  <1>1. Failed(1) \in Results(w) /\ ~Failed(1).ok /\ Failed(1).deep = 1
    BY DEF Failed, Results, Codes
  <1>2. \A i \in Places(w) : NoParse(w)[i] = Failed(1)
    BY DEF NoParse
  <1>3. \A i \in Places(w) : \A j \in 0..Len(w) : Nothing(w)[i][j] = {}
    BY DEF Nothing
  <1> QED BY <1>1, <1>2, <1>3 DEF Parses, Sound, Complete, Filled, Shallow, Opens

\* The productions of a factor, one by one.
IsAtom(w, i, j, c) ==
    i = j /\ w[i] \in NumberTokens \cup StringTokens \cup ResRefs \cup DOMAIN InRefs
    /\ c = << <<w[i], 0>> >>

IsMinus(w, i, j, below, c) ==
    i <= j /\ w[i] = "-" /\ \E b \in below[i + 1][j] : c = Append(b, <<"-", 1>>)

IsParen(w, i, j, inner, c) ==
    j > i + 1 /\ w[i] = "(" /\ Closes(w[j]) /\ \E b \in inner[i + 1][j - 1] : c = Append(b, <<"(", 1>>)

IsCall(w, i, j, inner, c) ==
    /\ j > i + 1 /\ w[i] \in exprFuncs \cup {"rand"} /\ w[i + 1] = "(" /\ Closes(w[j])
    /\ \/ j = i + 2 /\ w[j] = ")" /\ c = << <<w[i], 0>> >>
       \/ \E b \in Chain(w, {","}, inner)[i + 2][j - 1] : c = Append(b, <<w[i], 1>>)

\* The same with the liberties of may alone.
HasCall(w, i, j, inner, may, c) ==
    /\ j > i + 1 /\ w[i] \in exprFuncs \cup {"rand"} /\ w[i + 1] = "(" /\ ClosedBy(w[j], may)
    /\ \/ j = i + 2 /\ w[j] = ")" /\ c = << <<w[i], 0>> >>
       \/ /\ w[i] # "rand" \/ "arguments" \in may
          /\ \E b \in Chain(w, {","}, inner)[i + 2][j - 1] : c = Append(b, <<w[i], 1>>)

\* The factors of a level, by production.
LEMMA LevelHas ==
    ASSUME NEW w, NEW below, NEW inner, NEW may, Len(w) \in Nat,
           NEW i \in Places(w), NEW j \in 0..Len(w), NEW c
    PROVE  c \in Level(w, below, inner, may)[i][j] <=>
               \/ IsAtom(w, i, j, c)
               \/ IsMinus(w, i, j, below, c) /\ ("minuses" \in may \/ Cur(w, i + 1) # "-")
               \/ IsParen(w, i, j, inner, c) /\ ClosedBy(w[j], may)
               \/ HasCall(w, i, j, inner, may, c)
  <1>1. i \in Nat /\ j \in Nat /\ (i = j => i <= j) /\ (j > i + 1 => i <= j)
    BY DEF Places
  <1>2. Level(w, below, inner, may)[i][j] =
            When(i <= j, Atoms(w, i, j) \cup Negations(w, i, j, below, may)
                         \cup Parens(w, i, j, inner, may) \cup CallsOf(w, i, j, inner, may))
    BY DEF Level
  <1>3. c \in Atoms(w, i, j) <=> IsAtom(w, i, j, c)
    BY DEF Atoms, When, IsAtom
  <1>4. i <= j /\ c \in Negations(w, i, j, below, may)
           <=> IsMinus(w, i, j, below, c) /\ ("minuses" \in may \/ Cur(w, i + 1) # "-")
    BY DEF Negations, When, IsMinus
  <1>5. c \in Parens(w, i, j, inner, may) <=> IsParen(w, i, j, inner, c) /\ ClosedBy(w[j], may)
    BY DEF Parens, When, IsParen, ClosedBy, Closes
  <1>6. c \in CallsOf(w, i, j, inner, may) <=> HasCall(w, i, j, inner, may, c)
    BY DEF CallsOf, When, HasCall
  <1>7. IsAtom(w, i, j, c) => i <= j
    BY <1>1 DEF IsAtom
  <1>8. (IsParen(w, i, j, inner, c) => i <= j) /\ (HasCall(w, i, j, inner, may, c) => i <= j)
    BY <1>1 DEF IsParen, HasCall
  <1> QED BY <1>2, <1>3, <1>4, <1>5, <1>6, <1>7, <1>8 DEF When

\* With all the liberties, those are the productions of the parser.
LEMMA LevelIs ==
    ASSUME NEW w, NEW below, NEW inner, Len(w) \in Nat, NEW i \in Places(w), NEW j \in 0..Len(w), NEW c
    PROVE  c \in Level(w, below, inner, Liberties)[i][j] <=>
               \/ IsAtom(w, i, j, c) \/ IsMinus(w, i, j, below, c)
               \/ IsParen(w, i, j, inner, c) \/ IsCall(w, i, j, inner, c)
  <1>1. ClosedBy(w[j], Liberties) <=> Closes(w[j])
    BY DEF ClosedBy, Closes, Liberties
  <1>2. "minuses" \in Liberties /\ "arguments" \in Liberties
    BY DEF Liberties
  <1>3. IsParen(w, i, j, inner, c) => Closes(w[j])
    BY DEF IsParen
  <1>4. HasCall(w, i, j, inner, Liberties, c) <=> IsCall(w, i, j, inner, c)
    BY <1>1, <1>2 DEF HasCall, IsCall
  <1>5. c \in Level(w, below, inner, Liberties)[i][j] <=>
               \/ IsAtom(w, i, j, c)
               \/ IsMinus(w, i, j, below, c) /\ ("minuses" \in Liberties \/ Cur(w, i + 1) # "-")
               \/ IsParen(w, i, j, inner, c) /\ ClosedBy(w[j], Liberties)
               \/ HasCall(w, i, j, inner, Liberties, c)
    BY LevelHas
  <1> QED BY <1>1, <1>2, <1>3, <1>4, <1>5

\* A closing parenthesis: needed, read, and written after its inside.
LEMMA CloseIs ==
    ASSUME NEW w \in Seq(Tokens), NEW v \in Results(w), NEW op \in ToSet(w) \X {0, 1, 2}
    PROVE  /\ Close(w, v, op) \in Results(w) /\ Close(w, v, op).deep <= v.deep
           /\ Close(w, v, op).ok <=> v.ok /\ Closes(Cur(w, v.p))
           /\ Close(w, v, op).ok => /\ Close(w, v, op).p = v.p + 1
                                    /\ Close(w, v, op).code = Append(v.code, op)
                                    /\ v.p \in 1..Len(w) /\ w[v.p] = Cur(w, v.p)
  <1>1. v.deep \in Nat /\ v.p \in Nat /\ v.code \in Codes(w)
    BY DEF Results
  <1>2. CASE v.ok /\ Closes(Cur(w, v.p))
    <2>1. Cur(w, v.p) # EOF
      BY <1>2 DEF Closes, EOF
    <2>2. v.p \in 1..Len(w) /\ w[v.p] = Cur(w, v.p)
      BY <2>1, CurIs
    <2> DEFINE code == Append(v.code, op)
    <2>3. code \in Codes(w)
      BY <1>1 DEF Codes
    <2>4. Close(w, v, op) = [ok |-> TRUE, code |-> code, p |-> v.p + 1, deep |-> v.deep]
      BY <1>2 DEF Close
    <2> HIDE DEF code
    <2>5. [ok |-> TRUE, code |-> code, p |-> v.p + 1, deep |-> v.deep] \in Results(w)
      BY <1>1, <2>3 DEF Results
    <2> QED BY <1>1, <1>2, <2>2, <2>4, <2>5 DEF code
  <1>3. CASE ~(v.ok /\ Closes(Cur(w, v.p)))
    <2>1. Close(w, v, op) = Failed(v.deep)
      BY <1>3 DEF Close
    <2>2. Failed(v.deep) \in Results(w) /\ ~Failed(v.deep).ok /\ Failed(v.deep).deep = v.deep
      BY <1>1 DEF Failed, Results, Codes
    <2> QED BY <1>1, <1>3, <2>1, <2>2
  <1> QED BY <1>2, <1>3

\* The arguments of a call, at each place.
ArgsAt(w, A) == [i \in Places(w) |-> Chained(w, {","}, A, i)]

\* Arguments are read as chains of sums.
LEMMA ArgsParse ==
    ASSUME NEW w \in Seq(Tokens), NEW A, NEW inner, NEW a \in Nat, Parses(w, A, inner, SumStop, a)
    PROVE  Parses(w, ArgsAt(w, A), Chain(w, {","}, inner), SumStop \cup {","}, a)
  <1>1. EOF \notin {","} /\ {","} \cap SumStop = {}
    BY DEF EOF, SumStop
  <1>2. \A i \in Places(w) : ArgsAt(w, A)[i] = Chained(w, {","}, A, i)
    BY DEF ArgsAt
  <1> QED BY <1>1, <1>2, ChainedParses

\* No token is of two kinds.
LEMMA Kinds ==
    /\ \A t \in NameTokens : t \notin NumberTokens \cup StringTokens \cup Operators
    /\ \A t \in Operators : t \notin NumberTokens \cup StringTokens \cup NameTokens
    /\ EOF \notin NumberTokens \cup StringTokens \cup NameTokens \cup Operators
    /\ {"(", ")", "-", ",", "+", "*", "/", "%"} = Operators
    /\ exprFuncs \cup {"rand"} \subseteq NameTokens
    /\ ResRefs \cup DOMAIN InRefs \subseteq NameTokens
    /\ (exprFuncs \cup {"rand"}) \cap (ResRefs \cup DOMAIN InRefs) = {}
  BY GrammarAssumption DEF Tokens, Operators

\* The branches of parsePrimary.
LEMMA PrimaryIs ==
    ASSUME NEW w, NEW p, NEW A, NEW t, t = Cur(w, p)
    PROVE  /\ t \in NumberTokens \cup StringTokens => Primary(w, p, A) = Done(<< <<t, 0>> >>, p + 1)
           /\ t = "(" => Primary(w, p, A) = Close(w, A[p + 1], <<"(", 1>>)
           /\ t \in NameTokens /\ Cur(w, p + 1) = "("
                => Primary(w, p, A) = Frame(ParseCall(w, t, p + 2, A))
           /\ t \in NameTokens /\ Cur(w, p + 1) # "(" => Primary(w, p, A) = ResolveRef(t, p + 1)
           /\ t \notin NumberTokens \cup StringTokens \cup NameTokens \cup {"("}
                => Primary(w, p, A) = Failed(0)
  <1>1. "(" \notin NumberTokens \cup StringTokens \cup NameTokens
    BY Kinds
  <1>2. t \in NameTokens => t \notin NumberTokens \cup StringTokens
    BY Kinds
  <1> QED BY <1>1, <1>2 DEF Primary

\* What parseCall makes of a name, after its opening parenthesis.
CallRead(w, A, a, name, q, r) ==
    LET args == ArgsAt(w, A)[q]
    IN  /\ r \in Results(w) /\ r.deep <= a
        /\ r.ok <=> /\ name \in exprFuncs \cup {"rand"}
                    /\ Cur(w, q) = ")" \/ (args.ok /\ Closes(Cur(w, args.p)))
        /\ r.ok /\ Cur(w, q) = ")" => r.p = q + 1 /\ r.code = << <<name, 0>> >>
        /\ r.ok /\ Cur(w, q) # ")" => /\ args.p \in 1..Len(w) /\ w[args.p] = Cur(w, args.p)
                                      /\ r.p = args.p + 1
                                      /\ r.code = Append(args.code, <<name, 1>>)

\* A call reads its arguments, if it has some, and the parenthesis after them.
LEMMA CallIs ==
    ASSUME NEW w \in Seq(Tokens), NEW A, NEW inner, NEW a \in Nat, Parses(w, A, inner, SumStop, a),
           NEW name \in ToSet(w), NEW q \in Places(w), NEW r, r = ParseCall(w, name, q, A)
    PROVE  CallRead(w, A, a, name, q, r)
  <1> DEFINE n == IF Cur(w, q) = ")" THEN 0 ELSE 1
  <1>1. PICK args : args = IF Cur(w, q) = ")" THEN Done(<<>>, q) ELSE Chained(w, {","}, A, q)
    OBVIOUS
  <1>2. PICK call : call = Close(w, args, <<name, n>>)
    OBVIOUS
  <1>3. r = IF name \in exprFuncs \cup {"rand"} THEN call ELSE Failed(call.deep)
    BY <1>1, <1>2 DEF ParseCall
  <1>4. Cur(w, q) # ")" => args = ArgsAt(w, A)[q]
    BY <1>1 DEF ArgsAt
  <1>5. Cur(w, q) = ")" => args.ok /\ args.p = q /\ args.code = <<>> /\ args.deep = 0 /\ args \in Results(w)
    <2>1. q \in Nat /\ <<>> \in Codes(w)
      BY DEF Places, Codes
    <2> QED BY <1>1, <2>1 DEF Done, Results
  <1>6. Cur(w, q) # ")" => args \in Results(w) /\ args.deep <= a
    <2>1. Sound(w, ArgsAt(w, A), Chain(w, {","}, inner)) /\ Shallow(w, ArgsAt(w, A), a)
      BY ArgsParse DEF Parses
    <2> QED BY <1>4, <2>1 DEF Sound, Shallow
  <1>7. args \in Results(w) /\ args.deep <= a /\ args.deep \in Nat
    BY <1>5, <1>6 DEF Results
  <1>8. <<name, n>> \in ToSet(w) \X {0, 1, 2}
    OBVIOUS
  <1>9. /\ call \in Results(w) /\ call.deep <= args.deep
        /\ call.ok <=> args.ok /\ Closes(Cur(w, args.p))
        /\ call.ok => /\ call.p = args.p + 1 /\ call.code = Append(args.code, <<name, n>>)
                      /\ args.p \in 1..Len(w) /\ w[args.p] = Cur(w, args.p)
    <2> HIDE DEF n
    <2> QED BY <1>2, <1>7, <1>8, CloseIs
  <1>10. call.deep \in Nat /\ call.deep <= a
    BY <1>7, <1>9 DEF Results
  <1>11. Failed(call.deep) \in Results(w) /\ ~Failed(call.deep).ok /\ Failed(call.deep).deep = call.deep
    BY <1>10 DEF Failed, Results, Codes
  <1>12. Closes(")")
    BY DEF Closes
  <1>13. Append(<<>>, <<name, 0>>) = << <<name, 0>> >>
    OBVIOUS
  <1>14. CASE name \notin exprFuncs \cup {"rand"}
    BY <1>3, <1>10, <1>11, <1>14 DEF CallRead
  <1>15. CASE name \in exprFuncs \cup {"rand"} /\ Cur(w, q) = ")"
    <2>1. r = call /\ n = 0
      BY <1>3, <1>15
    <2> QED BY <1>5, <1>9, <1>10, <1>12, <1>13, <1>15, <2>1 DEF CallRead
  <1>16. CASE name \in exprFuncs \cup {"rand"} /\ Cur(w, q) # ")"
    <2>1. r = call /\ n = 1
      BY <1>3, <1>16
    <2> QED BY <1>4, <1>9, <1>10, <1>16, <2>1 DEF CallRead
  <1> QED BY <1>14, <1>15, <1>16

\* What parsePrimary reads is a factor.
LEMMA PrimarySound ==
    ASSUME NEW w \in Seq(Tokens), NEW A, NEW inner, NEW a \in Nat, Parses(w, A, inner, SumStop, a),
           NEW below, NEW p \in Places(w), NEW r, r = Primary(w, p, A)
    PROVE  /\ r \in Results(w) /\ r.deep <= a + 1
           /\ Cur(w, p) \in {")", "-"} => ~r.ok
           /\ r.ok => r.p \in (p + 1)..(Len(w) + 1) /\ r.code \in Level(w, below, inner, Liberties)[p][r.p - 1]
  <1> DEFINE L == Len(w)
  <1>1. L \in Nat /\ p \in Nat /\ Places(w) = 1..(L + 1)
    BY DEF Places
  <1>2. PICK t : t = Cur(w, p)
    OBVIOUS
  <1>3. t \in Tokens => p \in 1..L /\ w[p] = t /\ t \in ToSet(w) /\ p + 1 \in Places(w)
    <2>1. EOF \notin Tokens
      BY GrammarAssumption
    <2> QED BY <1>2, <2>1, CurIs
  <1>4. ASSUME NEW j \in 0..L, NEW c,
               IsAtom(w, p, j, c) \/ IsParen(w, p, j, inner, c) \/ IsCall(w, p, j, inner, c)
        PROVE  c \in Level(w, below, inner, Liberties)[p][j]
    BY <1>1, <1>4, LevelIs
  <1>5. ASSUME t \in NumberTokens \cup StringTokens \cup ResRefs \cup DOMAIN InRefs,
               r = Done(<< <<t, 0>> >>, p + 1)
        PROVE  /\ r \in Results(w) /\ r.deep <= a + 1
               /\ r.ok => r.p \in (p + 1)..(L + 1) /\ r.code \in Level(w, below, inner, Liberties)[p][r.p - 1]
    <2>1. p \in 1..L /\ w[p] = t /\ t \in ToSet(w)
      BY <1>3, <1>5, Kinds DEF Tokens
    <2>2. << <<t, 0>> >> \in Codes(w)
      <3>1. <<t, 0>> \in ToSet(w) \X {0, 1, 2}
        BY <2>1
      <3> QED BY <3>1 DEF Codes
    <2>3. IsAtom(w, p, p, << <<t, 0>> >>)
      BY <1>5, <2>1 DEF IsAtom
    <2>4. r.ok /\ r.p = p + 1 /\ r.code = << <<t, 0>> >> /\ r.deep = 0 /\ r \in Results(w)
      BY <1>1, <1>5, <2>2 DEF Done, Results
    <2>5. (p + 1) - 1 = p /\ p \in 0..L /\ p + 1 \in (p + 1)..(L + 1)
      BY <1>1, <2>1
    <2> QED BY <1>1, <1>4, <2>3, <2>4, <2>5
  <1>6. ASSUME NEW f \in Nat, f <= a + 1, r = Failed(f)
        PROVE  r \in Results(w) /\ r.deep <= a + 1 /\ ~r.ok
    BY <1>6 DEF Failed, Results, Codes
  <1>7. CASE t \in NumberTokens \cup StringTokens
    <2>1. t \notin {")", "-"}
      BY <1>7, Kinds
    <2> QED BY <1>2, <1>5, <1>7, <2>1, PrimaryIs
  <1>8. CASE t = "("
    <2>1. p \in 1..L /\ w[p] = t /\ t \in ToSet(w) /\ p + 1 \in Places(w)
      BY <1>3, <1>8 DEF Tokens, Operators
    <2>2. PICK v : v = A[p + 1]
      OBVIOUS
    <2>3. v \in Results(w) /\ v.deep <= a /\ (v.ok =>
             v.p \in (p + 2)..(L + 1) /\ v.code \in inner[p + 1][v.p - 1])
      BY <1>1, <2>1, <2>2 DEF Parses, Sound, Shallow
    <2>4. <<"(", 1>> \in ToSet(w) \X {0, 1, 2}
      BY <1>8, <2>1
    <2>5. PICK op : op = <<"(", 1>>
      OBVIOUS
    <2>6. r = Close(w, v, op)
      BY ZenonT(30), <1>2, <1>8, <2>2, <2>5, PrimaryIs
    <2>7. /\ r \in Results(w) /\ r.deep <= v.deep /\ (r.ok => v.ok /\ Closes(Cur(w, v.p)))
          /\ r.ok => /\ r.p = v.p + 1 /\ r.code = Append(v.code, op)
                     /\ v.p \in 1..L /\ w[v.p] = Cur(w, v.p)
      BY <2>3, <2>4, <2>5, <2>6, CloseIs
    <2>8. r.deep \in Nat /\ v.deep \in Nat
      BY <2>3, <2>7 DEF Results
    <2>9. ASSUME r.ok PROVE r.p \in (p + 1)..(L + 1) /\ r.code \in Level(w, below, inner, Liberties)[p][r.p - 1]
      <3>1. PICK j \in (p + 2)..L : j = v.p
        BY <1>1, <2>3, <2>7, <2>9
      <3>2. j \in 0..L /\ j > p + 1 /\ (j + 1) - 1 = j /\ j + 1 \in (p + 1)..(L + 1)
        BY <1>1
      <3>3. IsParen(w, p, j, inner, r.code)
        BY <1>8, <2>1, <2>3, <2>5, <2>7, <2>9, <3>1, <3>2 DEF IsParen
      <3>4. r.code \in Level(w, below, inner, Liberties)[p][j]
        BY <1>4, <3>2, <3>3
      <3> QED BY <2>7, <2>9, <3>1, <3>2, <3>4
    <2> QED BY <1>2, <1>8, <2>3, <2>7, <2>8, <2>9
  <1>9. CASE t \in NameTokens /\ Cur(w, p + 1) = "("
    <2>1. p \in 1..L /\ w[p] = t /\ t \in ToSet(w) /\ p + 1 \in Places(w)
      BY <1>3, <1>9 DEF Tokens
    <2>2. p + 1 \in 1..L /\ w[p + 1] = "(" /\ (p + 1) + 1 \in Places(w)
      <3>1. Cur(w, p + 1) # EOF
        BY <1>9 DEF EOF
      <3> QED BY <1>9, <3>1, CurIs
    <2>3. PICK q \in Places(w) : q = p + 2
      BY <1>1, <2>2
    <2>4. PICK v : v = ParseCall(w, t, q, A)
      OBVIOUS
    <2>5. r = Frame(v)
      BY ZenonT(30), <1>2, <1>9, <2>3, <2>4, PrimaryIs
    <2>6. PICK args : args = ArgsAt(w, A)[q]
      OBVIOUS
    <2>7. /\ v \in Results(w) /\ v.deep <= a
          /\ v.ok <=> t \in exprFuncs \cup {"rand"} /\ (Cur(w, q) = ")" \/ (args.ok /\ Closes(Cur(w, args.p))))
          /\ v.ok /\ Cur(w, q) = ")" => v.p = q + 1 /\ v.code = << <<t, 0>> >>
          /\ v.ok /\ Cur(w, q) # ")" => /\ args.p \in 1..L /\ w[args.p] = Cur(w, args.p)
                                        /\ v.p = args.p + 1 /\ v.code = Append(args.code, <<t, 1>>)
      <3>1. CallRead(w, A, a, t, q, v)
        BY <2>1, <2>4, CallIs
      <3> QED BY <2>6, <3>1 DEF CallRead
    <2>8. args.ok => args.p \in (q + 1)..(L + 1) /\ args.code \in Chain(w, {","}, inner)[q][args.p - 1]
      BY <2>6, ArgsParse DEF Parses, Sound
    <2>9. r \in Results(w) /\ r.deep <= a + 1 /\ r.ok = v.ok /\ r.p = v.p /\ r.code = v.code
      BY <2>5, <2>7 DEF Frame, Results
    <2>10. ASSUME r.ok PROVE r.p \in (p + 1)..(L + 1) /\ r.code \in Level(w, below, inner, Liberties)[p][r.p - 1]
      <3>1. CASE Cur(w, q) = ")"
        <4>1. q \in 1..L /\ w[q] = ")"
          <5>1. Cur(w, q) # EOF
            BY <3>1 DEF EOF
          <5> QED BY <3>1, <5>1, CurIs
        <4>2. q \in 0..L /\ q > p + 1 /\ q = p + 2 /\ (q + 1) - 1 = q /\ q + 1 \in (p + 1)..(L + 1)
          BY <1>1, <2>3, <4>1
        <4>3. Closes(w[q])
          BY <4>1 DEF Closes
        <4>4. r.p = q + 1 /\ r.code = << <<t, 0>> >> /\ t \in exprFuncs \cup {"rand"}
          BY <2>7, <2>9, <2>10, <3>1
        <4>5. IsCall(w, p, q, inner, r.code)
          BY <2>1, <2>2, <4>1, <4>2, <4>3, <4>4 DEF IsCall
        <4>6. r.code \in Level(w, below, inner, Liberties)[p][q]
          BY <1>4, <4>2, <4>5
        <4> QED BY <4>2, <4>4, <4>6
      <3>2. CASE Cur(w, q) # ")"
        <4>1. args.ok /\ Closes(Cur(w, args.p)) /\ t \in exprFuncs \cup {"rand"}
          BY <2>7, <2>9, <2>10, <3>2
        <4>2. PICK j \in (q + 1)..L : j = args.p
          <5>1. v.ok
            BY <2>9, <2>10
          <5>2. args.p \in 1..L /\ args.p \in (q + 1)..(L + 1)
            BY <2>7, <2>8, <3>2, <4>1, <5>1
          <5>3. args.p \in (q + 1)..L
            BY <1>1, <5>2
          <5> QED BY <5>3
        <4>3. j \in 0..L /\ j > p + 1 /\ (j + 1) - 1 = j /\ j + 1 \in (p + 1)..(L + 1)
          BY <1>1, <2>3
        <4>4. r.p = j + 1 /\ r.code = Append(args.code, <<t, 1>>) /\ w[j] = Cur(w, j)
              /\ args.code \in Chain(w, {","}, inner)[p + 2][j - 1]
          BY <2>3, <2>7, <2>8, <2>9, <2>10, <3>2, <4>1, <4>2
        <4>5. IsCall(w, p, j, inner, r.code)
          BY <2>1, <2>2, <4>1, <4>2, <4>3, <4>4 DEF IsCall
        <4>6. r.code \in Level(w, below, inner, Liberties)[p][j]
          BY <1>4, <4>3, <4>5
        <4> QED BY <4>3, <4>4, <4>6
      <3> QED BY <3>1, <3>2
    <2>11. t \notin {")", "-"}
      BY <1>9, Kinds
    <2> QED BY <1>2, <2>9, <2>10, <2>11
  <1>10. CASE t \in NameTokens /\ Cur(w, p + 1) # "("
    <2>1. r = ResolveRef(t, p + 1)
      BY <1>2, <1>10, PrimaryIs
    <2>2. t \notin {")", "-"}
      BY <1>10, Kinds
    <2>3. CASE t \in ResRefs \cup DOMAIN InRefs
      <3>1. r = Done(<< <<t, 0>> >>, p + 1)
        BY <2>1, <2>3 DEF ResolveRef
      <3> QED BY <1>2, <1>5, <2>2, <2>3, <3>1
    <2>4. CASE t \notin ResRefs \cup DOMAIN InRefs
      <3>1. r = Failed(0) /\ 0 <= a + 1
        BY <2>1, <2>4 DEF ResolveRef
      <3> QED BY <1>6, <3>1
    <2> QED BY <2>3, <2>4
  <1>11. CASE t \notin NumberTokens \cup StringTokens \cup NameTokens \cup {"("}
    <2>1. r = Failed(0)
      BY <1>2, <1>11, PrimaryIs
    <2>2. 0 <= a + 1
      OBVIOUS
    <2> QED BY <1>6, <2>1, <2>2
  <1> QED BY <1>7, <1>8, <1>9, <1>10, <1>11

\* And every factor that is no negation it reads, unless a parenthesis follows.
LEMMA PrimaryComplete ==
    ASSUME NEW w \in Seq(Tokens), NEW A, NEW inner, NEW a \in Nat, Parses(w, A, inner, SumStop, a),
           NEW p \in Places(w), NEW r, r = Primary(w, p, A), NEW j \in 0..Len(w), NEW c,
           IsAtom(w, p, j, c) \/ IsParen(w, p, j, inner, c) \/ IsCall(w, p, j, inner, c),
           Cur(w, j + 1) # "("
    PROVE  w[p] # "-" /\ r.ok /\ r.p = j + 1 /\ r.code = c
  <1> DEFINE L == Len(w)
  <1>1. L \in Nat /\ p \in Nat /\ Places(w) = 1..(L + 1) /\ p >= 1
    BY DEF Places
  <1>2. \A n \in 1..L : Cur(w, n) = w[n] /\ w[n] \in ToSet(w)
    BY DEF Cur, ToSet
  <1>3. \A t : Closes(t) => t \notin SumStop \cup {","}
    BY DEF Closes, SumStop
  <1>4. CASE IsAtom(w, p, j, c)
    <2>1. p = j /\ p \in 1..L /\ Cur(w, p) = w[p]
      BY <1>1, <1>2, <1>4 DEF IsAtom
    <2>2. PICK t : t = w[p]
      OBVIOUS
    <2>3. t \in NumberTokens \cup StringTokens \cup ResRefs \cup DOMAIN InRefs /\ c = << <<t, 0>> >>
      BY <1>4, <2>2 DEF IsAtom
    <2>4. r = Done(<< <<t, 0>> >>, p + 1)
      <3>1. CASE t \in NumberTokens \cup StringTokens
        BY <2>1, <2>2, <3>1, PrimaryIs
      <3>2. CASE t \in ResRefs \cup DOMAIN InRefs
        <4>1. t \in NameTokens /\ Cur(w, p + 1) # "("
          BY <2>1, <3>2, Kinds
        <4>2. r = ResolveRef(t, p + 1)
          BY <2>1, <2>2, <4>1, PrimaryIs
        <4> QED BY <3>2, <4>2 DEF ResolveRef
      <3> QED BY <2>3, <3>1, <3>2
    <2>5. t # "-"
      BY <2>3, Kinds
    <2> QED BY <2>1, <2>2, <2>3, <2>4, <2>5 DEF Done
  <1>5. CASE IsParen(w, p, j, inner, c)
    <2>1. PICK b \in inner[p + 1][j - 1] : c = Append(b, <<"(", 1>>)
      BY <1>5 DEF IsParen
    <2>2. w[p] = "(" /\ Closes(w[j]) /\ j > p + 1
      BY <1>5 DEF IsParen
    <2>3. p \in 1..L /\ j \in 1..L /\ j - 1 \in 0..L /\ p + 1 \in Places(w) /\ (j - 1) + 1 = j
      BY <1>1, <2>2
    <2>4. Cur(w, p) = "(" /\ Cur(w, j) = w[j] /\ Cur(w, j) \notin SumStop /\ "(" \in ToSet(w)
      BY <1>2, <1>3, <2>2, <2>3
    <2>5. PICK v : v = A[p + 1]
      OBVIOUS
    <2>6. v.ok /\ v.p = j /\ v.code = b
      BY SMTT(20), <2>1, <2>3, <2>4, <2>5 DEF Parses, Complete
    <2>7. v \in Results(w)
      BY <2>3, <2>5 DEF Parses, Sound
    <2>8. PICK op : op = <<"(", 1>>
      OBVIOUS
    <2>9. op \in ToSet(w) \X {0, 1, 2}
      BY <2>4, <2>8
    <2>10. r = Close(w, v, op)
      BY <2>4, <2>5, <2>8, PrimaryIs
    <2>11. r.ok /\ r.p = v.p + 1 /\ r.code = Append(v.code, op)
      <3>1. Closes(Cur(w, v.p))
        BY <2>2, <2>4, <2>6
      <3>2. Close(w, v, op).ok
        BY <2>6, <2>7, <2>9, <3>1, CloseIs
      <3>3. Close(w, v, op).p = v.p + 1 /\ Close(w, v, op).code = Append(v.code, op)
        BY <2>7, <2>9, <3>2, CloseIs
      <3> QED BY <2>10, <3>2, <3>3
    <2> QED BY <2>1, <2>2, <2>6, <2>8, <2>11
  <1>6. CASE IsCall(w, p, j, inner, c)
    <2>1. PICK t : t = w[p]
      OBVIOUS
    <2>2. /\ j > p + 1 /\ t \in exprFuncs \cup {"rand"} /\ w[p + 1] = "(" /\ Closes(w[j])
          /\ \/ j = p + 2 /\ w[j] = ")" /\ c = << <<t, 0>> >>
             \/ \E b \in Chain(w, {","}, inner)[p + 2][j - 1] : c = Append(b, <<t, 1>>)
      BY <1>6, <2>1 DEF IsCall
    <2>3. p \in 1..L /\ j \in 1..L /\ j - 1 \in 0..L /\ p + 1 \in 1..L /\ (j - 1) + 1 = j
          /\ p + 2 \in Places(w)
      <3>1. j > p + 1
        BY <1>6 DEF IsCall
      <3> QED BY <1>1, <3>1
    <2>4. PICK q \in Places(w) : q = p + 2
      BY <2>3
    <2>5. Cur(w, p) = t /\ t \in ToSet(w) /\ Cur(w, p + 1) = "(" /\ Cur(w, j) = w[j]
      BY <1>2, <2>1, <2>2, <2>3
    <2>6. t \in NameTokens /\ t # "-"
      BY <2>2, Kinds
    <2>7. PICK v : v = ParseCall(w, t, q, A)
      OBVIOUS
    <2>8. r = Frame(v)
      BY ZenonT(30), <2>4, <2>5, <2>6, <2>7, PrimaryIs
    <2>9. CallRead(w, A, a, t, q, v)
      BY <2>5, <2>7, CallIs
    <2>10. r.ok = v.ok /\ r.p = v.p /\ r.code = v.code
      <3>1. v \in Results(w)
        BY <2>9 DEF CallRead
      <3> QED BY <2>8, <3>1 DEF Frame, Results
    <2>11. PICK args : args = ArgsAt(w, A)[q]
      OBVIOUS
    <2>12. CASE j = p + 2 /\ w[j] = ")" /\ c = << <<t, 0>> >>
      <3>1. Cur(w, q) = ")"
        BY <2>4, <2>5, <2>12
      <3>2. v.ok
        BY <2>2, <2>9, <3>1 DEF CallRead
      <3>3. v.p = q + 1 /\ v.code = << <<t, 0>> >>
        BY <2>9, <3>1, <3>2 DEF CallRead
      <3> QED BY <2>1, <2>4, <2>6, <2>10, <2>12, <3>2, <3>3
    <2>13. ASSUME NEW b \in Chain(w, {","}, inner)[p + 2][j - 1], c = Append(b, <<t, 1>>)
           PROVE  w[p] # "-" /\ r.ok /\ r.p = j + 1 /\ r.code = c
      <3>1. Cur(w, (j - 1) + 1) \notin SumStop \cup {","}
        BY <1>3, <2>2, <2>3, <2>5
      <3>2. Complete(w, ArgsAt(w, A), Chain(w, {","}, inner), SumStop \cup {","}) /\ Opens(w, ArgsAt(w, A))
        BY ArgsParse DEF Parses
      <3>3. b \in Chain(w, {","}, inner)[q][j - 1]
        BY <2>4, <2>13
      <3>4. args.ok /\ args.p = (j - 1) + 1 /\ args.code = b
        <4>1. \A x \in Places(w) : \A i \in 0..Len(w) : \A d \in Chain(w, {","}, inner)[x][i] :
                 Cur(w, i + 1) \notin SumStop \cup {","} =>
                     ArgsAt(w, A)[x].ok /\ ArgsAt(w, A)[x].p = i + 1 /\ ArgsAt(w, A)[x].code = d
          BY <3>2, Zenon DEF Complete
        <4>2. PICK i \in 0..Len(w) : i = j - 1
          BY <2>3
        <4>3. b \in Chain(w, {","}, inner)[q][i] /\ Cur(w, i + 1) \notin SumStop \cup {","}
          BY <3>1, <3>3, <4>2
        <4>4. ArgsAt(w, A)[q].ok /\ ArgsAt(w, A)[q].p = i + 1 /\ ArgsAt(w, A)[q].code = b
          BY <4>1, <4>3
        <4> QED BY <2>11, <4>2, <4>4
      <3>5. Cur(w, q) # ")"
        BY <2>11, <3>2, <3>4 DEF Opens
      <3>6. Closes(Cur(w, args.p))
        BY <2>2, <2>3, <2>5, <3>4
      <3>7. v.ok
        BY <2>2, <2>9, <2>11, <3>4, <3>6 DEF CallRead
      <3>8. v.p = args.p + 1 /\ v.code = Append(args.code, <<t, 1>>)
        BY <2>9, <2>11, <3>5, <3>7 DEF CallRead
      <3> QED BY <2>1, <2>3, <2>6, <2>10, <2>13, <3>4, <3>7, <3>8
    <2> QED BY <2>2, <2>12, <2>13
  <1> QED BY <1>4, <1>5, <1>6

\* A unary minus: what it negates, at the next place.
Negated(w, u, v, h) ==
    /\ u \in Results(w) /\ u.deep <= h
    /\ u.ok = v.ok
    /\ u.ok => u.p = v.p /\ u.code = Append(v.code, <<"-", 1>>)

\* parseUnary at one depth reads the factors of that level, given that the
\* depth below is read.
LEMMA LevelParses ==
    ASSUME NEW w \in Seq(Tokens), NEW h \in Nat,
           NEW B, NEW below, NEW b \in Nat, Parses(w, B, below, {"("}, b),
           NEW A, NEW inner, NEW a \in Nat, Parses(w, A, inner, SumStop, a), a + 3 <= h,
           NEW U,
           \A p \in Places(w) : Cur(w, p) # "-" => U[p] = Frame(Frame(Primary(w, p, A))),
           \A p \in Places(w) : Cur(w, p) = "-" => Negated(w, U[p], B[p + 1], h)
    PROVE  Parses(w, U, Level(w, below, inner, Liberties), {"("}, h)
  <1> DEFINE L == Len(w)
             D == Level(w, below, inner, Liberties)
  <1>1. L \in Nat /\ Places(w) = 1..(L + 1) /\ "-" # EOF
    BY DEF Places, EOF
  <1>2. \A p \in Places(w) : \A j \in 0..L : \A c : c \in D[p][j] <=>
               \/ IsAtom(w, p, j, c) \/ IsMinus(w, p, j, below, c)
               \/ IsParen(w, p, j, inner, c) \/ IsCall(w, p, j, inner, c)
    BY <1>1, LevelIs
  <1>3. ASSUME NEW p \in Places(w), Cur(w, p) # "-"
        PROVE  \E r : /\ r = Primary(w, p, A) /\ U[p] \in Results(w) /\ U[p].deep <= h
                      /\ U[p].ok = r.ok /\ U[p].p = r.p /\ U[p].code = r.code
    <2>1. PICK r : r = Primary(w, p, A)
      OBVIOUS
    <2>2. r \in Results(w) /\ r.deep <= a + 1
      BY <2>1, PrimarySound
    <2>7. a + 1 \in Nat /\ a + 2 \in Nat /\ (a + 1) + 1 = a + 2 /\ (a + 2) + 1 = a + 3
      OBVIOUS
    <2>3. PICK u : u = Frame(r)
      OBVIOUS
    <2>4. u \in Results(w) /\ u.deep <= a + 2 /\ u.ok = r.ok /\ u.p = r.p /\ u.code = r.code
      BY <2>2, <2>3, <2>7, FrameIs
    <2>5. U[p] = Frame(u)
      BY <1>3, <2>1, <2>3
    <2>6. U[p] \in Results(w) /\ U[p].deep <= a + 3 /\ U[p].ok = u.ok /\ U[p].p = u.p /\ U[p].code = u.code
      BY <2>4, <2>5, <2>7, FrameIs
    <2>8. U[p].deep \in Nat
      BY <2>6 DEF Results
    <2> QED BY <2>1, <2>4, <2>6, <2>8
  <1>4. ASSUME NEW p \in Places(w)
        PROVE  /\ U[p] \in Results(w) /\ U[p].deep <= h
               /\ U[p].ok => U[p].p \in (p + 1)..(L + 1) /\ U[p].code \in D[p][U[p].p - 1]
               /\ Cur(w, p) = ")" => ~U[p].ok
    <2>1. CASE Cur(w, p) # "-"
      <3>1. PICK r : /\ r = Primary(w, p, A) /\ U[p] \in Results(w) /\ U[p].deep <= h
                     /\ U[p].ok = r.ok /\ U[p].p = r.p /\ U[p].code = r.code
        BY <1>3, <2>1
      <3>2. /\ Cur(w, p) \in {")", "-"} => ~r.ok
            /\ r.ok => r.p \in (p + 1)..(L + 1) /\ r.code \in D[p][r.p - 1]
        BY <3>1, PrimarySound
      <3> QED BY <3>1, <3>2
    <2>2. CASE Cur(w, p) = "-"
      <3>1. p \in 1..L /\ w[p] = "-" /\ p + 1 \in Places(w)
        BY <1>1, <2>2, CurIs
      <3>2. PICK v : v = B[p + 1]
        OBVIOUS
      <3>3. v.ok => v.p \in (p + 2)..(L + 1) /\ v.code \in below[p + 1][v.p - 1]
        BY <1>1, <3>1, <3>2 DEF Parses, Sound
      <3>4. Negated(w, U[p], v, h)
        BY <2>2, <3>2
      <3>5. ASSUME U[p].ok PROVE U[p].p \in (p + 1)..(L + 1) /\ U[p].code \in D[p][U[p].p - 1]
        <4>1. v.ok /\ U[p].p = v.p /\ U[p].code = Append(v.code, <<"-", 1>>)
          BY <3>4, <3>5 DEF Negated
        <4>2. PICK q \in (p + 2)..(L + 1) : q = v.p
          BY <3>3, <4>1
        <4>3. q - 1 \in 0..L /\ p <= q - 1 /\ q \in (p + 1)..(L + 1)
          BY <1>1
        <4>4. IsMinus(w, p, q - 1, below, U[p].code)
          BY <3>1, <3>3, <4>1, <4>2, <4>3 DEF IsMinus
        <4> QED BY <1>2, <4>1, <4>2, <4>3, <4>4
      <3> QED BY <2>2, <3>4, <3>5 DEF Negated
    <2> QED BY <2>1, <2>2
  <1>5. Filled(w, D)
    <2> SUFFICES ASSUME NEW i \in Places(w), NEW j \in 0..L, NEW c \in D[i][j] PROVE i <= j
      BY DEF Filled
    <2>1. i \in Nat
      BY <1>1
    <2>2. IsAtom(w, i, j, c) \/ IsMinus(w, i, j, below, c) => i <= j
      BY <2>1 DEF IsAtom, IsMinus
    <2>3. IsParen(w, i, j, inner, c) \/ IsCall(w, i, j, inner, c) => j > i + 1
      BY DEF IsParen, IsCall
    <2> QED BY <1>2, <2>1, <2>2, <2>3
  <1>6. Complete(w, U, D, {"("})
    <2> SUFFICES ASSUME NEW p \in Places(w), NEW j \in 0..L, NEW c \in D[p][j], Cur(w, j + 1) # "("
                 PROVE  U[p].ok /\ U[p].p = j + 1 /\ U[p].code = c
      BY DEF Complete
    <2>1. p <= j /\ p \in 1..L /\ Cur(w, p) = w[p]
      BY <1>1, <1>5 DEF Filled, Cur
    <2>2. CASE IsMinus(w, p, j, below, c)
      <3>1. PICK x \in below[p + 1][j] : c = Append(x, <<"-", 1>>)
        BY <2>2 DEF IsMinus
      <3>2. Cur(w, p) = "-" /\ p + 1 \in Places(w)
        BY <1>1, <2>1, <2>2 DEF IsMinus
      <3>3. B[p + 1].ok /\ B[p + 1].p = j + 1 /\ B[p + 1].code = x
        BY <3>1, <3>2 DEF Parses, Complete
      <3> QED BY <3>1, <3>2, <3>3 DEF Negated
    <2>3. CASE IsAtom(w, p, j, c) \/ IsParen(w, p, j, inner, c) \/ IsCall(w, p, j, inner, c)
      <3>1. PICK r : r = Primary(w, p, A)
        OBVIOUS
      <3>2. w[p] # "-" /\ r.ok /\ r.p = j + 1 /\ r.code = c
        BY <2>3, <3>1, PrimaryComplete
      <3> QED BY <1>3, <2>1, <3>1, <3>2
    <2> QED BY <1>2, <2>2, <2>3
  <1>7. Sound(w, U, D) /\ Shallow(w, U, h) /\ Opens(w, U)
    BY <1>4 DEF Sound, Shallow, Opens
  <1> QED BY <1>5, <1>6, <1>7 DEF Parses

\* A minus before v.
LEMMA NegateIs ==
    ASSUME NEW w, NEW v \in Results(w), "-" \in ToSet(w), NEW n \in Nat, v.deep <= n, NEW h \in Nat, n + 1 <= h
    PROVE  Negated(w, Frame(Negate(v)), v, h)
  <1>1. <<"-", 1>> \in ToSet(w) \X {0, 1, 2}
    OBVIOUS
  <1>2. PICK code : code = Append(v.code, <<"-", 1>>)
    OBVIOUS
  <1>3. code \in Codes(w)
    <2>1. v.code \in Codes(w)
      BY DEF Results
    <2> QED BY <1>1, <1>2, <2>1 DEF Codes
  <1>4. PICK u : u = [v EXCEPT !.code = code]
    OBVIOUS
  <1>5. u \in Results(w) /\ u.deep = v.deep /\ u.ok = v.ok /\ u.p = v.p /\ u.code = code
    BY <1>3, <1>4 DEF Results
  <1>6. Negate(v) = u
    BY <1>2, <1>4 DEF Negate
  <1>7. Frame(u) \in Results(w) /\ Frame(u).deep <= n + 1
        /\ Frame(u).ok = u.ok /\ Frame(u).p = u.p /\ Frame(u).code = u.code
    BY <1>5, FrameIs
  <1>8. Frame(u).deep \in Nat
    BY <1>7 DEF Results
  <1> QED BY <1>2, <1>5, <1>6, <1>7, <1>8 DEF Negated

\* parseUnary m levels above the greatest depth reads the factors nested at
\* most m levels, in five frames a level and four at the last.
LEMMA UnaryParses ==
    ASSUME NEW w \in Seq(Tokens), NEW max \in Nat \ {0}
    PROVE  Parses(w, Unary(w, max)[1], Factors(w, max - 1, Liberties), {"("}, 5 * max - 1)
  <1>1. PICK U : U = Unary(w, max) /\ UnaryAt(w, max, U)
    BY UnaryDef
  <1>2. PICK n \in Nat : n = max - 1
    OBVIOUS
  <1>3. PICK g : FactorsAt(w, n, Liberties, g) /\ Factors(w, n, Liberties) = g[n]
    BY FactorsDef
  <1>4. ASSUME NEW p \in Places(w), Cur(w, p) = "-" PROVE p + 1 \in Places(w) /\ "-" \in ToSet(w)
    <2>1. Cur(w, p) # EOF
      BY <1>4 DEF EOF
    <2> QED BY <1>4, <2>1, CurIs
  <1> DEFINE S == {m \in Nat : m <= n => Parses(w, U[max - m], g[m], {"("}, 5 * m + 4)}
  <1>5. 0 \in S
    <2>1. U[max] = UnaryStep(w, max, U[max + 1], max)
      BY <1>1 DEF UnaryAt
    <2>2. g[0] = Level(w, Nothing(w), Nothing(w), Liberties)
      BY <1>3 DEF FactorsAt
    <2>3. Parses(w, NoParse(w), Nothing(w), {"("}, 1) /\ Parses(w, NoParse(w), Nothing(w), SumStop, 1)
      BY NothingParses
    <2>4. ASSUME NEW p \in Places(w), Cur(w, p) # "-"
          PROVE  U[max][p] = Frame(Frame(Primary(w, p, NoParse(w))))
      BY <2>1, <2>4 DEF UnaryStep
    <2>5. ASSUME NEW p \in Places(w), Cur(w, p) = "-"
          PROVE  Negated(w, U[max][p], NoParse(w)[p + 1], 4)
      <3>1. U[max][p] = Failed(1) /\ NoParse(w)[p + 1] = Failed(1)
        BY <1>4, <2>1, <2>5 DEF UnaryStep, NoParse
      <3>2. Failed(1) \in Results(w) /\ ~Failed(1).ok /\ Failed(1).deep = 1
        BY DEF Failed, Results, Codes
      <3> QED BY <3>1, <3>2 DEF Negated
    <2>6. PICK u : u = U[max]
      OBVIOUS
    <2>7. Parses(w, u, g[0], {"("}, 4)
      <3>1. 1 + 3 <= 4
        OBVIOUS
      <3> QED BY <2>2, <2>3, <2>4, <2>5, <2>6, <3>1, LevelParses
    <2>8. max - 0 = max /\ 5 * 0 + 4 = 4
      OBVIOUS
    <2> QED BY <2>6, <2>7, <2>8
  <1>6. ASSUME NEW m \in Nat, m \in S PROVE m + 1 \in S
    <2> SUFFICES ASSUME m + 1 <= n PROVE Parses(w, U[max - (m + 1)], g[m + 1], {"("}, 5 * (m + 1) + 4)
      OBVIOUS
    <2>1. PICK d \in 0..max : d = max - (m + 1) /\ d + 1 = max - m /\ d # max
      BY <1>2
    <2>2. PICK b \in Nat : b = 5 * m + 4
      OBVIOUS
    <2>3. PICK h \in Nat : h = 5 * (m + 1) + 4 /\ (b + 2) + 3 <= h /\ b + 1 <= h
      BY <2>2
    <2>4. PICK B : B = U[d + 1]
      OBVIOUS
    <2>5. Parses(w, B, g[m], {"("}, b)
      BY <1>6, <2>1, <2>2, <2>4
    <2>6. Parses(w, AddSub(w, B), Sums(w, g[m]), SumStop, b + 2)
      BY <2>5, SumsParse
    <2>7. U[d] = UnaryStep(w, max, B, d)
      BY <1>1, <2>1, <2>4 DEF UnaryAt
    <2>8. g[m + 1] = Level(w, g[m], Sums(w, g[m]), Liberties)
      <3>1. m + 1 \in 1..n /\ (m + 1) - 1 = m
        OBVIOUS
      <3> QED BY <1>3, <3>1 DEF FactorsAt
    <2>9. ASSUME NEW p \in Places(w), Cur(w, p) # "-"
          PROVE  U[d][p] = Frame(Frame(Primary(w, p, AddSub(w, B))))
      BY <2>1, <2>7, <2>9 DEF UnaryStep
    <2>10. ASSUME NEW p \in Places(w), Cur(w, p) = "-" PROVE Negated(w, U[d][p], B[p + 1], h)
      <3>1. PICK v : v = B[p + 1]
        OBVIOUS
      <3>2. U[d][p] = Frame(Negate(v))
        BY <2>1, <2>7, <2>10, <3>1 DEF UnaryStep
      <3>3. v \in Results(w) /\ v.deep <= b
        BY <1>4, <2>5, <2>10, <3>1 DEF Parses, Sound, Shallow
      <3>4. "-" \in ToSet(w)
        BY <1>4, <2>10
      <3> QED BY <2>3, <3>1, <3>2, <3>3, <3>4, NegateIs
    <2>11. PICK u : u = U[d]
      OBVIOUS
    <2>12. b + 2 \in Nat
      OBVIOUS
    <2>13. Parses(w, u, Level(w, g[m], Sums(w, g[m]), Liberties), {"("}, h)
      BY <2>3, <2>5, <2>6, <2>9, <2>10, <2>11, <2>12, LevelParses
    <2> QED BY <2>1, <2>3, <2>8, <2>11, <2>13
  <1>7. n \in S
    <2> HIDE DEF S
    <2> QED BY <1>5, <1>6, SetInduction
  <1>8. max - n = 1 /\ 5 * n + 4 = 5 * max - 1
    BY <1>2
  <1> QED BY <1>1, <1>2, <1>3, <1>7, <1>8

\* parseAddSub of the first level reads the sums of the grammar.
LEMMA DerivationsParse ==
    ASSUME NEW w \in Seq(Tokens), NEW max \in Nat \ {0}
    PROVE  Parses(w, AddSub(w, Unary(w, max)[1]), Sums(w, Factors(w, max - 1, Liberties)), SumStop, 5 * max + 1)
  <1>1. PICK h \in Nat : h = 5 * max - 1 /\ h + 2 = 5 * max + 1
    OBVIOUS
  <1>2. PICK U : U = Unary(w, max)[1]
    OBVIOUS
  <1>3. PICK F : F = Factors(w, max - 1, Liberties)
    OBVIOUS
  <1>4. Parses(w, U, F, {"("}, h)
    BY <1>1, <1>2, <1>3, UnaryParses
  <1>5. Parses(w, AddSub(w, U), Sums(w, F), SumStop, h + 2)
    BY <1>4, SumsParse
  <1> QED BY <1>1, <1>2, <1>3, <1>5

\* An expression has one derivation at most, however deep.
LEMMA Unambiguous ==
    ASSUME NEW w \in Seq(Tokens),
           NEW c1 \in Derivations(w, Len(w), Liberties), NEW c2 \in Derivations(w, Len(w), Liberties)
    PROVE  c1 = c2
  <1>1. PICK max \in Nat \ {0} : max - 1 = Len(w)
    <2>1. Len(w) + 1 \in Nat \ {0} /\ (Len(w) + 1) - 1 = Len(w)
      OBVIOUS
    <2> QED BY <2>1
  <1>2. PICK T : T = AddSub(w, Unary(w, max)[1])
    OBVIOUS
  <1>3. PICK G : G = Sums(w, Factors(w, Len(w), Liberties))
    OBVIOUS
  <1>4. Complete(w, T, G, SumStop)
    BY <1>1, <1>2, <1>3, DerivationsParse DEF Parses
  <1>5. 1 \in Places(w) /\ Len(w) \in 0..Len(w) /\ Cur(w, Len(w) + 1) \notin SumStop
    BY DEF Places, Cur, EOF, SumStop
  <1>6. c1 \in G[1][Len(w)] /\ c2 \in G[1][Len(w)]
    BY <1>3 DEF Derivations
  <1> QED BY <1>4, <1>5, <1>6 DEF Complete

\* What evalExpr makes of an expression is what the grammar derives of it.
LEMMA ParseIs ==
    ASSUME NEW w \in Seq(Tokens), NEW max \in Nat \ {0}, NEW v, v = Parse(w, max)
    PROVE  /\ v \in Results(w) /\ v.deep <= 5 * max + 1
           /\ v.ok => v.code \in Derivations(w, max - 1, Liberties)
           /\ \A c \in Derivations(w, max - 1, Liberties) : v.ok /\ v.code = c
  <1> DEFINE L == Len(w)
  <1>1. L \in Nat /\ 1 \in Places(w) /\ L \in 0..L
    BY DEF Places
  <1>2. PICK T : T = AddSub(w, Unary(w, max)[1])
    OBVIOUS
  <1>3. PICK G : G = Sums(w, Factors(w, max - 1, Liberties))
    OBVIOUS
  <1>4. PICK h \in Nat : h = 5 * max + 1
    OBVIOUS
  <1>5. Parses(w, T, G, SumStop, h)
    BY <1>2, <1>3, <1>4, DerivationsParse
  <1>6. PICK x : x = T[1]
    OBVIOUS
  <1>7. v = IF x.ok /\ Cur(w, x.p) # EOF THEN Failed(x.deep) ELSE x
    <2>1. ~TooDeep(LevelDepth(0), max) /\ LevelDepth(0) = 1
      BY DEF TooDeep, LevelDepth
    <2> QED BY <1>2, <1>6, <2>1 DEF Parse
  <1>8. x \in Results(w) /\ x.deep <= h /\ (x.ok =>
           x.p \in 2..(L + 1) /\ x.code \in G[1][x.p - 1])
    BY <1>1, <1>5, <1>6 DEF Parses, Sound, Shallow
  <1>9. \A c \in G[1][L] : x.ok /\ x.p = L + 1 /\ x.code = c
    <2>1. Cur(w, L + 1) \notin SumStop
      BY DEF Cur, EOF, SumStop
    <2> QED BY <1>1, <1>5, <1>6, <2>1 DEF Parses, Complete
  <1>10. Derivations(w, max - 1, Liberties) = G[1][L]
    BY <1>3 DEF Derivations
  <1>11. Cur(w, L + 1) = EOF
    BY DEF Cur
  <1>12. CASE x.ok /\ Cur(w, x.p) # EOF
    <2>1. v = Failed(x.deep) /\ x.deep \in Nat
      BY <1>7, <1>8, <1>12 DEF Results
    <2>2. v \in Results(w) /\ ~v.ok /\ v.deep = x.deep
      BY <2>1 DEF Failed, Results, Codes
    <2>3. G[1][L] = {}
      BY <1>9, <1>11, <1>12
    <2> QED BY <1>4, <1>8, <1>10, <2>2, <2>3
  <1>13. CASE ~(x.ok /\ Cur(w, x.p) # EOF)
    <2>1. v = x
      BY <1>7, <1>13
    <2>2. ASSUME x.ok PROVE x.p = L + 1 /\ x.p - 1 = L
      <3>1. Cur(w, x.p) = EOF
        BY <1>13, <2>2
      <3>2. PICK q \in 2..(L + 1) : q = x.p
        BY <1>8, <2>2
      <3>3. q \in 1..L => w[q] \in Tokens /\ Cur(w, q) = w[q]
        BY DEF Cur
      <3>4. q \notin 1..L
        BY <3>1, <3>2, <3>3, GrammarAssumption
      <3>5. q = L + 1
        BY <1>1, <3>4
      <3> QED BY <1>1, <3>2, <3>5
    <2>3. x.ok => x.code \in G[1][L]
      BY <1>8, <2>2
    <2> QED BY <1>4, <1>8, <1>9, <1>10, <2>1, <2>3
  <1> QED BY <1>12, <1>13

\* The recursion of Factors, one step.
LEMMA FactorsNext ==
    ASSUME NEW w, NEW n \in Nat, NEW may
    PROVE  /\ Factors(w, 0, may) = Level(w, Nothing(w), Nothing(w), may)
           /\ Factors(w, n + 1, may) = Level(w, Factors(w, n, may), Sums(w, Factors(w, n, may)), may)
  <1>1. PICK g : FactorsAt(w, n, may, g) /\ Factors(w, n, may) = g[n]
    BY FactorsDef
  <1>2. PICK h : FactorsAt(w, n + 1, may, h) /\ Factors(w, n + 1, may) = h[n + 1]
    BY FactorsDef
  <1>3. PICK f : FactorsAt(w, 0, may, f) /\ Factors(w, 0, may) = f[0]
    BY FactorsDef
  <1> DEFINE S == {m \in Nat : m <= n => g[m] = h[m]}
  <1>4. 0 \in S
    BY <1>1, <1>2 DEF FactorsAt
  <1>5. ASSUME NEW m \in Nat, m \in S PROVE m + 1 \in S
    <2> SUFFICES ASSUME m + 1 <= n PROVE g[m + 1] = h[m + 1]
      OBVIOUS
    <2>1. m + 1 \in 1..n /\ m + 1 \in 1..(n + 1) /\ (m + 1) - 1 = m /\ g[m] = h[m]
      BY <1>5
    <2>2. g[m + 1] = Level(w, g[m], Sums(w, g[m]), may)
      BY <1>1, <2>1 DEF FactorsAt
    <2>3. h[m + 1] = Level(w, h[m], Sums(w, h[m]), may)
      BY <1>2, <2>1 DEF FactorsAt
    <2> QED BY <2>1, <2>2, <2>3
  <1>6. n \in S
    <2> HIDE DEF S
    <2> QED BY <1>4, <1>5, SetInduction
  <1>7. h[n + 1] = Level(w, h[n], Sums(w, h[n]), may)
    <2>1. n + 1 \in 1..(n + 1) /\ (n + 1) - 1 = n
      OBVIOUS
    <2> QED BY <1>2, <2>1 DEF FactorsAt
  <1>8. f[0] = Level(w, Nothing(w), Nothing(w), may)
    BY <1>3 DEF FactorsAt
  <1> QED BY <1>1, <1>2, <1>3, <1>6, <1>7, <1>8

\* No span starts with a closing parenthesis.
Closed(w, G) == \A i \in Places(w) : \A j \in 0..Len(w) : G[i][j] # {} => Cur(w, i) # ")"

\* One grammar derives no more than another.
Within(w, G, H) == \A i \in Places(w) : \A j \in 0..Len(w) : G[i][j] \subseteq H[i][j]

\* A chain starts as its first operand does.
LEMMA ChainClosed ==
    ASSUME NEW w \in Seq(Tokens), NEW ops, NEW G, Closed(w, G)
    PROVE  Closed(w, Chain(w, ops, G))
  <1> DEFINE L == Len(w)
             D == Chain(w, ops, G)
  <1>1. L \in Nat /\ Places(w) = 1..(L + 1)
    BY DEF Places
  <1>2. \A i \in Places(w) : \A j \in 0..L : \A c : c \in D[i][j] <=> Link(w, ops, G, D, i, j, c)
    BY <1>1, ChainIs
  <1> HIDE DEF D
  <1> SUFFICES ASSUME NEW i \in Places(w), Cur(w, i) = ")" PROVE \A j \in 0..L : D[i][j] = {}
    BY DEF Closed, D
  <1> DEFINE S == {j \in Nat : j <= L => D[i][j] = {}}
  <1>3. ASSUME NEW j \in Nat, \A n \in 0..(j - 1) : n \in S PROVE j \in S
    <2> SUFFICES ASSUME j <= L, NEW c \in D[i][j] PROVE FALSE
      OBVIOUS
    <2>1. j \in 0..L /\ i \in Nat
      BY <1>1
    <2>2. G[i][j] = {}
      BY <2>1 DEF Closed
    <2>3. PICK m \in (i + 1)..(j - 1) : \E l \in D[i][m - 1] : TRUE
      BY <1>2, <2>1, <2>2 DEF Link
    <2>4. m - 1 \in 0..(j - 1) /\ m - 1 <= L
      BY <1>1, <2>1
    <2>5. m - 1 \in S
      BY <1>3, <2>4
    <2> QED BY <2>3, <2>4, <2>5
  <1>4. Nat \subseteq S
    <2> HIDE DEF S
    <2> QED BY <1>3, StrongInduction
  <1> QED BY <1>1, <1>4

\* No factor starts with a closing parenthesis.
LEMMA LevelClosed ==
    ASSUME NEW w \in Seq(Tokens), NEW below, NEW inner, NEW may
    PROVE  Closed(w, Level(w, below, inner, may))
  <1> SUFFICES ASSUME NEW i \in Places(w), NEW j \in 0..Len(w), Cur(w, i) = ")",
                      NEW c \in Level(w, below, inner, may)[i][j]
               PROVE  FALSE
    BY DEF Closed
  <1>1. w[i] = ")"
    <2>1. Cur(w, i) # EOF
      BY DEF EOF
    <2> QED BY <2>1, CurIs
  <1>2. /\ ")" \notin NumberTokens \cup StringTokens \cup ResRefs \cup DOMAIN InRefs
        /\ ")" \notin exprFuncs \cup {"rand"}
    BY Kinds
  <1>3. \/ IsAtom(w, i, j, c) \/ IsMinus(w, i, j, below, c)
        \/ IsParen(w, i, j, inner, c) \/ HasCall(w, i, j, inner, may, c)
    BY LevelHas
  <1> QED BY <1>1, <1>2, <1>3 DEF IsAtom, IsMinus, IsParen, HasCall

\* Factors of any nesting are those of some level.
LEMMA FactorsClosed ==
    ASSUME NEW w \in Seq(Tokens), NEW n \in Nat, NEW may
    PROVE  Closed(w, Factors(w, n, may)) /\ Closed(w, Sums(w, Factors(w, n, may)))
  <1>1. PICK F : F = Factors(w, n, may)
    OBVIOUS
  <1>2. Closed(w, F)
    <2>1. CASE n = 0
      <3>1. F = Level(w, Nothing(w), Nothing(w), may)
        BY <1>1, <2>1, FactorsNext
      <3> QED BY <3>1, LevelClosed
    <2>2. CASE n # 0
      <3>1. PICK m \in Nat : m + 1 = n
        <4>1. n - 1 \in Nat /\ (n - 1) + 1 = n
          BY <2>2
        <4> QED BY <4>1
      <3>2. F = Level(w, Factors(w, m, may), Sums(w, Factors(w, m, may)), may)
        BY <1>1, <3>1, FactorsNext
      <3> QED BY <3>2, LevelClosed
    <2> QED BY <2>1, <2>2
  <1>3. PICK C : C = Chain(w, {"*", "/", "%"}, F)
    OBVIOUS
  <1>4. Closed(w, C)
    BY <1>2, <1>3, ChainClosed
  <1>5. Closed(w, Sums(w, F))
    BY <1>3, <1>4, ChainClosed DEF Sums
  <1> QED BY <1>1, <1>2, <1>5

\* More operands make no fewer chains.
LEMMA ChainWithin ==
    ASSUME NEW w \in Seq(Tokens), NEW ops, NEW G, NEW H, Within(w, G, H)
    PROVE  Within(w, Chain(w, ops, G), Chain(w, ops, H))
  <1> DEFINE L == Len(w)
             D == Chain(w, ops, G)
             E == Chain(w, ops, H)
  <1>1. L \in Nat /\ Places(w) = 1..(L + 1)
    BY DEF Places
  <1>2. \A i \in Places(w) : \A j \in 0..L : \A c :
           /\ c \in D[i][j] <=> Link(w, ops, G, D, i, j, c)
           /\ c \in E[i][j] <=> Link(w, ops, H, E, i, j, c)
    BY <1>1, ChainIs
  <1> HIDE DEF D, E
  <1> SUFFICES ASSUME NEW i \in Places(w) PROVE \A j \in 0..L : D[i][j] \subseteq E[i][j]
    BY DEF Within, D, E
  <1> DEFINE S == {j \in Nat : j <= L => D[i][j] \subseteq E[i][j]}
  <1>3. ASSUME NEW j \in Nat, \A n \in 0..(j - 1) : n \in S PROVE j \in S
    <2> SUFFICES ASSUME j <= L, NEW c \in D[i][j] PROVE c \in E[i][j]
      OBVIOUS
    <2>1. j \in 0..L /\ i \in Nat
      BY <1>1
    <2>2. G[i][j] \subseteq H[i][j]
      BY <2>1 DEF Within
    <2>3. ASSUME NEW n \in (i + 1)..(j - 1)
          PROVE  D[i][n - 1] \subseteq E[i][n - 1] /\ G[n + 1][j] \subseteq H[n + 1][j]
      <3>1. n - 1 \in 0..(j - 1) /\ n - 1 <= L
        BY <1>1, <2>1
      <3>2. n + 1 \in Places(w)
        BY <1>1, <2>1
      <3>3. n - 1 \in S
        BY <1>3, <3>1
      <3> QED BY <2>1, <3>1, <3>2, <3>3 DEF Within
    <2>4. Link(w, ops, G, D, i, j, c)
      BY <1>2, <2>1
    <2>5. Link(w, ops, H, E, i, j, c)
      BY <2>2, <2>3, <2>4, Zenon DEF Link
    <2> QED BY <1>2, <2>1, <2>5
  <1>4. Nat \subseteq S
    <2> HIDE DEF S
    <2> QED BY <1>3, StrongInduction
  <1> QED BY <1>1, <1>4

\* And no fewer sums.
LEMMA SumsWithin ==
    ASSUME NEW w \in Seq(Tokens), NEW G, NEW H, Within(w, G, H)
    PROVE  Within(w, Sums(w, G), Sums(w, H))
  <1>1. PICK C : C = Chain(w, {"*", "/", "%"}, G)
    OBVIOUS
  <1>2. PICK D : D = Chain(w, {"*", "/", "%"}, H)
    OBVIOUS
  <1>3. Within(w, C, D)
    BY <1>1, <1>2, ChainWithin
  <1> QED BY <1>1, <1>2, <1>3, ChainWithin DEF Sums

\* A factor takes no liberty that its expression has no room for.
LEMMA LevelWithin ==
    ASSUME NEW w \in Seq(Tokens), NEW may \in SUBSET Liberties, NEW free, may \cap Taken(w) \subseteq free,
           NEW B, NEW C, Within(w, B, C), NEW I, NEW J, Within(w, I, J), Closed(w, I)
    PROVE  Within(w, Level(w, B, I, may), Level(w, C, J, free))
  <1> DEFINE L == Len(w)
  <1>1. L \in Nat /\ Places(w) = 1..(L + 1)
    BY DEF Places
  <1>9. \A n \in 1..L : Cur(w, n) = w[n]
    BY DEF Cur
  <1> SUFFICES ASSUME NEW i \in Places(w), NEW j \in 0..L, NEW c \in Level(w, B, I, may)[i][j]
               PROVE  c \in Level(w, C, J, free)[i][j]
    BY DEF Within
  <1>2. ASSUME NEW liberty \in may, NEW p \in 1..L,
               \/ liberty = "minuses" /\ w[p] = "-" /\ Cur(w, p + 1) = "-"
               \/ liberty = "literal" /\ w[p] = "')'"
               \/ liberty = "arguments" /\ w[p] = "rand" /\ Cur(w, p + 1) = "(" /\ Cur(w, p + 2) # ")"
        PROVE  liberty \in free
    <2>1. liberty \in Taken(w)
      BY <1>2 DEF Taken
    <2> QED BY <2>1
  <1>3. ClosedBy(w[j], may) /\ j \in 1..L => ClosedBy(w[j], free)
    BY <1>2 DEF ClosedBy
  <1>4. j > i + 1 => /\ i \in 1..L /\ j \in 1..L /\ i + 1 \in Places(w) /\ i + 2 \in Places(w)
                     /\ j - 1 \in 0..L /\ i + 1 \in 1..L
    BY <1>1
  <1>5. CASE IsAtom(w, i, j, c)
    BY <1>1, <1>5, LevelHas
  <1>6. CASE IsMinus(w, i, j, B, c) /\ ("minuses" \in may \/ Cur(w, i + 1) # "-")
    <2>1. i \in 1..L /\ i + 1 \in Places(w) /\ w[i] = "-"
      BY <1>1, <1>6 DEF IsMinus
    <2>2. B[i + 1][j] \subseteq C[i + 1][j]
      BY <2>1 DEF Within
    <2>3. IsMinus(w, i, j, C, c)
      BY <1>6, <2>2 DEF IsMinus
    <2>4. "minuses" \in free \/ Cur(w, i + 1) # "-"
      BY <1>2, <1>6, <2>1
    <2> QED BY <1>1, <2>3, <2>4, LevelHas
  <1>7. CASE IsParen(w, i, j, I, c) /\ ClosedBy(w[j], may)
    <2>1. j > i + 1
      BY <1>7 DEF IsParen
    <2>2. I[i + 1][j - 1] \subseteq J[i + 1][j - 1]
      BY <1>4, <2>1 DEF Within
    <2>3. IsParen(w, i, j, J, c)
      BY <1>7, <2>2 DEF IsParen
    <2>4. ClosedBy(w[j], free)
      BY <1>3, <1>4, <1>7, <2>1
    <2> QED BY <1>1, <2>3, <2>4, LevelHas
  <1>8. CASE HasCall(w, i, j, I, may, c)
    <2>1. /\ j > i + 1 /\ w[i] \in exprFuncs \cup {"rand"} /\ w[i + 1] = "(" /\ ClosedBy(w[j], may)
          /\ \/ j = i + 2 /\ w[j] = ")" /\ c = << <<w[i], 0>> >>
             \/ /\ w[i] # "rand" \/ "arguments" \in may
                /\ \E b \in Chain(w, {","}, I)[i + 2][j - 1] : c = Append(b, <<w[i], 1>>)
      BY <1>8 DEF HasCall
    <2>2. ClosedBy(w[j], free)
      BY <1>3, <1>4, <2>1
    <2>3. CASE j = i + 2 /\ w[j] = ")" /\ c = << <<w[i], 0>> >>
      <3>1. HasCall(w, i, j, J, free, c)
        BY <2>1, <2>2, <2>3 DEF HasCall
      <3> QED BY <1>1, <3>1, LevelHas
    <2>4. ASSUME w[i] # "rand" \/ "arguments" \in may,
                 NEW b \in Chain(w, {","}, I)[i + 2][j - 1], c = Append(b, <<w[i], 1>>)
          PROVE  c \in Level(w, C, J, free)[i][j]
      <3>1. Within(w, Chain(w, {","}, I), Chain(w, {","}, J)) /\ Closed(w, Chain(w, {","}, I))
        BY ChainWithin, ChainClosed
      <3>2. b \in Chain(w, {","}, J)[i + 2][j - 1] /\ Cur(w, i + 2) # ")"
        <4>1. PICK D : D = Chain(w, {","}, I)
          OBVIOUS
        <4>2. PICK E : E = Chain(w, {","}, J)
          OBVIOUS
        <4>3. b \in D[i + 2][j - 1] /\ Within(w, D, E) /\ Closed(w, D)
          BY <2>4, <3>1, <4>1, <4>2
        <4>4. i + 2 \in Places(w) /\ j - 1 \in 0..L
          BY <1>4, <2>1
        <4>5. D[i + 2][j - 1] \subseteq E[i + 2][j - 1]
          BY <4>3, <4>4 DEF Within
        <4>6. D[i + 2][j - 1] # {}
          BY <4>3
        <4>7. Cur(w, i + 2) # ")"
          BY <4>3, <4>4, <4>6 DEF Closed
        <4> QED BY <4>2, <4>3, <4>5, <4>7
      <3>3. Cur(w, i + 1) = "("
        <4>1. PICK k \in 1..L : k = i + 1
          BY <1>4, <2>1
        <4> QED BY <1>9, <2>1, <4>1
      <3>4. w[i] # "rand" \/ "arguments" \in free
        BY <1>2, <1>4, <2>1, <2>4, <3>2, <3>3
      <3>5. HasCall(w, i, j, J, free, c)
        BY <2>1, <2>2, <2>4, <3>2, <3>4 DEF HasCall
      <3> QED BY <1>1, <3>5, LevelHas
    <2> QED BY <2>1, <2>3, <2>4
  <1> QED BY <1>1, <1>5, <1>6, <1>7, <1>8, LevelHas

\* A derivation needs no liberty but those its expression has room for.
LEMMA FewerLiberties ==
    ASSUME NEW w \in Seq(Tokens), NEW n \in Nat, NEW may \in SUBSET Liberties, NEW free,
           may \cap Taken(w) \subseteq free
    PROVE  Derivations(w, n, may) \subseteq Derivations(w, n, free)
  <1> DEFINE S == {m \in Nat : Within(w, Factors(w, m, may), Factors(w, m, free))}
  <1>1. 0 \in S
    <2>1. PICK N : N = Nothing(w)
      OBVIOUS
    <2>2. Within(w, N, N) /\ Closed(w, N)
      BY <2>1 DEF Nothing, Within, Closed
    <2>3. Within(w, Level(w, N, N, may), Level(w, N, N, free))
      BY <2>2, LevelWithin
    <2> QED BY <2>1, <2>3, FactorsNext
  <1>2. ASSUME NEW m \in Nat, m \in S PROVE m + 1 \in S
    <2>1. PICK B : B = Factors(w, m, may)
      OBVIOUS
    <2>2. PICK C : C = Factors(w, m, free)
      OBVIOUS
    <2>3. Within(w, B, C)
      BY <1>2, <2>1, <2>2
    <2>4. Within(w, Sums(w, B), Sums(w, C)) /\ Closed(w, Sums(w, B))
      BY <2>1, <2>3, SumsWithin, FactorsClosed
    <2>5. Within(w, Level(w, B, Sums(w, B), may), Level(w, C, Sums(w, C), free))
      BY <2>3, <2>4, LevelWithin
    <2>6. /\ Factors(w, m + 1, may) = Level(w, B, Sums(w, B), may)
          /\ Factors(w, m + 1, free) = Level(w, C, Sums(w, C), free)
      BY <2>1, <2>2, FactorsNext
    <2> QED BY <2>5, <2>6
  <1>3. n \in S
    <2> HIDE DEF S
    <2> QED BY <1>1, <1>2, SetInduction
  <1>4. Within(w, Sums(w, Factors(w, n, may)), Sums(w, Factors(w, n, free)))
    BY <1>3, SumsWithin
  <1>5. 1 \in Places(w) /\ Len(w) \in 0..Len(w)
    BY DEF Places
  <1> QED BY <1>4, <1>5 DEF Within, Derivations

\* For every expression of every vocabulary the recursive descent accepts all
\* that the grammar above evalExpr derives within the nesting bound, and what it
\* accepts besides takes one of the three liberties; there is one derivation.
THEOREM DescentParsesGrammar == Spec => []ParsesGrammar
  <1>1. TypeInv => ParsesGrammar
    <2> SUFFICES ASSUME TypeInv, about \in Exprs PROVE ParsesGrammar
      BY DEF ParsesGrammar
    <2>1. word \in Seq(Tokens)
      BY DEF TypeInv
    <2>2. PICK v : v = Outcome
      OBVIOUS
    <2>3. PICK n \in Nat : n = maxExprDepth - 1
      BY GrammarAssumption
    <2>4. /\ v.ok \in BOOLEAN
          /\ v.ok => v.code \in Derivations(word, n, Liberties)
          /\ \A c \in Derivations(word, n, Liberties) : v.ok /\ v.code = c
      BY <2>1, <2>2, <2>3, ParseIs, GrammarAssumption DEF Outcome, EvalExpr, Results
    <2>5. PICK accepted : accepted = IF v.ok THEN {v.code} ELSE {}
      OBVIOUS
    <2>6. accepted = Derivations(word, n, Liberties)
      BY <2>4, <2>5
    <2>7. Taken(word) \in SUBSET Liberties /\ {} \in SUBSET Liberties
      BY DEF Taken
    <2>8. Derivations(word, n, {}) \subseteq accepted
      BY <2>1, <2>6, <2>7, FewerLiberties
    <2>9. Liberties \cap Taken(word) \subseteq Taken(word) /\ Taken(word) \cap Taken(word) \subseteq Liberties
      BY <2>7
    <2>10. accepted = Derivations(word, n, Taken(word))
      <3>1. Derivations(word, n, Liberties) \subseteq Derivations(word, n, Taken(word))
        BY <2>1, <2>9, FewerLiberties
      <3>2. Derivations(word, n, Taken(word)) \subseteq Derivations(word, n, Liberties)
        BY <2>1, <2>7, <2>9, FewerLiberties
      <3> QED BY <2>6, <3>1, <3>2
    <2>11. \A c1, c2 \in Derivations(word, Len(word), Liberties) : c1 = c2
      BY <2>1, Unambiguous
    <2> QED BY <2>2, <2>3, <2>5, <2>8, <2>10, <2>11 DEF ParsesGrammar
  <1> QED BY <1>1, TypesHold, PTL

\* Whatever the expression, the descent needs no more frames than the nesting
\* bound allows for.
THEOREM StackIsBounded == Spec => []StackBounded
  <1>1. TypeInv => StackBounded
    <2> SUFFICES ASSUME TypeInv, about \in Exprs PROVE Outcome.deep <= 5 * maxExprDepth + 1
      BY DEF StackBounded
    <2>1. word \in Seq(Tokens)
      BY DEF TypeInv
    <2> QED BY <2>1, ParseIs, GrammarAssumption DEF Outcome, EvalExpr
  <1> QED BY <1>1, TypesHold, PTL

\* What validateExpr lets through reads declared inputs only and fails at run
\* time only where no derivation exists.
THEOREM ValidatedExpressionsRun == Spec => []ValidatedRuns
  <1>1. TypeInv => ValidatedRuns
    <2> SUFFICES ASSUME TypeInv, about \in Exprs, ValidateExpr(word) PROVE ValidatedRuns
      BY DEF ValidatedRuns
    <2>1. word \in Seq(Tokens)
      BY DEF TypeInv
    <2>2. PICK v : v = Outcome
      OBVIOUS
    <2>3. v \in Results(word) /\ \A c \in Derivations(word, maxExprDepth - 1, Liberties) : v.ok
      BY <2>1, <2>2, ParseIs, GrammarAssumption DEF Outcome, EvalExpr
    <2>4. ASSUME NEW n \in DOMAIN v.code, v.code[n][1] \in DOMAIN InRefs
          PROVE  InRefs[v.code[n][1]] \in formKeys
      <3>1. PICK t : t = v.code[n][1]
        OBVIOUS
      <3>2. v.code \in Seq(ToSet(word) \X {0, 1, 2})
        BY <2>3 DEF Results, Codes
      <3>3. t \in ToSet(word)
        BY <2>4, <3>1, <3>2
      <3>4. PICK p \in DOMAIN word : word[p] = t
        BY <3>3 DEF ToSet
      <3>5. t \in DOMAIN InRefs /\ t \in NameTokens /\ t \notin exprFuncs \cup {"rand"} \cup ResRefs
        BY <2>4, <3>1, GrammarAssumption
      <3>6. ValidIdent(t)
        BY <3>4, <3>5 DEF ValidateExpr
      <3> QED BY <3>1, <3>5, <3>6 DEF ValidIdent
    <2> QED BY <2>2, <2>3, <2>4 DEF ValidatedRuns
  <1> QED BY <1>1, TypesHold, PTL

----------------------------------------------------------------------------
(* The nesting bound is no bound on what n tokens can say                  *)

\* The same on spans of at most m + 1 tokens.
Near(w, G, H, m) ==
    \A i \in Places(w) : \A j \in 0..Len(w) : j - i <= m => G[i][j] = H[i][j]

\* Chains of operands that agree on short spans do.
LEMMA ChainNear ==
    ASSUME NEW w \in Seq(Tokens), NEW ops, NEW G, NEW H, NEW m \in Int, Near(w, G, H, m)
    PROVE  Near(w, Chain(w, ops, G), Chain(w, ops, H), m)
  <1> DEFINE L == Len(w)
             D == Chain(w, ops, G)
             E == Chain(w, ops, H)
  <1>1. L \in Nat /\ Places(w) = 1..(L + 1)
    BY DEF Places
  <1>2. \A i \in Places(w) : \A j \in 0..L : \A c :
           /\ c \in D[i][j] <=> Link(w, ops, G, D, i, j, c)
           /\ c \in E[i][j] <=> Link(w, ops, H, E, i, j, c)
    BY <1>1, ChainIs
  <1> HIDE DEF D, E
  <1> SUFFICES ASSUME NEW i \in Places(w)
               PROVE  \A j \in 0..L : j - i <= m => D[i][j] = E[i][j]
    BY DEF Near, D, E
  <1> DEFINE S == {j \in Nat : j <= L /\ j - i <= m => D[i][j] = E[i][j]}
  <1>3. ASSUME NEW j \in Nat, \A n \in 0..(j - 1) : n \in S PROVE j \in S
    <2> SUFFICES ASSUME j <= L, j - i <= m PROVE D[i][j] = E[i][j]
      OBVIOUS
    <2>1. j \in 0..L /\ i \in Nat
      BY <1>1
    <2>2. G[i][j] = H[i][j]
      BY <2>1 DEF Near
    <2>3. ASSUME NEW n \in (i + 1)..(j - 1)
          PROVE  D[i][n - 1] = E[i][n - 1] /\ G[n + 1][j] = H[n + 1][j]
      <3>1. n - 1 \in 0..(j - 1) /\ n - 1 <= L /\ (n - 1) - i <= m
        BY <1>1, <2>1
      <3>2. n + 1 \in Places(w) /\ j - (n + 1) <= m
        BY <1>1, <2>1
      <3>3. n - 1 \in S
        BY <1>3, <3>1
      <3> QED BY <2>1, <3>1, <3>2, <3>3 DEF Near
    <2>4. \A c : Link(w, ops, G, D, i, j, c) <=> Link(w, ops, H, E, i, j, c)
      BY <2>2, <2>3, Zenon DEF Link
    <2> QED BY <1>2, <2>1, <2>4
  <1>4. Nat \subseteq S
    <2> HIDE DEF S
    <2> QED BY <1>3, StrongInduction
  <1> QED BY <1>1, <1>4

\* And so do sums.
LEMMA SumsNear ==
    ASSUME NEW w \in Seq(Tokens), NEW G, NEW H, NEW m \in Int, Near(w, G, H, m)
    PROVE  Near(w, Sums(w, G), Sums(w, H), m)
  <1>1. PICK C : C = Chain(w, {"*", "/", "%"}, G)
    OBVIOUS
  <1>2. PICK D : D = Chain(w, {"*", "/", "%"}, H)
    OBVIOUS
  <1>3. Near(w, C, D, m)
    BY <1>1, <1>2, ChainNear
  <1> QED BY <1>1, <1>2, <1>3, ChainNear DEF Sums

\* A factor is one token longer than what it negates or encloses.
LEMMA LevelNear ==
    ASSUME NEW w \in Seq(Tokens), NEW m \in Int,
           NEW B, NEW C, Near(w, B, C, m), NEW I, NEW J, Near(w, I, J, m)
    PROVE  Near(w, Level(w, B, I, Liberties), Level(w, C, J, Liberties), m + 1)
  <1> DEFINE L == Len(w)
  <1>1. L \in Nat /\ Places(w) = 1..(L + 1)
    BY DEF Places
  <1> SUFFICES ASSUME NEW i \in Places(w), NEW j \in 0..L, j - i <= m + 1
               PROVE  Level(w, B, I, Liberties)[i][j] = Level(w, C, J, Liberties)[i][j]
    BY DEF Near
  <1>2. ASSUME NEW c PROVE IsMinus(w, i, j, B, c) <=> IsMinus(w, i, j, C, c)
    <2>1. i <= j => i + 1 \in Places(w) /\ j - (i + 1) <= m
      BY <1>1
    <2>2. i <= j => B[i + 1][j] = C[i + 1][j]
      BY <2>1 DEF Near
    <2> QED BY <2>2 DEF IsMinus
  <1>3. j > i + 1 => /\ i + 1 \in Places(w) /\ i + 2 \in Places(w) /\ j - 1 \in 0..L
                     /\ (j - 1) - (i + 1) <= m /\ (j - 1) - (i + 2) <= m
    BY <1>1
  <1>4. ASSUME NEW c PROVE IsParen(w, i, j, I, c) <=> IsParen(w, i, j, J, c)
    <2>1. j > i + 1 => I[i + 1][j - 1] = J[i + 1][j - 1]
      BY <1>3 DEF Near
    <2> QED BY <2>1 DEF IsParen
  <1>5. ASSUME NEW c PROVE IsCall(w, i, j, I, c) <=> IsCall(w, i, j, J, c)
    <2>1. Near(w, Chain(w, {","}, I), Chain(w, {","}, J), m)
      BY ChainNear
    <2>2. j > i + 1 => Chain(w, {","}, I)[i + 2][j - 1] = Chain(w, {","}, J)[i + 2][j - 1]
      BY <1>3, <2>1 DEF Near
    <2> QED BY <2>2 DEF IsCall
  <1>6. ASSUME NEW c PROVE c \in Level(w, B, I, Liberties)[i][j] <=> c \in Level(w, C, J, Liberties)[i][j]
    <2>1. c \in Level(w, B, I, Liberties)[i][j] <=>
               \/ IsAtom(w, i, j, c) \/ IsMinus(w, i, j, B, c)
               \/ IsParen(w, i, j, I, c) \/ IsCall(w, i, j, I, c)
      BY <1>1, LevelIs
    <2>2. c \in Level(w, C, J, Liberties)[i][j] <=>
               \/ IsAtom(w, i, j, c) \/ IsMinus(w, i, j, C, c)
               \/ IsParen(w, i, j, J, c) \/ IsCall(w, i, j, J, c)
      BY <1>1, LevelIs
    <2> QED BY <1>2, <1>4, <1>5, <2>1, <2>2
  <1>7. PICK X : X = Level(w, B, I, Liberties)[i][j]
    OBVIOUS
  <1>8. PICK Y : Y = Level(w, C, J, Liberties)[i][j]
    OBVIOUS
  <1>9. \A c : c \in X <=> c \in Y
    BY <1>6, <1>7, <1>8
  <1>10. X = Y
    BY <1>9
  <1> QED BY <1>7, <1>8, <1>10

\* What may be nested n levels deep and what may be nested k levels is the same
\* as far as the smaller of them goes.
LEMMA FactorsNear ==
    ASSUME NEW w \in Seq(Tokens), NEW m \in Nat, NEW n \in Nat, NEW k \in Nat, m <= n, m <= k
    PROVE  Near(w, Factors(w, n, Liberties), Factors(w, k, Liberties), m)
  <1> DEFINE Empty(G) == \A i \in Places(w) : \A j \in 0..Len(w) : j - i <= -1 => G[i][j] = {}
             S == {l \in Nat : \A a, b \in Nat :
                     l <= a /\ l <= b => Near(w, Factors(w, a, Liberties), Factors(w, b, Liberties), l)}
  <1>1. ASSUME NEW a \in Nat
        PROVE  \E B : \E I : Factors(w, a, Liberties) = Level(w, B, I, Liberties) /\ Empty(B) /\ Empty(I)
    <2>1. CASE a = 0
      <3>1. PICK N : N = Nothing(w)
        OBVIOUS
      <3>2. Empty(N)
        BY <3>1 DEF Nothing
      <3>3. Factors(w, a, Liberties) = Level(w, N, N, Liberties)
        BY <2>1, <3>1, FactorsNext
      <3> QED BY <3>2, <3>3
    <2>2. CASE a # 0
      <3>1. PICK d \in Nat : d + 1 = a
        <4>1. a - 1 \in Nat /\ (a - 1) + 1 = a
          BY <2>2
        <4> QED BY <4>1
      <3>2. PICK B : B = Factors(w, d, Liberties)
        OBVIOUS
      <3>3. PICK I : I = Sums(w, B)
        OBVIOUS
      <3>4. Factors(w, a, Liberties) = Level(w, B, I, Liberties)
        BY <3>1, <3>2, <3>3, FactorsNext
      <3>5. Filled(w, B) /\ Filled(w, I)
        <4>1. a \in Nat \ {0} /\ a - 1 = d
          BY <2>2, <3>1
        <4> QED BY <3>2, <3>3, <4>1, UnaryParses, DerivationsParse DEF Parses
      <3>6. \A i \in Places(w) : \A j \in 0..Len(w) : j - i <= -1 => ~(i <= j)
        BY DEF Places
      <3>7. Empty(B) /\ Empty(I)
        BY <3>5, <3>6 DEF Filled
      <3> QED BY <3>4, <3>7
    <2> QED BY <2>1, <2>2
  <1>2. 0 \in S
    <2> SUFFICES ASSUME NEW a \in Nat, NEW b \in Nat PROVE Near(w, Factors(w, a, Liberties), Factors(w, b, Liberties), 0)
      OBVIOUS
    <2>1. PICK B, I : Factors(w, a, Liberties) = Level(w, B, I, Liberties) /\ Empty(B) /\ Empty(I)
      BY <1>1
    <2>2. PICK C, J : Factors(w, b, Liberties) = Level(w, C, J, Liberties) /\ Empty(C) /\ Empty(J)
      BY <1>1
    <2>3. Near(w, B, C, -1) /\ Near(w, I, J, -1)
      BY <2>1, <2>2 DEF Near
    <2>4. Near(w, Level(w, B, I, Liberties), Level(w, C, J, Liberties), -1 + 1)
      BY <2>3, LevelNear
    <2> QED BY <2>1, <2>2, <2>4
  <1>3. ASSUME NEW l \in Nat, l \in S PROVE l + 1 \in S
    <2> SUFFICES ASSUME NEW a \in Nat, NEW b \in Nat, l + 1 <= a, l + 1 <= b
                 PROVE  Near(w, Factors(w, a, Liberties), Factors(w, b, Liberties), l + 1)
      OBVIOUS
    <2>1. PICK x \in Nat : x + 1 = a /\ l <= x
      <3>1. a - 1 \in Nat /\ (a - 1) + 1 = a /\ l <= a - 1
        OBVIOUS
      <3> QED BY <3>1
    <2>2. PICK y \in Nat : y + 1 = b /\ l <= y
      <3>1. b - 1 \in Nat /\ (b - 1) + 1 = b /\ l <= b - 1
        OBVIOUS
      <3> QED BY <3>1
    <2>3. PICK B : B = Factors(w, x, Liberties)
      OBVIOUS
    <2>4. PICK C : C = Factors(w, y, Liberties)
      OBVIOUS
    <2>5. Near(w, B, C, l)
      BY <1>3, <2>1, <2>2, <2>3, <2>4
    <2>6. Near(w, Sums(w, B), Sums(w, C), l)
      BY <2>5, SumsNear
    <2>7. Near(w, Level(w, B, Sums(w, B), Liberties), Level(w, C, Sums(w, C), Liberties), l + 1)
      BY <2>5, <2>6, LevelNear
    <2>8. /\ Factors(w, a, Liberties) = Level(w, B, Sums(w, B), Liberties)
          /\ Factors(w, b, Liberties) = Level(w, C, Sums(w, C), Liberties)
      BY ZenonT(30), <2>1, <2>2, <2>3, <2>4, FactorsNext
    <2> QED BY <2>7, <2>8
  <1>4. m \in S
    <2> HIDE DEF S
    <2> QED BY <1>2, <1>3, SetInduction
  <1> QED BY <1>4

\* An expression of no more tokens than the nesting bound is never refused for
\* its nesting: it is parsed as the grammar derives it with any deeper nesting
\* allowed.
THEOREM ShortExpressionsParse ==
    ASSUME NEW w \in Seq(Tokens), Len(w) <= maxExprDepth, NEW n \in Nat, Len(w) <= n + 1
    PROVE  (IF EvalExpr(w).ok THEN {EvalExpr(w).code} ELSE {}) = Derivations(w, n, Liberties)
  <1>1. PICK max \in Nat \ {0} : max = maxExprDepth
    BY GrammarAssumption
  <1>2. PICK k \in Nat : k = max - 1 /\ Len(w) <= k + 1
    <2>1. max - 1 \in Nat /\ Len(w) <= (max - 1) + 1
      BY <1>1
    <2> QED BY <2>1
  <1>3. PICK m \in Nat : m <= n /\ m <= k /\ Len(w) - 1 <= m
    <2>1. CASE Len(w) = 0
      <3>1. 0 <= n /\ 0 <= k /\ Len(w) - 1 <= 0
        BY <2>1
      <3> QED BY <3>1
    <2>2. CASE Len(w) # 0
      <3>1. Len(w) - 1 \in Nat /\ Len(w) - 1 <= n /\ Len(w) - 1 <= k
        BY <1>2, <2>2
      <3> QED BY <3>1
    <2> QED BY <2>1, <2>2
  <1>4. Near(w, Sums(w, Factors(w, k, Liberties)), Sums(w, Factors(w, n, Liberties)), m)
    BY <1>3, FactorsNear, SumsNear
  <1>5. Derivations(w, k, Liberties) = Derivations(w, n, Liberties)
    <2>1. 1 \in Places(w) /\ Len(w) \in 0..Len(w)
      BY DEF Places
    <2> QED BY <1>3, <1>4, <2>1 DEF Near, Derivations
  <1>6. PICK v : v = EvalExpr(w)
    OBVIOUS
  <1>7. /\ v.ok \in BOOLEAN
        /\ v.ok => v.code \in Derivations(w, k, Liberties)
        /\ \A c \in Derivations(w, k, Liberties) : v.ok /\ v.code = c
    BY <1>1, <1>2, <1>6, ParseIs DEF EvalExpr, Results
  <1> QED BY <1>5, <1>6, <1>7

=============================================================================
