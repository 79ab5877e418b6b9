---------------------------- MODULE WidgetProofs ----------------------------
(***************************************************************************)
(* What Widget promises of a load, of the calls it makes, of the filters it *)
(* reads and of the summaries its tiles show, for every base, catalog,      *)
(* table, view and every sequence of edits while it loads.                  *)
(*                                                                          *)
(* The model is written with recursive functions (Where, Total), so what    *)
(* they compute is proved by induction on a sequence: the induction lemmas  *)
(* below take the set of the sequences that satisfy a predicate where the   *)
(* library's take the predicate.                                            *)
(***************************************************************************)
EXTENDS Widget, FiniteSetTheorems, SequenceTheorems, TLAPS

----------------------------------------------------------------------------
(* Induction, filtered sequences and sums                                  *)

\* A set of naturals that has 0 and every successor of its own has them all:
\* induction, with a set for the predicate.
LEMMA SetInduction ==
    ASSUME NEW S, 0 \in S, \A n \in Nat : n \in S => n + 1 \in S
    PROVE  Nat \subseteq S
  <1> SUFFICES ASSUME NEW n \in Nat, n \notin S PROVE FALSE
    OBVIOUS
  <1> DEFINE M == {m \in 1..n : m \notin S}
             f == [m \in M |-> m - 1]
  <1>1. n \in M /\ \A m \in M : m - 1 \in M
    OBVIOUS
  <1>2. IsFiniteSet(M)
    <2>1. IsFiniteSet(1..n) /\ M \in SUBSET (1..n)
      BY FS_Interval
    <2> QED
      BY <2>1, FS_Subset
  <1>3. f \in Injection(M, M)
    BY <1>1 DEF Injection, IsInjective
  <1>4. f \in Surjection(M, M)
    BY <1>2, <1>3, FS_Injection
  <1>5. PICK m \in M : f[m] = n
    BY <1>1, <1>4 DEF Surjection
  <1> QED
    BY <1>5

\* Induction on a sequence, last element first.
LEMMA SeqInduction ==
    ASSUME NEW R, NEW S, <<>> \in S,
           \A s \in Seq(R), x \in R : s \in S => Append(s, x) \in S
    PROVE  Seq(R) \subseteq S
  <1> DEFINE N == {n \in Nat : \A s \in Seq(R) : Len(s) = n => s \in S}
  <1>1. 0 \in N
    BY EmptySeq
  <1>2. ASSUME NEW n \in Nat, n \in N PROVE n + 1 \in N
    <2> SUFFICES ASSUME NEW s \in Seq(R), Len(s) = n + 1 PROVE s \in S
      BY <1>2
    <2> DEFINE t == SubSeq(s, 1, n)
    <2>1. /\ t \in Seq(R) /\ Len(t) = n /\ s[n + 1] \in R
          /\ \A i \in 1..n : t[i] = s[i]
      BY SubSeqProperties
    <2>2. s = Append(t, s[n + 1])
      <3> HIDE DEF t
      <3>1. Append(t, s[n + 1]) \in Seq(R) /\ Len(Append(t, s[n + 1])) = n + 1
        BY <2>1
      <3>2. \A i \in 1..(n + 1) : s[i] = Append(t, s[n + 1])[i]
        BY <2>1
      <3> QED
        BY <3>1, <3>2, SeqEqual
    <2>3. t \in S
      BY <1>2, <2>1
    <2> HIDE DEF t
    <2> QED
      BY <2>1, <2>2, <2>3
  <1>3. Nat \subseteq N
    <2> HIDE DEF N
    <2> QED BY <1>1, <1>2, SetInduction
  <1> QED
    BY <1>3

\* s kept at the places of I, up to its i-th element.
KeptAt(s, I, k) ==
    /\ k[0] = <<>>
    /\ \A i \in 1..Len(s) : k[i] = IF i \in I THEN Append(k[i - 1], s[i]) ELSE k[i - 1]

\* The recursion of Where has a solution, and Where is its last value.
LEMMA WhereDef ==
    ASSUME NEW R, NEW s \in Seq(R), NEW I
    PROVE  \E k \in [0..Len(s) -> Seq(R)] : KeptAt(s, I, k) /\ Where(s, I) = k[Len(s)]
  <1> DEFINE step(p, i) == IF i \in I THEN Append(p, s[i]) ELSE p
             Rec(k, m) == k[0] = <<>> /\ \A i \in 1..m : k[i] = step(k[i - 1], i)
             Kept(k) == k = [i \in 0..Len(s) |-> IF i = 0 THEN <<>> ELSE step(k[i - 1], i)]
             Some(m) == \E k \in [0..m -> Seq(R)] : Rec(k, m)
             N == {m \in Nat : m <= Len(s) => Some(m)}
  <1>1. <<>> \in Seq(R) /\ Len(s) \in Nat
    BY EmptySeq
  <1>2. \A p \in Seq(R), i \in 1..Len(s) : step(p, i) \in Seq(R)
    BY AppendProperties
  <1> HIDE DEF step
  <1>3. ASSUME NEW k, Kept(k)
        PROVE  k = [i \in 0..Len(s) |-> k[i]] /\ Rec(k, Len(s))
    <2>1. DOMAIN k = 0..Len(s) /\ k = [i \in 0..Len(s) |-> k[i]]
      BY <1>3, Zenon
    <2>2. \A i \in 0..Len(s) : k[i] = IF i = 0 THEN <<>> ELSE step(k[i - 1], i)
      BY <1>3, Zenon
    <2> HIDE DEF Kept
    <2> QED BY <1>1, <2>1, <2>2
  <1>4. ASSUME NEW k \in [0..Len(s) -> Seq(R)], Rec(k, Len(s))
        PROVE  Kept(k)
    <2>1. \A i \in 0..Len(s) : k[i] = IF i = 0 THEN <<>> ELSE step(k[i - 1], i)
      BY <1>1, <1>4
    <2> QED BY <2>1
  <1>5. Some(0)
    <2> DEFINE k == [i \in 0..0 |-> <<>>]
    <2>1. k \in [0..0 -> Seq(R)] /\ Rec(k, 0)
      BY <1>1
    <2> QED BY <2>1
  <1>6. ASSUME NEW m \in Nat, m + 1 <= Len(s), Some(m) PROVE Some(m + 1)
    <2>1. PICK k \in [0..m -> Seq(R)] : Rec(k, m)
      BY <1>6
    <2> DEFINE new == step(k[m], m + 1)
               h == [i \in 0..(m + 1) |-> IF i <= m THEN k[i] ELSE new]
    <2>2. new \in Seq(R)
      <3>1. k[m] \in Seq(R) /\ m + 1 \in 1..Len(s)
        BY <1>1, <1>6
      <3> QED BY <1>2, <3>1
    <2> HIDE DEF new
    <2>3. h \in [0..(m + 1) -> Seq(R)] /\ h[m + 1] = new /\ \A i \in 0..m : h[i] = k[i]
      BY <2>2
    <2> HIDE DEF h
    <2>4. ASSUME NEW i \in 1..(m + 1) PROVE h[i] = step(h[i - 1], i)
      <3>1. CASE i \in 1..m
        <4>1. h[i] = k[i] /\ h[i - 1] = k[i - 1] /\ k[i] = step(k[i - 1], i)
          BY SMTT(20), <2>1, <2>3, <3>1
        <4> QED BY <4>1
      <3>2. CASE i = m + 1
        <4>1. i - 1 = m /\ h[i] = new /\ h[m] = k[m]
          BY <2>3, <3>2
        <4> QED BY <3>2, <4>1 DEF new
      <3> QED BY <3>1, <3>2
    <2>5. h[0] = <<>>
      BY <2>1, <2>3
    <2> QED BY <2>3, <2>4, <2>5
  <1>7. Some(Len(s))
    <2> HIDE DEF Some
    <2>1. 0 \in N /\ \A m \in Nat : m \in N => m + 1 \in N
      BY <1>1, <1>5, <1>6
    <2>2. Nat \subseteq N
      <3> HIDE DEF N
      <3> QED BY <2>1, SetInduction
    <2> QED BY <1>1, <2>2
  <1>8. PICK w \in [0..Len(s) -> Seq(R)] : Rec(w, Len(s))
    BY <1>7
  <1> HIDE DEF Kept, Rec
  <1>9. Kept(CHOOSE k : Kept(k))
    BY <1>4, <1>8, Zenon
  <1>10. PICK k : Kept(k) /\ k = CHOOSE h : Kept(h)
    BY <1>9
  <1>11. k = [i \in 0..Len(s) |-> k[i]] /\ Rec(k, Len(s))
    BY <1>3, <1>10
  <1>12. ASSUME NEW m \in Nat, m <= Len(s) PROVE k[m] \in Seq(R)
    <2> DEFINE M == {i \in Nat : i <= Len(s) => k[i] \in Seq(R)}
    <2>1. 0 \in M
      BY <1>1, <1>11 DEF Rec
    <2>2. ASSUME NEW i \in Nat, i \in M PROVE i + 1 \in M
      <3> SUFFICES ASSUME i + 1 <= Len(s) PROVE k[i + 1] \in Seq(R)
        OBVIOUS
      <3>1. i + 1 \in 1..Len(s) /\ (i + 1) - 1 = i /\ k[i] \in Seq(R)
        BY <1>1, <2>2
      <3>2. k[i + 1] = step(k[i], i + 1)
        BY <1>11, <3>1 DEF Rec
      <3> QED BY <1>2, <3>1, <3>2
    <2>3. Nat \subseteq M
      <3> HIDE DEF M
      <3> QED BY <2>1, <2>2, SetInduction
    <2> QED BY <1>12, <2>3
  <1>13. k \in [0..Len(s) -> Seq(R)]
    BY <1>1, <1>11, <1>12
  <1>14. Where(s, I) = k[Len(s)]
    BY <1>10, Zenon DEF Where, Kept, step
  <1>15. KeptAt(s, I, k)
    BY <1>11 DEF KeptAt, Rec, step
  <1> QED BY <1>13, <1>14, <1>15

\* One more element is kept or not.
LEMMA WhereAppend ==
    ASSUME NEW R, NEW s \in Seq(R), NEW x \in R, NEW I
    PROVE  /\ Where(s, I) \in Seq(R)
           /\ Where(Append(s, x), I) =
                 IF Len(s) + 1 \in I THEN Append(Where(s, I), x) ELSE Where(s, I)
  <1> DEFINE t == Append(s, x)
  <1>1. /\ t \in Seq(R) /\ Len(s) \in Nat /\ Len(t) = Len(s) + 1 /\ t[Len(s) + 1] = x
        /\ \A i \in 1..Len(s) : t[i] = s[i]
    OBVIOUS
  <1> HIDE DEF t
  <1>2. PICK k \in [0..Len(s) -> Seq(R)] : KeptAt(s, I, k) /\ Where(s, I) = k[Len(s)]
    BY WhereDef
  <1>3. PICK h \in [0..Len(t) -> Seq(R)] : KeptAt(t, I, h) /\ Where(t, I) = h[Len(t)]
    BY <1>1, WhereDef
  <1> DEFINE N == {i \in Nat : i <= Len(s) => h[i] = k[i]}
  <1>4. 0 \in N
    BY <1>2, <1>3 DEF KeptAt
  <1>5. ASSUME NEW i \in Nat, i \in N PROVE i + 1 \in N
    <2> SUFFICES ASSUME i + 1 <= Len(s) PROVE h[i + 1] = k[i + 1]
      OBVIOUS
    <2>1. i + 1 \in 1..Len(s) /\ i + 1 \in 1..Len(t) /\ (i + 1) - 1 = i /\ h[i] = k[i] /\ t[i + 1] = s[i + 1]
      BY <1>1, <1>5
    <2> QED BY <1>2, <1>3, <2>1 DEF KeptAt
  <1>6. Nat \subseteq N
    <2> HIDE DEF N
    <2> QED BY <1>4, <1>5, SetInduction
  <1>7. h[Len(s)] = k[Len(s)]
    <2>1. Len(s) \in N
      BY <1>1, <1>6
    <2> QED BY <1>1, <2>1
  <1>8. h[Len(s) + 1] = IF Len(s) + 1 \in I THEN Append(h[Len(s)], x) ELSE h[Len(s)]
    <2>1. Len(s) + 1 \in 1..Len(t) /\ (Len(s) + 1) - 1 = Len(s)
      BY <1>1
    <2> QED BY <1>1, <1>3, <2>1 DEF KeptAt
  <1> QED BY <1>1, <1>2, <1>3, <1>7, <1>8 DEF t
SummedAt(s, k) ==
    k[0] = 0 /\ \A i \in 1..Len(s) : k[i] = k[i - 1] + s[i]

\* The same of Total.
LEMMA TotalDef ==
    ASSUME NEW s \in Seq(Int)
    PROVE  \E k \in [0..Len(s) -> Int] : SummedAt(s, k) /\ Total(s) = k[Len(s)]
  <1> DEFINE step(p, i) == p + s[i]
             Rec(k, m) == k[0] = 0 /\ \A i \in 1..m : k[i] = step(k[i - 1], i)
             Kept(k) == k = [i \in 0..Len(s) |-> IF i = 0 THEN 0 ELSE step(k[i - 1], i)]
             Some(m) == \E k \in [0..m -> Int] : Rec(k, m)
             N == {m \in Nat : m <= Len(s) => Some(m)}
  <1>1. 0 \in Int /\ Len(s) \in Nat
    OBVIOUS
  <1>2. \A p \in Int, i \in 1..Len(s) : step(p, i) \in Int
    OBVIOUS
  <1> HIDE DEF step
  <1>3. ASSUME NEW k, Kept(k)
        PROVE  k = [i \in 0..Len(s) |-> k[i]] /\ Rec(k, Len(s))
    <2>1. DOMAIN k = 0..Len(s) /\ k = [i \in 0..Len(s) |-> k[i]]
      BY <1>3, Zenon
    <2>2. \A i \in 0..Len(s) : k[i] = IF i = 0 THEN 0 ELSE step(k[i - 1], i)
      BY <1>3, Zenon
    <2> HIDE DEF Kept
    <2> QED BY <1>1, <2>1, <2>2
  <1>4. ASSUME NEW k \in [0..Len(s) -> Int], Rec(k, Len(s))
        PROVE  Kept(k)
    <2>1. \A i \in 0..Len(s) : k[i] = IF i = 0 THEN 0 ELSE step(k[i - 1], i)
      BY <1>1, <1>4
    <2> QED BY <2>1
  <1>5. Some(0)
    <2> DEFINE k == [i \in 0..0 |-> 0]
    <2>1. k \in [0..0 -> Int] /\ Rec(k, 0)
      BY <1>1
    <2> QED BY <2>1
  <1>6. ASSUME NEW m \in Nat, m + 1 <= Len(s), Some(m) PROVE Some(m + 1)
    <2>1. PICK k \in [0..m -> Int] : Rec(k, m)
      BY <1>6
    <2> DEFINE new == step(k[m], m + 1)
               h == [i \in 0..(m + 1) |-> IF i <= m THEN k[i] ELSE new]
    <2>2. new \in Int
      <3>1. k[m] \in Int /\ m + 1 \in 1..Len(s)
        BY <1>1, <1>6
      <3> QED BY <1>2, <3>1
    <2> HIDE DEF new
    <2>3. h \in [0..(m + 1) -> Int] /\ h[m + 1] = new /\ \A i \in 0..m : h[i] = k[i]
      BY <2>2
    <2> HIDE DEF h
    <2>4. ASSUME NEW i \in 1..(m + 1) PROVE h[i] = step(h[i - 1], i)
      <3>1. CASE i \in 1..m
        <4>1. h[i] = k[i] /\ h[i - 1] = k[i - 1] /\ k[i] = step(k[i - 1], i)
          BY <2>1, <2>3, <3>1
        <4> QED BY <4>1
      <3>2. CASE i = m + 1
        <4>1. i - 1 = m /\ h[i] = new /\ h[m] = k[m]
          BY <2>3, <3>2
        <4> QED BY <3>2, <4>1 DEF new
      <3> QED BY <3>1, <3>2
    <2>5. h[0] = 0
      BY <2>1, <2>3
    <2> QED BY <2>3, <2>4, <2>5
  <1>7. Some(Len(s))
    <2> HIDE DEF Some
    <2>1. 0 \in N /\ \A m \in Nat : m \in N => m + 1 \in N
      BY <1>1, <1>5, <1>6
    <2>2. Nat \subseteq N
      <3> HIDE DEF N
      <3> QED BY <2>1, SetInduction
    <2> QED BY <1>1, <2>2
  <1>8. PICK w \in [0..Len(s) -> Int] : Rec(w, Len(s))
    BY <1>7
  <1> HIDE DEF Kept, Rec
  <1>9. Kept(CHOOSE k : Kept(k))
    BY <1>4, <1>8, Zenon
  <1>10. PICK k : Kept(k) /\ k = CHOOSE h : Kept(h)
    BY <1>9
  <1>11. k = [i \in 0..Len(s) |-> k[i]] /\ Rec(k, Len(s))
    BY <1>3, <1>10
  <1>12. ASSUME NEW m \in Nat, m <= Len(s) PROVE k[m] \in Int
    <2> DEFINE M == {i \in Nat : i <= Len(s) => k[i] \in Int}
    <2>1. 0 \in M
      BY <1>1, <1>11 DEF Rec
    <2>2. ASSUME NEW i \in Nat, i \in M PROVE i + 1 \in M
      <3> SUFFICES ASSUME i + 1 <= Len(s) PROVE k[i + 1] \in Int
        OBVIOUS
      <3>1. i + 1 \in 1..Len(s) /\ (i + 1) - 1 = i /\ k[i] \in Int
        BY <1>1, <2>2
      <3>2. k[i + 1] = step(k[i], i + 1)
        BY <1>11, <3>1 DEF Rec
      <3> QED BY <1>2, <3>1, <3>2
    <2>3. Nat \subseteq M
      <3> HIDE DEF M
      <3> QED BY <2>1, <2>2, SetInduction
    <2> QED BY <1>12, <2>3
  <1>13. k \in [0..Len(s) -> Int]
    BY <1>1, <1>11, <1>12
  <1>14. Total(s) = k[Len(s)]
    BY <1>10, Zenon DEF Total, Kept, step
  <1>15. SummedAt(s, k)
    BY <1>11 DEF SummedAt, Rec, step
  <1> QED BY <1>13, <1>14, <1>15

\* One more element is added.
LEMMA TotalAppend ==
    ASSUME NEW s \in Seq(Int), NEW x \in Int
    PROVE  Total(s) \in Int /\ Total(Append(s, x)) = Total(s) + x
  <1> DEFINE t == Append(s, x)
  <1>1. /\ t \in Seq(Int) /\ Len(s) \in Nat /\ Len(t) = Len(s) + 1 /\ t[Len(s) + 1] = x
        /\ \A i \in 1..Len(s) : t[i] = s[i]
    OBVIOUS
  <1> HIDE DEF t
  <1>2. PICK k \in [0..Len(s) -> Int] : SummedAt(s, k) /\ Total(s) = k[Len(s)]
    BY TotalDef
  <1>3. PICK h \in [0..Len(t) -> Int] : SummedAt(t, h) /\ Total(t) = h[Len(t)]
    BY <1>1, TotalDef
  <1> DEFINE N == {i \in Nat : i <= Len(s) => h[i] = k[i]}
  <1>4. 0 \in N
    BY <1>2, <1>3 DEF SummedAt
  <1>5. ASSUME NEW i \in Nat, i \in N PROVE i + 1 \in N
    <2> SUFFICES ASSUME i + 1 <= Len(s) PROVE h[i + 1] = k[i + 1]
      OBVIOUS
    <2>1. i + 1 \in 1..Len(s) /\ i + 1 \in 1..Len(t) /\ (i + 1) - 1 = i /\ h[i] = k[i] /\ t[i + 1] = s[i + 1]
      BY <1>1, <1>5
    <2> QED BY <1>2, <1>3, <2>1 DEF SummedAt
  <1>6. Nat \subseteq N
    <2> HIDE DEF N
    <2> QED BY <1>4, <1>5, SetInduction
  <1>7. h[Len(s)] = k[Len(s)]
    <2>1. Len(s) \in N
      BY <1>1, <1>6
    <2> QED BY <1>1, <2>1
  <1>8. h[Len(s) + 1] = h[Len(s)] + x
    <2>1. Len(s) + 1 \in 1..Len(t) /\ (Len(s) + 1) - 1 = Len(s)
      BY <1>1
    <2> QED BY <1>1, <1>3, <2>1 DEF SummedAt
  <1> QED BY <1>1, <1>2, <1>3, <1>7, <1>8 DEF t

\* Nothing sums to 0.
LEMMA TotalEmpty == Total(<<>>) = 0
  <1>1. <<>> \in Seq(Int) /\ Len(<<>>) = 0
    BY EmptySeq
  <1>2. PICK k \in [0..0 -> Int] : SummedAt(<<>>, k) /\ Total(<<>>) = k[0]
    BY <1>1, TotalDef
  <1> QED BY <1>2 DEF SummedAt

\* Of nothing, nothing is kept.
LEMMA WhereEmpty == ASSUME NEW I PROVE Where(<<>>, I) = <<>>
  <1>1. <<>> \in Seq({}) /\ Len(<<>>) = 0
    BY EmptySeq
  <1>2. PICK k \in [0..Len(<<>>) -> Seq({})] : KeptAt(<<>>, I, k) /\ Where(<<>>, I) = k[Len(<<>>)]
    BY <1>1, WhereDef, Zenon
  <1> QED BY <1>1, <1>2 DEF KeptAt

At(s, I) == {i \in 1..Len(s) : i \in I}

\* What Where keeps are the elements at the places of I
LEMMA WhereElements ==
    ASSUME NEW R, NEW s \in Seq(R), NEW I
    PROVE  /\ Where(s, I) \in Seq(R)
           /\ \A k \in 1..Len(Where(s, I)) : \E i \in 1..Len(s) : i \in I /\ Where(s, I)[k] = s[i]
           /\ \A i \in 1..Len(s) : i \in I => \E k \in 1..Len(Where(s, I)) : Where(s, I)[k] = s[i]
           /\ IsFiniteSet(At(s, I))
           /\ Len(Where(s, I)) = Cardinality(At(s, I))
  <1> DEFINE P(t) ==
           /\ Where(t, I) \in Seq(R)
           /\ \A k \in 1..Len(Where(t, I)) : \E i \in 1..Len(t) : i \in I /\ Where(t, I)[k] = t[i]
           /\ \A i \in 1..Len(t) : i \in I => \E k \in 1..Len(Where(t, I)) : Where(t, I)[k] = t[i]
           /\ IsFiniteSet(At(t, I))
           /\ Len(Where(t, I)) = Cardinality(At(t, I))
             S == {t \in Seq(R) : P(t)}
  <1>1. P(<<>>)
    <2>1. <<>> \in Seq(R) /\ Len(<<>>) = 0 /\ At(<<>>, I) = {}
      BY EmptySeq DEF At
    <2>2. Where(<<>>, I) = <<>>
      BY WhereEmpty
    <2>3. IsFiniteSet({}) /\ Cardinality({}) = 0
      BY FS_EmptySet
    <2>4. 1..Len(<<>>) = {} /\ Len(Where(<<>>, I)) = 0
      BY <2>1, <2>2
    <2>5. 1..Len(Where(<<>>, I)) = {}
      BY <2>2, <2>4, Zenon
    <2> QED BY <2>1, <2>2, <2>3, <2>4, <2>5, Zenon
  <1>2. ASSUME NEW t \in Seq(R), NEW x \in R, P(t) PROVE P(Append(t, x))
    <2> DEFINE u == Append(t, x)
               w == Where(t, I)
               v == Where(u, I)
               A == At(t, I)
               B == At(u, I)
    <2>1. /\ u \in Seq(R) /\ Len(t) \in Nat /\ Len(u) = Len(t) + 1 /\ u[Len(t) + 1] = x
          /\ \A i \in 1..Len(t) : u[i] = t[i]
      OBVIOUS
    <2>2. v = IF Len(t) + 1 \in I THEN Append(w, x) ELSE w
      BY WhereAppend
    <2>3. /\ w \in Seq(R)
          /\ \A k \in 1..Len(w) : \E i \in 1..Len(t) : i \in I /\ w[k] = t[i]
          /\ \A i \in 1..Len(t) : i \in I => \E k \in 1..Len(w) : w[k] = t[i]
          /\ IsFiniteSet(A) /\ Len(w) = Cardinality(A)
      BY <1>2
    <2> HIDE DEF u, v, w
    <2>4. CASE Len(t) + 1 \in I
      <3>1. /\ v \in Seq(R) /\ Len(w) \in Nat /\ Len(v) = Len(w) + 1 /\ v[Len(w) + 1] = x
            /\ \A k \in 1..Len(w) : v[k] = w[k]
        <4>1. v = Append(w, x)
          BY <2>2, <2>4
        <4>2. w \in Seq(R) /\ x \in R
          BY <2>3
        <4> HIDE DEF A, B
        <4> QED BY <4>1, <4>2
      <3>2. B = A \cup {Len(t) + 1} /\ Len(t) + 1 \notin A
        BY <2>1, <2>4 DEF At
      <3>3. IsFiniteSet(B) /\ Len(v) = Cardinality(B)
        <4> HIDE DEF A, B
        <4> QED BY <2>3, <3>1, <3>2, FS_AddElement
      <3>4. ASSUME NEW k \in 1..Len(v) PROVE \E i \in 1..Len(u) : i \in I /\ v[k] = u[i]
        <4>1. CASE k \in 1..Len(w)
          <5>1. PICK i \in 1..Len(t) : i \in I /\ w[k] = t[i]
            BY <2>3, <4>1
          <5>2. i \in 1..Len(u) /\ v[k] = u[i]
            BY SMTT(20), <2>1, <3>1, <4>1, <5>1
          <5> QED BY <5>1, <5>2
        <4>2. CASE k = Len(w) + 1
          <5>1. Len(t) + 1 \in 1..Len(u)
            BY <2>1
          <5> QED BY <2>1, <2>4, <3>1, <4>2, <5>1
        <4>3. k \in 1..Len(w) \/ k = Len(w) + 1
          BY <3>1
        <4> QED BY <4>1, <4>2, <4>3
      <3>5. ASSUME NEW i \in 1..Len(u), i \in I PROVE \E k \in 1..Len(v) : v[k] = u[i]
        <4>1. CASE i \in 1..Len(t)
          <5>1. PICK k \in 1..Len(w) : w[k] = t[i]
            BY <2>3, <3>5, <4>1
          <5>2. k \in 1..Len(v) /\ v[k] = u[i]
            BY <2>1, <3>1, <4>1, <5>1
          <5> QED BY <5>2
        <4>2. CASE i = Len(t) + 1
          <5>1. Len(w) + 1 \in 1..Len(v)
            BY <3>1
          <5> QED BY <2>1, <3>1, <4>2, <5>1
        <4> QED BY <2>1, <4>1, <4>2
      <3> QED BY <3>1, <3>3, <3>4, <3>5 DEF u, v
    <2>5. CASE Len(t) + 1 \notin I
      <3>1. v = w
        BY <2>2, <2>5
      <3>2. A = B
        BY <2>1, <2>5 DEF At
      <3>3. \A k \in 1..Len(v) : \E i \in 1..Len(u) : i \in I /\ v[k] = u[i]
        <4> SUFFICES ASSUME NEW k \in 1..Len(v) PROVE \E i \in 1..Len(u) : i \in I /\ v[k] = u[i]
          OBVIOUS
        <4>1. PICK i \in 1..Len(t) : i \in I /\ w[k] = t[i]
          BY <2>3, <3>1
        <4>2. i \in 1..Len(u) /\ u[i] = t[i]
          BY <2>1
        <4> QED BY <3>1, <4>1, <4>2
      <3>4. \A i \in 1..Len(u) : i \in I => \E k \in 1..Len(v) : v[k] = u[i]
        <4> SUFFICES ASSUME NEW i \in 1..Len(u), i \in I PROVE \E k \in 1..Len(v) : v[k] = u[i]
          OBVIOUS
        <4>1. i \in 1..Len(t) /\ u[i] = t[i]
          BY <2>1, <2>5
        <4> QED BY <2>3, <3>1, <4>1
      <3>5. v \in Seq(R) /\ IsFiniteSet(B) /\ Len(v) = Cardinality(B)
        <4> HIDE DEF A, B
        <4> QED BY <2>3, <3>1, <3>2
      <3> QED BY <3>3, <3>4, <3>5 DEF u, v
    <2> QED BY <2>4, <2>5
  <1>3. Seq(R) \subseteq S
    <2>1. <<>> \in Seq(R) /\ \A t \in Seq(R), x \in R : Append(t, x) \in Seq(R)
      BY EmptySeq
    <2>2. <<>> \in S /\ \A t \in Seq(R), x \in R : t \in S => Append(t, x) \in S
      <3> HIDE DEF P
      <3> QED BY <1>1, <1>2, <2>1
    <2> HIDE DEF S
    <2> QED BY <2>2, SeqInduction
  <1>4. P(s)
    <2> HIDE DEF P
    <2> QED BY <1>3
  <1> QED BY <1>4

\* What Where keeps is in the order of the list: the k-th element kept is the
\* one at the k-th of the places.
LEMMA WhereOrder ==
    ASSUME NEW R, NEW s \in Seq(R), NEW I
    PROVE  \A k \in 1..Len(Where(s, I)) : \E i \in At(s, I) :
              Where(s, I)[k] = s[i] /\ Cardinality({j \in At(s, I) : j <= i}) = k
  <1> DEFINE P(t) == \A k \in 1..Len(Where(t, I)) : \E i \in At(t, I) :
                        Where(t, I)[k] = t[i] /\ Cardinality({j \in At(t, I) : j <= i}) = k
             S == {t \in Seq(R) : P(t)}
  <1>1. P(<<>>)
    <2>1. Where(<<>>, I) = <<>> /\ Len(<<>>) = 0
      BY WhereEmpty, EmptySeq
    <2>2. 1..Len(Where(<<>>, I)) = {}
      BY <2>1
    <2> QED BY <2>2, Zenon
  <1>2. ASSUME NEW t \in Seq(R), NEW x \in R, P(t) PROVE P(Append(t, x))
    <2> DEFINE u == Append(t, x)
               w == Where(t, I)
               v == Where(u, I)
               A == At(t, I)
               B == At(u, I)
               n == Len(t)
    <2>1. /\ u \in Seq(R) /\ n \in Nat /\ Len(u) = n + 1 /\ u[n + 1] = x
          /\ \A i \in 1..n : u[i] = t[i]
      OBVIOUS
    <2>2. v = IF n + 1 \in I THEN Append(w, x) ELSE w
      BY WhereAppend
    <2>3. w \in Seq(R)
      BY WhereElements
    <2>4. Len(v) = Cardinality(B)
      BY <2>1, WhereElements
    <2>5. A \subseteq 1..n
      BY DEF At
    <2>6. B = IF n + 1 \in I THEN A \cup {n + 1} ELSE A
      BY <2>1 DEF At
    <2>7. \A i \in A : {j \in B : j <= i} = {j \in A : j <= i}
      <3> HIDE DEF A, B, n
      <3> QED BY <2>1, <2>5, <2>6
    <2>8. ASSUME NEW k \in 1..Len(w) PROVE \E i \in B : w[k] = u[i] /\ Cardinality({j \in B : j <= i}) = k
      <3>1. PICK i \in A : w[k] = t[i] /\ Cardinality({j \in A : j <= i}) = k
        BY <1>2
      <3>2. i \in B /\ u[i] = t[i]
        <4> HIDE DEF A, B
        <4> QED BY <2>1, <2>5, <2>6, <3>1
      <3>3. {j \in B : j <= i} = {j \in A : j <= i}
        BY <2>7, <3>1, Zenon
      <3> HIDE DEF A, B
      <3> QED BY <3>1, <3>2, <3>3
    <2> SUFFICES ASSUME NEW k \in 1..Len(v)
                 PROVE  \E i \in B : v[k] = u[i] /\ Cardinality({j \in B : j <= i}) = k
      OBVIOUS
    <2>9. CASE n + 1 \notin I
      <3>1. v = w
        BY <2>2, <2>9
      <3> HIDE DEF A, B, u, v, w
      <3> QED BY <2>8, <3>1
    <2>10. CASE n + 1 \in I
      <3>1. v = Append(w, x)
        BY <2>2, <2>10
      <3>2. Len(w) \in Nat /\ Len(v) = Len(w) + 1 /\ v[Len(w) + 1] = x /\ \A m \in 1..Len(w) : v[m] = w[m]
        <4> HIDE DEF u, v, w
        <4> QED BY <2>3, <3>1
      <3>3. CASE k \in 1..Len(w)
        <4> HIDE DEF A, B, u, v, w
        <4> QED BY <2>8, <3>2, <3>3
      <3>4. CASE k = Len(w) + 1
        <4>1. n + 1 \in B
          BY <2>6, <2>10
        <4>2. {j \in B : j <= n + 1} = B
          <5>1. ASSUME NEW j \in B PROVE j <= n + 1
            <6> HIDE DEF A, B, n
            <6>1. j \in 1..n \/ j = n + 1
              BY <2>5, <2>6, <5>1
            <6> QED BY <2>1, <6>1
          <5> HIDE DEF B
          <5> QED BY <5>1
        <4>3. Cardinality({j \in B : j <= n + 1}) = k /\ v[k] = u[n + 1]
          <5> HIDE DEF A, B, n, u, v, w
          <5> QED BY <2>1, <2>4, <3>2, <3>4, <4>2
        <4> HIDE DEF A, B, n, u, v, w
        <4> QED BY <4>1, <4>3
      <3>5. k \in 1..Len(w) \/ k = Len(w) + 1
        <4> HIDE DEF v, w
        <4> QED BY <3>2
      <3> HIDE DEF A, B, n, u, v, w
      <3> QED BY <3>3, <3>4, <3>5, Zenon
    <2> QED BY <2>9, <2>10
  <1>3. Seq(R) \subseteq S
    <2>1. <<>> \in Seq(R) /\ \A t \in Seq(R), x \in R : Append(t, x) \in Seq(R)
      BY EmptySeq
    <2>2. <<>> \in S /\ \A t \in Seq(R), x \in R : t \in S => Append(t, x) \in S
      <3> HIDE DEF P
      <3> QED BY <1>1, <1>2, <2>1
    <2> HIDE DEF S
    <2> QED BY <2>2, SeqInduction
  <1>4. P(s)
    <2> HIDE DEF P
    <2> QED BY <1>3
  <1> QED BY <1>4

----------------------------------------------------------------------------
(* Lists                                                                   *)

\* A sequence whose elements are in R is a sequence of R.
LEMMA SeqWithin ==
    ASSUME NEW Q, NEW R, NEW s \in Seq(Q), \A i \in 1..Len(s) : s[i] \in R
    PROVE  s \in Seq(R)
  <1>1. Len(s) \in Nat /\ s \in [1..Len(s) -> R]
    OBVIOUS
  <1> QED BY <1>1, SeqDef

\* ToSet, with the place of an element.
LEMMA Elements == ASSUME NEW s PROVE \A x : x \in ToSet(s) <=> \E i \in DOMAIN s : x = s[i]
  BY DEF ToSet

\* The elements of a filtered list, as a set.
LEMMA KeptElements ==
    ASSUME NEW R, NEW s \in Seq(R), NEW I
    PROVE  /\ Where(s, I) \in Seq(R)
           /\ \A x \in ToSet(Where(s, I)) : \E i \in DOMAIN s : i \in I /\ x = s[i]
           /\ \A i \in DOMAIN s : i \in I => s[i] \in ToSet(Where(s, I))
  <1>0. PICK w : w = Where(s, I)
    OBVIOUS
  <1>1. /\ w \in Seq(R)
        /\ \A k \in 1..Len(w) : \E i \in 1..Len(s) : i \in I /\ w[k] = s[i]
        /\ \A i \in 1..Len(s) : i \in I => \E k \in 1..Len(w) : w[k] = s[i]
    <2>1. /\ Where(s, I) \in Seq(R)
          /\ \A k \in 1..Len(Where(s, I)) : \E i \in 1..Len(s) : i \in I /\ Where(s, I)[k] = s[i]
          /\ \A i \in 1..Len(s) : i \in I => \E k \in 1..Len(Where(s, I)) : Where(s, I)[k] = s[i]
      BY WhereElements
    <2> QED BY <1>0, <2>1
  <1>2. DOMAIN w = 1..Len(w) /\ DOMAIN s = 1..Len(s)
    BY <1>1
  <1>3. ASSUME NEW x \in ToSet(w) PROVE \E i \in DOMAIN s : i \in I /\ x = s[i]
    <2>1. PICK k \in 1..Len(w) : x = w[k]
      BY <1>2, <1>3, Elements
    <2>2. PICK i \in 1..Len(s) : i \in I /\ w[k] = s[i]
      BY <1>1, <2>1
    <2> QED BY <1>2, <2>1, <2>2
  <1>4. ASSUME NEW i \in DOMAIN s, i \in I PROVE s[i] \in ToSet(w)
    <2>1. PICK k \in 1..Len(w) : w[k] = s[i]
      BY <1>1, <1>2, <1>4
    <2> QED BY <1>2, <2>1, Elements
  <1> QED BY <1>0, <1>1, <1>3, <1>4

\* A list without an id lists everything else.
LEMMA WithoutId ==
    ASSUME NEW R, NEW list \in Seq(R), NEW id
    PROVE  Without(list, id) \in Seq(R) /\ ToSet(Without(list, id)) = ToSet(list) \ {id}
  <1> DEFINE I == {i \in DOMAIN list : list[i] # id}
             w == Where(list, I)
  <1>1. /\ w \in Seq(R)
        /\ \A x \in ToSet(w) : \E i \in DOMAIN list : i \in I /\ x = list[i]
        /\ \A i \in DOMAIN list : i \in I => list[i] \in ToSet(w)
    BY KeptElements
  <1>2. Without(list, id) = w
    BY DEF Without
  <1> HIDE DEF w
  <1>3. ToSet(w) = ToSet(list) \ {id}
    <2>1. \A x \in ToSet(w) : x \in ToSet(list) /\ x # id
      BY <1>1, Elements
    <2>2. \A x \in ToSet(list) : x # id => x \in ToSet(w)
      BY <1>1, Elements
    <2> QED BY <2>1, <2>2
  <1> QED BY <1>1, <1>2, <1>3

\* The first elements of a list, at most cap of them.
LEMMA FirstOfProperties ==
    ASSUME NEW R, NEW s \in Seq(R), NEW cap \in Nat
    PROVE  /\ FirstOf(s, cap) \in Seq(R)
           /\ Len(FirstOf(s, cap)) = IF Len(s) < cap THEN Len(s) ELSE cap
           /\ \A i \in 1..Len(FirstOf(s, cap)) : FirstOf(s, cap)[i] = s[i]
  <1> DEFINE n == IF Len(s) < cap THEN Len(s) ELSE cap
  <1>1. n \in Nat /\ n <= Len(s) /\ FirstOf(s, cap) = SubSeq(s, 1, n)
    BY DEF FirstOf
  <1> HIDE DEF n
  <1>2. /\ SubSeq(s, 1, n) \in Seq(R) /\ Len(SubSeq(s, 1, n)) = n
        /\ \A i \in 1..n : SubSeq(s, 1, n)[i] = s[i]
    BY <1>1, SubSeqProperties
  <1> QED BY <1>1, <1>2 DEF n

----------------------------------------------------------------------------
(* The inductive invariant of a load                                       *)

Reading == pc \in {"cells", "read", "shown"}

TypeOK ==
    /\ base \in [Tables -> HostTable] /\ active \in Tables
    /\ pc \in {"table", "defs", "bind", "list", "cells", "read", "shown", "failed"}
    /\ defs \in Seq(ToSet(Catalog))
    /\ ids \in Seq(Records)
    /\ records \in Seq([Fields -> Cell])
    /\ row \in Seq(Cell)
    /\ Reading => held \in [Records -> [Fields -> SUBSET Cell]]

ListsNoDeleted ==
    \A t \in Tables : ToSet(base[t].visible) \cap base[t].deleted = {}

Chosen ==
    /\ pc \in {"defs", "bind", "list", "cells", "read", "shown"} /\ app = "" => tid \in Tables
    /\ pc \in {"bind", "list", "cells", "read", "shown"} =>
          /\ defs # <<>>
          /\ app # "" => Len(defs) = 1
          /\ app = "" => /\ \A d \in DOMAIN defs : defs[d].bind = tid
                         /\ \A k \in DOMAIN Catalog :
                               Catalog[k].bind = tid => Contains(defs, Catalog[k])

Opened ==
    pc \in {"list", "cells", "read", "shown"} =>
        /\ table \in Tables
        /\ app = "" => table = tid
        /\ \A d \in DOMAIN defs : defs[d].bind \in {table, "", "current"}

Held ==
    pc = "cells" =>
        /\ \A r \in Records, f \in Fields : base[table].cell[r][f] \in held[r][f]
        /\ \A i \in DOMAIN ids : ids[i] \in base[table].deleted =>
              \A f \in Fields : Null \in held[ids[i]][f]

Progress ==
    /\ pc \in {"table", "defs", "bind", "list"} => records = <<>> /\ row = <<>>
    /\ pc = "cells" => /\ Len(records) < Len(ids) /\ Len(row) < Len(FieldOrder)
                       /\ \A j \in DOMAIN row : row[j] \in held[NextRecord][FieldOrder[j]]
    /\ pc \in {"read", "shown"} => Len(records) = Len(ids)
    /\ Reading => \A i \in DOMAIN records, f \in Fields : records[i][f] \in held[ids[i]][f]

\* The calls of one component: one for each of its inputs.
CallsFor(made, inputs) ==
    /\ made = [i \in DOMAIN inputs |-> made[i]]
    /\ \A i \in DOMAIN inputs :
          /\ made[i] = [input |-> inputs[i], answer |-> made[i].answer]
          /\ made[i].answer \in {Awaited, Refused, AnswerFor(inputs[i])}

CallsMade ==
    pc = "shown" =>
        /\ calls = [d \in DOMAIN defs |-> calls[d]]
        /\ \A d \in DOMAIN defs :
              /\ calls[d] = [e \in DOMAIN defs[d].enrich |-> calls[d][e]]
              /\ \A e \in DOMAIN defs[d].enrich : CallsFor(calls[d][e], Called(d, e))

IInv == TypeOK /\ ListsNoDeleted /\ Chosen /\ Opened /\ Held /\ Progress /\ CallsMade

\* The columns in the order a row is read.
LEMMA FieldOrderFacts ==
    /\ Len(FieldOrder) \in Nat \ {0} /\ DOMAIN FieldOrder = 1..Len(FieldOrder)
    /\ \A j \in 1..Len(FieldOrder) : FieldOrder[j] \in Fields
    /\ \A f \in Fields : \E j \in 1..Len(FieldOrder) : FieldOrder[j] = f
  <1>1. FieldOrder \in Seq(Fields) /\ FieldOrder # <<>>
    BY WidgetAssumption
  <1>2. \A f \in Fields : \E j \in DOMAIN FieldOrder : f = FieldOrder[j]
    BY Elements DEF Fields
  <1> QED BY <1>1, <1>2

\* The base when the panel opens.
LEMMA BaseFacts ==
    \A b \in Bases : /\ b \in [Tables -> HostTable]
                     /\ \A t \in Tables : ToSet(b[t].visible) \cap b[t].deleted = {}
  BY WidgetAssumption

\* An empty cell is a cell.
LEMMA NullIsCell == Null \in Cell
  <1>1. "null" \in {"null", "number", "string", "texts", "names", "text", "name", "boolean"}
    OBVIOUS
  <1>2. 0 \in Int
    OBVIOUS
  <1>3. "" \in Strings
    BY StringsAssumption, Zenon
  <1> QED BY <1>1, <1>2, <1>3, Zenon DEF Null, Cell

\* The list of definitions FetchDefinitions finds.
LEMMA FoundFacts ==
    /\ Found \in Seq(ToSet(Catalog))
    /\ app # "" => Len(Found) <= 1
    /\ app = "" /\ tid \in Tables =>
          /\ \A d \in DOMAIN Found : Found[d].bind = tid
          /\ \A k \in DOMAIN Catalog : Catalog[k].bind = tid => Contains(Found, Catalog[k])
  <1>1. Catalog \in Seq(ToSet(Catalog)) /\ "" \notin Tables
    BY WidgetAssumption
  <1>2. CASE app # ""
    <2> DEFINE w == Where(Catalog, {k \in DOMAIN Catalog : Catalog[k].id = app})
    <2>1. w \in Seq(ToSet(Catalog))
      BY <1>1, KeptElements
    <2>2. Found = FirstOf(w, 1)
      BY <1>2 DEF Found, ById
    <2> HIDE DEF w
    <2>3. Found \in Seq(ToSet(Catalog)) /\ Len(Found) = IF Len(w) < 1 THEN Len(w) ELSE 1
      BY ZenonT(30), <2>1, <2>2, FirstOfProperties
    <2>4. Len(Found) <= 1
      BY <2>1, <2>3
    <2> QED BY <1>2, <2>3, <2>4, Zenon
  <1>3. CASE app = "" /\ tid = ""
    BY <1>1, <1>3 DEF Found, FilterByTable
  <1>4. CASE app = "" /\ tid # ""
    <2> DEFINE I == {k \in DOMAIN Catalog : Catalog[k].bind = tid}
               w == Where(Catalog, I)
    <2>1. /\ w \in Seq(ToSet(Catalog))
          /\ \A x \in ToSet(w) : \E i \in DOMAIN Catalog : i \in I /\ x = Catalog[i]
          /\ \A i \in DOMAIN Catalog : i \in I => Catalog[i] \in ToSet(w)
      BY <1>1, KeptElements
    <2>2. Found = w
      BY <1>4 DEF Found, FilterByTable
    <2> HIDE DEF w
    <2>3. ASSUME NEW d \in DOMAIN w PROVE w[d].bind = tid
      <3>1. w[d] \in ToSet(w)
        BY Elements
      <3> QED BY <2>1, <3>1
    <2>4. ASSUME NEW k \in DOMAIN Catalog, Catalog[k].bind = tid PROVE Contains(w, Catalog[k])
      <3>1. Catalog[k] \in ToSet(w)
        BY <2>1, <2>4
      <3>2. PICK i \in DOMAIN w : Catalog[k] = w[i]
        BY <3>1, Elements
      <3> QED BY <2>1, <3>2 DEF Contains
    <2> QED BY <1>4, <2>1, <2>2, <2>3, <2>4
  <1> QED BY <1>2, <1>3, <1>4

\* The invariant holds when the panel opens.
LEMMA InitInv == Init => IInv
  <1> SUFFICES ASSUME Init PROVE IInv
    OBVIOUS
  <1>1. /\ pc = "table" \/ (pc = "defs" /\ app # "")
        /\ base \in Bases /\ active \in Tables
        /\ defs = <<>> /\ ids = <<>> /\ records = <<>> /\ row = <<>>
    BY DEF Init
  <1>2. TypeOK
    <2>1. <<>> \in Seq(ToSet(Catalog)) /\ <<>> \in Seq(Records) /\ <<>> \in Seq([Fields -> Cell]) /\ <<>> \in Seq(Cell)
      BY EmptySeq
    <2>2. base \in [Tables -> HostTable]
      BY <1>1, BaseFacts
    <2> QED BY <1>1, <2>1, <2>2 DEF TypeOK, Reading
  <1>3. ListsNoDeleted
    BY <1>1, BaseFacts DEF ListsNoDeleted
  <1>4. Chosen /\ Opened /\ Held /\ Progress /\ CallsMade
    BY <1>1 DEF Chosen, Opened, Held, Progress, CallsMade, Reading
  <1> QED BY <1>2, <1>3, <1>4 DEF IInv

\* CurrentTable and FetchDefinitions settle which definitions are shown.
LEMMA ChoiceStep ==
    ASSUME IInv, CurrentTable \/ FetchDefinitions PROVE IInv'
  <1> USE DEF LoadFails, host
  <1>1. CASE CurrentTable
    <2>1. /\ pc = "table" /\ UNCHANGED <<base, active, app, defs, table, ids, held, records, row, calls>>
          /\ \/ tid' = active /\ pc' = "defs"
             \/ tid' = "" /\ pc' = "failed"
      BY <1>1 DEF CurrentTable
    <2>2. TypeOK' /\ ListsNoDeleted'
      BY <2>1 DEF IInv, TypeOK, ListsNoDeleted, Reading
    <2>3. Chosen' /\ Opened' /\ Held' /\ Progress' /\ CallsMade'
      BY <2>1 DEF IInv, TypeOK, Chosen, Opened, Held, Progress, CallsMade, Reading
    <2> QED BY <2>2, <2>3 DEF IInv
  <1>2. CASE FetchDefinitions
    <2>1. /\ pc = "defs" /\ UNCHANGED <<base, active, app, tid, table, ids, held, records, row, calls>>
          /\ \/ Found # <<>> /\ defs' = Found /\ pc' = "bind"
             \/ defs' = <<>> /\ pc' = "failed"
      BY <1>2 DEF FetchDefinitions
    <2>2. TypeOK' /\ ListsNoDeleted'
      BY <2>1, FoundFacts, EmptySeq DEF IInv, TypeOK, ListsNoDeleted, Reading
    <2>3. Opened' /\ Held' /\ Progress' /\ CallsMade'
      BY <2>1 DEF IInv, Opened, Held, Progress, CallsMade, Reading
    <2>4. Chosen'
      <3>1. CASE Found # <<>> /\ defs' = Found /\ pc' = "bind"
        <4>1. app # "" => Len(Found) = 1
          <5>1. Found \in Seq(ToSet(Catalog)) /\ (app # "" => Len(Found) <= 1)
            BY FoundFacts
          <5>2. \A s \in Seq(ToSet(Catalog)) : s # <<>> => Len(s) \in Nat /\ Len(s) # 0
            OBVIOUS
          <5>3. Len(Found) \in Nat /\ Len(Found) # 0
            BY <3>1, <5>1, <5>2, Zenon
          <5>4. \A n \in Nat : n # 0 /\ n <= 1 => n = 1
            OBVIOUS
          <5> QED BY <5>1, <5>3, <5>4, Zenon
        <4>2. app = "" => tid \in Tables
          BY <2>1 DEF IInv, Chosen
        <4> QED BY <2>1, <3>1, <4>1, <4>2, FoundFacts DEF Chosen
      <3>2. CASE pc' = "failed"
        BY <3>2 DEF Chosen
      <3> QED BY <2>1, <3>1, <3>2
    <2> QED BY <2>2, <2>3, <2>4 DEF IInv
  <1> QED BY <1>1, <1>2

\* OpenTable and ListRecords fix the table and the records read.
LEMMA OpenStep ==
    ASSUME IInv, OpenTable PROVE IInv'
  <1> USE DEF LoadFails, host
  <1>1. /\ pc = "bind" /\ UNCHANGED <<base, active, app, tid, defs, ids, held, records, row, calls>>
        /\ \/ TableToRead \in Tables /\ table' = TableToRead /\ pc' = "list"
           \/ table' = "" /\ pc' = "failed"
    BY DEF OpenTable
  <1>2. TypeOK' /\ ListsNoDeleted'
    BY <1>1 DEF IInv, TypeOK, ListsNoDeleted, Reading
  <1>3. Chosen' /\ Held' /\ Progress' /\ CallsMade'
    BY <1>1 DEF IInv, Chosen, Held, Progress, CallsMade, Reading
  <1>4. Opened'
    <2> SUFFICES ASSUME TableToRead \in Tables, table' = TableToRead, pc' = "list" PROVE Opened'
      BY <1>1 DEF Opened
    <2>1. "" \notin Tables /\ "current" \notin Tables
      BY WidgetAssumption
    <2>2. defs \in Seq(ToSet(Catalog)) /\ defs # <<>>
      BY <1>1 DEF IInv, TypeOK, Chosen
    <2>3. 1 \in DOMAIN defs
      BY <2>2
    <2>4. CASE app = ""
      <3>1. tid \in Tables /\ \A d \in DOMAIN defs : defs[d].bind = tid
        BY <1>1, <2>4 DEF IInv, Chosen
      <3>2. TableToRead = tid
        BY <2>1, <2>3, <3>1 DEF TableToRead
      <3> QED BY <1>1, <3>1, <3>2 DEF Opened
    <2>5. CASE app # ""
      <3>1. Len(defs) = 1
        BY <1>1, <2>5 DEF IInv, Chosen
      <3>2. \A d \in DOMAIN defs : d = 1
        BY <2>2, <3>1
      <3>3. defs[1].bind \in {TableToRead, "", "current"}
        BY DEF TableToRead
      <3> QED BY <1>1, <2>5, <3>2, <3>3 DEF Opened
    <2> QED BY <2>4, <2>5
  <1> QED BY <1>2, <1>3, <1>4 DEF IInv

\* ListRecords: the list is read, and what its cells hold is noted.
LEMMA ListStep ==
    ASSUME IInv, ListRecords PROVE IInv'
  <1> USE DEF LoadFails, host
  <1>1. /\ pc = "list" /\ UNCHANGED <<base, active, app, tid, defs, table, records, row, calls>>
        /\ \/ /\ ids' = Without(base[table].visible, NoId) /\ held' = Holding
              /\ pc' = IF ids' = <<>> THEN "read" ELSE "cells"
           \/ pc' = "failed" /\ UNCHANGED <<ids, held>>
    BY DEF ListRecords
  <1>2. /\ table \in Tables /\ base[table] \in HostTable
        /\ ToSet(base[table].visible) \cap base[table].deleted = {}
        /\ records = <<>> /\ row = <<>>
    BY <1>1 DEF IInv, TypeOK, ListsNoDeleted, Opened, Progress
  <1>3. ListsNoDeleted'
    BY <1>1 DEF IInv, ListsNoDeleted
  <1>4. CASE pc' = "failed" /\ UNCHANGED <<ids, held>>
    BY <1>1, <1>3, <1>4 DEF IInv, TypeOK, ListsNoDeleted, Chosen, Opened, Held, Progress, CallsMade, Reading
  <1>5. CASE /\ ids' = Without(base[table].visible, NoId) /\ held' = Holding
             /\ pc' = IF ids' = <<>> THEN "read" ELSE "cells"
    <2>1. base[table].visible \in Seq(Records \cup {NoId}) /\ base[table].cell \in [Records -> [Fields -> Cell]]
      BY <1>2 DEF HostTable
    <2>2. ids' \in Seq(Records \cup {NoId}) /\ ToSet(ids') = ToSet(base[table].visible) \ {NoId}
      BY <1>5, <2>1, WithoutId
    <2>3. \A i \in DOMAIN ids' : ids'[i] \in ToSet(base[table].visible) /\ ids'[i] # NoId
      BY <2>2, Elements
    <2>4. ids' \in Seq(Records)
      <3>1. \A i \in 1..Len(ids') : ids'[i] \in Records
        BY <2>2, <2>3
      <3> QED BY <2>2, <3>1, SeqWithin
    <2>5. \A r \in Records, f \in Fields : held'[r][f] = {base[table].cell[r][f]}
      BY <1>5 DEF Holding
    <2>6. held' \in [Records -> [Fields -> SUBSET Cell]]
      BY <1>5, <2>1 DEF Holding
    <2>7. TypeOK'
      BY <1>1, <1>5, <2>4, <2>6 DEF IInv, TypeOK
    <2>8. Chosen' /\ Opened' /\ CallsMade'
      BY <1>1, <1>5 DEF IInv, Chosen, Opened, CallsMade
    <2>9. Held'
      <3>1. \A r \in Records, f \in Fields : base'[table'].cell[r][f] \in held'[r][f]
        BY <1>1, <2>5
      <3>2. \A i \in DOMAIN ids' : ids'[i] \notin base'[table'].deleted
        BY <1>1, <1>2, <2>3
      <3> QED BY <3>1, <3>2 DEF Held
    <2>10. Progress'
      <3>1. records' = <<>> /\ row' = <<>> /\ DOMAIN records' = {} /\ DOMAIN row' = {}
        BY <1>1, <1>2
      <3>2. Len(records') = 0 /\ Len(row') = 0
        BY <3>1
      <3>3. pc' = "cells" => Len(records') < Len(ids') /\ Len(row') < Len(FieldOrder)
        BY <1>5, <2>4, <3>2, FieldOrderFacts
      <3>4. pc' = "read" => Len(records') = Len(ids')
        BY <1>5, <3>2
      <3> QED BY <1>5, <3>1, <3>3, <3>4 DEF Progress
    <2> QED BY <1>3, <2>7, <2>8, <2>9, <2>10 DEF IInv
  <1> QED BY <1>1, <1>4, <1>5

\* A cell read is one its record has held, and completes a row that is.
LEMMA StoreStep ==
    ASSUME IInv, pc = "cells",
           NEW v \in Cell, v \in held[NextRecord][NextField], Store(v),
           UNCHANGED <<base, active, app, tid, defs, table, ids, held, calls>>
    PROVE  IInv'
  <1>1. /\ ids \in Seq(Records) /\ records \in Seq([Fields -> Cell]) /\ row \in Seq(Cell)
        /\ Len(records) < Len(ids) /\ Len(row) < Len(FieldOrder)
        /\ \A j \in DOMAIN row : row[j] \in held[NextRecord][FieldOrder[j]]
        /\ \A i \in DOMAIN records, f \in Fields : records[i][f] \in held[ids[i]][f]
    BY DEF IInv, TypeOK, Progress, Reading
  <1>2. pc' \in {"cells", "read"}
    BY DEF Store
  <1> DEFINE cells == Append(row, v)
             record == [f \in Fields |-> cells[CHOOSE j \in DOMAIN cells : FieldOrder[j] = f]]
  <1>3. /\ cells \in Seq(Cell) /\ Len(cells) = Len(row) + 1 /\ Len(row) \in Nat
        /\ \A j \in DOMAIN cells : cells[j] \in held[NextRecord][FieldOrder[j]]
    <2>1. /\ cells \in Seq(Cell) /\ Len(cells) = Len(row) + 1 /\ Len(row) \in Nat /\ cells[Len(row) + 1] = v
          /\ DOMAIN cells = 1..Len(cells) /\ DOMAIN row = 1..Len(row)
          /\ \A j \in 1..Len(row) : cells[j] = row[j]
      BY <1>1
    <2>2. \A j \in 1..Len(row) : cells[j] \in held[NextRecord][FieldOrder[j]]
      BY <1>1, <2>1
    <2>3. cells[Len(row) + 1] \in held[NextRecord][FieldOrder[Len(row) + 1]]
      BY <2>1 DEF NextField
    <2> HIDE DEF cells
    <2> QED BY <2>1, <2>2, <2>3
  <1>4. /\ UNCHANGED <<base, active, app, tid, defs, table, ids, held, calls>>
        /\ IF Len(cells) = Len(FieldOrder)
           THEN /\ records' = Append(records, record) /\ row' = <<>>
                /\ pc' = IF Len(records') = Len(ids) THEN "read" ELSE "cells"
           ELSE row' = cells /\ UNCHANGED <<records, pc>>
    BY DEF Store
  <1> HIDE DEF cells
  <1>5. ListsNoDeleted' /\ Chosen' /\ Opened' /\ Held' /\ CallsMade'
    <2>1. UNCHANGED <<base, active, app, tid, defs, table, ids, held, calls>>
      BY <1>4
    <2>2. IInv /\ pc = "cells"
      OBVIOUS
    <2>3. ListsNoDeleted' /\ Chosen' /\ Opened'
      BY <1>2, <2>1, <2>2 DEF IInv, ListsNoDeleted, Chosen, Opened
    <2>4. Held'
      BY <2>1, <2>2 DEF IInv, Held
    <2>5. CallsMade'
      BY <1>2 DEF CallsMade
    <2> QED BY <2>3, <2>4, <2>5
  <1>6. CASE Len(cells) # Len(FieldOrder)
    <2>1. row' = cells /\ UNCHANGED <<records, pc>>
      BY <1>4, <1>6
    <2>2. TypeOK'
      BY <1>3, <1>4, <2>1 DEF IInv, TypeOK, Reading
    <2>3. Progress'
      <3>1. Len(row') < Len(FieldOrder)
        <4>1. \A m \in Nat, k \in Nat : m < k /\ m + 1 # k => m + 1 < k
          OBVIOUS
        <4>2. Len(row) \in Nat /\ Len(FieldOrder) \in Nat /\ Len(row) < Len(FieldOrder)
          BY <1>1, <1>3, FieldOrderFacts
        <4> QED BY <1>3, <1>6, <2>1, <4>1, <4>2
      <3> QED BY <1>1, <1>3, <1>4, <2>1, <3>1 DEF Progress, NextRecord
    <2> QED BY <1>5, <2>2, <2>3 DEF IInv
  <1>7. CASE Len(cells) = Len(FieldOrder)
    <2>1. records' = Append(records, record) /\ row' = <<>>
          /\ pc' = IF Len(records') = Len(ids) THEN "read" ELSE "cells"
      BY <1>4, <1>7
    <2>2. ASSUME NEW f \in Fields PROVE record[f] \in Cell /\ record[f] \in held[NextRecord][f]
      <3>1. PICK j \in DOMAIN cells : FieldOrder[j] = f /\ record[f] = cells[j]
        <4>1. \E j \in DOMAIN cells : FieldOrder[j] = f
          BY <1>3, <1>7, FieldOrderFacts
        <4> QED BY <4>1
      <3> QED BY <1>3, <3>1
    <2>3. record \in [Fields -> Cell]
      BY <2>2
    <2> HIDE DEF record
    <2>4. /\ records' \in Seq([Fields -> Cell]) /\ Len(records') = Len(records) + 1 /\ Len(records) \in Nat
          /\ records'[Len(records) + 1] = record
          /\ \A i \in 1..Len(records) : records'[i] = records[i]
      BY <1>1, <2>1, <2>3
    <2>5. TypeOK'
      BY <1>2, <1>4, <2>1, <2>4, EmptySeq DEF IInv, TypeOK, Reading
    <2>6. Progress'
      <3>1. ASSUME NEW i \in DOMAIN records', NEW f \in Fields
            PROVE  records'[i][f] \in held'[ids'[i]][f]
        <4>1. i \in 1..Len(records) \/ i = Len(records) + 1
          BY <2>4
        <4>2. CASE i \in 1..Len(records)
          BY SMTT(20), <1>1, <1>4, <2>4, <4>2
        <4>3. CASE i = Len(records) + 1
          BY <1>4, <2>2, <2>4, <4>3 DEF NextRecord
        <4> QED BY <4>1, <4>2, <4>3
      <3>2. Len(ids) \in Nat /\ Len(ids') = Len(ids)
        BY <1>1, <1>4
      <3>3. row' = <<>> /\ Len(row') = 0 /\ DOMAIN row' = {}
        BY <2>1
      <3>4. pc' = "cells" => Len(records') < Len(ids') /\ Len(row') < Len(FieldOrder)
        BY <1>1, <2>1, <2>4, <3>2, <3>3, FieldOrderFacts
      <3>5. pc' = "read" => Len(records') = Len(ids')
        BY <2>1, <3>2
      <3> QED BY <1>2, <3>1, <3>3, <3>4, <3>5 DEF Progress
    <2> QED BY <1>5, <2>5, <2>6 DEF IInv
  <1> QED BY <1>6, <1>7

\* ReadCell: the cell of a record that is there, or the empty one of a deleted one.
LEMMA ReadStep ==
    ASSUME IInv, ReadCell PROVE IInv'
  <1>1. pc = "cells" /\ UNCHANGED <<base, active, app, tid, defs, table, ids, held, calls>>
    BY DEF ReadCell, host
  <1>2. /\ table \in Tables /\ base[table] \in HostTable /\ ids \in Seq(Records)
        /\ Len(records) < Len(ids) /\ Len(records) \in Nat /\ Len(row) < Len(FieldOrder) /\ Len(row) \in Nat
    <2>1. /\ base \in [Tables -> HostTable] /\ table \in Tables /\ ids \in Seq(Records)
          /\ records \in Seq([Fields -> Cell]) /\ row \in Seq(Cell)
      BY <1>1 DEF IInv, TypeOK, Opened
    <2>2. Len(records) < Len(ids) /\ Len(row) < Len(FieldOrder)
      BY <1>1 DEF IInv, Progress
    <2> QED BY <2>1, <2>2
  <1>3. Len(records) + 1 \in DOMAIN ids /\ NextRecord \in Records /\ NextField \in Fields
    BY <1>2, FieldOrderFacts DEF NextRecord, NextField
  <1>4. CASE Store(base[table].cell[NextRecord][NextField])
    <2>1. base[table].cell[NextRecord][NextField] \in Cell
      BY <1>2, <1>3 DEF HostTable
    <2>2. base[table].cell[NextRecord][NextField] \in held[NextRecord][NextField]
      BY <1>1, <1>3 DEF IInv, Held
    <2> QED BY <1>1, <1>4, <2>1, <2>2, StoreStep
  <1>5. CASE NextRecord \in base[table].deleted /\ Store(Null)
    <2>1. Null \in held[NextRecord][NextField]
      BY <1>1, <1>3, <1>5 DEF IInv, Held, NextRecord
    <2> QED BY <1>1, <1>5, <2>1, NullIsCell, StoreStep
  <1> QED BY <1>4, <1>5 DEF ReadCell

\* Any step that fails the load.
LEMMA FailStep ==
    ASSUME IInv, CellFails PROVE IInv'
  <1>1. pc' = "failed" /\ UNCHANGED <<base, active, app, tid, defs, table, ids, held, records, row, calls>>
    BY DEF CellFails, LoadFails, host
  <1>2. TypeOK' /\ ListsNoDeleted'
    BY <1>1 DEF IInv, TypeOK, ListsNoDeleted, Reading
  <1>3. Chosen' /\ Opened' /\ Held' /\ Progress' /\ CallsMade'
    BY <1>1 DEF Chosen, Opened, Held, Progress, CallsMade, Reading
  <1> QED BY <1>2, <1>3 DEF IInv

\* What an enrich component calls the runtime for does not change afterwards.
LEMMA CalledUnchanged ==
    ASSUME UNCHANGED <<defs, records>> PROVE \A d, e : Called(d, e)' = Called(d, e)
  BY DEF Called, EnrichInputs, InputOf, Section

\* Render: every section gets its calls.
LEMMA RenderStep ==
    ASSUME IInv, Render PROVE IInv'
  <1>1. /\ pc = "read" /\ pc' = "shown"
        /\ UNCHANGED <<base, active, app, tid, defs, table, ids, held, records, row>>
        /\ calls' = [d \in DOMAIN defs |-> Mounted(d)]
    BY DEF Render, host
  <1>2. TypeOK' /\ ListsNoDeleted'
    BY <1>1 DEF IInv, TypeOK, ListsNoDeleted, Reading
  <1>3. Chosen' /\ Opened' /\ Held'
    BY <1>1 DEF IInv, Chosen, Opened, Held
  <1>4. Progress'
    BY <1>1 DEF IInv, Progress, Reading
  <1>5. CallsMade'
    <2>1. \A d, e : Called(d, e)' = Called(d, e)
      BY <1>1, CalledUnchanged
    <2>2. ASSUME NEW d \in DOMAIN defs
          PROVE  calls'[d] = [e \in DOMAIN defs[d].enrich |->
                    [i \in DOMAIN Called(d, e) |-> [input |-> Called(d, e)[i], answer |-> Awaited]]]
      BY <1>1 DEF Mounted
    <2>3. calls' = [d \in DOMAIN defs' |-> calls'[d]]
      BY <1>1
    <2>4. ASSUME NEW d \in DOMAIN defs
          PROVE  calls'[d] = [e \in DOMAIN defs[d].enrich |-> calls'[d][e]]
      BY <2>2
    <2>5. ASSUME NEW d \in DOMAIN defs, NEW e \in DOMAIN defs[d].enrich
          PROVE  CallsFor(calls'[d][e], Called(d, e))
      <3>1. calls'[d][e] = [i \in DOMAIN Called(d, e) |-> [input |-> Called(d, e)[i], answer |-> Awaited]]
        BY <2>2
      <3> QED BY <3>1 DEF CallsFor
    <2> QED BY <1>1, <2>1, <2>3, <2>4, <2>5 DEF CallsMade
  <1> QED BY <1>2, <1>3, <1>4, <1>5 DEF IInv

\* A settled call keeps its input and gets an answer of its own.
LEMMA SettleStep ==
    ASSUME IInv, NEW d \in DOMAIN calls, NEW e \in DOMAIN calls[d], NEW i \in DOMAIN calls[d][e],
           ExecuteAnswers(d, e, i) \/ ExecuteFails(d, e, i)
    PROVE  IInv'
  <1>1. PICK a \in {Refused, AnswerFor(calls[d][e][i].input)} : Answer(d, e, i, a)
    BY DEF ExecuteAnswers, ExecuteFails
  <1>2. /\ pc = "shown" /\ pc' = "shown"
        /\ UNCHANGED <<base, active, app, tid, defs, table, ids, held, records, row>>
        /\ calls' = [calls EXCEPT ![d][e][i].answer = a]
    BY <1>1 DEF Answer, host
  <1>3. TypeOK' /\ ListsNoDeleted'
    BY <1>2 DEF IInv, TypeOK, ListsNoDeleted, Reading
  <1>4. Chosen' /\ Opened' /\ Held'
    BY <1>2 DEF IInv, Chosen, Opened, Held
  <1>5. Progress'
    BY <1>2 DEF IInv, Progress, Reading
  <1>6. CallsMade'
    <2>1. \A d2, e2 : Called(d2, e2)' = Called(d2, e2)
      BY <1>2, CalledUnchanged
    <2>2. /\ calls = [d2 \in DOMAIN defs |-> calls[d2]]
          /\ \A d2 \in DOMAIN defs :
                /\ calls[d2] = [e2 \in DOMAIN defs[d2].enrich |-> calls[d2][e2]]
                /\ \A e2 \in DOMAIN defs[d2].enrich : CallsFor(calls[d2][e2], Called(d2, e2))
      BY <1>2 DEF IInv, CallsMade
    <2>3. d \in DOMAIN defs /\ e \in DOMAIN defs[d].enrich
      <3>1. d \in DOMAIN defs
        BY <2>2
      <3>2. DOMAIN calls[d] = DOMAIN defs[d].enrich
        BY <2>2, <3>1
      <3> QED BY <3>1, <3>2
    <2>4. /\ calls' = [d2 \in DOMAIN defs |-> calls'[d2]]
          /\ \A d2 \in DOMAIN defs : d2 # d => calls'[d2] = calls[d2]
          /\ calls'[d] = [calls[d] EXCEPT ![e] = [calls[d][e] EXCEPT ![i] = [calls[d][e][i] EXCEPT !.answer = a]]]
      BY <1>2, <2>2, <2>3
    <2>5. /\ calls'[d] = [e2 \in DOMAIN defs[d].enrich |-> calls'[d][e2]]
          /\ \A e2 \in DOMAIN defs[d].enrich : e2 # e => calls'[d][e2] = calls[d][e2]
          /\ calls'[d][e] = [calls[d][e] EXCEPT ![i] = [calls[d][e][i] EXCEPT !.answer = a]]
      BY <2>2, <2>3, <2>4
    <2>6. CallsFor(calls'[d][e], Called(d, e))
      <3> DEFINE made == calls[d][e]
                 inputs == Called(d, e)
                 new == [made EXCEPT ![i] = [made[i] EXCEPT !.answer = a]]
      <3>1. CallsFor(made, inputs)
        BY <2>2, <2>3
      <3>2. i \in DOMAIN inputs
        BY <3>1 DEF CallsFor
      <3>3. made[i].input = inputs[i]
        BY <3>1, <3>2 DEF CallsFor
      <3> HIDE DEF inputs, made
      <3>4. CallsFor(new, inputs)
        <4>1. new = [j \in DOMAIN inputs |-> new[j]]
          BY <3>1 DEF CallsFor
        <4>2. ASSUME NEW j \in DOMAIN inputs
              PROVE  /\ new[j] = [input |-> inputs[j], answer |-> new[j].answer]
                     /\ new[j].answer \in {Awaited, Refused, AnswerFor(inputs[j])}
          <5>1. CASE j # i
            BY <3>1, <5>1 DEF CallsFor
          <5>2. CASE j = i
            <6>1. new[i] = [made[i] EXCEPT !.answer = a] /\ made[i] = [input |-> inputs[i], answer |-> made[i].answer]
              BY <3>1, <3>2 DEF CallsFor
            <6>2. new[i] = [input |-> inputs[i], answer |-> a]
              BY <6>1
            <6>3. a \in {Refused, AnswerFor(inputs[i])}
              BY <1>1, <3>3 DEF made
            <6> HIDE DEF new
            <6> QED BY <5>2, <6>2, <6>3
          <5> QED BY <5>1, <5>2
        <4> HIDE DEF new
        <4> QED BY <4>1, <4>2 DEF CallsFor
      <3> QED BY <2>5, <3>4 DEF inputs, made
    <2>7. \A d2 \in DOMAIN defs :
             /\ calls'[d2] = [e2 \in DOMAIN defs[d2].enrich |-> calls'[d2][e2]]
             /\ \A e2 \in DOMAIN defs[d2].enrich : CallsFor(calls'[d2][e2], Called(d2, e2))
      <3> SUFFICES ASSUME NEW d2 \in DOMAIN defs
                   PROVE  /\ calls'[d2] = [e2 \in DOMAIN defs[d2].enrich |-> calls'[d2][e2]]
                          /\ \A e2 \in DOMAIN defs[d2].enrich : CallsFor(calls'[d2][e2], Called(d2, e2))
        OBVIOUS
      <3>1. CASE d2 # d
        <4>1. calls'[d2] = calls[d2]
          BY <2>4, <3>1
        <4> QED BY <2>2, <4>1
      <3>2. CASE d2 = d
        <4>1. \A e2 \in DOMAIN defs[d].enrich : CallsFor(calls'[d][e2], Called(d, e2))
          BY <2>2, <2>3, <2>5, <2>6
        <4> QED BY <2>5, <3>2, <4>1
      <3> QED BY <3>1, <3>2
    <2> QED BY <1>2, <2>1, <2>4, <2>7 DEF CallsMade
  <1> QED BY <1>3, <1>4, <1>5, <1>6 DEF IInv

\* The elements of an appended sequence.
LEMMA AppendElements ==
    ASSUME NEW R, NEW s \in Seq(R), NEW x \in R
    PROVE  \A y \in ToSet(Append(s, x)) : y \in ToSet(s) \/ y = x
  <1> SUFFICES ASSUME NEW y \in ToSet(Append(s, x)), y # x PROVE y \in ToSet(s)
    OBVIOUS
  <1>1. PICK i \in DOMAIN Append(s, x) : y = Append(s, x)[i]
    BY Elements
  <1>2. i \in DOMAIN s /\ Append(s, x)[i] = s[i]
    BY <1>1
  <1> QED BY <1>1, <1>2, Elements

\* What people change in the base while the panel loads: none of the variables
\* of the load but held, and only before the records have been read.
LEMMA HostLeaves ==
    ASSUME IInv, Changes
    PROVE  /\ pc \in {"table", "defs", "bind", "list", "cells"}
           /\ UNCHANGED <<app, pc, tid, defs, table, ids, records, row, calls>>
           /\ Chosen' /\ Opened' /\ CallsMade'
  <1>1. /\ pc \in {"table", "defs", "bind", "list", "cells"}
        /\ UNCHANGED <<app, pc, tid, defs, table, ids, records, row, calls>>
    BY DEF Changes
  <1>2. Chosen' /\ Opened'
    BY <1>1 DEF IInv, Chosen, Opened
  <1>3. CallsMade'
    BY <1>1 DEF CallsMade
  <1> QED BY <1>1, <1>2, <1>3

\* More held by a cell leaves what was read among it.
LEMMA HeldGrows ==
    ASSUME IInv, UNCHANGED <<pc, table, ids, records, row>>,
           pc \in {"table", "defs", "bind", "list", "cells"},
           pc = "cells" => \A r \in Records, f \in Fields : held[r][f] \subseteq held'[r][f]
    PROVE  Progress'
  <1>1. CASE pc = "cells"
    <2>1. /\ ids \in Seq(Records) /\ records \in Seq([Fields -> Cell]) /\ row \in Seq(Cell)
          /\ Len(records) < Len(ids) /\ Len(row) < Len(FieldOrder)
          /\ \A j \in DOMAIN row : row[j] \in held[NextRecord][FieldOrder[j]]
          /\ \A i \in DOMAIN records, f \in Fields : records[i][f] \in held[ids[i]][f]
      BY <1>1 DEF IInv, TypeOK, Progress, Reading
    <2>2. NextRecord \in Records /\ NextRecord' = NextRecord
      BY <2>1 DEF NextRecord
    <2>3. \A j \in DOMAIN row : row[j] \in held'[NextRecord][FieldOrder[j]]
      <3>1. \A j \in DOMAIN row : FieldOrder[j] \in Fields
        BY <2>1, FieldOrderFacts
      <3> QED BY <1>1, <2>1, <2>2, <3>1
    <2>4. \A i \in DOMAIN records : ids[i] \in Records
      BY <2>1
    <2>5. \A i \in DOMAIN records, f \in Fields : records[i][f] \in held'[ids[i]][f]
      BY <1>1, <2>1, <2>4
    <2> QED BY <1>1, <2>1, <2>2, <2>3, <2>5 DEF Progress
  <1>2. CASE pc # "cells"
    BY <1>2 DEF IInv, Progress, Reading
  <1> QED BY <1>1, <1>2

\* The host: another table is opened.
LEMMA SwitchStep ==
    ASSUME IInv, NEW t \in Tables, SwitchTable(t) PROVE IInv'
  <1>1. /\ pc \in {"table", "defs", "bind", "list", "cells"}
        /\ UNCHANGED <<app, pc, tid, defs, table, ids, records, row, calls>>
        /\ Chosen' /\ Opened' /\ CallsMade'
    BY HostLeaves DEF SwitchTable
  <1>2. active' = t /\ UNCHANGED <<base, held>>
    BY DEF SwitchTable
  <1>3. TypeOK' /\ ListsNoDeleted' /\ Held'
    BY <1>1, <1>2 DEF IInv, TypeOK, ListsNoDeleted, Held, Reading
  <1>4. Progress'
    BY <1>1, <1>2, HeldGrows
  <1> QED BY <1>1, <1>3, <1>4 DEF IInv

\* A record is inserted.
LEMMA InsertStep ==
    ASSUME IInv, NEW t \in Tables, NEW r \in Records, InsertRecord(t, r) PROVE IInv'
  <1>1. /\ pc \in {"table", "defs", "bind", "list", "cells"}
        /\ UNCHANGED <<app, pc, tid, defs, table, ids, records, row, calls>>
        /\ Chosen' /\ Opened' /\ CallsMade'
    BY HostLeaves DEF InsertRecord
  <1>2. /\ r \notin base[t].deleted /\ UNCHANGED <<active, held>>
        /\ base' = [base EXCEPT ![t].visible = Append(@, r)]
    BY DEF InsertRecord
  <1>3. base \in [Tables -> HostTable] /\ base[t] \in HostTable
    BY DEF IInv, TypeOK
  <1>4. /\ base' \in [Tables -> HostTable]
        /\ \A u \in Tables : base'[u].cell = base[u].cell /\ base'[u].deleted = base[u].deleted
        /\ \A u \in Tables : u # t => base'[u].visible = base[u].visible
        /\ base'[t].visible = Append(base[t].visible, r)
    <2>1. base[t].visible \in Seq(Records \cup {NoId})
      BY <1>3 DEF HostTable
    <2>2. Append(base[t].visible, r) \in Seq(Records \cup {NoId})
      BY <2>1
    <2>3. base'[t] = [base[t] EXCEPT !.visible = Append(base[t].visible, r)]
      BY <1>2, <1>3
    <2>4. /\ base'[t] \in HostTable /\ base'[t].visible = Append(base[t].visible, r)
          /\ base'[t].cell = base[t].cell /\ base'[t].deleted = base[t].deleted
      <3>1. PICK h, g, v : h = base[t] /\ g = base'[t] /\ v = Append(base[t].visible, r)
        OBVIOUS
      <3>2. h \in HostTable /\ v \in Seq(Records \cup {NoId}) /\ g = [h EXCEPT !.visible = v]
        BY <1>3, <2>2, <2>3, <3>1
      <3>3. g \in HostTable /\ g.visible = v /\ g.cell = h.cell /\ g.deleted = h.deleted
        BY <3>2 DEF HostTable
      <3> QED BY <3>1, <3>3
    <2>5. base' = [u \in Tables |-> base'[u]] /\ \A u \in Tables : u # t => base'[u] = base[u]
      BY <1>2, <1>3
    <2>6. \A u \in Tables : base'[u] \in HostTable
      BY <1>3, <2>4, <2>5
    <2>7. base' \in [Tables -> HostTable]
      BY <2>5, <2>6
    <2> QED BY <2>4, <2>5, <2>7
  <1>5. ListsNoDeleted'
    <2>1. base[t].visible \in Seq(Records \cup {NoId})
      BY <1>3 DEF HostTable
    <2>2. \A x \in ToSet(Append(base[t].visible, r)) : x \in ToSet(base[t].visible) \/ x = r
      BY <2>1, AppendElements
    <2>3. \A u \in Tables : ToSet(base[u].visible) \cap base[u].deleted = {}
      BY DEF IInv, ListsNoDeleted
    <2> QED BY <1>2, <1>4, <2>2, <2>3 DEF ListsNoDeleted
  <1>6. TypeOK'
    BY <1>1, <1>2, <1>4 DEF IInv, TypeOK, Reading
  <1>7. Held'
    <2>1. pc = "cells" => table \in Tables
      BY DEF IInv, Opened
    <2> QED BY <1>1, <1>2, <1>4, <2>1 DEF IInv, Held
  <1>8. Progress'
    BY <1>1, <1>2, HeldGrows
  <1> QED BY <1>1, <1>5, <1>6, <1>7, <1>8 DEF IInv

\* A cell is edited, and what it holds now is noted.
LEMMA EditStep ==
    ASSUME IInv, NEW t \in Tables, NEW r \in Records, NEW f \in Fields, NEW v \in Edited,
           EditCell(t, r, f, v)
    PROVE  IInv'
  <1>1. /\ pc \in {"table", "defs", "bind", "list", "cells"}
        /\ UNCHANGED <<app, pc, tid, defs, table, ids, records, row, calls>>
        /\ Chosen' /\ Opened' /\ CallsMade'
    BY HostLeaves DEF EditCell
  <1>2. /\ UNCHANGED active /\ held' = Noted(t, r, f, v)
        /\ base' = [base EXCEPT ![t].cell[r][f] = v]
    BY DEF EditCell
  <1>3. /\ base \in [Tables -> HostTable] /\ base[t] \in HostTable
        /\ base[t].cell \in [Records -> [Fields -> Cell]] /\ v \in Cell
    BY WidgetAssumption DEF IInv, TypeOK, HostTable
  <1>4. /\ base'[t] = [base[t] EXCEPT !.cell = [base[t].cell EXCEPT ![r] = [base[t].cell[r] EXCEPT ![f] = v]]]
        /\ \A u \in Tables : u # t => base'[u] = base[u]
        /\ base' = [u \in Tables |-> base'[u]]
    BY <1>2, <1>3
  <1>5. /\ base'[t].visible = base[t].visible /\ base'[t].deleted = base[t].deleted
        /\ base'[t].cell = [base[t].cell EXCEPT ![r] = [base[t].cell[r] EXCEPT ![f] = v]]
        /\ base'[t] \in HostTable
    <2>1. [base[t].cell EXCEPT ![r] = [base[t].cell[r] EXCEPT ![f] = v]] \in [Records -> [Fields -> Cell]]
      BY <1>3
    <2>2. PICK h, g, c : /\ h = base[t] /\ g = base'[t]
                         /\ c = [base[t].cell EXCEPT ![r] = [base[t].cell[r] EXCEPT ![f] = v]]
      OBVIOUS
    <2>3. h \in HostTable /\ c \in [Records -> [Fields -> Cell]] /\ g = [h EXCEPT !.cell = c]
      BY <1>3, <1>4, <2>1, <2>2
    <2>4. g \in HostTable /\ g.cell = c /\ g.visible = h.visible /\ g.deleted = h.deleted
      BY <2>3 DEF HostTable
    <2> QED BY <2>2, <2>4
  <1>6. base' \in [Tables -> HostTable]
    BY <1>3, <1>4, <1>5
  <1>7. ListsNoDeleted'
    BY <1>4, <1>5 DEF IInv, ListsNoDeleted
  <1>8. CASE pc = "cells" /\ t = table
    <2>1. held \in [Records -> [Fields -> SUBSET Cell]]
      BY <1>8 DEF IInv, TypeOK, Reading
    <2>2. held' = [held EXCEPT ![r][f] = held[r][f] \cup {v}]
      BY <1>2, <1>8 DEF Noted
    <2>3. /\ held' \in [Records -> [Fields -> SUBSET Cell]]
          /\ held'[r][f] = held[r][f] \cup {v}
          /\ \A q \in Records, g \in Fields : held[q][g] \subseteq held'[q][g]
      BY <1>3, <2>1, <2>2
    <2>4. TypeOK'
      BY <1>1, <1>2, <1>6, <2>3 DEF IInv, TypeOK
    <2>5. Progress'
      BY <1>1, <2>3, HeldGrows
    <2>6. Held'
      <3>1. ASSUME NEW q \in Records, NEW g \in Fields PROVE base'[table].cell[q][g] \in held'[q][g]
        <4>1. base[table].cell[q][g] \in held[q][g]
          BY <1>8 DEF IInv, Held
        <4>2. base'[table].cell[q][g] = IF q = r /\ g = f THEN v ELSE base[table].cell[q][g]
          BY <1>3, <1>5, <1>8
        <4> QED BY <2>3, <4>1, <4>2
      <3>2. ASSUME NEW i \in DOMAIN ids, ids[i] \in base[table].deleted, NEW g \in Fields
            PROVE  Null \in held'[ids[i]][g]
        <4>1. Null \in held[ids[i]][g]
          BY <1>8, <3>2 DEF IInv, Held
        <4>2. ids[i] \in Records
          BY DEF IInv, TypeOK
        <4> QED BY <2>3, <4>1, <4>2
      <3> QED BY <1>1, <1>5, <1>8, <3>1, <3>2 DEF Held
    <2> QED BY <1>1, <1>7, <2>4, <2>5, <2>6 DEF IInv
  <1>9. CASE ~ (pc = "cells" /\ t = table)
    <2>1. held' = held
      BY <1>2, <1>9 DEF Noted
    <2>2. TypeOK'
      BY <1>1, <1>2, <1>6, <2>1 DEF IInv, TypeOK, Reading
    <2>3. Progress'
      BY <1>1, <2>1, HeldGrows
    <2>4. Held'
      <3>1. pc = "cells" => table \in Tables /\ base'[table] = base[table]
        BY <1>4, <1>9 DEF IInv, Opened
      <3> QED BY <1>1, <2>1, <3>1 DEF IInv, Held
    <2> QED BY <1>1, <1>7, <2>2, <2>3, <2>4 DEF IInv
  <1> QED BY <1>8, <1>9

\* A record is deleted: its cells read as empty from now on.
LEMMA DeleteStep ==
    ASSUME IInv, NEW t \in Tables, NEW r \in Records, DeleteRecord(t, r) PROVE IInv'
  <1>1. /\ pc \in {"table", "defs", "bind", "list", "cells"}
        /\ UNCHANGED <<app, pc, tid, defs, table, ids, records, row, calls>>
        /\ Chosen' /\ Opened' /\ CallsMade'
    BY HostLeaves DEF DeleteRecord
  <1>2. /\ UNCHANGED active
        /\ base' = [base EXCEPT ![t].visible = Without(@, r), ![t].deleted = @ \cup {r}]
        /\ held' = IF pc = "cells" /\ t = table
                   THEN [held EXCEPT ![r] = [f \in Fields |-> held[r][f] \cup {Null}]] ELSE held
    BY DEF DeleteRecord
  <1>3. /\ base \in [Tables -> HostTable] /\ base[t] \in HostTable
        /\ base[t].visible \in Seq(Records \cup {NoId}) /\ base[t].deleted \subseteq Records
    BY DEF IInv, TypeOK, HostTable
  <1>4. /\ Without(base[t].visible, r) \in Seq(Records \cup {NoId})
        /\ ToSet(Without(base[t].visible, r)) = ToSet(base[t].visible) \ {r}
    BY <1>3, WithoutId
  <1>5. /\ base'[t] = [base[t] EXCEPT !.visible = Without(base[t].visible, r),
                                      !.deleted = base[t].deleted \cup {r}]
        /\ \A u \in Tables : u # t => base'[u] = base[u]
        /\ base' = [u \in Tables |-> base'[u]]
    BY <1>2, <1>3
  <1>6. /\ base'[t].visible = Without(base[t].visible, r)
        /\ base'[t].deleted = base[t].deleted \cup {r} /\ base'[t].cell = base[t].cell
        /\ base'[t] \in HostTable
    <2>1. base[t].deleted \cup {r} \in SUBSET Records
      BY <1>3
    <2>2. PICK h, g, v, d : /\ h = base[t] /\ g = base'[t]
                            /\ v = Without(base[t].visible, r) /\ d = base[t].deleted \cup {r}
      OBVIOUS
    <2>3. /\ h \in HostTable /\ v \in Seq(Records \cup {NoId}) /\ d \in SUBSET Records
          /\ g = [h EXCEPT !.visible = v, !.deleted = d]
      BY <1>3, <1>4, <1>5, <2>1, <2>2
    <2>4. g \in HostTable /\ g.visible = v /\ g.cell = h.cell /\ g.deleted = d
      BY <2>3 DEF HostTable
    <2> QED BY <2>2, <2>4
  <1>7. base' \in [Tables -> HostTable]
    BY <1>3, <1>5, <1>6
  <1>8. ListsNoDeleted'
    <2>1. \A u \in Tables : ToSet(base[u].visible) \cap base[u].deleted = {}
      BY DEF IInv, ListsNoDeleted
    <2>2. ToSet(base'[t].visible) \cap base'[t].deleted = {}
      BY <1>4, <1>6, <2>1
    <2> QED BY <1>5, <2>1, <2>2 DEF ListsNoDeleted
  <1>9. CASE pc = "cells" /\ t = table
    <2>1. held \in [Records -> [Fields -> SUBSET Cell]]
      BY <1>9 DEF IInv, TypeOK, Reading
    <2>2. /\ held' \in [Records -> [Fields -> SUBSET Cell]]
          /\ \A g \in Fields : Null \in held'[r][g]
          /\ \A q \in Records, g \in Fields : held[q][g] \subseteq held'[q][g]
      BY <1>2, <1>9, <2>1, NullIsCell
    <2>3. TypeOK'
      BY <1>1, <1>2, <1>7, <2>2 DEF IInv, TypeOK
    <2>4. Progress'
      BY <1>1, <2>2, HeldGrows
    <2>5. Held'
      <3>1. \A q \in Records, g \in Fields : base'[table].cell[q][g] \in held'[q][g]
        BY <1>6, <1>9, <2>2 DEF IInv, Held
      <3>2. ASSUME NEW i \in DOMAIN ids, ids[i] \in base[table].deleted \cup {r}, NEW g \in Fields
            PROVE  Null \in held'[ids[i]][g]
        <4>1. ids[i] \in Records
          BY DEF IInv, TypeOK
        <4>2. CASE ids[i] = r
          BY <2>2, <4>2
        <4>3. CASE ids[i] \in base[table].deleted
          <5>1. Null \in held[ids[i]][g]
            BY <1>9, <4>3 DEF IInv, Held
          <5> QED BY <2>2, <4>1, <5>1
        <4> QED BY <3>2, <4>2, <4>3
      <3> QED BY <1>1, <1>6, <1>9, <3>1, <3>2 DEF Held
    <2> QED BY <1>1, <1>8, <2>3, <2>4, <2>5 DEF IInv
  <1>10. CASE ~ (pc = "cells" /\ t = table)
    <2>1. held' = held
      BY <1>2, <1>10
    <2>2. TypeOK'
      BY <1>1, <1>2, <1>7, <2>1 DEF IInv, TypeOK, Reading
    <2>3. Progress'
      BY <1>1, <2>1, HeldGrows
    <2>4. Held'
      <3>1. pc = "cells" => table \in Tables /\ base'[table] = base[table]
        BY <1>5, <1>10 DEF IInv, Opened
      <3> QED BY <1>1, <2>1, <3>1 DEF IInv, Held
    <2> QED BY <1>1, <1>8, <2>2, <2>3, <2>4 DEF IInv
  <1> QED BY <1>9, <1>10

\* Every step preserves the invariant.
LEMMA Inductive == IInv /\ [Next]_vars => IInv'
  <1> SUFFICES ASSUME IInv, [Next]_vars PROVE IInv'
    OBVIOUS
  <1>1. CASE LoadStep
    BY <1>1, ChoiceStep, OpenStep, ListStep, ReadStep, FailStep, RenderStep DEF LoadStep
  <1>2. CASE Settle
    BY <1>2, SettleStep DEF Settle
  <1>3. CASE HostStep
    BY <1>3, SwitchStep, InsertStep, DeleteStep, EditStep DEF HostStep
  <1>4. CASE Gathering \/ UNCHANGED vars
    <2>1. UNCHANGED <<base, active, app, pc, tid, defs, table, ids, held, records, row, calls>>
      BY <1>4 DEF Gathering, Gather, host, vars
    <2>2. TypeOK' /\ ListsNoDeleted'
      BY <2>1 DEF IInv, TypeOK, ListsNoDeleted, Reading
    <2>3. Chosen' /\ Opened' /\ Held'
      BY <2>1 DEF IInv, Chosen, Opened, Held
    <2>4. Progress'
      BY <2>1 DEF IInv, Progress, Reading, NextRecord
    <2>5. CallsMade'
      <3>1. \A d, e : Called(d, e)' = Called(d, e)
        BY <2>1, CalledUnchanged
      <3> QED BY <2>1, <3>1 DEF IInv, CallsMade
    <2> QED BY <2>2, <2>3, <2>4, <2>5 DEF IInv
  <1> QED BY <1>1, <1>2, <1>3, <1>4 DEF Next

\* The invariant always holds.
LEMMA AlwaysIInv == Spec => []IInv
  BY InitInv, Inductive, PTL DEF Spec

\* The panel shows this table's definitions, all of them, and for every record
\* listed a row of cells that record held: for every base, every catalog, every
\* schedule of edits, insertions, deletions and table switches
\* (bitableData.ts:35-71).
THEOREM LoadIsFaithfulHolds == Spec => []LoadIsFaithful
  <1>1. IInv => LoadIsFaithful
    <2> SUFFICES ASSUME IInv, pc = "shown" PROVE LoadIsFaithful
      BY DEF LoadIsFaithful
    <2>1. table \in Tables /\ (app = "" => table = tid) /\ \A d \in DOMAIN defs : defs[d].bind \in {table, "", "current"}
      BY DEF IInv, Opened
    <2>2. app = "" => \A k \in DOMAIN Catalog : Catalog[k].bind = table => Contains(defs, Catalog[k])
      BY <2>1 DEF IInv, Chosen
    <2>3. /\ Len(records) = Len(ids)
          /\ \A i \in DOMAIN records, f \in Fields : records[i][f] \in held[ids[i]][f]
      BY DEF IInv, Progress, Reading
    <2>4. DOMAIN ids = DOMAIN records
      <3>1. ids \in Seq(Records) /\ records \in Seq([Fields -> Cell])
        BY DEF IInv, TypeOK
      <3> QED BY <2>3, <3>1
    <2> QED BY <2>1, <2>2, <2>3, <2>4 DEF LoadIsFaithful
  <1> QED BY <1>1, AlwaysIInv, PTL

\* A sequence is one up to its length.
LEMMA LengthIs ==
    ASSUME NEW n \in Nat, NEW s, s = [i \in 1..n |-> s[i]] PROVE Len(s) = n /\ DOMAIN s = 1..n
  <1> DEFINE R == {s[i] : i \in 1..n}
  <1>1. s \in [1..n -> R]
    OBVIOUS
  <1>2. s \in Seq(R)
    BY <1>1, SeqDef
  <1> HIDE DEF R
  <1> QED BY <1>1, <1>2

\* The lesser of two numbers, as Min has it.
LEMMA Lesser ==
    ASSUME NEW a \in Nat, NEW b \in Nat PROVE Min({a, b}) = IF b < a THEN b ELSE a
  <1> DEFINE m == IF b < a THEN b ELSE a
             Least(x) == x \in {a, b} /\ \A y \in {a, b} : x <= y
  <1>1. Least(m) /\ \A x : Least(x) => x = m
    OBVIOUS
  <1>2. Min({a, b}) = CHOOSE x \in {a, b} : \A y \in {a, b} : x <= y
    BY DEF Min
  <1>3. Least(CHOOSE x \in {a, b} : \A y \in {a, b} : x <= y)
    BY <1>1
  <1> HIDE DEF m, Least
  <1>4. (CHOOSE x \in {a, b} : \A y \in {a, b} : x <= y) = m
    BY <1>1, <1>3
  <1> QED BY <1>2, <1>4 DEF m

\* The inputs of an enrich component: of the first rows with one, in their
\* order, up to the cap.
LEMMA InputsFacts ==
    ASSUME NEW R, records \in Seq(R), NEW c
    PROVE  LET withInput == {i \in DOMAIN records : ToLabel(records[i][c.inputField]) \notin {"", Blank}}
           IN  /\ Cardinality(withInput) \in Nat
               /\ \E n \in Nat :
                     /\ n = IF Cardinality(withInput) < ENRICH_CAP THEN Cardinality(withInput) ELSE ENRICH_CAP
                     /\ DOMAIN EnrichInputs(c) = 1..n
                     /\ \A i \in 1..n : \E k \in withInput :
                           /\ Cardinality({j \in withInput : j <= k}) = i
                           /\ EnrichInputs(c)[i] = ToLabel(records[k][c.inputField])
  <1> DEFINE withInput == {i \in DOMAIN records : ToLabel(records[i][c.inputField]) \notin {"", Blank}}
  <1>1. PICK I : I = {i \in DOMAIN records : InputOf(records[i], c.inputField) # ""}
    OBVIOUS
  <1>2. I = withInput
    BY <1>1 DEF InputOf, Blank
  <1>3. At(records, I) = I
    <2>1. DOMAIN records = 1..Len(records)
      OBVIOUS
    <2>2. I \subseteq 1..Len(records)
      BY <1>1, <2>1
    <2> QED BY <2>2 DEF At
  <1>4. PICK w : w = Where(records, I)
    OBVIOUS
  <1>5. PICK first : first = FirstOf(w, ENRICH_CAP)
    OBVIOUS
  <1>6. EnrichInputs(c) = [i \in DOMAIN first |-> InputOf(first[i], c.inputField)]
    BY <1>1, <1>4, <1>5 DEF EnrichInputs
  <1>7. /\ w \in Seq(R) /\ Len(w) = Cardinality(I)
        /\ \A k \in 1..Len(w) : \E i \in I :
              w[k] = records[i] /\ Cardinality({j \in I : j <= i}) = k
    <2>1. Where(records, I) \in Seq(R) /\ Len(Where(records, I)) = Cardinality(At(records, I))
      BY WhereElements
    <2>2. \A k \in 1..Len(Where(records, I)) : \E i \in At(records, I) :
             Where(records, I)[k] = records[i] /\ Cardinality({j \in At(records, I) : j <= i}) = k
      BY WhereOrder
    <2>3. \A k \in 1..Len(w) : \E i \in I : w[k] = records[i] /\ Cardinality({j \in I : j <= i}) = k
      BY <1>3, <1>4, <2>2, Zenon
    <2> QED BY <1>3, <1>4, <2>1, <2>3
  <1>9. ENRICH_CAP \in Nat
    BY WidgetAssumption
  <1>10. /\ first \in Seq(R)
         /\ Len(first) = IF Len(w) < ENRICH_CAP THEN Len(w) ELSE ENRICH_CAP
         /\ \A i \in 1..Len(first) : first[i] = w[i]
    <2>1. w \in Seq(R)
      BY <1>7
    <2>2. /\ FirstOf(w, ENRICH_CAP) \in Seq(R)
          /\ Len(FirstOf(w, ENRICH_CAP)) = IF Len(w) < ENRICH_CAP THEN Len(w) ELSE ENRICH_CAP
          /\ \A i \in 1..Len(FirstOf(w, ENRICH_CAP)) : FirstOf(w, ENRICH_CAP)[i] = w[i]
      BY <1>9, <2>1, FirstOfProperties
    <2> QED BY <1>5, <2>2, Zenon
  <1>11. /\ Len(w) \in Nat /\ Len(first) \in Nat /\ DOMAIN first = 1..Len(first)
         /\ \A i \in 1..Len(first) : i \in 1..Len(w)
    <2>1. Len(w) \in Nat
      BY <1>7
    <2>2. Len(first) \in Nat /\ DOMAIN first = 1..Len(first)
      BY <1>10
    <2> QED BY <1>9, <1>10, <2>1, <2>2
  <1>12. ASSUME NEW i \in 1..Len(first)
         PROVE  \E k \in I : /\ Cardinality({j \in I : j <= k}) = i
                             /\ EnrichInputs(c)[i] = ToLabel(records[k][c.inputField])
    <2>1. i \in DOMAIN first /\ first[i] = w[i] /\ i \in 1..Len(w)
      BY <1>10, <1>11
    <2>2. PICK k \in I : w[i] = records[k] /\ Cardinality({j \in I : j <= k}) = i
      BY <1>7, <2>1
    <2>3. EnrichInputs(c)[i] = InputOf(records[k], c.inputField)
      BY <1>6, <2>1, <2>2
    <2>4. InputOf(records[k], c.inputField) = ToLabel(records[k][c.inputField])
      BY <1>1, <2>2 DEF InputOf
    <2> QED BY <2>2, <2>3, <2>4
  <1>13. DOMAIN EnrichInputs(c) = 1..Len(first)
    BY <1>6, <1>11
  <1> HIDE DEF withInput
  <1>14. Cardinality(withInput) = Len(w)
    BY <1>2, <1>7
  <1>15. \A i \in 1..Len(first) : \E k \in withInput :
            /\ Cardinality({j \in withInput : j <= k}) = i
            /\ EnrichInputs(c)[i] = ToLabel(records[k][c.inputField])
    BY <1>2, <1>12, Zenon
  <1> QED BY <1>10, <1>11, <1>13, <1>14, <1>15 DEF withInput

\* What the enrich tiles of a panel show: each is loading, or shows its calls,
\* all settled, or its own error because it is incomplete.
TilesShow ==
    pc = "shown" =>
        /\ DOMAIN tiles = DOMAIN defs
        /\ \A d \in DOMAIN defs :
              /\ DOMAIN tiles[d] = IF Section(d) = "tiles" THEN DOMAIN defs[d].enrich ELSE {}
              /\ \A e \in DOMAIN tiles[d] :
                    \/ tiles[d][e] = Loading
                    \/ AllSettled(d, e) /\ defs[d].enrich[e].complete /\ tiles[d][e] = ShownRows(calls[d][e])
                    \/ AllSettled(d, e) /\ ~ defs[d].enrich[e].complete /\ tiles[d][e] = OwnError

\* Rendering begins with every tile loading.
LEMMA TilesDrawn ==
    ASSUME Render PROVE TilesShow'
  <1>1. UNCHANGED defs /\ tiles' = [d \in DOMAIN defs |-> Drawn(d)]
    BY DEF Render
  <1>2. ASSUME NEW d \in DOMAIN defs
        PROVE  /\ DOMAIN tiles'[d] = IF Section(d) = "tiles" THEN DOMAIN defs[d].enrich ELSE {}
               /\ \A e \in DOMAIN tiles'[d] : tiles'[d][e] = Loading
    <2>1. CASE Section(d) = "tiles"
      BY <1>1, <2>1 DEF Drawn
    <2>2. CASE Section(d) # "tiles"
      <3>1. tiles'[d] = <<>>
        BY <1>1, <2>2 DEF Drawn
      <3> QED BY <2>2, <3>1
    <2> QED BY <2>1, <2>2
  <1>3. \A d : Section(d)' = Section(d)
    BY <1>1 DEF Section
  <1> QED BY <1>1, <1>2, <1>3 DEF TilesShow

\* A call that settles is of a tile that loads.
LEMMA TilesAwait ==
    ASSUME TilesShow, NEW d \in DOMAIN calls, NEW e \in DOMAIN calls[d], NEW i \in DOMAIN calls[d][e],
           NEW a, Answer(d, e, i, a)
    PROVE  TilesShow'
  <1>1. /\ pc = "shown" /\ UNCHANGED <<pc, defs, tiles>>
        /\ calls[d][e][i].answer = Awaited
        /\ calls' = [calls EXCEPT ![d][e][i].answer = a]
    BY DEF Answer
  <1>2. \A k : Section(k)' = Section(k)
    BY <1>1 DEF Section
  <1>3. ~ AllSettled(d, e)
    BY <1>1 DEF AllSettled
  <1>4. ASSUME NEW k, NEW m, <<k, m>> # <<d, e>> PROVE calls'[k][m] = calls[k][m]
    <2>1. CASE k # d
      BY <1>1, <2>1
    <2>2. CASE k = d /\ m # e
      <3>1. calls'[d] = [calls[d] EXCEPT ![e][i].answer = a]
        BY <1>1
      <3> QED BY <2>2, <3>1
    <2> QED BY <1>4, <2>1, <2>2
  <1>5. ASSUME NEW k \in DOMAIN defs, NEW m \in DOMAIN tiles[k], tiles[k][m] # Loading
        PROVE  calls'[k][m] = calls[k][m] /\ AllSettled(k, m)' = AllSettled(k, m)
    <2>1. AllSettled(k, m)
      BY <1>1, <1>5 DEF TilesShow
    <2>2. calls'[k][m] = calls[k][m]
      BY <1>3, <1>4, <2>1
    <2> QED BY <2>2 DEF AllSettled
  <1>6. \A k \in DOMAIN defs : \A m \in DOMAIN tiles[k] :
           \/ tiles[k][m] = Loading
           \/ AllSettled(k, m)' /\ defs[k].enrich[m].complete /\ tiles[k][m] = ShownRows(calls'[k][m])
           \/ AllSettled(k, m)' /\ ~ defs[k].enrich[m].complete /\ tiles[k][m] = OwnError
    <2> SUFFICES ASSUME NEW k \in DOMAIN defs, NEW m \in DOMAIN tiles[k], tiles[k][m] # Loading
                 PROVE  \/ AllSettled(k, m)' /\ defs[k].enrich[m].complete /\ tiles[k][m] = ShownRows(calls'[k][m])
                        \/ AllSettled(k, m)' /\ ~ defs[k].enrich[m].complete /\ tiles[k][m] = OwnError
      OBVIOUS
    <2>1. \/ AllSettled(k, m) /\ defs[k].enrich[m].complete /\ tiles[k][m] = ShownRows(calls[k][m])
          \/ AllSettled(k, m) /\ ~ defs[k].enrich[m].complete /\ tiles[k][m] = OwnError
      BY <1>1 DEF TilesShow
    <2>2. calls'[k][m] = calls[k][m] /\ AllSettled(k, m)' = AllSettled(k, m)
      BY <1>5
    <2>3. ShownRows(calls'[k][m]) = ShownRows(calls[k][m])
      BY <2>2
    <2> QED BY <2>1, <2>2, <2>3
  <1> QED BY <1>1, <1>2, <1>6 DEF TilesShow

\* A tile shows its rows when all its calls have settled.
LEMMA TilesGather ==
    ASSUME TilesShow, NEW d \in DOMAIN tiles, NEW e \in DOMAIN tiles[d], Gather(d, e)
    PROVE  TilesShow'
  <1> DEFINE shown == IF defs[d].enrich[e].complete THEN ShownRows(calls[d][e]) ELSE OwnError
  <1>1. /\ pc = "shown" /\ UNCHANGED <<pc, defs, calls>>
        /\ AllSettled(d, e)
        /\ tiles' = [tiles EXCEPT ![d][e] = shown]
    BY DEF Gather
  <1>2. (\A k : Section(k)' = Section(k)) /\ \A k, m : AllSettled(k, m)' = AllSettled(k, m)
    BY <1>1 DEF Section, AllSettled
  <1>3. /\ DOMAIN tiles' = DOMAIN tiles
        /\ \A k \in DOMAIN tiles : k # d => tiles'[k] = tiles[k]
        /\ tiles'[d] = [tiles[d] EXCEPT ![e] = shown]
    BY <1>1
  <1>4. \A k \in DOMAIN tiles : DOMAIN tiles'[k] = DOMAIN tiles[k]
    BY <1>3
  <1>5. \A k \in DOMAIN tiles : \A m \in DOMAIN tiles[k] :
           tiles'[k][m] = IF k = d /\ m = e THEN shown ELSE tiles[k][m]
    BY <1>3
  <1>6. DOMAIN tiles = DOMAIN defs
    BY <1>1 DEF TilesShow
  <1>7. ASSUME NEW k \in DOMAIN defs, NEW m \in DOMAIN tiles[k]
        PROVE  \/ tiles'[k][m] = Loading
               \/ AllSettled(k, m) /\ defs[k].enrich[m].complete /\ tiles'[k][m] = ShownRows(calls[k][m])
               \/ AllSettled(k, m) /\ ~ defs[k].enrich[m].complete /\ tiles'[k][m] = OwnError
    <2>1. CASE k = d /\ m = e
      BY <1>1, <1>5, <1>6, <2>1
    <2>2. CASE ~ (k = d /\ m = e)
      <3>1. tiles'[k][m] = tiles[k][m]
        BY <1>5, <1>6, <2>2
      <3> HIDE DEF shown
      <3> QED BY <1>1, <3>1 DEF TilesShow
    <2> QED BY <2>1, <2>2
  <1> HIDE DEF shown
  <1>8. \A k \in DOMAIN defs :
           DOMAIN tiles'[k] = IF Section(k) = "tiles" THEN DOMAIN defs[k].enrich ELSE {}
    BY <1>1, <1>4, <1>6 DEF TilesShow
  <1> QED BY <1>1, <1>2, <1>3, <1>4, <1>6, <1>7, <1>8 DEF TilesShow

\* Whatever happens at the host is a change of a base or of the open table.
LEMMA HostChanges == HostStep => Changes
  <1> SUFFICES ASSUME HostStep PROVE Changes
    OBVIOUS
  <1>1. PICK t \in Tables :
           \/ SwitchTable(t)
           \/ \E r \in Records : \/ InsertRecord(t, r)
                               \/ DeleteRecord(t, r)
                               \/ \E f \in Fields, v \in Edited : EditCell(t, r, f, v)
    BY DEF HostStep
  <1>2. CASE SwitchTable(t)
    BY <1>2 DEF SwitchTable
  <1>3. CASE \E r \in Records : \/ InsertRecord(t, r)
                               \/ DeleteRecord(t, r)
                               \/ \E f \in Fields, v \in Edited : EditCell(t, r, f, v)
    <2>1. PICK r \in Records : \/ InsertRecord(t, r)
                              \/ DeleteRecord(t, r)
                              \/ \E f \in Fields, v \in Edited : EditCell(t, r, f, v)
      BY <1>3
    <2>2. CASE InsertRecord(t, r)
      BY <2>2 DEF InsertRecord
    <2>3. CASE DeleteRecord(t, r)
      BY <2>3 DEF DeleteRecord
    <2>4. CASE \E f \in Fields, v \in Edited : EditCell(t, r, f, v)
      BY <2>4 DEF EditCell
    <2> QED BY <2>1, <2>2, <2>3, <2>4
  <1> QED BY <1>1, <1>2, <1>3

\* What the tiles show is an invariant of every step.
LEMMA TilesInductive ==
    ASSUME TilesShow, [Next]_vars PROVE TilesShow'
  <1>1. CASE LoadStep
    <2>1. CASE Render
      BY <2>1, TilesDrawn
    <2>2. CASE ~ Render
      <3>1. pc' # "shown"
        BY <1>1, <2>2 DEF LoadStep, CurrentTable, FetchDefinitions, OpenTable, ListRecords, ReadCell,
                         CellFails, Store, LoadFails
      <3> QED BY <3>1 DEF TilesShow
    <2> QED BY <2>1, <2>2
  <1>2. CASE Settle
    <2>1. PICK d \in DOMAIN calls : \E e \in DOMAIN calls[d] : \E i \in DOMAIN calls[d][e] :
             ExecuteAnswers(d, e, i) \/ ExecuteFails(d, e, i)
      BY <1>2 DEF Settle
    <2>2. PICK e \in DOMAIN calls[d] : \E i \in DOMAIN calls[d][e] :
             ExecuteAnswers(d, e, i) \/ ExecuteFails(d, e, i)
      BY <2>1
    <2>3. PICK i \in DOMAIN calls[d][e] : ExecuteAnswers(d, e, i) \/ ExecuteFails(d, e, i)
      BY <2>2
    <2>4. PICK a : Answer(d, e, i, a)
      BY <2>3 DEF ExecuteAnswers, ExecuteFails
    <2> QED BY <2>4, TilesAwait
  <1>3. CASE Gathering
    BY <1>3, TilesGather DEF Gathering
  <1>4. CASE HostStep
    <2>1. Changes
      BY <1>4, HostChanges
    <2>2. pc' = pc /\ pc # "shown"
      BY <2>1 DEF Changes
    <2> QED BY <2>2 DEF TilesShow
  <1>5. CASE UNCHANGED vars
    <2>1. UNCHANGED <<pc, defs, calls, tiles>>
      BY <1>5 DEF vars
    <2>2. (\A k : Section(k)' = Section(k)) /\ \A k, m : AllSettled(k, m)' = AllSettled(k, m)
      BY <2>1 DEF Section, AllSettled
    <2> QED BY <2>1, <2>2 DEF TilesShow
  <1> QED BY <1>1, <1>2, <1>3, <1>4, <1>5 DEF Next

\* A tile that shows rows shows all its calls, which are those of its inputs
\* and have settled.
LEMMA RowsFacts ==
    ASSUME IInv, TilesShow, pc = "shown", NEW d \in DOMAIN tiles, NEW e \in DOMAIN tiles[d],
           tiles[d][e].shows = "rows"
    PROVE  LET inputs == EnrichInputs(defs[d].enrich[e])
               rows == tiles[d][e].rows
           IN  /\ rows = calls[d][e] /\ rows = [i \in DOMAIN inputs |-> rows[i]]
               /\ \A i \in DOMAIN inputs :
                     /\ rows[i].input = inputs[i]
                     /\ rows[i].answer \in {Refused, AnswerFor(inputs[i])}
  <1> DEFINE c == defs[d].enrich[e]
             inputs == EnrichInputs(c)
             rows == tiles[d][e].rows
  <1>1. d \in DOMAIN defs /\ e \in DOMAIN defs[d].enrich /\ Section(d) = "tiles"
    BY DEF TilesShow
  <1>2. c.complete /\ AllSettled(d, e) /\ rows = calls[d][e]
    <2>1. /\ Loading.shows # "rows" /\ OwnError.shows # "rows"
          /\ ShownRows(calls[d][e]).rows = calls[d][e]
      BY DEF Loading, OwnError, ShownRows
    <2> QED BY <1>1, <2>1 DEF TilesShow
  <1>3. CallsFor(calls[d][e], Called(d, e)) /\ Called(d, e) = inputs
    BY <1>1, <1>2 DEF IInv, CallsMade, Called
  <1> HIDE DEF c, inputs, rows
  <1>4. rows = [i \in DOMAIN inputs |-> rows[i]]
    BY <1>2, <1>3 DEF CallsFor
  <1>5. ASSUME NEW i \in DOMAIN inputs
        PROVE  rows[i].input = inputs[i] /\ rows[i].answer \in {Refused, AnswerFor(inputs[i])}
    <2>1. /\ rows[i] = [input |-> inputs[i], answer |-> rows[i].answer]
          /\ rows[i].answer \in {Awaited, Refused, AnswerFor(inputs[i])}
      BY <1>2, <1>3 DEF CallsFor
    <2>2. rows[i].input = inputs[i]
      BY <2>1
    <2>3. i \in DOMAIN calls[d][e]
      BY <1>2, <1>4
    <2>4. rows[i].answer # Awaited
      BY <1>2, <2>3 DEF AllSettled
    <2> QED BY <2>1, <2>2, <2>4
  <1> QED BY <1>2, <1>4, <1>5 DEF inputs, rows, c

\* The rows shown are of the records with an input, in order, each with the
\* answer of its own call.
LEMMA RowsBelong == IInv /\ TilesShow => ResultsBelong
  <1> SUFFICES ASSUME IInv, TilesShow, pc = "shown", NEW d \in DOMAIN tiles, NEW e \in DOMAIN tiles[d],
                      tiles[d][e].shows = "rows"
               PROVE  LET label(k) == ToLabel(records[k][defs[d].enrich[e].inputField])
                          withInput == {k \in DOMAIN records : label(k) \notin {"", Blank}}
                          shown == tiles[d][e].rows
                      IN  /\ Len(shown) = Min({ENRICH_CAP, Cardinality(withInput)})
                          /\ \A i \in DOMAIN shown :
                                /\ \E k \in withInput :
                                      /\ Cardinality({j \in withInput : j <= k}) = i
                                      /\ shown[i].input = label(k)
                                /\ shown[i].answer = IF calls[d][e][i].answer = Refused
                                                     THEN Refused ELSE AnswerFor(shown[i].input)
    BY DEF ResultsBelong
  <1> DEFINE c == defs[d].enrich[e]
             label(k) == ToLabel(records[k][c.inputField])
             withInput == {k \in DOMAIN records : label(k) \notin {"", Blank}}
             inputs == EnrichInputs(c)
             shown == tiles[d][e].rows
             size == Cardinality(withInput)
  <1>1. records \in Seq([Fields -> Cell]) /\ ENRICH_CAP \in Nat
    BY WidgetAssumption DEF IInv, TypeOK
  <1>2. /\ shown = calls[d][e] /\ shown = [i \in DOMAIN inputs |-> shown[i]]
        /\ \A i \in DOMAIN inputs :
              /\ shown[i].input = inputs[i]
              /\ shown[i].answer \in {Refused, AnswerFor(inputs[i])}
    BY RowsFacts
  <1>3. /\ size \in Nat
        /\ \E n \in Nat :
              /\ n = IF size < ENRICH_CAP THEN size ELSE ENRICH_CAP
              /\ DOMAIN inputs = 1..n
              /\ \A i \in 1..n : \E k \in withInput :
                    /\ Cardinality({j \in withInput : j <= k}) = i
                    /\ inputs[i] = label(k)
    BY <1>1, InputsFacts
  <1> HIDE DEF inputs, shown, withInput, size
  <1>4. PICK n \in Nat : /\ n = IF size < ENRICH_CAP THEN size ELSE ENRICH_CAP
                         /\ DOMAIN inputs = 1..n
                         /\ \A i \in 1..n : \E k \in withInput :
                               /\ Cardinality({j \in withInput : j <= k}) = i
                               /\ inputs[i] = label(k)
    BY <1>3
  <1>5. Len(shown) = n /\ DOMAIN shown = 1..n
    BY <1>2, <1>4, LengthIs
  <1>6. Min({ENRICH_CAP, size}) = n
    BY <1>1, <1>3, <1>4, Lesser
  <1>7. ASSUME NEW i \in DOMAIN shown
        PROVE  /\ \E k \in withInput :
                     /\ Cardinality({j \in withInput : j <= k}) = i
                     /\ shown[i].input = label(k)
               /\ shown[i].answer = IF calls[d][e][i].answer = Refused
                                    THEN Refused ELSE AnswerFor(shown[i].input)
    <2>1. i \in 1..n /\ i \in DOMAIN inputs
      BY <1>4, <1>5
    <2>2. PICK k \in withInput : Cardinality({j \in withInput : j <= k}) = i /\ inputs[i] = label(k)
      BY <1>4, <2>1
    <2>3. shown[i].input = inputs[i] /\ shown[i].answer \in {Refused, AnswerFor(inputs[i])}
      BY <1>2, <2>1
    <2>4. shown[i].input = label(k)
      BY <2>2, <2>3
    <2>5. shown[i].answer = IF calls[d][e][i].answer = Refused
                            THEN Refused ELSE AnswerFor(shown[i].input)
      BY <1>2, <2>3
    <2> QED BY <2>2, <2>4, <2>5
  <1> QED BY <1>5, <1>6, <1>7 DEF shown, withInput, size

\* A failure stays where it happens, for every catalog and every order in which
\* the calls settle: a tile waits for all its calls and then shows, for each of
\* the first records with an input, the answer or the error of that record's own
\* call; a refused call, or a definition that cannot be rendered, takes no tile
\* from the others (App.tsx:599-631, 647, 700-703).
THEOREM FailuresIsolatedHolds == Spec => FailuresIsolated
  <1>1. Init => TilesShow
    BY DEF Init, TilesShow
  <1>2. Spec => []TilesShow
    BY <1>1, TilesInductive, PTL DEF Spec
  <1>3. TilesShow => NoneTakesDownTheRest
    <2> SUFFICES ASSUME TilesShow, pc = "shown", NEW d \in DOMAIN defs, defs[d].body = "tiles",
                        NEW e \in DOMAIN defs[d].enrich
                 PROVE  /\ e \in DOMAIN tiles[d]
                        /\ tiles[d][e].shows = "error" <=> /\ tiles[d][e] # Loading
                                                           /\ ~ defs[d].enrich[e].complete
      BY DEF NoneTakesDownTheRest
    <2>1. e \in DOMAIN tiles[d]
      BY DEF TilesShow, Section
    <2>2. /\ Loading.shows = "loading" /\ OwnError.shows = "error"
          /\ ShownRows(calls[d][e]).shows = "rows"
      BY DEF Loading, OwnError, ShownRows
    <2>3. \/ tiles[d][e] = Loading
          \/ defs[d].enrich[e].complete /\ tiles[d][e] = ShownRows(calls[d][e])
          \/ ~ defs[d].enrich[e].complete /\ tiles[d][e] = OwnError
      BY <2>1 DEF TilesShow
    <2> QED BY <2>1, <2>2, <2>3
  <1>4. ASSUME [Next]_vars, pc = "shown" PROVE ShownOnce
    <2>1. CASE Gathering
      <3>1. PICK d \in DOMAIN tiles : \E e \in DOMAIN tiles[d] : Gather(d, e)
        BY <2>1 DEF Gathering
      <3>2. PICK e \in DOMAIN tiles[d] : Gather(d, e)
        BY <3>1
      <3>3. /\ tiles[d][e] = Loading /\ AllSettled(d, e)
            /\ \E s : tiles' = [tiles EXCEPT ![d][e] = s]
        BY <3>2 DEF Gather
      <3>4. PICK s : tiles' = [tiles EXCEPT ![d][e] = s]
        BY <3>3
      <3>5. ASSUME NEW k \in DOMAIN tiles, NEW m \in DOMAIN tiles[k], tiles'[k][m] # tiles[k][m]
            PROVE  k = d /\ m = e
        <4>1. k = d
          BY <3>4, <3>5
        <4>2. tiles'[d] = [tiles[d] EXCEPT ![e] = s]
          BY <3>4
        <4> QED BY <3>5, <4>1, <4>2
      <3> QED BY <3>3, <3>5 DEF ShownOnce
    <2>2. CASE UNCHANGED tiles
      BY <2>2 DEF ShownOnce
    <2>3. CASE LoadStep
      BY <1>4, <2>3 DEF LoadStep, CurrentTable, FetchDefinitions, OpenTable, ListRecords, ReadCell, CellFails, Render
    <2>4. CASE Settle \/ HostStep
      <3>1. UNCHANGED tiles
        <4>1. CASE Settle
          BY <4>1 DEF Settle, ExecuteAnswers, ExecuteFails, Answer
        <4>2. CASE HostStep
          <5>1. Changes
            BY <4>2, HostChanges
          <5> QED BY <5>1 DEF Changes
        <4> QED BY <2>4, <4>1, <4>2
      <3> QED BY <2>2, <3>1
    <2> QED BY <1>4, <2>1, <2>2, <2>3, <2>4 DEF Next, vars
  <1>5. Spec => [](ResultsBelong /\ NoneTakesDownTheRest)
    BY <1>2, <1>3, RowsBelong, AlwaysIInv, PTL
  <1>6. Spec => [][pc = "shown" => ShownOnce]_vars
    BY <1>4, PTL DEF Spec
  <1> QED BY <1>5, <1>6 DEF FailuresIsolated


----------------------------------------------------------------------------
(* What a filter keeps                                                     *)

\* The places of the records a filter lets through.
Places(s, filter) == {i \in 1..Len(s) : Passes(filter, s[i])}

\* A cell is no number or one.
LEMMA NumberOfCell ==
    ASSUME NEW v \in Cell
    PROVE  ToNumber(v) = None \/ \E n \in Int : ToNumber(v) = <<n>>
  <1>1. ASSUME NEW x PROVE NumberOf(x) = None \/ \E n \in Int : NumberOf(x) = <<n>>
    <2>1. CASE x = ""
      <3>1. NumberOf(x) = <<0>>
        BY <2>1, Zenon DEF NumberOf
      <3> QED BY <3>1
    <2>2. CASE x # "" /\ x \in DOMAIN Numerals
      <3>1. NumberOf(x) = <<Numerals[x]>> /\ Numerals[x] \in Int
        BY <2>2, StringsAssumption DEF NumberOf
      <3> QED BY <3>1
    <2>3. CASE x # "" /\ x \notin DOMAIN Numerals
      BY <2>3 DEF NumberOf
    <2> QED BY <2>1, <2>2, <2>3
  <1>2. v.n \in Int /\ NumberOf(v.s) = NumberOf(v.s)
    BY DEF Cell
  <1> QED BY <1>1, <1>2 DEF ToNumber

\* A condition is a filter.
LEMMA OneFilter ==
    ASSUME NEW cond, cond.ok
    PROVE  /\ One(cond).given /\ Parses(One(cond))
           /\ \A rec : Passes(One(cond), rec) <=> CondMatches(cond, rec)
  <1> DEFINE p == One(cond)
  <1>1. p.given /\ p.groups = <<<<cond>>>>
    BY DEF One
  <1> HIDE DEF p
  <1>2. DOMAIN p.groups = {1} /\ DOMAIN p.groups[1] = {1} /\ p.groups[1][1] = cond /\ p.groups # <<>>
    BY <1>1
  <1>3. Parses(p)
    BY <1>2 DEF Parses
  <1>4. \A rec : Passes(p, rec) <=> CondMatches(cond, rec)
    BY <1>2 DEF Passes
  <1> QED BY <1>1, <1>3, <1>4 DEF p

\* A filter that parses keeps the records that pass, and counting them counts
\* their places.
LEMMA Applied ==
    ASSUME NEW R, NEW s \in Seq(R), NEW filter, filter.given, Parses(filter)
    PROVE  /\ ApplyFilter(s, filter).records = Where(s, Places(s, filter))
           /\ IsFiniteSet(Places(s, filter))
           /\ Len(ApplyFilter(s, filter).records) = Cardinality(Places(s, filter))
  <1>1. PICK I : I = Places(s, filter)
    OBVIOUS
  <1>2. DOMAIN s = 1..Len(s)
    OBVIOUS
  <1>3. I = {i \in DOMAIN s : Passes(filter, s[i])}
    BY <1>1, <1>2, Zenon DEF Places
  <1>4. ApplyFilter(s, filter).records = Where(s, I)
    BY <1>3 DEF ApplyFilter
  <1>5. I \subseteq 1..Len(s)
    BY <1>1 DEF Places
  <1>6. At(s, I) = I
    BY <1>5 DEF At
  <1>7. IsFiniteSet(At(s, I)) /\ Len(Where(s, I)) = Cardinality(At(s, I))
    BY WhereElements
  <1> QED BY <1>1, <1>4, <1>6, <1>7

\* Two filters whose places share out a set of places share out its size.
LEMMA SharedOut ==
    ASSUME NEW A, NEW B, NEW C, IsFiniteSet(A), IsFiniteSet(B), A \cap B = {}, A \cup B = C
    PROVE  /\ Cardinality(A) \in Nat /\ Cardinality(B) \in Nat /\ Cardinality(C) \in Nat
           /\ Scale * Cardinality(A) + Scale * Cardinality(B) = Scale * Cardinality(C)
  <1>1. Cardinality(A) \in Nat /\ Cardinality(B) \in Nat /\ Cardinality(A \cap B) = 0
    BY FS_CardinalityType, FS_EmptySet
  <1>2. Cardinality(C) = Cardinality(A) + Cardinality(B) - Cardinality(A \cap B)
    BY FS_Union
  <1>3. Scale \in Int
    BY TilesAssumption
  <1>4. \A a, b \in Int : Scale * a + Scale * b = Scale * (a + b)
    BY <1>3
  <1>5. Cardinality(C) = Cardinality(A) + Cardinality(B)
    BY <1>1, <1>2
  <1>6. PICK a, b, c : a = Cardinality(A) /\ b = Cardinality(B) /\ c = Cardinality(C)
    OBVIOUS
  <1>7. a \in Nat /\ b \in Nat /\ c = a + b
    BY <1>1, <1>5, <1>6
  <1>8. c \in Nat /\ Scale * a + Scale * b = Scale * c
    BY <1>4, <1>7
  <1> QED BY <1>6, <1>7, <1>8

\* A record of the host table.
Rows == [Fields -> Cell]

\* A threshold keeps the records whose number lies on its side.
LEMMA ThresholdMatches ==
    ASSUME NEW rec \in Rows, NEW f \in Fields, NEW v \in Int, NEW op \in {">=", "<", ">", "<="}
    PROVE  CondMatches(Cond(f, op, RhsNumber(v)), rec)
              <=> ToNumber(rec[f]) # None /\ CmpNum(ToNumber(rec[f])[1], op, v)
  <1> DEFINE cond == Cond(f, op, RhsNumber(v))
             rhs == RhsNumber(v)
  <1>1. cond.part = "" /\ cond.field = f /\ cond.op = op /\ cond.rhs = rhs
    BY DEF Cond
  <1>2. rhs.k = "num" /\ rhs.n = v
    BY DEF RhsNumber
  <1> HIDE DEF cond, rhs
  <1>3. RhsNum(rhs) = <<v>> /\ RhsDate(rhs) = None
    BY <1>2 DEF RhsNum, RhsDate
  <1>4. CondMatches(cond, rec) = InOrder(rec[f], op, rhs)
    BY <1>1 DEF CondMatches
  <1>5. PICK ln : ln = ToNumber(rec[f])
    OBVIOUS
  <1>6. InOrder(rec[f], op, rhs) <=> ln # None /\ CmpNum(ln[1], op, v)
    <2>1. <<v>> # None /\ <<v>>[1] = v
      BY DEF None
    <2>2. CASE ln # None
      <3>1. InOrder(rec[f], op, rhs) = Compared(ln, op, <<v>>)
        BY <1>3, <1>5, <2>1, <2>2 DEF InOrder
      <3> QED BY <2>1, <2>2, <3>1 DEF Compared
    <2>3. CASE ln = None
      <3>1. InOrder(rec[f], op, rhs) = Compared(ToDate(rec[f]), op, None)
        BY <1>3, <1>5, <2>3 DEF InOrder
      <3> QED BY <2>3, <3>1 DEF Compared
    <2> QED BY <2>2, <2>3
  <1> QED BY <1>4, <1>5, <1>6 DEF cond, rhs

\* The places with a number.
Numeric(s, f) == {i \in 1..Len(s) : ToNumber(s[i][f]) # None}

\* A threshold and its opposite share out the places with a number.
LEMMA ThresholdsShareOut ==
    ASSUME NEW s \in Seq(Rows), NEW f \in Fields, NEW v \in Int,
           NEW opposite \in {<<">=", "<">>, <<">", "<=">>}
    PROVE  LET A == Places(s, One(Cond(f, opposite[1], RhsNumber(v))))
               B == Places(s, One(Cond(f, opposite[2], RhsNumber(v))))
           IN  A \cap B = {} /\ A \cup B = Numeric(s, f)
  <1>1. ASSUME NEW op \in {">=", "<", ">", "<="}, NEW i \in 1..Len(s)
        PROVE  i \in Places(s, One(Cond(f, op, RhsNumber(v))))
                  <=> ToNumber(s[i][f]) # None /\ CmpNum(ToNumber(s[i][f])[1], op, v)
    <2>1. s[i] \in Rows
      OBVIOUS
    <2>2. Cond(f, op, RhsNumber(v)).ok
      BY DEF Cond
    <2>3. Passes(One(Cond(f, op, RhsNumber(v))), s[i]) <=> CondMatches(Cond(f, op, RhsNumber(v)), s[i])
      BY <2>2, OneFilter
    <2> QED BY <2>1, <2>3, ThresholdMatches DEF Places
  <1>2. PICK A, B : /\ A = Places(s, One(Cond(f, opposite[1], RhsNumber(v))))
                    /\ B = Places(s, One(Cond(f, opposite[2], RhsNumber(v))))
    OBVIOUS
  <1>3. A \subseteq 1..Len(s) /\ B \subseteq 1..Len(s)
    BY <1>2 DEF Places
  <1>4. ASSUME NEW i \in 1..Len(s)
        PROVE  ~ (i \in A /\ i \in B) /\ (i \in A \/ i \in B <=> ToNumber(s[i][f]) # None)
    <2>1. s[i][f] \in Cell
      BY DEF Rows
    <2>2. PICK ln : ln = ToNumber(s[i][f])
      OBVIOUS
    <2>3. ln # None => ln[1] \in Int
      BY <2>1, <2>2, NumberOfCell
    <2>4. CASE opposite = <<">=", "<">>
      <3>1. /\ i \in A <=> ln # None /\ CmpNum(ln[1], ">=", v)
            /\ i \in B <=> ln # None /\ CmpNum(ln[1], "<", v)
        BY <1>1, <1>2, <2>2, <2>4
      <3>2. ln # None => (CmpNum(ln[1], ">=", v) <=> ~ CmpNum(ln[1], "<", v))
        BY <2>3 DEF CmpNum
      <3> QED BY <2>2, <3>1, <3>2
    <2>5. CASE opposite = <<">", "<=">>
      <3>1. /\ i \in A <=> ln # None /\ CmpNum(ln[1], ">", v)
            /\ i \in B <=> ln # None /\ CmpNum(ln[1], "<=", v)
        BY <1>1, <1>2, <2>2, <2>5
      <3>2. ln # None => (CmpNum(ln[1], ">", v) <=> ~ CmpNum(ln[1], "<=", v))
        BY <2>3 DEF CmpNum
      <3> QED BY <2>2, <3>1, <3>2
    <2> QED BY <2>4, <2>5
  <1>5. A \cap B = {} /\ A \cup B = Numeric(s, f)
    BY <1>3, <1>4 DEF Numeric
  <1> QED BY <1>2, <1>5

\* = and != share out all the records.
LEMMA EqualsShareOut ==
    ASSUME NEW s \in Seq(Rows), NEW f \in Fields, NEW v
    PROVE  LET A == Places(s, One(Cond(f, "=", RhsNumber(v))))
               B == Places(s, One(Cond(f, "!=", RhsNumber(v))))
           IN  A \cap B = {} /\ A \cup B = 1..Len(s)
  <1>1. ASSUME NEW op \in {"=", "!="}, NEW rec
        PROVE  Passes(One(Cond(f, op, RhsNumber(v))), rec)
                  <=> IF op = "=" THEN SameValue(rec[f], RhsNumber(v)) ELSE ~ SameValue(rec[f], RhsNumber(v))
    <2> DEFINE cond == Cond(f, op, RhsNumber(v))
    <2>1. cond.ok /\ cond.part = "" /\ cond.field = f /\ cond.op = op /\ cond.rhs = RhsNumber(v)
      BY DEF Cond
    <2> HIDE DEF cond
    <2>2. CondMatches(cond, rec) <=> IF op = "=" THEN SameValue(rec[f], RhsNumber(v)) ELSE ~ SameValue(rec[f], RhsNumber(v))
      BY <2>1 DEF CondMatches
    <2>3. Passes(One(cond), rec) <=> CondMatches(cond, rec)
      BY <2>1, OneFilter
    <2> QED BY <2>2, <2>3 DEF cond
  <1>2. ASSUME NEW i \in 1..Len(s)
        PROVE  i \in Places(s, One(Cond(f, "!=", RhsNumber(v)))) <=> i \notin Places(s, One(Cond(f, "=", RhsNumber(v))))
    BY <1>1 DEF Places
  <1>3. PICK A, B : /\ A = Places(s, One(Cond(f, "=", RhsNumber(v))))
                    /\ B = Places(s, One(Cond(f, "!=", RhsNumber(v))))
    OBVIOUS
  <1>4. A \subseteq 1..Len(s) /\ B \subseteq 1..Len(s)
    BY <1>3 DEF Places
  <1>5. A \cap B = {} /\ A \cup B = 1..Len(s)
    BY <1>2, <1>3, <1>4
  <1> QED BY <1>3, <1>5

----------------------------------------------------------------------------
(* The numbers of a column                                                 *)

\* Only the places a sequence has matter to what is kept of it.
LEMMA WhereSame ==
    ASSUME NEW R, NEW s \in Seq(R), NEW I, NEW J, \A i \in 1..Len(s) : i \in I <=> i \in J
    PROVE  Where(s, I) = Where(s, J)
  <1>1. PICK k \in [0..Len(s) -> Seq(R)] : KeptAt(s, I, k) /\ Where(s, I) = k[Len(s)]
    BY WhereDef
  <1>2. PICK h \in [0..Len(s) -> Seq(R)] : KeptAt(s, J, h) /\ Where(s, J) = h[Len(s)]
    BY WhereDef
  <1> DEFINE N == {i \in Nat : i <= Len(s) => h[i] = k[i]}
  <1>3. 0 \in N
    BY <1>1, <1>2 DEF KeptAt
  <1>4. ASSUME NEW i \in Nat, i \in N PROVE i + 1 \in N
    <2> SUFFICES ASSUME i + 1 <= Len(s) PROVE h[i + 1] = k[i + 1]
      OBVIOUS
    <2>1. Len(s) \in Nat
      OBVIOUS
    <2>2. i + 1 \in 1..Len(s) /\ (i + 1) - 1 = i /\ h[i] = k[i]
      BY <1>4, <2>1
    <2> QED BY <1>1, <1>2, <2>2 DEF KeptAt
  <1>5. Nat \subseteq N
    <2> HIDE DEF N
    <2> QED BY <1>3, <1>4, SetInduction
  <1>6. Len(s) \in Nat /\ Len(s) \in N
    BY <1>5
  <1> QED BY <1>1, <1>2, <1>6

\* The numbers of a column: one for each place with a number.
LEMMA NumsIs ==
    ASSUME NEW s \in Seq(Rows), NEW f \in Fields
    PROVE  Nums(s, f) \in Seq(Int) /\ Len(Nums(s, f)) = Cardinality(Numeric(s, f))
  <1>1. PICK I : I = {i \in DOMAIN s : ToNumber(s[i][f]) # None}
    OBVIOUS
  <1>2. DOMAIN s = 1..Len(s)
    OBVIOUS
  <1>3. I = Numeric(s, f)
    BY <1>1, <1>2 DEF Numeric
  <1>4. I \subseteq 1..Len(s)
    BY <1>3 DEF Numeric
  <1>5. At(s, I) = I
    BY <1>4 DEF At
  <1>6. PICK w : w = Where(s, I)
    OBVIOUS
  <1>7. f # ""
    BY WidgetAssumption
  <1>8. Nums(s, f) = [i \in DOMAIN w |-> ToNumber(w[i][f])[1]]
    BY <1>1, <1>6, <1>7 DEF Nums
  <1>9. /\ w \in Seq(Rows) /\ Len(w) = Cardinality(I)
        /\ \A k \in 1..Len(w) : \E i \in 1..Len(s) : i \in I /\ w[k] = s[i]
    <2>1. /\ Where(s, I) \in Seq(Rows)
          /\ \A k \in 1..Len(Where(s, I)) : \E i \in 1..Len(s) : i \in I /\ Where(s, I)[k] = s[i]
          /\ Len(Where(s, I)) = Cardinality(At(s, I))
      BY WhereElements
    <2> QED BY <1>5, <1>6, <2>1
  <1>10. ASSUME NEW k \in 1..Len(w) PROVE ToNumber(w[k][f])[1] \in Int
    <2>1. PICK i \in 1..Len(s) : i \in I /\ w[k] = s[i]
      BY <1>9
    <2>2. s[i][f] \in Cell /\ ToNumber(s[i][f]) # None
      BY <1>1, <2>1 DEF Rows
    <2> QED BY <2>1, <2>2, NumberOfCell
  <1>11. PICK v : v = Nums(s, f)
    OBVIOUS
  <1>12. DOMAIN w = 1..Len(w) /\ Len(w) \in Nat
    BY <1>9
  <1>13. v \in [1..Len(w) -> Int]
    BY <1>8, <1>10, <1>11, <1>12
  <1>14. v \in Seq(Int) /\ Len(v) = Len(w)
    BY <1>12, <1>13, SeqDef
  <1> QED BY <1>3, <1>9, <1>11, <1>14

\* No records have no numbers.
LEMMA NumsEmpty == ASSUME NEW f PROVE Nums(<<>>, f) = <<>>
  <1>1. PICK s : s = <<>>
    OBVIOUS
  <1>2. PICK w : w = Where(s, {i \in DOMAIN s : ToNumber(s[i][f]) # None})
    OBVIOUS
  <1>3. w = <<>>
    BY <1>1, <1>2, WhereEmpty
  <1>4. [i \in DOMAIN w |-> ToNumber(w[i][f])[1]] = <<>>
    BY <1>3
  <1>5. Nums(s, f) = IF f = "" THEN <<>> ELSE [i \in DOMAIN w |-> ToNumber(w[i][f])[1]]
    BY <1>2, Zenon DEF Nums
  <1> QED BY <1>1, <1>4, <1>5

\* One more record adds its number, if it has one.
LEMMA NumsAppend ==
    ASSUME NEW s \in Seq(Rows), NEW x \in Rows, NEW f \in Fields
    PROVE  Nums(Append(s, x), f) = IF ToNumber(x[f]) # None
                                   THEN Append(Nums(s, f), ToNumber(x[f])[1]) ELSE Nums(s, f)
  <1>1. PICK t : t = Append(s, x)
    OBVIOUS
  <1>2. /\ t \in Seq(Rows) /\ Len(s) \in Nat /\ Len(t) = Len(s) + 1 /\ t[Len(s) + 1] = x
        /\ \A i \in 1..Len(s) : t[i] = s[i]
        /\ DOMAIN s = 1..Len(s) /\ DOMAIN t = 1..Len(t)
    BY <1>1
  <1>3. PICK I, J : /\ I = {i \in DOMAIN t : ToNumber(t[i][f]) # None}
                    /\ J = {i \in DOMAIN s : ToNumber(s[i][f]) # None}
    OBVIOUS
  <1>4. /\ \A i \in 1..Len(s) : i \in I <=> i \in J
        /\ Len(s) + 1 \in I <=> ToNumber(x[f]) # None
    BY <1>2, <1>3
  <1>5. PICK u, w : u = Where(t, I) /\ w = Where(s, J)
    OBVIOUS
  <1>6. Where(s, I) = w
    BY <1>4, <1>5, WhereSame
  <1>7. u = IF Len(s) + 1 \in I THEN Append(w, x) ELSE w
    <2>1. Where(Append(s, x), I) =
             IF Len(s) + 1 \in I THEN Append(Where(s, I), x) ELSE Where(s, I)
      BY WhereAppend
    <2> QED BY <1>1, <1>5, <1>6, <2>1
  <1>8. f # ""
    BY WidgetAssumption
  <1>9. /\ Nums(t, f) = [i \in DOMAIN u |-> ToNumber(u[i][f])[1]]
        /\ Nums(s, f) = [i \in DOMAIN w |-> ToNumber(w[i][f])[1]]
    BY <1>3, <1>5, <1>8 DEF Nums
  <1>10. CASE ToNumber(x[f]) = None
    BY <1>1, <1>4, <1>7, <1>9, <1>10
  <1>11. CASE ToNumber(x[f]) # None
    <2>1. w \in Seq(Rows) /\ u = Append(w, x)
      <3>1. Where(s, J) \in Seq(Rows)
        BY WhereAppend
      <3> QED BY <1>4, <1>5, <1>7, <1>11, <3>1
    <2>2. /\ u \in Seq(Rows) /\ Len(w) \in Nat /\ Len(u) = Len(w) + 1 /\ u[Len(w) + 1] = x
          /\ \A i \in 1..Len(w) : u[i] = w[i]
          /\ DOMAIN w = 1..Len(w) /\ DOMAIN u = 1..Len(u)
      BY <2>1
    <2>3. PICK a, b, y : a = Nums(t, f) /\ b = Nums(s, f) /\ y = ToNumber(x[f])[1]
      OBVIOUS
    <2>4. a \in Seq(Int) /\ b \in Seq(Int) /\ y \in Int
      <3>1. x[f] \in Cell
        BY DEF Rows
      <3>2. y \in Int
        BY <1>11, <2>3, <3>1, NumberOfCell
      <3> QED BY <1>2, <2>3, <3>2, NumsIs
    <2>5. /\ DOMAIN a = 1..Len(w) + 1 /\ DOMAIN b = 1..Len(w)
          /\ a[Len(w) + 1] = y /\ \A i \in 1..Len(w) : a[i] = b[i]
      BY <1>9, <2>2, <2>3
    <2>6. Len(a) = Len(w) + 1 /\ Len(b) = Len(w)
      BY <2>2, <2>4, <2>5
    <2>7. a = Append(b, y)
      <3>1. /\ Append(b, y) \in Seq(Int) /\ Len(Append(b, y)) = Len(w) + 1
            /\ \A i \in 1..Len(w) + 1 : Append(b, y)[i] = IF i = Len(w) + 1 THEN y ELSE b[i]
        BY <2>2, <2>4, <2>6
      <3>2. \A i \in 1..Len(w) + 1 : a[i] = Append(b, y)[i]
        BY <2>2, <2>5, <3>1
      <3> QED BY <2>4, <2>6, <3>1, <3>2, SeqEqual
    <2> QED BY <1>1, <1>11, <2>3, <2>7
  <1> QED BY <1>10, <1>11

\* Two sets of places that share out the numbers of a column share out its sum.
LEMMA TotalsShareOut ==
    ASSUME NEW s \in Seq(Rows), NEW f \in Fields, NEW A, NEW B,
           \A i \in 1..Len(s) : ToNumber(s[i][f]) # None => (i \in A <=> i \notin B)
    PROVE  /\ Total(Nums(Where(s, A), f)) \in Int /\ Total(Nums(Where(s, B), f)) \in Int
           /\ Total(Nums(s, f)) = Total(Nums(Where(s, A), f)) + Total(Nums(Where(s, B), f))
  <1> DEFINE Shares(t) == \A i \in 1..Len(t) : ToNumber(t[i][f]) # None => (i \in A <=> i \notin B)
             Of(t, I) == Total(Nums(Where(t, I), f))
             Sums(t) == Total(Nums(t, f)) = Of(t, A) + Of(t, B)
             S == {t \in Seq(Rows) : Shares(t) => Sums(t)}
  <1>1. ASSUME NEW t \in Seq(Rows), NEW I PROVE Of(t, I) \in Int
    <2>1. Where(t, I) \in Seq(Rows)
      BY WhereElements
    <2>2. Nums(Where(t, I), f) \in Seq(Int) /\ 0 \in Int
      BY <2>1, NumsIs
    <2> QED BY <2>2, TotalAppend
  <1>2. ASSUME NEW t \in Seq(Rows), NEW x \in Rows, NEW I
        PROVE  /\ Of(Append(t, x), I) = IF Len(t) + 1 \in I /\ ToNumber(x[f]) # None
                                        THEN Of(t, I) + ToNumber(x[f])[1] ELSE Of(t, I)
               /\ Total(Nums(Append(t, x), f)) = IF ToNumber(x[f]) # None
                                                 THEN Total(Nums(t, f)) + ToNumber(x[f])[1]
                                                 ELSE Total(Nums(t, f))
    <2>1. PICK w : w = Where(t, I)
      OBVIOUS
    <2>2. w \in Seq(Rows) /\ Where(Append(t, x), I) = IF Len(t) + 1 \in I THEN Append(w, x) ELSE w
      <3>1. Where(t, I) \in Seq(Rows) /\ Where(Append(t, x), I) = IF Len(t) + 1 \in I THEN Append(Where(t, I), x) ELSE Where(t, I)
        BY WhereAppend
      <3> QED BY <2>1, <3>1
    <2>3. ASSUME NEW u \in Seq(Rows)
          PROVE Total(Nums(Append(u, x), f)) = IF ToNumber(x[f]) # None
                                                 THEN Total(Nums(u, f)) + ToNumber(x[f])[1]
                                                 ELSE Total(Nums(u, f))
      <3>1. PICK n : n = ToNumber(x[f])
        OBVIOUS
      <3>2. n # None => n[1] \in Int
        <4>1. x[f] \in Cell
          BY DEF Rows
        <4> QED BY <3>1, <4>1, NumberOfCell
      <3>3. Nums(u, f) \in Seq(Int)
        BY NumsIs
      <3>4. n # None => Total(Append(Nums(u, f), n[1])) = Total(Nums(u, f)) + n[1]
        BY <3>2, <3>3, TotalAppend
      <3>5. Nums(Append(u, x), f) = IF n # None THEN Append(Nums(u, f), n[1]) ELSE Nums(u, f)
        BY <3>1, NumsAppend
      <3> QED BY <3>1, <3>4, <3>5
    <2>4. Of(t, I) = Total(Nums(w, f)) /\ Of(Append(t, x), I) = Total(Nums(IF Len(t) + 1 \in I THEN Append(w, x) ELSE w, f))
      BY <2>1, <2>2
    <2> QED BY <2>2, <2>3, <2>4
  <1>3. \A t \in Seq(Rows) : Total(Nums(t, f)) \in Int
    <2> SUFFICES ASSUME NEW t \in Seq(Rows) PROVE Total(Nums(t, f)) \in Int
      OBVIOUS
    <2>1. Nums(t, f) \in Seq(Int) /\ 0 \in Int
      BY NumsIs
    <2> QED BY <2>1, TotalAppend
  <1>4. <<>> \in S
    <2>1. Of(<<>>, A) = 0 /\ Of(<<>>, B) = 0 /\ Total(Nums(<<>>, f)) = 0
      BY WhereEmpty, NumsEmpty, TotalEmpty
    <2>2. <<>> \in Seq(Rows) /\ Sums(<<>>)
      BY <2>1, EmptySeq
    <2> HIDE DEF Sums, Shares
    <2> QED BY <2>2
  <1> HIDE DEF Of
  <1>5. ASSUME NEW t \in Seq(Rows), NEW x \in Rows, t \in S PROVE Append(t, x) \in S
    <2>1. PICK u : u = Append(t, x)
      OBVIOUS
    <2>2. /\ u \in Seq(Rows) /\ Len(t) \in Nat /\ Len(u) = Len(t) + 1 /\ u[Len(t) + 1] = x
          /\ \A i \in 1..Len(t) : u[i] = t[i]
      BY <2>1
    <2> SUFFICES ASSUME Shares(u) PROVE Sums(u)
      BY <2>1, <2>2
    <2>3. Sums(t)
      <3>1. \A i \in 1..Len(t) : i \in 1..Len(u)
        BY <2>2
      <3>2. Shares(t)
        BY <2>2, <3>1
      <3> QED BY <1>5, <3>2
    <2>4. ToNumber(x[f]) # None => (Len(t) + 1 \in A <=> Len(t) + 1 \notin B)
      BY <2>2
    <2>5. PICK n : n = ToNumber(x[f])
      OBVIOUS
    <2>6. n # None => n[1] \in Int
      <3>1. x[f] \in Cell
        BY DEF Rows
      <3> QED BY <2>5, <3>1, NumberOfCell
    <2>7. /\ Of(u, A) = IF Len(t) + 1 \in A /\ n # None THEN Of(t, A) + n[1] ELSE Of(t, A)
          /\ Of(u, B) = IF Len(t) + 1 \in B /\ n # None THEN Of(t, B) + n[1] ELSE Of(t, B)
          /\ Total(Nums(u, f)) = IF n # None THEN Total(Nums(t, f)) + n[1] ELSE Total(Nums(t, f))
      BY <1>2, <2>1, <2>5
    <2>8. Of(t, A) \in Int /\ Of(t, B) \in Int /\ Total(Nums(t, f)) \in Int
      BY <1>1, <1>3
    <2> HIDE DEF Shares
    <2> QED BY <2>3, <2>4, <2>5, <2>6, <2>7, <2>8
  <1>6. Seq(Rows) \subseteq S
    <2> HIDE DEF S
    <2> QED BY <1>4, <1>5, SeqInduction
  <1>7. Shares(s) /\ s \in S
    BY <1>6
  <1> QED BY <1>1, <1>7 DEF Of

----------------------------------------------------------------------------
(* What the tiles make of a filter                                         *)

\* Without a filter every record is kept.
LEMMA NoFilterKeeps == ASSUME NEW s PROVE ApplyFilter(s, NoFilter).records = s
  BY DEF ApplyFilter, NoFilter

\* The count and the sum of a stat tile.
LEMMA StatOf ==
    ASSUME NEW s, NEW c
    PROVE  /\ c.agg = "count" => StatTile(c, s) = Scale * Len(ApplyFilter(s, c.filter).records)
           /\ c.agg = "sum" => StatTile(c, s) = Scale * Total(Nums(ApplyFilter(s, c.filter).records, c.field))
  <1>1. PICK t : t = ApplyFilter(s, c.filter).records
    OBVIOUS
  <1>2. c.agg = "count" => StatTile(c, s) = Scale * Len(t)
    BY <1>1 DEF StatTile, AggOrCount, Aggregate
  <1>3. ASSUME c.agg = "sum" PROVE StatTile(c, s) = Scale * Total(Nums(t, c.field))
    <2>1. PICK v : v = Nums(t, c.field)
      OBVIOUS
    <2>2. StatTile(c, s) = OfNumbers("sum", v)
      BY <1>1, <1>3, <2>1 DEF StatTile, AggOrCount, Aggregate
    <2>3. CASE v = <<>>
      <3>1. OfNumbers("sum", v) = 0
        BY <2>3 DEF OfNumbers
      <3>2. Total(v) = 0
        BY <2>3, TotalEmpty
      <3>3. Scale * 0 = 0
        BY TilesAssumption
      <3> QED BY <2>1, <2>2, <3>1, <3>2, <3>3
    <2>4. CASE v # <<>>
      <3>1. OfNumbers("sum", v) = Scale * Total(v)
        BY <2>4 DEF OfNumbers
      <3> QED BY <2>1, <2>2, <3>1
    <2> QED BY <2>3, <2>4
  <1> QED BY <1>1, <1>2, <1>3

\* A limit of 0 is none.
LEMMA NoLimit == ~ (0 > 0)
  OBVIOUS

\* The bar of a label is the count of the records with it.
LEMMA BarsCount ==
    ASSUME NEW s, NEW f \in Fields, NEW c, c.filter = NoFilter, c.x = f, c.sort = "", c.limit = 0,
           c.y = [agg |-> "count", field |-> f]
    PROVE  \A i \in DOMAIN ChartTile(c, s) :
              ChartTile(c, s)[i].value = Scale * Len(WithLabel(s, f, ChartTile(c, s)[i].label))
  <1>1. ApplyFilter(s, NoFilter).records = s
    BY NoFilterKeeps
  <1>2. PICK bars : bars = GroupAggregate(s, f, c.y)
    OBVIOUS
  <1>3. ChartTile(c, s) = bars
    <2>1. ChartTile(c, s) = SortLimit(bars, "", 0)
      BY <1>1, <1>2 DEF ChartTile
    <2>2. SortLimit(bars, "", 0) = bars
      BY NoLimit DEF SortLimit
    <2> QED BY <2>1, <2>2
  <1>4. PICK labels : labels = LabelsIn(s, f)
    OBVIOUS
  <1>5. f # "" /\ c.y.agg = "count" /\ c.y.field = f
    <2>1. f # ""
      BY WidgetAssumption
    <2>2. [agg |-> "count", field |-> f].agg = "count" /\ [agg |-> "count", field |-> f].field = f
      OBVIOUS
    <2> QED BY <2>1, <2>2
  <1>6. bars = [i \in DOMAIN labels |->
                  [label |-> labels[i],
                   value |-> Aggregate(WithLabel(s, f, labels[i]), c.y.agg, c.y.field)]]
    BY <1>2, <1>4, <1>5 DEF GroupAggregate
  <1>7. ASSUME NEW i \in DOMAIN bars PROVE bars[i].value = Scale * Len(WithLabel(s, f, bars[i].label))
    <2>1. i \in DOMAIN labels /\ bars[i].label = labels[i]
          /\ bars[i].value = Aggregate(WithLabel(s, f, labels[i]), "count", f)
      BY <1>5, <1>6
    <2> QED BY <2>1 DEF Aggregate
  <1> QED BY <1>3, <1>7

\* `in` one label keeps the records with it.
LEMMA InKeeps ==
    ASSUME NEW s, NEW f, NEW label
    PROVE  LET p == One(Cond(f, "in", RhsList(<<RhsString(label)>>)))
           IN  ApplyFilter(s, p).records = WithLabel(s, f, label)
  <1> DEFINE cond == Cond(f, "in", RhsList(<<RhsString(label)>>))
             rhs == RhsList(<<RhsString(label)>>)
             p == One(cond)
  <1>1. cond.ok /\ cond.part = "" /\ cond.field = f /\ cond.op = "in" /\ cond.rhs = rhs
    BY DEF Cond
  <1>2. WantedLabels(rhs) = {label}
    <2>1. rhs.k = "list" /\ rhs.items = <<RhsString(label)>>
      BY DEF RhsList
    <2>2. RhsStr(RhsString(label)) = label
      BY DEF RhsStr, RhsString
    <2> HIDE DEF rhs
    <2>3. WantedLabels(rhs) = {RhsStr(<<RhsString(label)>>[i]) : i \in DOMAIN <<RhsString(label)>>}
      BY <2>1 DEF WantedLabels
    <2>4. DOMAIN <<RhsString(label)>> = {1} /\ <<RhsString(label)>>[1] = RhsString(label)
      OBVIOUS
    <2> QED BY <2>2, <2>3, <2>4
  <1> HIDE DEF cond, rhs
  <1>3. \A rec : CondMatches(cond, rec) <=> ToLabel(rec[f]) = label
    BY <1>1, <1>2 DEF CondMatches
  <1>4. p.given /\ Parses(p) /\ \A rec : Passes(p, rec) <=> ToLabel(rec[f]) = label
    BY <1>1, <1>3, OneFilter
  <1> HIDE DEF p
  <1>5. {i \in DOMAIN s : Passes(p, s[i])} = {i \in DOMAIN s : ToLabel(s[i][f]) = label}
    BY <1>4
  <1>6. ApplyFilter(s, p).records = Where(s, {i \in DOMAIN s : Passes(p, s[i])})
    BY <1>4 DEF ApplyFilter
  <1>7. ApplyFilter(s, p).records = WithLabel(s, f, label)
    BY <1>5, <1>6 DEF WithLabel
  <1> QED BY <1>7 DEF p, cond, rhs

\* Two sequences of one element.
LEMMA Joined == ASSUME NEW a, NEW b PROVE <<a>> \o <<b>> = <<a, b>>
  <1>1. <<a>> \in Seq({a, b}) /\ <<b>> \in Seq({a, b}) /\ <<a, b>> \in Seq({a, b})
    OBVIOUS
  <1>2. /\ <<a>> \o <<b>> \in Seq({a, b}) /\ Len(<<a>> \o <<b>>) = 2
        /\ (<<a>> \o <<b>>)[1] = a /\ (<<a>> \o <<b>>)[2] = b
    BY <1>1, ConcatProperties
  <1>3. Len(<<a, b>>) = 2 /\ \A i \in 1..2 : (<<a>> \o <<b>>)[i] = <<a, b>>[i]
    BY <1>2
  <1> QED BY <1>1, <1>2, <1>3, SeqEqual

\* AND of two conditions is one group.
LEMMA BothOfTwo ==
    ASSUME NEW a, NEW b
    PROVE  Both(One(a), One(b)).given /\ Both(One(a), One(b)).groups = <<<<a, b>>>>
  <1>1. PICK p, q : p = One(a) /\ q = One(b)
    OBVIOUS
  <1>2. p.groups = <<<<a>>>> /\ q.groups = <<<<b>>>>
    BY <1>1 DEF One
  <1>3. Len(p.groups) = 1 /\ Len(q.groups) = 1 /\ p.groups[1] = <<a>> /\ q.groups[1] = <<b>>
    BY <1>2
  <1>4. Both(p, q).given
        /\ Both(p, q).groups = [k \in 1..(Len(p.groups) * Len(q.groups)) |->
              p.groups[((k - 1) \div Len(q.groups)) + 1] \o q.groups[((k - 1) % Len(q.groups)) + 1]]
    BY DEF Both
  <1>5. PICK f : f = Both(p, q).groups
    OBVIOUS
  <1>6. /\ ((1 - 1) \div 1) + 1 = 1 /\ ((1 - 1) % 1) + 1 = 1 /\ 1 * 1 = 1
    OBVIOUS
  <1>7. f = [k \in 1..1 |-> p.groups[((k - 1) \div 1) + 1] \o q.groups[((k - 1) % 1) + 1]]
    BY <1>3, <1>4, <1>5, <1>6
  <1>8. DOMAIN f = 1..1 /\ f[1] = <<a>> \o <<b>>
    <2>1. DOMAIN f = 1..1 /\ f[1] = p.groups[((1 - 1) \div 1) + 1] \o q.groups[((1 - 1) % 1) + 1]
      <3>1. 1 \in 1..1
        OBVIOUS
      <3> QED BY <1>7, <3>1, Zenon
    <2> QED BY <1>3, <1>6, <2>1
  <1>9. <<a>> \o <<b>> = <<a, b>>
    BY Joined
  <1>10. f = [k \in 1..1 |-> <<a, b>>]
    <2>1. f = [k \in 1..1 |-> f[k]]
      BY <1>7
    <2>2. \A k \in 1..1 : f[k] = <<a, b>>
      <3>1. \A k \in 1..1 : k = 1
        OBVIOUS
      <3> QED BY <1>8, <1>9, <3>1, Zenon
    <2> QED BY <2>1, <2>2
  <1>11. [k \in 1..1 |-> <<a, b>>] = <<<<a, b>>>>
    OBVIOUS
  <1> QED BY <1>1, <1>4, <1>5, <1>10, <1>11

\* OR and AND of two conditions.
LEMMA EitherBoth ==
    ASSUME NEW a, NEW b, a.ok, b.ok
    PROVE  /\ Either(One(a), One(b)).given /\ Parses(Either(One(a), One(b)))
           /\ Both(One(a), One(b)).given /\ Parses(Both(One(a), One(b)))
           /\ \A rec : Passes(Either(One(a), One(b)), rec) <=> CondMatches(a, rec) \/ CondMatches(b, rec)
           /\ \A rec : Passes(Both(One(a), One(b)), rec) <=> CondMatches(a, rec) /\ CondMatches(b, rec)
  <1>1. PICK e : e = Either(One(a), One(b))
    OBVIOUS
  <1>2. e.given /\ e.groups = <<<<a>>, <<b>>>>
    <2>1. One(a).groups = <<<<a>>>> /\ One(b).groups = <<<<b>>>>
      BY DEF One
    <2>2. <<<<a>>>> \o <<<<b>>>> = <<<<a>>, <<b>>>>
      BY Joined
    <2>3. e.given /\ e.groups = One(a).groups \o One(b).groups
      BY <1>1 DEF Either
    <2> QED BY <2>1, <2>2, <2>3
  <1>3. /\ DOMAIN e.groups = {1, 2} /\ e.groups # <<>>
        /\ DOMAIN e.groups[1] = {1} /\ e.groups[1][1] = a
        /\ DOMAIN e.groups[2] = {1} /\ e.groups[2][1] = b
    BY <1>2
  <1>4. Parses(e) /\ \A rec : Passes(e, rec) <=> CondMatches(a, rec) \/ CondMatches(b, rec)
    BY <1>3 DEF Parses, Passes
  <1>5. PICK g : g = Both(One(a), One(b))
    OBVIOUS
  <1>6. g.given /\ g.groups = <<<<a, b>>>>
    BY <1>5, BothOfTwo
  <1>7. /\ DOMAIN g.groups = {1} /\ g.groups # <<>>
        /\ DOMAIN g.groups[1] = {1, 2} /\ g.groups[1][1] = a /\ g.groups[1][2] = b
    BY <1>6
  <1>8. Parses(g) /\ \A rec : Passes(g, rec) <=> CondMatches(a, rec) /\ CondMatches(b, rec)
    BY <1>7 DEF Parses, Passes
  <1> QED BY <1>1, <1>2, <1>4, <1>5, <1>6, <1>8

\* A condition that does not parse spoils the filter it is in.
LEMMA BrokenFilter ==
    ASSUME NEW a, NEW s
    PROVE  LET broken == ApplyFilter(s, Both(One(a), One(Unreadable)))
           IN  broken.error /\ broken.records = s
  <1>1. PICK g : g = Both(One(a), One(Unreadable))
    OBVIOUS
  <1>2. g.given /\ g.groups = <<<<a, Unreadable>>>>
    BY <1>1, BothOfTwo
  <1>3. 1 \in DOMAIN g.groups /\ 2 \in DOMAIN g.groups[1] /\ g.groups[1][2] = Unreadable
    BY <1>2
  <1>4. ~ Unreadable.ok
    BY DEF Unreadable, Cond
  <1>5. ~ Parses(g)
    BY <1>3, <1>4 DEF Parses
  <1>6. ApplyFilter(s, g).error /\ ApplyFilter(s, g).records = s
    BY <1>2, <1>5 DEF ApplyFilter
  <1> QED BY <1>1, <1>6

----------------------------------------------------------------------------
(* The calendar                                                            *)

\* How many elements of a sequence are in a set.
CountIn(s, Q) == Cardinality({i \in 1..Len(s) : s[i] \in Q})

\* One more element counts or not.
LEMMA CountAppend ==
    ASSUME NEW R, NEW s \in Seq(R), NEW x \in R, NEW Q
    PROVE  /\ CountIn(s, Q) \in Nat
           /\ CountIn(Append(s, x), Q) = IF x \in Q THEN CountIn(s, Q) + 1 ELSE CountIn(s, Q)
  <1>1. PICK t : t = Append(s, x)
    OBVIOUS
  <1>2. /\ t \in Seq(R) /\ Len(s) \in Nat /\ Len(t) = Len(s) + 1 /\ t[Len(s) + 1] = x
        /\ \A i \in 1..Len(s) : t[i] = s[i]
    BY <1>1
  <1>3. PICK A, B : /\ A = {i \in 1..Len(s) : s[i] \in Q}
                    /\ B = {i \in 1..Len(t) : t[i] \in Q}
    OBVIOUS
  <1>4. IsFiniteSet(A) /\ Cardinality(A) \in Nat
    <2>1. IsFiniteSet(1..Len(s)) /\ A \in SUBSET (1..Len(s))
      BY <1>2, <1>3, FS_Interval
    <2> QED BY <2>1, FS_Subset, FS_CardinalityType
  <1>5. Len(s) + 1 \notin A
    BY <1>2, <1>3
  <1>6. CASE x \in Q
    <2>1. B = A \cup {Len(s) + 1}
      BY <1>2, <1>3, <1>6
    <2>2. Cardinality(B) = Cardinality(A) + 1
      BY <1>4, <1>5, <2>1, FS_AddElement
    <2> QED BY <1>1, <1>3, <1>4, <1>6, <2>2 DEF CountIn
  <1>7. CASE x \notin Q
    <2>1. B = A
      BY <1>2, <1>3, <1>7
    <2> QED BY <1>1, <1>3, <1>4, <1>7, <2>1 DEF CountIn
  <1> QED BY <1>6, <1>7

\* Of nothing, nothing counts.
LEMMA CountEmpty == ASSUME NEW Q PROVE CountIn(<<>>, Q) = 0
  <1>1. {i \in 1..Len(<<>>) : <<>>[i] \in Q} = {}
    OBVIOUS
  <1>2. Cardinality({}) = 0
    BY FS_EmptySet
  <1> QED BY <1>1, <1>2, Zenon DEF CountIn

\* The elements of a sequence that are in a set.
Among(s, D) == Where(s, {i \in DOMAIN s : s[i] \in D})

\* One more element is among them or not.
LEMMA AmongAppend ==
    ASSUME NEW R, NEW s \in Seq(R), NEW x \in R, NEW D
    PROVE  /\ Among(s, D) \in Seq(R)
           /\ Among(Append(s, x), D) = IF x \in D THEN Append(Among(s, D), x) ELSE Among(s, D)
  <1>1. PICK t : t = Append(s, x)
    OBVIOUS
  <1>2. /\ t \in Seq(R) /\ Len(s) \in Nat /\ Len(t) = Len(s) + 1 /\ t[Len(s) + 1] = x
        /\ \A i \in 1..Len(s) : t[i] = s[i]
        /\ DOMAIN s = 1..Len(s) /\ DOMAIN t = 1..Len(t)
    BY <1>1
  <1>3. PICK I, J : /\ I = {i \in DOMAIN t : t[i] \in D}
                    /\ J = {i \in DOMAIN s : s[i] \in D}
    OBVIOUS
  <1>4. /\ \A i \in 1..Len(s) : i \in I <=> i \in J
        /\ Len(s) + 1 \in I <=> x \in D
    BY <1>2, <1>3
  <1>5. Where(s, I) = Where(s, J)
    BY <1>4, WhereSame
  <1>6. Where(s, J) \in Seq(R)
    BY WhereAppend
  <1>7. Where(Append(s, x), I) = IF Len(s) + 1 \in I THEN Append(Where(s, I), x) ELSE Where(s, I)
    BY WhereAppend
  <1>8. Among(s, D) = Where(s, J) /\ Among(Append(s, x), D) = Where(Append(s, x), I)
    BY <1>1, <1>3 DEF Among
  <1> QED BY <1>4, <1>5, <1>6, <1>7, <1>8

\* Keeping a larger set first does not change the count.
LEMMA CountAmong ==
    ASSUME NEW R, NEW s \in Seq(R), NEW D, NEW Q, \A x \in R : x \in Q => x \in D
    PROVE  CountIn(Among(s, D), Q) = CountIn(s, Q)
  <1> DEFINE S == {t \in Seq(R) : CountIn(Among(t, D), Q) = CountIn(t, Q)}
  <1>1. <<>> \in S
    <2>1. Among(<<>>, D) = <<>>
      BY WhereEmpty DEF Among
    <2> QED BY <2>1, EmptySeq
  <1>2. ASSUME NEW t \in Seq(R), NEW x \in R, t \in S PROVE Append(t, x) \in S
    <2>1. PICK u, w : u = Append(t, x) /\ w = Among(t, D)
      OBVIOUS
    <2>2. u \in Seq(R) /\ w \in Seq(R) /\ Among(u, D) = IF x \in D THEN Append(w, x) ELSE w
      <3>1. Append(t, x) \in Seq(R)
        OBVIOUS
      <3>2. Among(t, D) \in Seq(R) /\ Among(Append(t, x), D) = IF x \in D THEN Append(Among(t, D), x) ELSE Among(t, D)
        BY AmongAppend
      <3> QED BY <2>1, <3>1, <3>2
    <2>3. /\ CountIn(u, Q) = IF x \in Q THEN CountIn(t, Q) + 1 ELSE CountIn(t, Q)
          /\ CountIn(Append(w, x), Q) = IF x \in Q THEN CountIn(w, Q) + 1 ELSE CountIn(w, Q)
      <3>1. CountIn(Append(t, x), Q) = IF x \in Q THEN CountIn(t, Q) + 1 ELSE CountIn(t, Q)
        BY CountAppend
      <3>2. w \in Seq(R)
        BY <2>2
      <3>3. CountIn(Append(w, x), Q) = IF x \in Q THEN CountIn(w, Q) + 1 ELSE CountIn(w, Q)
        BY <3>2, CountAppend
      <3> QED BY <2>1, <3>1, <3>3
    <2>4. CountIn(w, Q) = CountIn(t, Q)
      BY <1>2, <2>1
    <2>5. CountIn(Among(u, D), Q) = CountIn(u, Q)
      BY <2>2, <2>3, <2>4
    <2> QED BY <2>1, <2>2, <2>5
  <1>3. Seq(R) \subseteq S
    <2> HIDE DEF S
    <2> QED BY <1>1, <1>2, SeqInduction
  <1> QED BY <1>3

\* The rows whose number is in a set.
WithNumberIn(f, Q) == {r \in Rows : ToNumber(r[f]) # None /\ ToNumber(r[f])[1] \in Q}

\* Counting numbers counts the records that have them.
LEMMA CountNums ==
    ASSUME NEW s \in Seq(Rows), NEW f \in Fields, NEW Q
    PROVE  CountIn(Nums(s, f), Q) = CountIn(s, WithNumberIn(f, Q))
  <1> DEFINE M == WithNumberIn(f, Q)
             S == {t \in Seq(Rows) : CountIn(Nums(t, f), Q) = CountIn(t, M)}
  <1>1. <<>> \in S
    <2>1. CountIn(Nums(<<>>, f), Q) = 0 /\ CountIn(<<>>, M) = 0
      BY NumsEmpty, CountEmpty
    <2> QED BY <2>1, EmptySeq
  <1>2. ASSUME NEW t \in Seq(Rows), NEW x \in Rows, t \in S PROVE Append(t, x) \in S
    <2>1. PICK u, v, n : u = Append(t, x) /\ v = Nums(t, f) /\ n = ToNumber(x[f])
      OBVIOUS
    <2>2. u \in Seq(Rows) /\ v \in Seq(Int) /\ (n # None => n[1] \in Int)
      <3>1. x[f] \in Cell
        BY DEF Rows
      <3>2. n # None => n[1] \in Int
        BY <2>1, <3>1, NumberOfCell
      <3>3. Nums(t, f) \in Seq(Int) /\ Append(t, x) \in Seq(Rows)
        BY NumsIs
      <3> QED BY <2>1, <3>2, <3>3
    <2>3. Nums(u, f) = IF n # None THEN Append(v, n[1]) ELSE v
      BY <2>1, NumsAppend
    <2>4. x \in M <=> n # None /\ n[1] \in Q
      BY <2>1 DEF WithNumberIn
    <2>5. CountIn(u, M) = IF x \in M THEN CountIn(t, M) + 1 ELSE CountIn(t, M)
      BY <2>1, CountAppend
    <2>6. n # None => CountIn(Append(v, n[1]), Q) = IF n[1] \in Q THEN CountIn(v, Q) + 1 ELSE CountIn(v, Q)
      <3>1. v \in Seq(Int)
        BY <2>2
      <3>2. ASSUME NEW y \in Int PROVE CountIn(Append(v, y), Q) = IF y \in Q THEN CountIn(v, Q) + 1 ELSE CountIn(v, Q)
        BY <3>1, CountAppend
      <3> QED BY <2>2, <3>2
    <2>7. CountIn(v, Q) = CountIn(t, M)
      BY <1>2, <2>1
    <2>8. CountIn(Nums(u, f), Q) = CountIn(u, M)
      <3> HIDE DEF M
      <3> QED BY <2>3, <2>4, <2>5, <2>6, <2>7
    <2> QED BY <2>1, <2>2, <2>8
  <1>3. Seq(Rows) \subseteq S
    <2> HIDE DEF S
    <2> QED BY <1>1, <1>2, SeqInduction
  <1> QED BY <1>3

\* A day's conditions parse.
LEMMA DayParses ==
    ASSUME NEW f, NEW year, NEW month, NEW day
    PROVE  Parses([given |-> TRUE, groups |-> <<
                     <<PartCond("year", f, RhsNumber(year)),
                       PartCond("month", f, RhsNumber(month)),
                       PartCond("day", f, RhsNumber(day)),
                       Cond(f, ">", RhsNumber(DateFloor))>> >>])
  <1> DEFINE y == PartCond("year", f, RhsNumber(year))
             m == PartCond("month", f, RhsNumber(month))
             d == PartCond("day", f, RhsNumber(day))
             after == Cond(f, ">", RhsNumber(DateFloor))
  <1>1. y.ok /\ m.ok /\ d.ok /\ after.ok
    BY DEF PartCond, Cond
  <1> HIDE DEF y, m, d, after
  <1>2. PICK g : g = [given |-> TRUE, groups |-> << <<y, m, d, after>> >>]
    OBVIOUS
  <1>3. /\ DOMAIN g.groups = {1} /\ g.groups # <<>> /\ DOMAIN g.groups[1] = {1, 2, 3, 4}
        /\ g.groups[1][1] = y /\ g.groups[1][2] = m /\ g.groups[1][3] = d /\ g.groups[1][4] = after
    BY <1>2
  <1>4. Parses(g)
    BY <1>1, <1>3 DEF Parses
  <1> QED BY <1>2, <1>4 DEF y, m, d, after

\* A day's conditions on a cell that is a number or empty.
LEMMA DayMatches ==
    ASSUME NEW rec \in Rows, NEW f \in Fields, rec[f].shape \in {"number", "null"},
           NEW year, NEW month, NEW day
    PROVE  LET filter == [given |-> TRUE, groups |-> <<
                            <<PartCond("year", f, RhsNumber(year)),
                              PartCond("month", f, RhsNumber(month)),
                              PartCond("day", f, RhsNumber(day)),
                              Cond(f, ">", RhsNumber(DateFloor))>> >>]
           IN  Passes(filter, rec) <=>
                  /\ ToNumber(rec[f]) # None
                  /\ LET n == ToNumber(rec[f])[1]
                     IN  n > DateFloor /\ YearOf(n) = year /\ MonthOf(n) = month /\ DayOf(n) = day
  <1> DEFINE y == PartCond("year", f, RhsNumber(year))
             m == PartCond("month", f, RhsNumber(month))
             d == PartCond("day", f, RhsNumber(day))
             after == Cond(f, ">", RhsNumber(DateFloor))
             filter == [given |-> TRUE, groups |-> << <<y, m, d, after>> >>]
  <1>1. PICK v : v = rec[f]
    OBVIOUS
  <1>2. v \in Cell /\ v.n \in Int
    BY <1>1 DEF Rows, Cell
  <1>3. ASSUME NEW part \in {"year", "month", "day"}, NEW n
        PROVE  CondMatches(PartCond(part, f, RhsNumber(n)), rec) <=> v.shape = "number" /\ PartOf(part, v.n) = n
    <2>1. PICK cond : cond = PartCond(part, f, RhsNumber(n))
      OBVIOUS
    <2>2. cond.part = part /\ cond.field = f /\ cond.op = "=" /\ cond.rhs = RhsNumber(n)
      BY <2>1 DEF PartCond, Cond
    <2>3. RhsNum(RhsNumber(n)) = <<n>>
      BY DEF RhsNum, RhsNumber
    <2>4. CondMatches(cond, rec) = PartMatches(cond, v)
      BY <1>1, <2>2 DEF CondMatches
    <2>5. \A a, b : <<a>> # None /\ (Compared(<<a>>, "=", <<b>>) <=> a = b)
      BY DEF Compared, CmpNum, None
    <2>6. CASE v.shape = "number"
      <3>1. ToDate(v) = <<v.n>>
        BY <2>6 DEF ToDate
      <3>2. PartMatches(cond, v) <=> Compared(<<PartOf(part, v.n)>>, "=", <<n>>)
        BY <2>2, <2>3, <2>5, <3>1 DEF PartMatches
      <3> QED BY <2>1, <2>2, <2>4, <2>5, <2>6, <3>2
    <2>7. CASE v.shape = "null"
      <3>1. ToDate(v) = None
        BY <2>7 DEF ToDate
      <3>2. ~ PartMatches(cond, v)
        BY <3>1 DEF PartMatches
      <3> QED BY <2>1, <2>2, <2>4, <2>7, <3>2
    <2> QED BY <1>1, <2>6, <2>7
  <1>4. CondMatches(after, rec) <=> v.shape = "number" /\ v.n > DateFloor
    <2>1. PICK cond : cond = after
      OBVIOUS
    <2>2. cond.part = "" /\ cond.field = f /\ cond.op = ">" /\ cond.rhs = RhsNumber(DateFloor)
      BY <2>1 DEF Cond
    <2>3. RhsNum(RhsNumber(DateFloor)) = <<DateFloor>> /\ RhsDate(RhsNumber(DateFloor)) = None
      BY DEF RhsNum, RhsDate, RhsNumber
    <2>4. CondMatches(cond, rec) = InOrder(v, ">", RhsNumber(DateFloor))
      BY <1>1, <2>2 DEF CondMatches
    <2>5. \A a, b : <<a>> # None /\ (Compared(<<a>>, ">", <<b>>) <=> a > b)
      BY DEF Compared, CmpNum, None
    <2>6. CASE v.shape = "number"
      <3>1. ToNumber(v) = <<v.n>>
        BY <2>6 DEF ToNumber
      <3>2. InOrder(v, ">", RhsNumber(DateFloor)) = Compared(<<v.n>>, ">", <<DateFloor>>)
        BY <2>3, <2>5, <3>1 DEF InOrder
      <3> QED BY <2>1, <2>2, <2>4, <2>5, <2>6, <3>2
    <2>7. CASE v.shape = "null"
      <3>1. ToNumber(v) = None
        BY <2>7 DEF ToNumber
      <3>2. InOrder(v, ">", RhsNumber(DateFloor)) = Compared(ToDate(v), ">", None)
        BY <2>3, <3>1 DEF InOrder
      <3>3. ~ Compared(ToDate(v), ">", None)
        BY DEF Compared
      <3> QED BY <2>1, <2>2, <2>4, <2>7, <3>2, <3>3
    <2> QED BY <1>1, <2>6, <2>7
  <1>5. /\ CondMatches(y, rec) <=> v.shape = "number" /\ YearOf(v.n) = year
        /\ CondMatches(m, rec) <=> v.shape = "number" /\ MonthOf(v.n) = month
        /\ CondMatches(d, rec) <=> v.shape = "number" /\ DayOf(v.n) = day
    BY <1>3 DEF PartOf
  <1> HIDE DEF y, m, d, after
  <1>6. PICK g : g = filter
    OBVIOUS
  <1>7. g.given /\ g.groups = << <<y, m, d, after>> >>
    BY <1>6
  <1>8. /\ DOMAIN g.groups = {1} /\ g.groups # <<>> /\ DOMAIN g.groups[1] = {1, 2, 3, 4}
        /\ g.groups[1][1] = y /\ g.groups[1][2] = m /\ g.groups[1][3] = d /\ g.groups[1][4] = after
    BY <1>7
  <1>9. Passes(g, rec) <=> CondMatches(y, rec) /\ CondMatches(m, rec) /\ CondMatches(d, rec) /\ CondMatches(after, rec)
    BY <1>8 DEF Passes
  <1>10. ToNumber(v) = IF v.shape = "number" THEN <<v.n>> ELSE None
    BY <1>1 DEF ToNumber
  <1>11. <<v.n>> # None /\ <<v.n>>[1] = v.n
    BY DEF None
  <1>12. Passes(g, rec) <=>
            /\ ToNumber(rec[f]) # None
            /\ LET n == ToNumber(rec[f])[1]
               IN  n > DateFloor /\ YearOf(n) = year /\ MonthOf(n) = month /\ DayOf(n) = day
    <2>1. CASE v.shape = "number"
      BY <1>1, <1>4, <1>5, <1>9, <1>10, <1>11, <2>1
    <2>2. CASE v.shape # "number"
      BY <1>1, <1>4, <1>5, <1>9, <1>10, <1>11, <2>2
    <2> QED BY <2>1, <2>2
  <1> QED BY <1>6, <1>12 DEF y, m, d, after

\* The badge of a day counts the records the day's conditions select.
LEMMA BadgesHold ==
    ASSUME records \in Seq(Rows), NEW f \in Fields
    PROVE  BadgesMatch([Component EXCEPT !.field = f, !.x = f], f)
  <1> SUFFICES ASSUME \A i \in DOMAIN records : records[i][f].shape \in {"number", "null"}
               PROVE  BadgesMatch([Component EXCEPT !.field = f, !.x = f], f)
    BY DEF BadgesMatch
  <1>1. PICK c : c = [Component EXCEPT !.field = f, !.x = f]
    OBVIOUS
  <1>2. c.field = f /\ c.filter = NoFilter
    BY <1>1 DEF Component
  <1>3. PICK calendar : calendar = CalendarTile(c, records)
    OBVIOUS
  <1>4. f # "" /\ FieldOrX(c) = f /\ ApplyFilter(records, c.filter).records = records
    <2>1. f # ""
      BY WidgetAssumption
    <2>2. FieldOrX(c) = f
      BY <1>2, <2>1 DEF FieldOrX
    <2> QED BY <1>2, <2>1, <2>2, NoFilterKeeps
  <1> DEFINE numbers == Nums(ApplyFilter(records, c.filter).records, FieldOrX(c))
             dated == Where(numbers, {i \in DOMAIN numbers : numbers[i] > DateFloor})
             anchor == IF dated = <<>> THEN Now ELSE dated[1]
             badge == [day \in 1..DaysIn(YearOf(anchor), MonthOf(anchor)) |->
                          Cardinality({i \in DOMAIN dated :
                             /\ YearOf(dated[i]) = YearOf(anchor) /\ MonthOf(dated[i]) = MonthOf(anchor)
                             /\ DayOf(dated[i]) = day})]
  <1>5. CalendarTile(c, records) = [year |-> YearOf(anchor), month |-> MonthOf(anchor), badge |-> badge]
    BY Zenon DEF CalendarTile
  <1> HIDE DEF badge
  <1>6. calendar.year = YearOf(anchor) /\ calendar.month = MonthOf(anchor) /\ calendar.badge = badge
    <2> HIDE DEF anchor
    <2> QED BY <1>3, <1>5
  <1> HIDE DEF anchor
  <1>7. dated = Where(numbers, {i \in DOMAIN numbers : numbers[i] > DateFloor})
    OBVIOUS
  <1> HIDE DEF dated
  <1>8. numbers = Nums(records, f)
    BY <1>4
  <1> HIDE DEF numbers
  <1>9. numbers \in Seq(Int)
    BY <1>8, NumsIs
  <1>10. PICK later : later = {n \in Int : n > DateFloor}
    OBVIOUS
  <1>11. dated = Among(numbers, later)
    <2>1. {i \in DOMAIN numbers : numbers[i] > DateFloor} = {i \in DOMAIN numbers : numbers[i] \in later}
      BY <1>9, <1>10
    <2> QED BY <1>7, <2>1 DEF Among
  <1> DEFINE on(day) == [given |-> TRUE, groups |-> <<
                         <<PartCond("year", f, RhsNumber(calendar.year)),
                           PartCond("month", f, RhsNumber(calendar.month)),
                           PartCond("day", f, RhsNumber(day)),
                           Cond(f, ">", RhsNumber(DateFloor))>> >>]
  <1>12. ASSUME NEW day \in DOMAIN calendar.badge
         PROVE  Scale * calendar.badge[day]
                   = StatTile([c EXCEPT !.filter = on(day), !.agg = "count"], records)
    <2>1. PICK filter : filter = on(day)
      OBVIOUS
    <2>2. ASSUME NEW i \in 1..Len(records)
          PROVE  Passes(filter, records[i]) <=>
                    /\ ToNumber(records[i][f]) # None
                    /\ LET n == ToNumber(records[i][f])[1]
                       IN  /\ n > DateFloor /\ YearOf(n) = calendar.year
                           /\ MonthOf(n) = calendar.month /\ DayOf(n) = day
      <3>1. records[i] \in Rows /\ records[i][f].shape \in {"number", "null"}
        OBVIOUS
      <3> QED BY <2>1, <3>1, DayMatches
    <2>3. filter.given /\ Parses(filter)
      <3>1. filter.given
        BY <2>1
      <3>2. Parses(filter)
        BY <2>1, DayParses
      <3> QED BY <3>1, <3>2
    <2>4. PICK Q : Q = {n \in Int : /\ n > DateFloor /\ YearOf(n) = YearOf(anchor)
                                    /\ MonthOf(n) = MonthOf(anchor) /\ DayOf(n) = day}
      OBVIOUS
    <2>5. Places(records, filter) = {i \in 1..Len(records) : records[i] \in WithNumberIn(f, Q)}
      <3>1. ASSUME NEW i \in 1..Len(records)
            PROVE  Passes(filter, records[i]) <=> records[i] \in WithNumberIn(f, Q)
        <4>1. records[i] \in Rows /\ records[i][f] \in Cell
          BY DEF Rows
        <4>2. PICK n : n = ToNumber(records[i][f])
          OBVIOUS
        <4>3. n # None => n[1] \in Int
          BY <4>1, <4>2, NumberOfCell
        <4>4. Passes(filter, records[i]) <=>
                 /\ n # None /\ n[1] > DateFloor /\ YearOf(n[1]) = YearOf(anchor)
                 /\ MonthOf(n[1]) = MonthOf(anchor) /\ DayOf(n[1]) = day
          BY <1>6, <2>2, <4>2
        <4>5. records[i] \in WithNumberIn(f, Q) <=> n # None /\ n[1] \in Q
          BY <4>1, <4>2 DEF WithNumberIn
        <4> QED BY <2>4, <4>3, <4>4, <4>5
      <3> QED BY <3>1 DEF Places
    <2>6. Cardinality(Places(records, filter)) = CountIn(records, WithNumberIn(f, Q))
      BY <2>5 DEF CountIn
    <2>7. CountIn(dated, Q) = CountIn(numbers, Q)
      <3>1. \A n \in Int : n \in Q => n \in later
        BY <1>10, <2>4
      <3> QED BY <1>9, <1>11, <3>1, CountAmong
    <2>8. CountIn(numbers, Q) = CountIn(records, WithNumberIn(f, Q))
      BY <1>8, CountNums
    <2>9. calendar.badge[day] = CountIn(dated, Q)
      <3>1. dated \in Seq(Int) /\ \A k \in 1..Len(dated) : dated[k] > DateFloor
        <4>1. PICK I : I = {i \in DOMAIN numbers : numbers[i] > DateFloor}
          OBVIOUS
        <4>2. /\ Where(numbers, I) \in Seq(Int)
              /\ \A k \in 1..Len(Where(numbers, I)) : \E i \in 1..Len(numbers) : i \in I /\ Where(numbers, I)[k] = numbers[i]
          BY <1>9, WhereElements
        <4>3. dated = Where(numbers, I)
          BY <1>7, <4>1
        <4>4. \A k \in 1..Len(dated) : \E i \in 1..Len(numbers) : i \in I /\ dated[k] = numbers[i]
          BY <4>2, <4>3
        <4> QED BY <4>1, <4>2, <4>3, <4>4
      <3>2. DOMAIN dated = 1..Len(dated) /\ \A k \in 1..Len(dated) : dated[k] \in Int
        BY <3>1
      <3>3. ASSUME NEW i \in 1..Len(dated)
            PROVE  dated[i] \in Q <=> /\ YearOf(dated[i]) = YearOf(anchor)
                                      /\ MonthOf(dated[i]) = MonthOf(anchor) /\ DayOf(dated[i]) = day
        BY <2>4, <3>1, <3>2
      <3>4. {i \in DOMAIN dated : /\ YearOf(dated[i]) = YearOf(anchor)
                                  /\ MonthOf(dated[i]) = MonthOf(anchor)
                                  /\ DayOf(dated[i]) = day} = {i \in 1..Len(dated) : dated[i] \in Q}
        BY <3>2, <3>3
      <3>5. calendar.badge[day] = Cardinality({i \in DOMAIN dated : /\ YearOf(dated[i]) = YearOf(anchor)
                                                  /\ MonthOf(dated[i]) = MonthOf(anchor)
                                                  /\ DayOf(dated[i]) = day})
        BY <1>6 DEF badge
      <3> QED BY <3>4, <3>5 DEF CountIn
    <2>10. PICK stat : stat = [c EXCEPT !.filter = filter, !.agg = "count"]
      OBVIOUS
    <2>11. stat.filter = filter /\ stat.agg = "count"
      BY <1>1, <2>10 DEF Component
    <2>12. StatTile(stat, records) = Scale * Len(ApplyFilter(records, filter).records)
      BY <2>11, StatOf
    <2>13. Len(ApplyFilter(records, filter).records) = Cardinality(Places(records, filter))
      BY <2>3, Applied
    <2>14. StatTile(stat, records) = Scale * calendar.badge[day]
      BY <2>6, <2>7, <2>8, <2>9, <2>12, <2>13
    <2> QED BY <2>1, <2>10, <2>14
  <1> HIDE DEF on
  <1> QED BY <1>1, <1>3, <1>12 DEF BadgesMatch, on

----------------------------------------------------------------------------
(* Filters partition                                                       *)

\* A component that asks about column f.
Asks(f) == [Component EXCEPT !.field = f, !.x = f]

\* What the count and the sum of a filter are.
LEMMA CountAndSum ==
    ASSUME NEW f, NEW filter
    PROVE  /\ StatTile([Asks(f) EXCEPT !.filter = filter, !.agg = "count"], records)
                 = Scale * Len(ApplyFilter(records, filter).records)
           /\ StatTile([Asks(f) EXCEPT !.filter = filter, !.agg = "sum"], records)
                 = Scale * Total(Nums(ApplyFilter(records, filter).records, f))
  <1>1. PICK n, t : /\ n = [Asks(f) EXCEPT !.filter = filter, !.agg = "count"]
                    /\ t = [Asks(f) EXCEPT !.filter = filter, !.agg = "sum"]
    OBVIOUS
  <1>2. n.filter = filter /\ n.agg = "count" /\ n.field = f
    BY <1>1 DEF Asks, Component
  <1>3. t.filter = filter /\ t.agg = "sum" /\ t.field = f
    BY <1>1 DEF Asks, Component
  <1>4. StatTile(n, records) = Scale * Len(ApplyFilter(records, filter).records)
    BY <1>2, StatOf
  <1>5. StatTile(t, records) = Scale * Total(Nums(ApplyFilter(records, filter).records, f))
    BY <1>3, StatOf
  <1> QED BY <1>1, <1>4, <1>5

CountWith(filter) == Scale * Len(ApplyFilter(records, filter).records)

SumWith(filter, f) == Scale * Total(Nums(ApplyFilter(records, filter).records, f))

\* A threshold and its opposite.
LEMMA ThresholdsHold ==
    ASSUME records \in Seq(Rows), NEW f \in Fields, NEW v \in Int,
           NEW opposite \in {<<">=", "<">>, <<">", "<=">>}
    PROVE  LET p == One(Cond(f, opposite[1], RhsNumber(v)))
               q == One(Cond(f, opposite[2], RhsNumber(v)))
           IN  /\ CountWith(p) + CountWith(q) = Scale * Len(Nums(records, f))
               /\ SumWith(p, f) + SumWith(q, f) = SumWith(NoFilter, f)
  <1>1. PICK p, q : /\ p = One(Cond(f, opposite[1], RhsNumber(v)))
                    /\ q = One(Cond(f, opposite[2], RhsNumber(v)))
    OBVIOUS
  <1>2. p.given /\ Parses(p) /\ q.given /\ Parses(q)
    <2>1. \A op : Cond(f, op, RhsNumber(v)).ok
      BY DEF Cond
    <2> QED BY <1>1, <2>1, OneFilter
  <1>3. PICK A, B : A = Places(records, p) /\ B = Places(records, q)
    OBVIOUS
  <1>4. A \cap B = {} /\ A \cup B = Numeric(records, f)
    BY <1>1, <1>3, ThresholdsShareOut
  <1>5. /\ ApplyFilter(records, p).records = Where(records, A) /\ IsFiniteSet(A)
        /\ Len(ApplyFilter(records, p).records) = Cardinality(A)
        /\ ApplyFilter(records, q).records = Where(records, B) /\ IsFiniteSet(B)
        /\ Len(ApplyFilter(records, q).records) = Cardinality(B)
    BY <1>2, <1>3, Applied
  <1>6. CountWith(p) + CountWith(q) = Scale * Len(Nums(records, f))
    <2>1. Scale * Cardinality(A) + Scale * Cardinality(B) = Scale * Cardinality(Numeric(records, f))
      BY <1>4, <1>5, SharedOut
    <2>2. Len(Nums(records, f)) = Cardinality(Numeric(records, f))
      BY NumsIs
    <2> QED BY <1>5, <2>1, <2>2 DEF CountWith
  <1>7. SumWith(p, f) + SumWith(q, f) = SumWith(NoFilter, f)
    <2>1. PICK a, b, c : /\ a = Total(Nums(Where(records, A), f))
                         /\ b = Total(Nums(Where(records, B), f))
                         /\ c = Total(Nums(records, f))
      OBVIOUS
    <2>2. \A i \in 1..Len(records) : ToNumber(records[i][f]) # None => (i \in A <=> i \notin B)
      <3>1. \A i \in 1..Len(records) : ToNumber(records[i][f]) # None => i \in Numeric(records, f)
        BY DEF Numeric
      <3> QED BY <1>4, <3>1
    <2>3. /\ Total(Nums(Where(records, A), f)) \in Int /\ Total(Nums(Where(records, B), f)) \in Int
          /\ Total(Nums(records, f)) = Total(Nums(Where(records, A), f)) + Total(Nums(Where(records, B), f))
      BY <2>2, TotalsShareOut
    <2>4. a \in Int /\ b \in Int /\ c = a + b
      BY <2>1, <2>3
    <2>5. Scale \in Int
      BY TilesAssumption
    <2>6. \A x, y \in Int : Scale * x + Scale * y = Scale * (x + y)
      BY <2>5
    <2>7. Scale * a + Scale * b = Scale * c
      BY <2>4, <2>6
    <2>8. SumWith(p, f) = Scale * a /\ SumWith(q, f) = Scale * b /\ SumWith(NoFilter, f) = Scale * c
      BY <1>5, <2>1, NoFilterKeeps DEF SumWith
    <2> QED BY <2>7, <2>8
  <1> QED BY <1>1, <1>6, <1>7

\* = and !=.
LEMMA EqualsHold ==
    ASSUME records \in Seq(Rows), NEW f \in Fields, NEW v
    PROVE  CountWith(One(Cond(f, "=", RhsNumber(v)))) + CountWith(One(Cond(f, "!=", RhsNumber(v))))
              = CountWith(NoFilter)
  <1>1. PICK p, q : p = One(Cond(f, "=", RhsNumber(v))) /\ q = One(Cond(f, "!=", RhsNumber(v)))
    OBVIOUS
  <1>2. p.given /\ Parses(p) /\ q.given /\ Parses(q)
    <2>1. \A op : Cond(f, op, RhsNumber(v)).ok
      BY DEF Cond
    <2> QED BY <1>1, <2>1, OneFilter
  <1>3. PICK A, B : A = Places(records, p) /\ B = Places(records, q)
    OBVIOUS
  <1>4. A \cap B = {} /\ A \cup B = 1..Len(records)
    BY <1>1, <1>3, EqualsShareOut
  <1>5. /\ IsFiniteSet(A) /\ Len(ApplyFilter(records, p).records) = Cardinality(A)
        /\ IsFiniteSet(B) /\ Len(ApplyFilter(records, q).records) = Cardinality(B)
    BY <1>2, <1>3, Applied
  <1>6. Scale * Cardinality(A) + Scale * Cardinality(B) = Scale * Cardinality(1..Len(records))
    BY <1>4, <1>5, SharedOut
  <1>7. Cardinality(1..Len(records)) = Len(records)
    <2>1. Len(records) \in Nat
      OBVIOUS
    <2>2. Cardinality(1..Len(records)) = IF 1 > Len(records) THEN 0 ELSE Len(records) - 1 + 1
      BY <2>1, FS_Interval
    <2> QED BY <2>1, <2>2
  <1> QED BY <1>1, <1>5, <1>6, <1>7, NoFilterKeeps DEF CountWith

\* OR and AND.
LEMMA EitherBothHold ==
    ASSUME records \in Seq(Rows), NEW p \in Filters, NEW q \in Filters
    PROVE  CountWith(Either(p, q)) + CountWith(Both(p, q)) = CountWith(p) + CountWith(q)
  <1>1. PICK a \in Conditions, b \in Conditions : p = One(a) /\ q = One(b)
    BY DEF Filters
  <1>2. a.ok /\ b.ok
    BY WidgetAssumption
  <1>3. PICK e, g : e = Either(p, q) /\ g = Both(p, q)
    OBVIOUS
  <1>4. /\ e.given /\ Parses(e) /\ g.given /\ Parses(g)
        /\ \A rec : Passes(e, rec) <=> CondMatches(a, rec) \/ CondMatches(b, rec)
        /\ \A rec : Passes(g, rec) <=> CondMatches(a, rec) /\ CondMatches(b, rec)
    BY <1>1, <1>2, <1>3, EitherBoth
  <1>5. /\ p.given /\ Parses(p) /\ \A rec : Passes(p, rec) <=> CondMatches(a, rec)
        /\ q.given /\ Parses(q) /\ \A rec : Passes(q, rec) <=> CondMatches(b, rec)
    BY <1>1, <1>2, OneFilter
  <1>6. PICK A, B, U, V : /\ A = Places(records, p) /\ B = Places(records, q)
                          /\ U = Places(records, e) /\ V = Places(records, g)
    OBVIOUS
  <1>7. U = A \cup B /\ V = A \cap B
    BY <1>4, <1>5, <1>6 DEF Places
  <1>8. /\ IsFiniteSet(A) /\ Len(ApplyFilter(records, p).records) = Cardinality(A)
        /\ IsFiniteSet(B) /\ Len(ApplyFilter(records, q).records) = Cardinality(B)
        /\ IsFiniteSet(U) /\ Len(ApplyFilter(records, e).records) = Cardinality(U)
        /\ IsFiniteSet(V) /\ Len(ApplyFilter(records, g).records) = Cardinality(V)
    BY <1>4, <1>5, <1>6, Applied
  <1>9. PICK x, y, u, w : /\ x = Cardinality(A) /\ y = Cardinality(B)
                          /\ u = Cardinality(U) /\ w = Cardinality(V)
    OBVIOUS
  <1>10. x \in Nat /\ y \in Nat /\ u \in Nat /\ w \in Nat
    BY <1>8, <1>9, FS_CardinalityType
  <1>11. u = x + y - w
    <2>1. Cardinality(A \cup B) = Cardinality(A) + Cardinality(B) - Cardinality(A \cap B)
      BY <1>8, FS_Union
    <2> QED BY <1>7, <1>9, <2>1
  <1>12. Scale * u + Scale * w = Scale * x + Scale * y
    <2>1. Scale \in Int
      BY TilesAssumption
    <2>2. \A c, d \in Int : Scale * c + Scale * d = Scale * (c + d)
      BY <2>1
    <2>3. u + w = x + y
      BY <1>10, <1>11
    <2>4. Scale * u + Scale * w = Scale * (u + w) /\ Scale * x + Scale * y = Scale * (x + y)
      <3>1. u \in Int /\ w \in Int /\ x \in Int /\ y \in Int
        BY <1>10
      <3> QED BY <2>2, <3>1, Zenon
    <2> QED BY <2>3, <2>4
  <1> QED BY <1>3, <1>8, <1>9, <1>12 DEF CountWith

\* All of it together.
LEMMA Partitioned == IInv => FiltersPartition
  <1> SUFFICES ASSUME IInv, pc = "read", NEW f \in Fields
               PROVE  LET c == [Component EXCEPT !.field = f, !.x = f]
               count(filter) == StatTile([c EXCEPT !.filter = filter, !.agg = "count"], records)
               sum(filter)   == StatTile([c EXCEPT !.filter = filter, !.agg = "sum"], records)
               than(op, v)   == One(Cond(f, op, RhsNumber(v)))
               groups == ChartTile([c EXCEPT !.y = [agg |-> "count", field |-> f]], records)
           IN  /\ \A v \in Thresholds : \A opposite \in {<<">=", "<">>, <<">", "<=">>} :
                     /\ count(than(opposite[1], v)) + count(than(opposite[2], v))
                           = Scale * Len(Nums(records, f))
                     /\ sum(than(opposite[1], v)) + sum(than(opposite[2], v)) = sum(NoFilter)
                     /\ count(than("=", v)) + count(than("!=", v)) = count(NoFilter)
               /\ \A i \in DOMAIN groups :
                     count(One(Cond(f, "in", RhsList(<<RhsString(groups[i].label)>>))))
                        = groups[i].value
               /\ \A p, q \in Filters :
                     count(Either(p, q)) + count(Both(p, q)) = count(p) + count(q)
               /\ \A p \in Filters :
                     LET broken == ApplyFilter(records, Both(p, One(Unreadable)))
                     IN  broken.error /\ broken.records = records
               /\ BadgesMatch(c, f)
    BY DEF FiltersPartition
  <1> DEFINE c == [Component EXCEPT !.field = f, !.x = f]
             count(filter) == StatTile([c EXCEPT !.filter = filter, !.agg = "count"], records)
             sum(filter) == StatTile([c EXCEPT !.filter = filter, !.agg = "sum"], records)
             than(op, v) == One(Cond(f, op, RhsNumber(v)))
             groups == ChartTile([c EXCEPT !.y = [agg |-> "count", field |-> f]], records)
  <1>1. records \in Seq(Rows)
    BY DEF IInv, TypeOK, Rows
  <1>2. \A filter : count(filter) = CountWith(filter) /\ sum(filter) = SumWith(filter, f)
    BY CountAndSum, Zenon DEF Asks, CountWith, SumWith
  <1>3. BadgesMatch(c, f)
    BY <1>1, BadgesHold
  <1>4. \A i \in DOMAIN groups : groups[i].value = Scale * Len(WithLabel(records, f, groups[i].label))
    <2>1. PICK chart : chart = [c EXCEPT !.y = [agg |-> "count", field |-> f]]
      OBVIOUS
    <2>2. /\ chart.filter = NoFilter /\ chart.x = f /\ chart.sort = "" /\ chart.limit = 0
          /\ chart.y = [agg |-> "count", field |-> f]
      BY <2>1 DEF Component
    <2>3. \A i \in DOMAIN ChartTile(chart, records) :
             ChartTile(chart, records)[i].value = Scale * Len(WithLabel(records, f, ChartTile(chart, records)[i].label))
      BY <2>2, BarsCount
    <2> QED BY <2>1, <2>3
  <1>5. Thresholds \subseteq Int
    BY WidgetAssumption
  <1> HIDE DEF c, count, sum, than, groups
  <1>6. ASSUME NEW v \in Thresholds, NEW opposite \in {<<">=", "<">>, <<">", "<=">>}
        PROVE  /\ count(than(opposite[1], v)) + count(than(opposite[2], v)) = Scale * Len(Nums(records, f))
               /\ sum(than(opposite[1], v)) + sum(than(opposite[2], v)) = sum(NoFilter)
               /\ count(than("=", v)) + count(than("!=", v)) = count(NoFilter)
    <2>1. v \in Int
      BY <1>5
    <2>2. /\ CountWith(than(opposite[1], v)) + CountWith(than(opposite[2], v)) = Scale * Len(Nums(records, f))
          /\ SumWith(than(opposite[1], v), f) + SumWith(than(opposite[2], v), f) = SumWith(NoFilter, f)
      BY <1>1, <2>1, ThresholdsHold DEF than
    <2>3. CountWith(than("=", v)) + CountWith(than("!=", v)) = CountWith(NoFilter)
      BY <1>1, EqualsHold DEF than
    <2> QED BY <1>2, <2>2, <2>3
  <1>7. ASSUME NEW i \in DOMAIN groups
        PROVE  count(One(Cond(f, "in", RhsList(<<RhsString(groups[i].label)>>)))) = groups[i].value
    <2>1. ApplyFilter(records, One(Cond(f, "in", RhsList(<<RhsString(groups[i].label)>>)))).records
             = WithLabel(records, f, groups[i].label)
      BY InKeeps
    <2> QED BY <1>2, <1>4, <2>1 DEF CountWith
  <1>8. ASSUME NEW p \in Filters, NEW q \in Filters
        PROVE  count(Either(p, q)) + count(Both(p, q)) = count(p) + count(q)
    BY <1>1, <1>2, EitherBothHold
  <1>9. ASSUME NEW p \in Filters
        PROVE  LET broken == ApplyFilter(records, Both(p, One(Unreadable)))
               IN  broken.error /\ broken.records = records
    <2>1. PICK a : p = One(a)
      BY DEF Filters
    <2> QED BY <2>1, BrokenFilter
  <1> QED BY <1>3, <1>6, <1>7, <1>8, <1>9 DEF c, count, sum, than, groups

\* A filter divides the records the way it reads, whatever the cells hold, the
\* conditions compare and the calendar says: thresholds, = and !=, `in` and the
\* chart, OR and AND, a condition that does not parse, the calendar's badges
\* (filter.ts, ops.ts).
THEOREM FiltersPartitionHolds == Spec => []FiltersPartition
  BY AlwaysIInv, Partitioned, PTL

----------------------------------------------------------------------------
(* Sorting                                                                 *)

\* The places that come before i or are i when n items are sorted by the keys k.
UpTo(n, k, i) == {j \in 1..n : k[j] < k[i] \/ (k[j] = k[i] /\ j <= i)}

\* Where item i goes.
Rank(n, k) == [i \in 1..n |-> Cardinality(UpTo(n, k, i))]

\* Item i comes before item j.
Before(k, i, j) == k[i] < k[j] \/ (k[i] = k[j] /\ i < j)

\* Counting what comes before is a permutation, and it is in order.
LEMMA RankIsOrder ==
    ASSUME NEW n \in Nat, NEW k \in [1..n -> Int]
    PROVE  /\ Rank(n, k) \in Bijection(1..n, 1..n)
           /\ \A i, j \in 1..n : Before(k, i, j) <=> Rank(n, k)[i] < Rank(n, k)[j]
  <1> DEFINE D == 1..n
             card(i) == Cardinality(UpTo(n, k, i))
  <1>1. IsFiniteSet(D) /\ Cardinality(D) = n
    BY FS_Interval
  <1>2. ASSUME NEW i \in D
        PROVE  /\ i \in UpTo(n, k, i) /\ UpTo(n, k, i) \in SUBSET D
               /\ IsFiniteSet(UpTo(n, k, i)) /\ card(i) \in D
    <2>1. i \in UpTo(n, k, i) /\ UpTo(n, k, i) \in SUBSET D
      BY DEF UpTo
    <2>2. IsFiniteSet(UpTo(n, k, i)) /\ card(i) <= n
      BY <1>1, <2>1, FS_Subset
    <2>3. card(i) \in Nat /\ card(i) # 0
      BY <2>1, <2>2, FS_CardinalityType, FS_EmptySet
    <2> QED BY <2>1, <2>2, <2>3
  <1>3. ASSUME NEW i \in D, NEW j \in D, Before(k, i, j)
        PROVE  card(i) < card(j)
    <2>1. k[i] \in Int /\ k[j] \in Int
      OBVIOUS
    <2>2. UpTo(n, k, i) \in SUBSET UpTo(n, k, j)
      BY <1>3, <2>1 DEF UpTo, Before
    <2>3. j \in UpTo(n, k, j) /\ j \notin UpTo(n, k, i)
      BY <1>3, <2>1 DEF UpTo, Before
    <2>4. card(i) <= card(j) /\ card(i) # card(j)
      BY <1>2, <2>2, <2>3, FS_Subset
    <2> QED BY <1>2, <2>4
  <1>4. \A i, j \in D : i # j => Before(k, i, j) \/ Before(k, j, i)
    <2> SUFFICES ASSUME NEW i \in D, NEW j \in D, i # j
                 PROVE  Before(k, i, j) \/ Before(k, j, i)
      OBVIOUS
    <2>1. k[i] \in Int /\ k[j] \in Int
      OBVIOUS
    <2> QED BY <2>1 DEF Before
  <1>5. Rank(n, k) \in [D -> D] /\ \A i \in D : Rank(n, k)[i] = card(i)
    BY <1>2 DEF Rank
  <1> HIDE DEF card
  <1>6. \A i, j \in D : Before(k, i, j) <=> Rank(n, k)[i] < Rank(n, k)[j]
    <2> SUFFICES ASSUME NEW i \in D, NEW j \in D
                 PROVE  Before(k, i, j) <=> card(i) < card(j)
      BY <1>5
    <2>1. card(i) \in Nat /\ card(j) \in Nat
      BY <1>2
    <2>2. CASE i = j
      BY <2>1, <2>2 DEF Before
    <2>3. CASE i # j
      BY <1>3, <1>4, <2>1, <2>3
    <2> QED BY <2>2, <2>3
  <1>7. \A i, j \in D : i # j => Rank(n, k)[i] # Rank(n, k)[j]
    <2> SUFFICES ASSUME NEW i \in D, NEW j \in D, i # j
                 PROVE  Rank(n, k)[i] # Rank(n, k)[j]
      OBVIOUS
    <2>1. Rank(n, k)[i] \in D /\ Rank(n, k)[j] \in D
      BY <1>5
    <2> QED BY <1>4, <1>6, <2>1
  <1>8. Rank(n, k) \in Injection(D, D)
    BY <1>5, <1>7 DEF Injection, IsInjective
  <1>9. Rank(n, k) \in Surjection(D, D)
    BY <1>1, <1>8, FS_Injection
  <1> QED BY <1>6, <1>8, <1>9 DEF Bijection

\* s is the items in the order of their keys, as at tells.
InOrderOf(s, items, k, at) ==
    /\ at \in [1..Len(items) -> 1..Len(items)]
    /\ \A i \in 1..Len(items) : \E p \in 1..Len(items) : at[p] = i
    /\ \A p, q \in 1..Len(items) : p < q => Before(k, at[p], at[q])
    /\ \A p \in 1..Len(items) : s[p] = items[at[p]]

\* The items sorted by the keys k.
SortBy(items, k) ==
    [p \in DOMAIN items |-> items[CHOOSE i \in DOMAIN items : Cardinality(UpTo(Len(items), k, i)) = p]]

\* Sorting by keys is a permutation: every item once, the keys in order.
LEMMA SortByIs ==
    ASSUME NEW R, NEW items \in Seq(R), NEW k \in [1..Len(items) -> Int]
    PROVE  /\ SortBy(items, k) \in Seq(R) /\ Len(SortBy(items, k)) = Len(items)
           /\ \E at : InOrderOf(SortBy(items, k), items, k, at)
  <1> DEFINE n == Len(items)
             at == [p \in 1..n |-> CHOOSE i \in 1..n : Cardinality(UpTo(n, k, i)) = p]
  <1>1. n \in Nat /\ DOMAIN items = 1..n /\ \A i \in 1..n : items[i] \in R
    OBVIOUS
  <1>2. /\ Rank(n, k) \in Bijection(1..n, 1..n)
        /\ \A i, j \in 1..n : Before(k, i, j) <=> Rank(n, k)[i] < Rank(n, k)[j]
        /\ \A i \in 1..n : Rank(n, k)[i] = Cardinality(UpTo(n, k, i))
    BY <1>1, RankIsOrder DEF Rank
  <1>3. \A p \in 1..n : \E i \in 1..n : Cardinality(UpTo(n, k, i)) = p
    BY <1>2 DEF Bijection, Surjection
  <1>4. \A p \in 1..n : at[p] \in 1..n /\ Rank(n, k)[at[p]] = p
    BY <1>2, <1>3
  <1>5. at \in [1..n -> 1..n]
    BY <1>3
  <1>6. SortBy(items, k) = [p \in 1..n |-> items[at[p]]]
    BY <1>1 DEF SortBy
  <1> HIDE DEF at
  <1>7. \A i \in 1..n : \E p \in 1..n : at[p] = i
    <2> SUFFICES ASSUME NEW i \in 1..n PROVE \E p \in 1..n : at[p] = i
      OBVIOUS
    <2>1. Rank(n, k)[i] \in 1..n /\ \A j \in 1..n : Rank(n, k)[j] = Rank(n, k)[i] => j = i
      BY <1>2 DEF Bijection, Injection, IsInjective
    <2>2. PICK p \in 1..n : p = Rank(n, k)[i]
      BY <2>1
    <2> QED BY <1>4, <2>1, <2>2
  <1>8. \A p, q \in 1..n : p < q => Before(k, at[p], at[q])
    BY <1>2, <1>4, <1>5
  <1>9. InOrderOf(SortBy(items, k), items, k, at)
    BY <1>4, <1>5, <1>6, <1>7, <1>8 DEF InOrderOf
  <1>10. SortBy(items, k) \in Seq(R) /\ Len(SortBy(items, k)) = n
    <2>1. SortBy(items, k) \in [1..n -> R]
      BY <1>1, <1>5, <1>6
    <2> QED BY <1>1, <2>1
  <1> QED BY <1>9, <1>10

\* A chart sorted largest first.
Descending(items) == StableSort(items, LAMBDA d : - d.value)

\* It is the sort by the negated values.
LEMMA DescendingIs ==
    ASSUME NEW R, NEW items \in Seq(R), \A x \in R : x.value \in Int
    PROVE  Descending(items) = SortBy(items, [i \in 1..Len(items) |-> - items[i].value])
  <1> DEFINE n == Len(items)
             k == [i \in 1..n |-> - items[i].value]
             place(i) == Cardinality({j \in DOMAIN items :
                            \/ - items[j].value < - items[i].value
                            \/ - items[j].value = - items[i].value /\ j <= i})
             rank(i) == Cardinality(UpTo(n, k, i))
             placed(p) == items[CHOOSE i \in DOMAIN items : place(i) = p]
             ranked(p) == items[CHOOSE i \in DOMAIN items : rank(i) = p]
  <1>1. n \in Nat /\ DOMAIN items = 1..n /\ \A i \in 1..n : items[i] \in R
    OBVIOUS
  <1>2. k \in [1..n -> Int] /\ \A i \in 1..n : k[i] = - items[i].value
    BY <1>1
  <1> HIDE DEF k
  <1>3. \A i \in DOMAIN items : place(i) = rank(i)
    <2> SUFFICES ASSUME NEW i \in 1..n PROVE place(i) = rank(i)
      BY <1>1
    <2>1. UpTo(n, k, i) = {j \in DOMAIN items :
                            \/ - items[j].value < - items[i].value
                            \/ - items[j].value = - items[i].value /\ j <= i}
      BY <1>1, <1>2 DEF UpTo
    <2> QED BY <2>1
  <1> HIDE DEF place, rank
  <1>4. \A p \in DOMAIN items : placed(p) = ranked(p)
    <2>1. \A p : (CHOOSE i \in DOMAIN items : place(i) = p) = (CHOOSE i \in DOMAIN items : rank(i) = p)
      BY <1>3
    <2> QED BY <2>1
  <1> HIDE DEF placed, ranked
  <1>5. [p \in DOMAIN items |-> placed(p)] = [p \in DOMAIN items |-> ranked(p)]
    BY <1>4
  <1> QED BY <1>5 DEF Descending, StableSort, SortBy, k, place, rank, placed, ranked

\* A chart sorted smallest first.
Ascending(items) == StableSort(items, LAMBDA d : d.value)

\* It is the sort by the values.
LEMMA AscendingIs ==
    ASSUME NEW R, NEW items \in Seq(R), \A x \in R : x.value \in Int
    PROVE  Ascending(items) = SortBy(items, [i \in 1..Len(items) |-> items[i].value])
  <1> DEFINE n == Len(items)
             k == [i \in 1..n |-> items[i].value]
             place(i) == Cardinality({j \in DOMAIN items :
                            \/ items[j].value < items[i].value
                            \/ items[j].value = items[i].value /\ j <= i})
             rank(i) == Cardinality(UpTo(n, k, i))
             placed(p) == items[CHOOSE i \in DOMAIN items : place(i) = p]
             ranked(p) == items[CHOOSE i \in DOMAIN items : rank(i) = p]
  <1>1. n \in Nat /\ DOMAIN items = 1..n /\ \A i \in 1..n : items[i] \in R
    OBVIOUS
  <1>2. k \in [1..n -> Int] /\ \A i \in 1..n : k[i] = items[i].value
    BY <1>1
  <1> HIDE DEF k
  <1>3. \A i \in DOMAIN items : place(i) = rank(i)
    <2> SUFFICES ASSUME NEW i \in 1..n PROVE place(i) = rank(i)
      BY <1>1
    <2>1. UpTo(n, k, i) = {j \in DOMAIN items :
                            \/ items[j].value < items[i].value
                            \/ items[j].value = items[i].value /\ j <= i}
      BY <1>1, <1>2 DEF UpTo
    <2> QED BY <2>1
  <1> HIDE DEF place, rank
  <1>4. \A p \in DOMAIN items : placed(p) = ranked(p)
    <2>1. \A p : (CHOOSE i \in DOMAIN items : place(i) = p) = (CHOOSE i \in DOMAIN items : rank(i) = p)
      BY <1>3
    <2> QED BY <2>1
  <1> HIDE DEF placed, ranked
  <1>5. [p \in DOMAIN items |-> placed(p)] = [p \in DOMAIN items |-> ranked(p)]
    BY <1>4
  <1> QED BY <1>5 DEF Ascending, StableSort, SortBy, k, place, rank, placed, ranked

\* The numbers of a column, smallest first.
Numbers(items) == StableSort(items, LAMBDA d : d)

\* It is the sort by the numbers themselves.
LEMMA NumbersIs ==
    ASSUME NEW R, NEW items \in Seq(R), R = Int
    PROVE  Numbers(items) = SortBy(items, [i \in 1..Len(items) |-> items[i]])
  <1> DEFINE n == Len(items)
             k == [i \in 1..n |-> items[i]]
             place(i) == Cardinality({j \in DOMAIN items :
                            \/ items[j] < items[i]
                            \/ items[j] = items[i] /\ j <= i})
             rank(i) == Cardinality(UpTo(n, k, i))
             placed(p) == items[CHOOSE i \in DOMAIN items : place(i) = p]
             ranked(p) == items[CHOOSE i \in DOMAIN items : rank(i) = p]
  <1>1. n \in Nat /\ DOMAIN items = 1..n /\ \A i \in 1..n : items[i] \in R
    OBVIOUS
  <1>2. k \in [1..n -> Int] /\ \A i \in 1..n : k[i] = items[i]
    BY <1>1
  <1> HIDE DEF k
  <1>3. \A i \in DOMAIN items : place(i) = rank(i)
    <2> SUFFICES ASSUME NEW i \in 1..n PROVE place(i) = rank(i)
      BY <1>1
    <2>1. UpTo(n, k, i) = {j \in DOMAIN items :
                            \/ items[j] < items[i]
                            \/ items[j] = items[i] /\ j <= i}
      BY <1>1, <1>2 DEF UpTo
    <2> QED BY <2>1
  <1> HIDE DEF place, rank
  <1>4. \A p \in DOMAIN items : placed(p) = ranked(p)
    <2>1. \A p : (CHOOSE i \in DOMAIN items : place(i) = p) = (CHOOSE i \in DOMAIN items : rank(i) = p)
      BY <1>3
    <2> QED BY <2>1
  <1> HIDE DEF placed, ranked
  <1>5. [p \in DOMAIN items |-> placed(p)] = [p \in DOMAIN items |-> ranked(p)]
    BY <1>4
  <1> QED BY <1>5 DEF Numbers, StableSort, SortBy, k, place, rank, placed, ranked

\* What a timeline sorts a record by.
When(field, r) ==
    LET number == IF field = "" THEN None ELSE ToNumber(r[field])
    IN  IF number = None THEN 0 ELSE number[1]

\* A timeline, newest first.
Newest(items, field) == StableSort(items, LAMBDA d : - When(field, d))

\* It is the sort by the negated times.
LEMMA NewestIs ==
    ASSUME NEW R, NEW items \in Seq(R), NEW field, \A x \in R : When(field, x) \in Int
    PROVE  Newest(items, field) = SortBy(items, [i \in 1..Len(items) |-> - When(field, items[i])])
  <1> DEFINE n == Len(items)
             k == [i \in 1..n |-> - When(field, items[i])]
             place(i) == Cardinality({j \in DOMAIN items :
                            \/ - When(field, items[j]) < - When(field, items[i])
                            \/ - When(field, items[j]) = - When(field, items[i]) /\ j <= i})
             rank(i) == Cardinality(UpTo(n, k, i))
             placed(p) == items[CHOOSE i \in DOMAIN items : place(i) = p]
             ranked(p) == items[CHOOSE i \in DOMAIN items : rank(i) = p]
  <1>1. n \in Nat /\ DOMAIN items = 1..n /\ \A i \in 1..n : items[i] \in R
    OBVIOUS
  <1>2. k \in [1..n -> Int] /\ \A i \in 1..n : k[i] = - When(field, items[i])
    BY <1>1
  <1> HIDE DEF k
  <1>3. \A i \in DOMAIN items : place(i) = rank(i)
    <2> SUFFICES ASSUME NEW i \in 1..n PROVE place(i) = rank(i)
      BY <1>1
    <2>1. UpTo(n, k, i) = {j \in DOMAIN items :
                            \/ - When(field, items[j]) < - When(field, items[i])
                            \/ - When(field, items[j]) = - When(field, items[i]) /\ j <= i}
      BY <1>1, <1>2 DEF UpTo
    <2> QED BY <2>1
  <1> HIDE DEF place, rank
  <1>4. \A p \in DOMAIN items : placed(p) = ranked(p)
    <2>1. \A p : (CHOOSE i \in DOMAIN items : place(i) = p) = (CHOOSE i \in DOMAIN items : rank(i) = p)
      BY <1>3
    <2> QED BY <2>1
  <1> HIDE DEF placed, ranked
  <1>5. [p \in DOMAIN items |-> placed(p)] = [p \in DOMAIN items |-> ranked(p)]
    BY <1>4
  <1> QED BY <1>5 DEF Newest, StableSort, SortBy, k, place, rank, placed, ranked

----------------------------------------------------------------------------
(* The statistics of a column                                              *)

\* A sequence of numbers that is not empty has a least and a largest one.
LEMMA Extremes ==
    ASSUME NEW v \in Seq(Int), v # <<>>
    PROVE  /\ Min(ToSet(v)) \in Int /\ Max(ToSet(v)) \in Int
           /\ \A i \in 1..Len(v) : Min(ToSet(v)) <= v[i] /\ v[i] <= Max(ToSet(v))
  <1> DEFINE Low(t) == \E i \in 1..Len(t) : \A j \in 1..Len(t) : t[i] <= t[j]
             High(t) == \E i \in 1..Len(t) : \A j \in 1..Len(t) : t[j] <= t[i]
             S == {t \in Seq(Int) : t = <<>> \/ (Low(t) /\ High(t))}
  <1>1. <<>> \in S
    <2> HIDE DEF Low, High
    <2> QED BY EmptySeq
  <1>2. ASSUME NEW t \in Seq(Int), NEW x \in Int, t \in S PROVE Append(t, x) \in S
    <2>1. PICK u : u = Append(t, x)
      OBVIOUS
    <2>2. /\ u \in Seq(Int) /\ Len(t) \in Nat /\ Len(u) = Len(t) + 1 /\ u[Len(t) + 1] = x
          /\ \A i \in 1..Len(t) : u[i] = t[i] /\ t[i] \in Int
      BY <2>1
    <2>3. \A j \in 1..Len(u) : j \in 1..Len(t) \/ j = Len(t) + 1
      BY <2>2
    <2>4. \A i \in 1..Len(t) : i \in 1..Len(u)
      BY <2>2
    <2>5. Len(t) + 1 \in 1..Len(u)
      BY <2>2
    <2>6. CASE t = <<>>
      <3>1. Len(t) = 0
        BY <2>6
      <3>2. \A j \in 1..Len(u) : j = Len(t) + 1
        BY <2>2, <3>1
      <3>3. Low(u) /\ High(u)
        BY <2>2, <2>5, <3>2
      <3> QED BY <2>1, <2>2, <3>3
    <2>7. CASE t # <<>>
      <3>1. PICK a \in 1..Len(t) : \A j \in 1..Len(t) : t[a] <= t[j]
        BY <1>2, <2>7
      <3>2. PICK b \in 1..Len(t) : \A j \in 1..Len(t) : t[j] <= t[b]
        BY <1>2, <2>7
      <3>0. t[a] \in Int /\ t[b] \in Int
        BY <2>2
      <3>3. Low(u)
        <4>1. CASE t[a] <= x
          <5>1. \A j \in 1..Len(u) : u[a] <= u[j]
            BY <2>2, <2>3, <3>1, <4>1
          <5> QED BY <2>4, <5>1
        <4>2. CASE x < t[a]
          <5>1. ASSUME NEW j \in 1..Len(t) PROVE x <= t[j]
            <6>1. t[j] \in Int /\ t[a] \in Int /\ t[a] <= t[j]
              BY <2>2, <3>0, <3>1
            <6> QED BY SMTT(20), <4>2, <6>1
          <5>2. ASSUME NEW j \in 1..Len(u) PROVE u[Len(t) + 1] <= u[j]
            <6>1. CASE j \in 1..Len(t)
              BY <2>2, <5>1, <6>1
            <6>2. CASE j = Len(t) + 1
              BY <2>2, <6>2
            <6> QED BY <2>3, <6>1, <6>2
          <5> QED BY <2>5, <5>2
        <4> QED BY <3>0, <4>1, <4>2
      <3>4. High(u)
        <4>1. CASE x <= t[b]
          <5>1. \A j \in 1..Len(u) : u[j] <= u[b]
            BY <2>2, <2>3, <3>2, <4>1
          <5> QED BY <2>4, <5>1
        <4>2. CASE t[b] < x
          <5>1. ASSUME NEW j \in 1..Len(t) PROVE t[j] <= x
            <6>1. t[j] \in Int /\ t[b] \in Int /\ t[j] <= t[b]
              BY <2>2, <3>0, <3>2
            <6> QED BY SMTT(20), <4>2, <6>1
          <5>2. ASSUME NEW j \in 1..Len(u) PROVE u[j] <= u[Len(t) + 1]
            <6>1. CASE j \in 1..Len(t)
              BY <2>2, <5>1, <6>1
            <6>2. CASE j = Len(t) + 1
              BY <2>2, <6>2
            <6> QED BY <2>3, <6>1, <6>2
          <5> QED BY <2>5, <5>2
        <4> QED BY <3>0, <4>1, <4>2
      <3> QED BY <2>1, <2>2, <3>3, <3>4
    <2> QED BY <2>6, <2>7
  <1>3. Seq(Int) \subseteq S
    <2> HIDE DEF S
    <2> QED BY <1>1, <1>2, SeqInduction
  <1>4. Low(v) /\ High(v)
    BY <1>3
  <1>5. \A x : x \in ToSet(v) <=> \E i \in 1..Len(v) : x = v[i]
    BY Elements
  <1>6. \E x \in ToSet(v) : \A y \in ToSet(v) : x <= y
    <2>1. PICK i \in 1..Len(v) : \A j \in 1..Len(v) : v[i] <= v[j]
      BY <1>4
    <2>2. v[i] \in ToSet(v) /\ \A y \in ToSet(v) : v[i] <= y
      BY <1>5, <2>1
    <2> QED BY <2>2
  <1>7. \E x \in ToSet(v) : \A y \in ToSet(v) : x >= y
    <2>1. PICK i \in 1..Len(v) : \A j \in 1..Len(v) : v[j] <= v[i]
      BY <1>4
    <2>2. v[i] \in Int /\ \A j \in 1..Len(v) : v[j] \in Int
      OBVIOUS
    <2>3. v[i] \in ToSet(v) /\ \A y \in ToSet(v) : v[i] >= y
      BY <1>5, <2>1, <2>2
    <2> QED BY <2>3
  <1>8. Min(ToSet(v)) \in ToSet(v) /\ \A y \in ToSet(v) : Min(ToSet(v)) <= y
    BY <1>6 DEF Min
  <1>9. Max(ToSet(v)) \in ToSet(v) /\ \A y \in ToSet(v) : Max(ToSet(v)) >= y
    BY <1>7 DEF Max
  <1> QED BY <1>5, <1>8, <1>9

\* A sum lies between as many times a bound below and above its terms.
LEMMA TotalBounds ==
    ASSUME NEW v \in Seq(Int), NEW lo \in Int, NEW hi \in Int,
           \A i \in 1..Len(v) : lo <= v[i] /\ v[i] <= hi
    PROVE  Total(v) \in Int /\ lo * Len(v) <= Total(v) /\ Total(v) <= hi * Len(v)
  <1> DEFINE Within(t) == \A i \in 1..Len(t) : lo <= t[i] /\ t[i] <= hi
             Bounded(t) == lo * Len(t) <= Total(t) /\ Total(t) <= hi * Len(t)
             S == {t \in Seq(Int) : Within(t) => Bounded(t)}
  <1>1. <<>> \in S
    <2>1. Len(<<>>) = 0 /\ lo * 0 = 0 /\ hi * 0 = 0 /\ Total(<<>>) = 0
      BY TotalEmpty
    <2>2. Bounded(<<>>)
      BY <2>1
    <2> HIDE DEF Bounded, Within
    <2> QED BY <2>2, EmptySeq
  <1>2. ASSUME NEW t \in Seq(Int), NEW x \in Int, t \in S PROVE Append(t, x) \in S
    <2>1. PICK u : u = Append(t, x)
      OBVIOUS
    <2>2. /\ u \in Seq(Int) /\ Len(t) \in Nat /\ Len(u) = Len(t) + 1 /\ u[Len(t) + 1] = x
          /\ \A i \in 1..Len(t) : u[i] = t[i] /\ t[i] \in Int
      BY <2>1
    <2> SUFFICES ASSUME Within(u) PROVE Bounded(u)
      BY <2>1, <2>2
    <2>3. Within(t) /\ lo <= x /\ x <= hi
      <3>1. Len(t) + 1 \in 1..Len(u) /\ \A i \in 1..Len(t) : i \in 1..Len(u)
        BY <2>2
      <3> QED BY <2>2, <3>1
    <2>4. Bounded(t)
      <3> HIDE DEF Within, Bounded
      <3> QED BY <1>2, <2>3
    <2>5. Total(t) \in Int /\ Total(u) = Total(t) + x
      BY <2>1, TotalAppend
    <2>6. lo * Len(u) = lo * Len(t) + lo /\ hi * Len(u) = hi * Len(t) + hi
      BY <2>2
    <2>7. lo * Len(t) \in Int /\ hi * Len(t) \in Int
      BY <2>2
    <2> HIDE DEF Within
    <2> QED BY <2>3, <2>4, <2>5, <2>6, <2>7
  <1>3. Seq(Int) \subseteq S
    <2> HIDE DEF S
    <2> QED BY <1>1, <1>2, SeqInduction
  <1>4. Bounded(v)
    BY <1>3
  <1>5. Total(v) \in Int
    BY 0 \in Int, TotalAppend
  <1> QED BY <1>4, <1>5

\* The quotient of a number between two multiples of n lies between the factors.
LEMMA QuotientBounds ==
    ASSUME NEW n \in Nat \ {0}, NEW a \in Int, NEW b \in Int, NEW x \in Int, a * n <= x, x <= b * n
    PROVE  x \div n \in Int /\ a <= x \div n /\ x \div n <= b
  <1>1. PICK q \in Int : q = x \div n
    OBVIOUS
  <1>2. n * q <= x /\ x < n * q + n
    BY <1>1
  <1>3. a <= q
    <2> SUFFICES ASSUME q + 1 <= a PROVE FALSE
      BY <1>1
    <2>1. n * (q + 1) <= n * a
      OBVIOUS
    <2>2. n * (q + 1) = n * q + n /\ n * a = a * n
      OBVIOUS
    <2> QED BY <1>2, <2>1, <2>2
  <1>4. q <= b
    <2> SUFFICES ASSUME b + 1 <= q PROVE FALSE
      BY <1>1
    <2>1. n * (b + 1) <= n * q
      OBVIOUS
    <2>2. n * (b + 1) = n * b + n /\ n * b = b * n
      OBVIOUS
    <2> QED BY <1>2, <2>1, <2>2
  <1> QED BY <1>1, <1>3, <1>4

\* Scale keeps the order of numbers.
LEMMA ScaleKeepsOrder ==
    ASSUME NEW a \in Int, NEW b \in Int, a <= b
    PROVE  Scale * a \in Int /\ Scale * b \in Int /\ Scale * a <= Scale * b
  <1>1. Scale \in Nat
    BY TilesAssumption
  <1>2. PICK d \in Nat : b = a + d
    <2>1. b - a \in Nat /\ b = a + (b - a)
      OBVIOUS
    <2> QED BY <2>1
  <1>3. Scale * d \in Nat
    BY <1>1
  <1>4. Scale * b = Scale * a + Scale * d
    BY <1>1, <1>2
  <1>5. Scale * a \in Int
    BY <1>1
  <1> QED BY <1>3, <1>4, <1>5

\* A median lies between any bounds of the numbers.
LEMMA MedianBounds ==
    ASSUME NEW v \in Seq(Int), v # <<>>, NEW lo \in Int, NEW hi \in Int,
           \A i \in 1..Len(v) : lo <= v[i] /\ v[i] <= hi
    PROVE  Median(v) \in Int /\ Scale * lo <= Median(v) /\ Median(v) <= Scale * hi
  <1> DEFINE n == Len(v)
             m == n \div 2
  <1>1. n \in Nat \ {0}
    OBVIOUS
  <1>2. PICK s : s = Numbers(v)
    OBVIOUS
  <1>3. PICK k : k = [i \in 1..n |-> v[i]]
    OBVIOUS
  <1>4. k \in [1..n -> Int]
    BY <1>3
  <1>5. s = SortBy(v, k)
    BY <1>2, <1>3, NumbersIs
  <1>6. PICK at : InOrderOf(s, v, k, at)
    BY <1>4, <1>5, SortByIs
  <1>7. \A p \in 1..n : s[p] \in Int /\ lo <= s[p] /\ s[p] <= hi
    <2> SUFFICES ASSUME NEW p \in 1..n PROVE s[p] \in Int /\ lo <= s[p] /\ s[p] <= hi
      OBVIOUS
    <2>1. at[p] \in 1..n /\ s[p] = v[at[p]]
      BY <1>6 DEF InOrderOf
    <2>2. v[at[p]] \in Int
      BY <2>1
    <2> QED BY <2>1, <2>2
  <1>8. Median(v) = IF n % 2 = 1 THEN Scale * s[m + 1] ELSE (Scale * (s[m] + s[m + 1])) \div 2
    BY <1>2 DEF Median, Numbers
  <1>9. CASE n % 2 = 1
    <2>1. m + 1 \in 1..n
      BY <1>1, <1>9
    <2>2. s[m + 1] \in Int /\ lo <= s[m + 1] /\ s[m + 1] <= hi
      BY <1>7, <2>1
    <2>3. Scale * s[m + 1] \in Int /\ Scale * lo <= Scale * s[m + 1] /\ Scale * s[m + 1] <= Scale * hi
      BY <2>2, ScaleKeepsOrder
    <2> QED BY <1>8, <1>9, <2>3
  <1>10. CASE n % 2 # 1
    <2>1. m \in 1..n /\ m + 1 \in 1..n
      BY <1>1, <1>10
    <2> DEFINE a == s[m]
               b == s[m + 1]
    <2>2. /\ a \in Int /\ lo <= a /\ a <= hi
          /\ b \in Int /\ lo <= b /\ b <= hi
      BY <1>7, <2>1
    <2>3. Median(v) = (Scale * (a + b)) \div 2
      BY <1>8, <1>10
    <2> HIDE DEF a, b
    <2>4. /\ Scale * (lo + lo) \in Int /\ Scale * (a + b) \in Int /\ Scale * (hi + hi) \in Int
          /\ Scale * (lo + lo) <= Scale * (a + b) /\ Scale * (a + b) <= Scale * (hi + hi)
      <3>1. lo + lo \in Int /\ a + b \in Int /\ hi + hi \in Int /\ lo + lo <= a + b /\ a + b <= hi + hi
        BY <2>2
      <3> QED BY <3>1, ScaleKeepsOrder
    <2>5. Scale * (lo + lo) = (Scale * lo) * 2 /\ Scale * (hi + hi) = (Scale * hi) * 2
      BY TilesAssumption
    <2>6. Scale * lo \in Int /\ Scale * hi \in Int
      BY TilesAssumption
    <2>7. 2 \in Nat \ {0}
      OBVIOUS
    <2> QED BY <2>3, <2>4, <2>5, <2>6, <2>7, QuotientBounds
  <1> QED BY <1>9, <1>10

\* The average, median and range of numbers lie between their extremes.
LEMMA StatisticsBetween ==
    ASSUME NEW v \in Seq(Int)
    PROVE  /\ OfNumbers("min", v) <= OfNumbers("avg", v) /\ OfNumbers("avg", v) <= OfNumbers("max", v)
           /\ OfNumbers("min", v) <= OfNumbers("median", v) /\ OfNumbers("median", v) <= OfNumbers("max", v)
           /\ OfNumbers("range", v) = OfNumbers("max", v) - OfNumbers("min", v)
  <1>1. CASE v = <<>>
    <2>1. \A agg : OfNumbers(agg, v) = 0
      BY <1>1 DEF OfNumbers
    <2> QED BY <2>1
  <1>2. CASE v # <<>>
    <2>1. PICK lo, hi : lo = Min(ToSet(v)) /\ hi = Max(ToSet(v))
      OBVIOUS
    <2>2. lo \in Int /\ hi \in Int /\ \A i \in 1..Len(v) : lo <= v[i] /\ v[i] <= hi
      BY <1>2, <2>1, Extremes
    <2>3. /\ OfNumbers("min", v) = Scale * lo /\ OfNumbers("max", v) = Scale * hi
          /\ OfNumbers("avg", v) = (Scale * Total(v)) \div Len(v)
          /\ OfNumbers("range", v) = Scale * (hi - lo)
          /\ OfNumbers("median", v) = Median(v)
      BY <1>2, <2>1 DEF OfNumbers
    <2>4. Scale * (hi - lo) = Scale * hi - Scale * lo
      BY <2>2, TilesAssumption
    <2>5. Scale * lo <= Median(v) /\ Median(v) <= Scale * hi
      BY <1>2, <2>2, MedianBounds
    <2>6. Scale * lo <= (Scale * Total(v)) \div Len(v) /\ (Scale * Total(v)) \div Len(v) <= Scale * hi
      <3>1. PICK t \in Int, n \in Nat \ {0} : t = Total(v) /\ n = Len(v)
        <4>1. Total(v) \in Int
          BY <2>2, TotalBounds
        <4>2. Len(v) \in Nat \ {0}
          BY <1>2
        <4> QED BY <4>1, <4>2
      <3>2. lo * n <= t /\ t <= hi * n
        BY <2>2, <3>1, TotalBounds
      <3>3. lo * n \in Int /\ hi * n \in Int
        BY <2>2
      <3>4. /\ Scale * (lo * n) <= Scale * t /\ Scale * t <= Scale * (hi * n) /\ Scale * t \in Int
        BY <3>2, <3>3, ScaleKeepsOrder
      <3>5. Scale * (lo * n) = (Scale * lo) * n /\ Scale * (hi * n) = (Scale * hi) * n
        BY <2>2, TilesAssumption
      <3>6. Scale * lo \in Int /\ Scale * hi \in Int
        BY <2>2, TilesAssumption
      <3> QED BY <3>1, <3>4, <3>5, <3>6, QuotientBounds
    <2> QED BY <2>3, <2>4, <2>5, <2>6
  <1> QED BY <1>1, <1>2

\* There are no more labels than records.
LEMMA DistinctAtMost ==
    ASSUME NEW s \in Seq(Rows), NEW f
    PROVE  LET labels == {ToLabel(s[i][f]) : i \in DOMAIN s}
           IN  Cardinality(labels) \in Nat /\ Cardinality(labels) <= Len(s)
  <1> DEFINE D == 1..Len(s)
             labels == {ToLabel(s[i][f]) : i \in D}
             g == [i \in D |-> ToLabel(s[i][f])]
  <1>1. Len(s) \in Nat /\ DOMAIN s = D
    OBVIOUS
  <1>2. IsFiniteSet(D) /\ Cardinality(D) = Len(s)
    BY <1>1, FS_Interval
  <1>3. g \in Surjection(D, labels)
    BY DEF Surjection
  <1>4. IsFiniteSet(labels) /\ Cardinality(labels) <= Cardinality(D)
    BY <1>2, <1>3, FS_Surjection
  <1>5. Cardinality(labels) \in Nat
    BY <1>4, FS_CardinalityType
  <1> QED BY <1>1, <1>2, <1>4, <1>5

\* A ring is full exactly when its share is at least the whole.
LEMMA ClampIs ==
    ASSUME NEW a \in Int
    PROVE  Max({0, Min({Scale, a})}) = Scale <=> a >= Scale
  <1>1. Scale \in Nat \ {0}
    BY TilesAssumption
  <1>2. PICK m \in Int : m = IF a < Scale THEN a ELSE Scale
    BY <1>1
  <1>3. Min({Scale, a}) = m
    <2>1. \A x : (x \in {Scale, a} /\ \A y \in {Scale, a} : x <= y) <=> x = m
      BY <1>1, <1>2
    <2>2. \E x \in {Scale, a} : \A y \in {Scale, a} : x <= y
      BY <2>1
    <2> QED BY <2>1, <2>2 DEF Min
  <1>4. PICK h \in Int : h = IF m < 0 THEN 0 ELSE m
    BY <1>2
  <1>5. Max({0, m}) = h
    <2>1. \A x : (x \in {0, m} /\ \A y \in {0, m} : x >= y) <=> x = h
      BY <1>2, <1>4
    <2>2. \E x \in {0, m} : \A y \in {0, m} : x >= y
      BY <2>1
    <2> QED BY <2>1, <2>2 DEF Max
  <1> QED BY <1>1, <1>2, <1>3, <1>4, <1>5

\* A column to ask the statistics of.
Column(filter, f) == [Component EXCEPT !.filter = filter, !.field = f]

\* What a filter keeps are records.
LEMMA ShownAreRecords ==
    ASSUME NEW s \in Seq(Rows), NEW filter \in Filters
    PROVE  ApplyFilter(s, filter).records \in Seq(Rows)
  <1>1. PICK cond \in Conditions : filter = One(cond)
    BY DEF Filters
  <1>2. cond.ok
    BY <1>1, WidgetAssumption
  <1>3. filter.given /\ Parses(filter)
    BY <1>1, <1>2, OneFilter
  <1>4. ApplyFilter(s, filter).records = Where(s, Places(s, filter))
    BY <1>3, Applied
  <1> QED BY <1>4, WhereElements

\* A timeline has the newest first.
LEMMA TimelineIsNewestFirst ==
    ASSUME NEW s \in Seq(Rows), NEW f \in Fields, NEW entries, entries = FirstOf(Newest(s, f), TIMELINE_CAP)
    PROVE  NewestFirst(entries, f)
  <1>1. \A r \in Rows : /\ When(f, r) \in Int
                        /\ ToNumber(r[f]) # None => When(f, r) = ToNumber(r[f])[1]
    <2> SUFFICES ASSUME NEW r \in Rows
                 PROVE  /\ When(f, r) \in Int
                        /\ ToNumber(r[f]) # None => When(f, r) = ToNumber(r[f])[1]
      OBVIOUS
    <2>1. r[f] \in Cell /\ f # ""
      BY WidgetAssumption DEF Rows
    <2>2. PICK n : n = ToNumber(r[f])
      OBVIOUS
    <2>3. n # None => n[1] \in Int
      <3>1. n = None \/ \E m \in Int : n = <<m>>
        BY <2>1, <2>2, NumberOfCell
      <3> QED BY <3>1
    <2>4. When(f, r) = IF n = None THEN 0 ELSE n[1]
      BY <2>1, <2>2 DEF When
    <2> QED BY <2>2, <2>3, <2>4
  <1>2. PICK w : w = Newest(s, f)
    OBVIOUS
  <1>3. PICK k : k = [i \in 1..Len(s) |-> - When(f, s[i])]
    OBVIOUS
  <1>4. k \in [1..Len(s) -> Int] /\ \A i \in 1..Len(s) : k[i] = - When(f, s[i])
    <2>1. \A i \in 1..Len(s) : s[i] \in Rows
      OBVIOUS
    <2>2. \A i \in 1..Len(s) : When(f, s[i]) \in Int
      BY <1>1, <2>1
    <2>3. \A i \in 1..Len(s) : - When(f, s[i]) \in Int
      BY <2>2
    <2> QED BY <1>3, <2>3
  <1>5. w = SortBy(s, k)
    BY <1>1, <1>2, <1>3, NewestIs
  <1>6. w \in Seq(Rows) /\ Len(w) = Len(s)
    BY <1>4, <1>5, SortByIs
  <1>7. PICK at : InOrderOf(w, s, k, at)
    BY <1>4, <1>5, SortByIs
  <1>8. TIMELINE_CAP \in Nat
    BY TilesAssumption
  <1>9. /\ entries \in Seq(Rows) /\ Len(entries) <= Len(w)
        /\ \A i \in 1..Len(entries) : entries[i] = w[i]
    BY <1>2, <1>6, <1>8, FirstOfProperties
  <1>10. ASSUME NEW i \in DOMAIN entries, NEW j \in DOMAIN entries, i < j,
                ToNumber(entries[i][f]) # None, ToNumber(entries[j][f]) # None
         PROVE  ToNumber(entries[i][f])[1] >= ToNumber(entries[j][f])[1]
    <2>1. i \in 1..Len(s) /\ j \in 1..Len(s) /\ entries[i] = w[i] /\ entries[j] = w[j]
      BY <1>6, <1>9
    <2>2. /\ at[i] \in 1..Len(s) /\ at[j] \in 1..Len(s)
          /\ entries[i] = s[at[i]] /\ entries[j] = s[at[j]] /\ Before(k, at[i], at[j])
      BY <1>7, <1>10, <2>1 DEF InOrderOf
    <2>3. entries[i] \in Rows /\ entries[j] \in Rows
      BY <1>9
    <2>4. PICK a \in Int, b \in Int : a = When(f, entries[i]) /\ b = When(f, entries[j])
      BY <1>1, <2>3
    <2>5. k[at[i]] = - a /\ k[at[j]] = - b
      BY <1>4, <2>2, <2>4
    <2>6. - a <= - b
      BY <2>2, <2>5 DEF Before
    <2>7. ToNumber(entries[i][f])[1] = a /\ ToNumber(entries[j][f])[1] = b
      BY <1>1, <1>10, <2>3, <2>4
    <2> QED BY <2>6, <2>7
  <1> QED BY <1>10 DEF NewestFirst

\* The statistics of a column agree, and so do the lists that draw its records.
LEMMA ColumnHolds ==
    ASSUME records \in Seq(Rows), NEW filter \in Filters, NEW f \in Fields
    PROVE  ColumnAgrees(Column(filter, f))
  <1>1. PICK c : c = Column(filter, f)
    OBVIOUS
  <1>2. PICK s : s = ApplyFilter(records, filter).records
    OBVIOUS
  <1>3. s \in Seq(Rows) /\ Len(s) \in Nat
    BY <1>2, ShownAreRecords
  <1>4. PICK v : v = Nums(s, f)
    OBVIOUS
  <1>5. v \in Seq(Int)
    BY <1>3, <1>4, NumsIs
  <1>6. f # ""
    BY WidgetAssumption
  <1>7. c.filter = filter /\ c.field = f
    BY <1>1 DEF Column, Component
  <1>8. \A agg : agg # "" => StatTile([c EXCEPT !.agg = agg], records) = Aggregate(s, agg, f)
    <2> SUFFICES ASSUME NEW agg, agg # ""
                 PROVE  StatTile([c EXCEPT !.agg = agg], records) = Aggregate(s, agg, f)
      OBVIOUS
    <2>1. PICK a : a = [c EXCEPT !.agg = agg]
      OBVIOUS
    <2>2. a.filter = filter /\ a.field = f /\ a.agg = agg
      BY <1>1, <2>1 DEF Column, Component
    <2>3. StatTile(a, records) = Aggregate(s, agg, f)
      BY <1>2, <2>2 DEF StatTile, AggOrCount
    <2> QED BY <2>1, <2>3
  <1>9. \A agg \in {"sum", "avg", "max", "min", "median", "range"} : Aggregate(s, agg, f) = OfNumbers(agg, v)
    BY <1>4 DEF Aggregate
  <1>10. Aggregate(s, "count", f) = Scale * Len(s)
    BY DEF Aggregate
  <1>11. Aggregate(s, "distinct", f) <= Aggregate(s, "count", f)
    <2>1. PICK labels : labels = {ToLabel(s[i][f]) : i \in DOMAIN s}
      OBVIOUS
    <2>2. Cardinality(labels) \in Nat /\ Cardinality(labels) <= Len(s)
      BY <1>3, <2>1, DistinctAtMost
    <2>3. Aggregate(s, "distinct", f) = Scale * Cardinality(labels)
      BY <1>6, <2>1 DEF Aggregate
    <2>4. Cardinality(labels) \in Int /\ Len(s) \in Int
      BY <1>3, <2>2
    <2> QED BY <1>10, <2>2, <2>3, <2>4, ScaleKeepsOrder
  <1>12. ASSUME NEW goal \in {1, 3}
         PROVE  (GaugeTile([c EXCEPT !.agg = "sum", !.target = goal], records) = Scale)
                   <=> (Aggregate(s, "sum", f) >= Scale * goal)
    <2>1. PICK g : g = [c EXCEPT !.agg = "sum", !.target = goal]
      OBVIOUS
    <2>2. g.filter = filter /\ g.field = f /\ g.agg = "sum" /\ g.target = goal
      BY <1>1, <2>1 DEF Column, Component
    <2>3. StatTile(g, records) = Aggregate(s, "sum", f)
      BY <1>2, <2>2 DEF StatTile, AggOrCount
    <2>4. PICK val \in Int : val = Aggregate(s, "sum", f)
      <3>1. OfNumbers("sum", v) \in Int
        <4>1. Total(v) \in Int
          BY <1>5, 0 \in Int, TotalAppend
        <4>2. Scale * Total(v) \in Int
          BY <4>1, TilesAssumption
        <4>3. OfNumbers("sum", v) = IF v = <<>> THEN 0 ELSE Scale * Total(v)
          BY DEF OfNumbers
        <4> QED BY <4>2, <4>3
      <3> QED BY <1>9, <3>1
    <2>5. GaugeTile(g, records) = Max({0, Min({Scale, val \div goal})})
      BY <2>2, <2>3, <2>4 DEF GaugeTile
    <2>6. val \div goal \in Int /\ Scale \in Nat
      BY TilesAssumption
    <2>7. val \div goal >= Scale <=> val >= Scale * goal
      BY <2>6
    <2>8. GaugeTile(g, records) = Scale <=> val \div goal >= Scale
      BY <2>5, <2>6, ClampIs
    <2> QED BY <2>1, <2>4, <2>7, <2>8
  <1>13. TableTile(c, records).total = Len(s) /\ GalleryTile(c, records).total = Len(s)
    BY <1>2, <1>7 DEF TableTile, GalleryTile
  <1>14. NewestFirst(TimelineTile(c, records), f)
    <2>1. FieldOrX(c) = f
      BY <1>6, <1>7 DEF FieldOrX
    <2>2. TimelineTile(c, records)
             = FirstOf(Newest(ApplyFilter(records, c.filter).records, FieldOrX(c)), TIMELINE_CAP)
      BY DEF TimelineTile, Newest, When
    <2>3. TimelineTile(c, records) = FirstOf(Newest(s, f), TIMELINE_CAP)
      BY <1>2, <1>7, <2>1, <2>2
    <2> QED BY <1>3, <2>3, TimelineIsNewestFirst
  <1> DEFINE stat == [a \in {"count", "distinct", "sum", "min", "max", "avg", "median", "range"} |->
                         StatTile([c EXCEPT !.agg = a], records)]
  <1>15. \A a \in {"count", "distinct", "sum", "min", "max", "avg", "median", "range"} :
            stat[a] = Aggregate(s, a, f)
    BY <1>8
  <1>16. /\ stat["min"] <= stat["avg"] /\ stat["avg"] <= stat["max"]
         /\ stat["min"] <= stat["median"] /\ stat["median"] <= stat["max"]
         /\ stat["range"] = stat["max"] - stat["min"]
    <2> HIDE DEF stat
    <2> QED BY <1>5, <1>9, <1>15, StatisticsBetween
  <1> HIDE DEF stat
  <1>17. /\ stat["distinct"] <= stat["count"]
         /\ \A goal \in {1, 3} :
               (GaugeTile([c EXCEPT !.agg = "sum", !.target = goal], records) = Scale)
                  <=> (stat["sum"] >= Scale * goal)
         /\ Scale * TableTile(c, records).total = stat["count"]
         /\ GalleryTile(c, records).total = TableTile(c, records).total
    BY <1>10, <1>11, <1>12, <1>13, <1>15
  <1>18. ColumnAgrees(c)
    BY <1>7, <1>14, <1>16, <1>17 DEF ColumnAgrees, stat
  <1> QED BY <1>1, <1>18

----------------------------------------------------------------------------
(* The groups of a chart                                                   *)

\* Keeping a larger set first does not change what is kept.
LEMMA AmongAmong ==
    ASSUME NEW R, NEW s \in Seq(R), NEW D, NEW Q, \A x \in R : x \in Q => x \in D
    PROVE  Among(Among(s, D), Q) = Among(s, Q)
  <1> DEFINE S == {t \in Seq(R) : Among(Among(t, D), Q) = Among(t, Q)}
  <1>1. <<>> \in S
    <2>1. Among(<<>>, D) = <<>>
      BY WhereEmpty DEF Among
    <2> QED BY <2>1, EmptySeq
  <1>2. ASSUME NEW t \in Seq(R), NEW x \in R, t \in S PROVE Append(t, x) \in S
    <2>1. PICK u, w : u = Append(t, x) /\ w = Among(t, D)
      OBVIOUS
    <2>2. u \in Seq(R) /\ w \in Seq(R) /\ Among(u, D) = IF x \in D THEN Append(w, x) ELSE w
      <3>1. Append(t, x) \in Seq(R)
        OBVIOUS
      <3>2. Among(t, D) \in Seq(R) /\ Among(Append(t, x), D) = IF x \in D THEN Append(Among(t, D), x) ELSE Among(t, D)
        BY AmongAppend
      <3> QED BY <2>1, <3>1, <3>2
    <2>3. /\ Among(u, Q) = IF x \in Q THEN Append(Among(t, Q), x) ELSE Among(t, Q)
          /\ Among(Append(w, x), Q) = IF x \in Q THEN Append(Among(w, Q), x) ELSE Among(w, Q)
      <3>1. Among(Append(t, x), Q) = IF x \in Q THEN Append(Among(t, Q), x) ELSE Among(t, Q)
        BY AmongAppend
      <3>2. Among(Append(w, x), Q) = IF x \in Q THEN Append(Among(w, Q), x) ELSE Among(w, Q)
        <4>1. w \in Seq(R)
          BY <2>2
        <4> QED BY <4>1, AmongAppend
      <3> QED BY <2>1, <3>1, <3>2
    <2>4. Among(w, Q) = Among(t, Q)
      BY <1>2, <2>1
    <2>5. Among(Among(u, D), Q) = Among(u, Q)
      BY <2>2, <2>3, <2>4
    <2> QED BY <2>1, <2>2, <2>5
  <1>3. Seq(R) \subseteq S
    <2> HIDE DEF S
    <2> QED BY <1>1, <1>2, SeqInduction
  <1> QED BY <1>3

\* The rows whose cell in a column has a label, and those whose cell has another.
Labelled(x, label) == {r \in Rows : ToLabel(r[x]) = label}

Other(x, label) == {r \in Rows : ToLabel(r[x]) # label}

\* A bucket of the chart is the rows with its label.
LEMMA BucketIs ==
    ASSUME NEW s \in Seq(Rows), NEW x, NEW label
    PROVE  WithLabel(s, x, label) = Among(s, Labelled(x, label)) /\ WithLabel(s, x, label) \in Seq(Rows)
  <1>1. PICK I, J : /\ I = {i \in DOMAIN s : ToLabel(s[i][x]) = label}
                    /\ J = {i \in DOMAIN s : s[i] \in Labelled(x, label)}
    OBVIOUS
  <1>2. \A i \in 1..Len(s) : s[i] \in Rows
    OBVIOUS
  <1>3. \A i \in 1..Len(s) : i \in I <=> i \in J
    BY <1>1, <1>2 DEF Labelled
  <1>4. Where(s, I) = Where(s, J) /\ Where(s, I) \in Seq(Rows)
    BY <1>3, WhereSame, WhereElements
  <1> QED BY <1>1, <1>4 DEF WithLabel, Among

\* The two aggregates that add up.
LEMMA AggregateIs ==
    ASSUME NEW s \in Seq(Rows), NEW f \in Fields
    PROVE  /\ Aggregate(s, "count", f) = Scale * Len(s) /\ Scale * Len(s) \in Int
           /\ Aggregate(s, "sum", f) = Scale * Total(Nums(s, f)) /\ Scale * Total(Nums(s, f)) \in Int
           /\ Total(Nums(s, f)) \in Int
  <1>1. Aggregate(s, "count", f) = Scale * Len(s) /\ Scale * Len(s) \in Int
    BY TilesAssumption DEF Aggregate
  <1>2. PICK v : v = Nums(s, f)
    OBVIOUS
  <1>3. v \in Seq(Int)
    BY <1>2, NumsIs
  <1>4. Total(v) \in Int
    BY <1>3, 0 \in Int, TotalAppend
  <1>5. Scale * Total(v) \in Int /\ Scale * 0 = 0
    BY <1>4, TilesAssumption
  <1>6. Aggregate(s, "sum", f) = OfNumbers("sum", v)
    BY <1>2 DEF Aggregate
  <1>7. OfNumbers("sum", v) = IF v = <<>> THEN 0 ELSE Scale * Total(v)
    BY DEF OfNumbers
  <1>8. OfNumbers("sum", v) = Scale * Total(v)
    BY <1>5, <1>7, TotalEmpty
  <1> QED BY <1>1, <1>2, <1>4, <1>5, <1>6, <1>8

\* A label parts the records, and the aggregates add up.
LEMMA AggregateSplits ==
    ASSUME NEW s \in Seq(Rows), NEW f \in Fields, NEW agg \in {"sum", "count"}, NEW x, NEW label
    PROVE  /\ Aggregate(s, agg, f) = Aggregate(Among(s, Other(x, label)), agg, f)
                                        + Aggregate(WithLabel(s, x, label), agg, f)
           /\ Aggregate(s, agg, f) \in Int
           /\ Aggregate(Among(s, Other(x, label)), agg, f) \in Int
           /\ Aggregate(WithLabel(s, x, label), agg, f) \in Int
           /\ Among(s, Other(x, label)) \in Seq(Rows)
  <1>1. PICK A, B : /\ A = {i \in DOMAIN s : s[i] \in Other(x, label)}
                    /\ B = {i \in DOMAIN s : ToLabel(s[i][x]) = label}
    OBVIOUS
  <1>2. PICK a, b : a = Where(s, A) /\ b = Where(s, B)
    OBVIOUS
  <1>3. Among(s, Other(x, label)) = a /\ WithLabel(s, x, label) = b
    BY <1>1, <1>2 DEF Among, WithLabel
  <1>4. a \in Seq(Rows) /\ b \in Seq(Rows)
    BY <1>2, WhereElements
  <1>5. \A i \in 1..Len(s) : i \in A <=> i \notin B
    <2>1. \A i \in 1..Len(s) : s[i] \in Rows /\ i \in DOMAIN s
      OBVIOUS
    <2> QED BY <1>1, <2>1 DEF Other
  <1>6. Total(Nums(s, f)) = Total(Nums(a, f)) + Total(Nums(b, f))
    BY <1>2, <1>5, TotalsShareOut
  <1>7. Len(s) = Len(a) + Len(b)
    <2>1. /\ IsFiniteSet(At(s, A)) /\ Len(a) = Cardinality(At(s, A))
          /\ IsFiniteSet(At(s, B)) /\ Len(b) = Cardinality(At(s, B))
      BY <1>2, WhereElements
    <2>2. At(s, A) \cap At(s, B) = {} /\ At(s, A) \cup At(s, B) = 1..Len(s)
      BY <1>5 DEF At
    <2>3. Cardinality(At(s, A) \cap At(s, B)) = 0
      BY <2>2, FS_EmptySet
    <2>4. Cardinality(1..Len(s)) = Cardinality(At(s, A)) + Cardinality(At(s, B)) - Cardinality(At(s, A) \cap At(s, B))
      BY <2>1, <2>2, FS_Union
    <2>5. Len(s) \in Nat /\ Len(a) \in Nat /\ Len(b) \in Nat
      BY <1>4
    <2>6. Cardinality(1..Len(s)) = Len(s)
      <3>1. PICK n \in Nat : n = Len(s)
        BY <2>5
      <3>2. Cardinality(1..n) = n
        BY FS_Interval
      <3> QED BY <3>1, <3>2
    <2> QED BY <2>1, <2>3, <2>4, <2>5, <2>6
  <1>8. \A m, n \in Int : Scale * (m + n) = Scale * m + Scale * n
    BY TilesAssumption
  <1>9. /\ Aggregate(s, "count", f) = Scale * Len(s) /\ Scale * Len(s) \in Int
        /\ Aggregate(s, "sum", f) = Scale * Total(Nums(s, f)) /\ Scale * Total(Nums(s, f)) \in Int
    BY AggregateIs
  <1>10. /\ Aggregate(a, "count", f) = Scale * Len(a) /\ Scale * Len(a) \in Int
         /\ Aggregate(a, "sum", f) = Scale * Total(Nums(a, f)) /\ Scale * Total(Nums(a, f)) \in Int
         /\ Total(Nums(a, f)) \in Int
    BY <1>4, AggregateIs
  <1>11. /\ Aggregate(b, "count", f) = Scale * Len(b) /\ Scale * Len(b) \in Int
         /\ Aggregate(b, "sum", f) = Scale * Total(Nums(b, f)) /\ Scale * Total(Nums(b, f)) \in Int
         /\ Total(Nums(b, f)) \in Int
    BY <1>4, AggregateIs
  <1>12. Scale * Len(s) = Scale * Len(a) + Scale * Len(b)
    <2>1. Len(a) \in Int /\ Len(b) \in Int
      BY <1>4
    <2> QED BY <1>7, <1>8, <2>1
  <1>13. Scale * Total(Nums(s, f)) = Scale * Total(Nums(a, f)) + Scale * Total(Nums(b, f))
    BY <1>6, <1>8, <1>10, <1>11
  <1>14. CASE agg = "count"
    BY <1>3, <1>4, <1>9, <1>10, <1>11, <1>12, <1>14
  <1>15. CASE agg = "sum"
    BY <1>3, <1>4, <1>9, <1>10, <1>11, <1>13, <1>15
  <1> QED BY <1>14, <1>15

\* A list of labels, each once, and what the groups of it hold.
Distinct(labels) == \A i, j \in 1..Len(labels) : i # j => labels[i] # labels[j]

Covers(labels, s, x) == \A i \in 1..Len(s) : \E k \in 1..Len(labels) : ToLabel(s[i][x]) = labels[k]

Groups(labels, s, x, agg, f) ==
    [k \in DOMAIN labels |-> Aggregate(WithLabel(s, x, labels[k]), agg, f)]

\* The groups of a column add up to the whole.
LEMMA GroupsTotal ==
    ASSUME NEW f \in Fields, NEW agg \in {"sum", "count"}, NEW x,
           NEW L, NEW labels \in Seq(L), Distinct(labels),
           NEW s \in Seq(Rows), Covers(labels, s, x)
    PROVE  Total(Groups(labels, s, x, agg, f)) = Aggregate(s, agg, f)
  <1> DEFINE Adds(ls, t) == Total(Groups(ls, t, x, agg, f)) = Aggregate(t, agg, f)
             S == {ls \in Seq(L) : Distinct(ls) =>
                      \A t \in Seq(Rows) : Covers(ls, t, x) => Adds(ls, t)}
  <1>1. <<>> \in S
    <2> SUFFICES ASSUME NEW t \in Seq(Rows), Covers(<<>>, t, x) PROVE Adds(<<>>, t)
      BY EmptySeq
    <2>1. t = <<>>
      BY DEF Covers
    <2>2. Groups(<<>>, t, x, agg, f) = <<>>
      BY DEF Groups
    <2>3. Aggregate(t, agg, f) = Scale * 0
      <3>1. Aggregate(t, "count", f) = Scale * Len(t) /\ Aggregate(t, "sum", f) = Scale * Total(Nums(t, f))
        BY AggregateIs
      <3>2. Len(t) = 0 /\ Total(Nums(t, f)) = 0
        BY <2>1, NumsEmpty, TotalEmpty
      <3> QED BY <3>1, <3>2
    <2>4. Scale * 0 = 0
      BY TilesAssumption
    <2> QED BY <2>2, <2>3, <2>4, TotalEmpty
  <1>2. ASSUME NEW ls \in Seq(L), NEW l \in L, ls \in S PROVE Append(ls, l) \in S
    <2>1. PICK ms : ms = Append(ls, l)
      OBVIOUS
    <2>2. /\ ms \in Seq(L) /\ Len(ls) \in Nat /\ Len(ms) = Len(ls) + 1 /\ ms[Len(ls) + 1] = l
          /\ \A i \in 1..Len(ls) : ms[i] = ls[i] /\ i \in 1..Len(ms)
          /\ DOMAIN ms = 1..Len(ms) /\ DOMAIN ls = 1..Len(ls) /\ Len(ls) + 1 \in 1..Len(ms)
      BY <2>1
    <2> SUFFICES ASSUME Distinct(ms), NEW t \in Seq(Rows), Covers(ms, t, x) PROVE Adds(ms, t)
      BY <2>1, <2>2
    <2>3. PICK rest : rest = Among(t, Other(x, l))
      OBVIOUS
    <2>4. Distinct(ls) /\ \A k \in 1..Len(ls) : ls[k] # l
      <3>1. \A i, j \in 1..Len(ms) : i # j => ms[i] # ms[j]
        BY DEF Distinct
      <3>2. \A i, j \in 1..Len(ls) : i # j => ls[i] # ls[j]
        BY <2>2, <3>1
      <3>3. \A k \in 1..Len(ls) : k # Len(ls) + 1
        BY <2>2
      <3>4. \A k \in 1..Len(ls) : ls[k] # l
        BY <2>2, <3>1, <3>3
      <3> QED BY <3>2, <3>4 DEF Distinct
    <2>5. /\ rest \in Seq(Rows)
          /\ Aggregate(t, agg, f) = Aggregate(rest, agg, f) + Aggregate(WithLabel(t, x, l), agg, f)
          /\ Aggregate(rest, agg, f) \in Int /\ Aggregate(WithLabel(t, x, l), agg, f) \in Int
      <3>1. /\ Among(t, Other(x, l)) \in Seq(Rows)
            /\ Aggregate(t, agg, f) = Aggregate(Among(t, Other(x, l)), agg, f)
                                         + Aggregate(WithLabel(t, x, l), agg, f)
            /\ Aggregate(Among(t, Other(x, l)), agg, f) \in Int
            /\ Aggregate(WithLabel(t, x, l), agg, f) \in Int
        BY AggregateSplits
      <3> QED BY <2>3, <3>1
    <2>6. Covers(ls, rest, x)
      <3> SUFFICES ASSUME NEW i \in 1..Len(rest)
                   PROVE  \E k \in 1..Len(ls) : ToLabel(rest[i][x]) = ls[k]
        BY DEF Covers
      <3>1. PICK j \in 1..Len(t) : t[j] \in Other(x, l) /\ rest[i] = t[j]
        <4>1. PICK I : I = {j \in DOMAIN t : t[j] \in Other(x, l)}
          OBVIOUS
        <4>2. rest = Where(t, I)
          BY <2>3, <4>1 DEF Among
        <4>3. \A k \in 1..Len(Where(t, I)) : \E j \in 1..Len(t) : j \in I /\ Where(t, I)[k] = t[j]
          BY WhereElements
        <4>4. PICK j \in 1..Len(t) : j \in I /\ rest[i] = t[j]
          BY <4>2, <4>3
        <4> QED BY <4>1, <4>4
      <3>2. PICK k \in 1..Len(ms) : ToLabel(t[j][x]) = ms[k]
        BY DEF Covers
      <3>3. ToLabel(t[j][x]) # l
        BY <3>1 DEF Other
      <3>4. k # Len(ls) + 1
        BY <2>2, <3>2, <3>3
      <3>5. k \in 1..Len(ls)
        BY <2>2, <3>4
      <3> QED BY <2>2, <3>1, <3>2, <3>5
    <2>7. Total(Groups(ls, rest, x, agg, f)) = Aggregate(rest, agg, f)
      BY <1>2, <2>4, <2>5, <2>6
    <2>8. \A k \in 1..Len(ls) : WithLabel(rest, x, ls[k]) = WithLabel(t, x, ls[k])
      <3> SUFFICES ASSUME NEW k \in 1..Len(ls)
                   PROVE  WithLabel(rest, x, ls[k]) = WithLabel(t, x, ls[k])
        OBVIOUS
      <3>1. PICK m : m = ls[k]
        OBVIOUS
      <3>2. m # l
        BY <2>4, <3>1
      <3>3. \A r \in Rows : r \in Labelled(x, m) => r \in Other(x, l)
        BY <3>2 DEF Labelled, Other
      <3>4. Among(rest, Labelled(x, m)) = Among(t, Labelled(x, m))
        BY <2>3, <3>3, AmongAmong
      <3>5. WithLabel(rest, x, m) = Among(rest, Labelled(x, m)) /\ WithLabel(t, x, m) = Among(t, Labelled(x, m))
        BY <2>5, BucketIs
      <3> QED BY <3>1, <3>4, <3>5
    <2>9. PICK v, w : v = Groups(ls, rest, x, agg, f) /\ w = Aggregate(WithLabel(t, x, l), agg, f)
      OBVIOUS
    <2>10. v \in Seq(Int) /\ Len(v) = Len(ls)
      <3>1. v = [k \in 1..Len(ls) |-> Aggregate(WithLabel(rest, x, ls[k]), agg, f)]
        BY <2>2, <2>9 DEF Groups
      <3>2. \A k \in 1..Len(ls) : Aggregate(WithLabel(rest, x, ls[k]), agg, f) \in Int
        BY <2>5, AggregateSplits
      <3>3. v \in [1..Len(ls) -> Int]
        BY <3>1, <3>2
      <3>4. PICK n \in Nat : n = Len(ls)
        BY <2>2
      <3>5. v \in [1..n -> Int]
        BY <3>3, <3>4
      <3>6. v \in Seq(Int) /\ Len(v) = n
        BY <3>5
      <3> QED BY <3>4, <3>6
    <2>11. Groups(ms, t, x, agg, f) = Append(v, w)
      <3>1. PICK g : g = Groups(ms, t, x, agg, f)
        OBVIOUS
      <3>2. g = [k \in 1..Len(ms) |-> g[k]]
        BY <2>2, <3>1 DEF Groups
      <3>3. \A k \in 1..Len(ms) : g[k] = Aggregate(WithLabel(t, x, ms[k]), agg, f)
        BY <2>2, <3>1 DEF Groups
      <3>4. g[Len(ls) + 1] = w
        BY <2>2, <2>9, <3>3
      <3>5. \A k \in 1..Len(ls) : v[k] = Aggregate(WithLabel(rest, x, ls[k]), agg, f)
        BY <2>2, <2>9 DEF Groups
      <3>6. \A k \in 1..Len(ls) : g[k] = v[k]
        BY <2>2, <2>8, <3>3, <3>5
      <3>7. w \in Int
        BY <2>5, <2>9
      <3>8. PICK h : h = Append(v, w)
        OBVIOUS
      <3>9. h \in Seq(Int) /\ Len(h) = Len(ls) + 1 /\ h[Len(ls) + 1] = w /\ \A k \in 1..Len(ls) : h[k] = v[k]
        BY <2>2, <2>10, <3>7, <3>8
      <3>10. \A k \in 1..Len(ms) : g[k] = h[k]
        <4>1. \A k \in 1..Len(ms) : k \in 1..Len(ls) \/ k = Len(ls) + 1
          BY <2>2
        <4> QED BY <3>4, <3>6, <3>9, <4>1
      <3>11. h = [k \in 1..Len(ms) |-> h[k]]
        BY <2>2, <3>9
      <3>12. g = h
        BY <3>2, <3>10, <3>11
      <3> QED BY <3>1, <3>8, <3>12
    <2>12. Total(Append(v, w)) = Total(v) + w
      BY <2>5, <2>9, <2>10, TotalAppend
    <2> QED BY <2>5, <2>7, <2>9, <2>11, <2>12
  <1>3. Seq(L) \subseteq S
    <2> HIDE DEF S
    <2> QED BY <1>1, <1>2, SeqInduction
  <1> QED BY <1>3

\* The first place of every element.
Firsts(v) == {i \in 1..Len(v) : \A j \in 1..(i - 1) : v[j] # v[i]}

\* What occurs occurs a first time.
LEMMA FirstsCover ==
    ASSUME NEW R, NEW v \in Seq(R), NEW i \in 1..Len(v)
    PROVE  \E j \in Firsts(v) : v[j] = v[i]
  <1> DEFINE Seen(k) == \E j \in Firsts(v) : v[j] = v[k]
             S == {m \in Nat : \A k \in 1..Len(v) : k <= m => Seen(k)}
  <1>1. 0 \in S
    OBVIOUS
  <1>2. ASSUME NEW m \in Nat, m \in S PROVE m + 1 \in S
    <2> SUFFICES ASSUME NEW k \in 1..Len(v), k = m + 1 PROVE Seen(k)
      <3>1. \A k \in 1..Len(v) : k <= m => Seen(k)
        BY <1>2
      <3>2. \A k \in 1..Len(v) : k <= m + 1 => k <= m \/ k = m + 1
        OBVIOUS
      <3> QED BY <3>1, <3>2
    <2>1. CASE k \in Firsts(v)
      BY <2>1
    <2>2. CASE k \notin Firsts(v)
      <3>1. PICK j \in 1..(k - 1) : v[j] = v[k]
        BY <2>2 DEF Firsts
      <3>2. j \in 1..Len(v) /\ j <= m
        OBVIOUS
      <3>3. Seen(j)
        BY <1>2, <3>2
      <3> QED BY <3>1, <3>3
    <2> QED BY <2>1, <2>2
  <1>3. Nat \subseteq S
    <2> HIDE DEF S
    <2> QED BY <1>1, <1>2, SetInduction
  <1>4. i \in Nat /\ i <= i
    OBVIOUS
  <1> QED BY <1>3, <1>4

\* The elements at their first places are each once.
LEMMA FirstsDistinct ==
    ASSUME NEW R, NEW v \in Seq(R)
    PROVE  LET w == Where(v, Firsts(v))
           IN  /\ w \in Seq(R) /\ Distinct(w)
               /\ \A i \in 1..Len(v) : \E k \in 1..Len(w) : w[k] = v[i]
  <1>1. PICK w : w = Where(v, Firsts(v))
    OBVIOUS
  <1> DEFINE I == Firsts(v)
             E == {v[i] : i \in I}
             n == Len(w)
             first == [i \in I |-> v[i]]
             elem == [k \in 1..n |-> w[k]]
  <1>2. /\ w \in Seq(R)
        /\ \A k \in 1..Len(w) : \E i \in 1..Len(v) : i \in I /\ w[k] = v[i]
        /\ \A i \in 1..Len(v) : i \in I => \E k \in 1..Len(w) : w[k] = v[i]
        /\ IsFiniteSet(At(v, I)) /\ Len(w) = Cardinality(At(v, I))
    <2>1. PICK F : F = Firsts(v)
      OBVIOUS
    <2>2. /\ Where(v, F) \in Seq(R)
          /\ \A k \in 1..Len(Where(v, F)) : \E i \in 1..Len(v) : i \in F /\ Where(v, F)[k] = v[i]
          /\ \A i \in 1..Len(v) : i \in F => \E k \in 1..Len(Where(v, F)) : Where(v, F)[k] = v[i]
          /\ IsFiniteSet(At(v, F)) /\ Len(Where(v, F)) = Cardinality(At(v, F))
      BY WhereElements
    <2>3. w = Where(v, F) /\ I = F
      BY <1>1, <2>1
    <2> QED BY <2>2, <2>3
  <1>3. At(v, I) = I
    BY DEF At, Firsts
  <1>4. \A i, j \in I : i # j => v[i] # v[j]
    <2> SUFFICES ASSUME NEW i \in I, NEW j \in I, i < j PROVE v[i] # v[j]
      <3>1. \A i, j \in I : i # j => i < j \/ j < i
        BY DEF Firsts
      <3> QED BY <3>1
    <2>1. i \in 1..(j - 1)
      BY DEF Firsts
    <2> QED BY <2>1 DEF Firsts
  <1>5. first \in Injection(I, E) /\ first \in Surjection(I, E)
    BY <1>4 DEF Injection, IsInjective, Surjection
  <1>6. IsFiniteSet(I) /\ n = Cardinality(I)
    BY <1>2, <1>3
  <1>7. IsFiniteSet(E) /\ Cardinality(E) = n
    <2>1. IsFiniteSet(E)
      BY <1>5, <1>6, FS_Surjection
    <2>2. Cardinality(I) = Cardinality(E)
      BY <1>5, <2>1, FS_Injection
    <2> QED BY <1>6, <2>1, <2>2
  <1>8. elem \in Surjection(1..n, E)
    <2>1. \A k \in 1..n : w[k] \in E
      BY <1>2
    <2>2. \A e \in E : \E k \in 1..n : w[k] = e
      <3>1. \A i \in I : i \in 1..Len(v)
        BY DEF Firsts
      <3> QED BY <1>2, <3>1
    <2> QED BY <2>1, <2>2 DEF Surjection
  <1>9. n \in Nat
    BY <1>2
  <1>10. IsFiniteSet(1..n) /\ Cardinality(1..n) = n
    <2>1. PICK m \in Nat : m = n
      BY <1>9
    <2>2. IsFiniteSet(1..m) /\ Cardinality(1..m) = m
      BY FS_Interval
    <2> QED BY <2>1, <2>2
  <1>11. elem \in Injection(1..n, E)
    <2> HIDE DEF elem, E, n
    <2> QED BY <1>7, <1>8, <1>10, FS_SurjSameCardinalityImpliesInj
  <1>12. Distinct(w)
    BY <1>11 DEF Distinct, Injection, IsInjective
  <1>13. \A i \in 1..Len(v) : \E k \in 1..Len(w) : w[k] = v[i]
    <2> SUFFICES ASSUME NEW i \in 1..Len(v) PROVE \E k \in 1..Len(w) : w[k] = v[i]
      OBVIOUS
    <2>1. PICK j \in Firsts(v) : v[j] = v[i]
      BY FirstsCover
    <2>2. j \in 1..Len(v)
      BY DEF Firsts
    <2> QED BY <1>2, <2>1, <2>2
  <1> QED BY <1>1, <1>2, <1>12, <1>13

\* The labels of a column are each once, and every record has one.
LEMMA LabelsFacts ==
    ASSUME NEW s \in Seq(Rows), NEW x
    PROVE  /\ \E L : LabelsIn(s, x) \in Seq(L)
           /\ Distinct(LabelsIn(s, x)) /\ Covers(LabelsIn(s, x), s, x)
  <1>1. PICK v : v = [i \in DOMAIN s |-> ToLabel(s[i][x])]
    OBVIOUS
  <1>2. PICK L : L = {ToLabel(s[i][x]) : i \in 1..Len(s)}
    OBVIOUS
  <1>3. PICK n \in Nat : n = Len(s) /\ DOMAIN s = 1..n
    OBVIOUS
  <1>4. v \in [1..n -> L] /\ \A i \in 1..n : v[i] = ToLabel(s[i][x])
    BY <1>1, <1>2, <1>3
  <1>5. v \in Seq(L) /\ Len(v) = n /\ DOMAIN v = 1..n
    BY <1>4
  <1>6. {i \in DOMAIN v : \A j \in 1..(i - 1) : v[j] # v[i]} = Firsts(v)
    BY <1>5 DEF Firsts
  <1>7. LabelsIn(s, x) = Where(v, Firsts(v))
    BY <1>1, <1>6 DEF LabelsIn
  <1>8. /\ Where(v, Firsts(v)) \in Seq(L) /\ Distinct(Where(v, Firsts(v)))
        /\ \A i \in 1..Len(v) : \E k \in 1..Len(Where(v, Firsts(v))) : Where(v, Firsts(v))[k] = v[i]
    BY <1>5, FirstsDistinct
  <1>9. \A i \in 1..n : \E k \in 1..Len(LabelsIn(s, x)) : LabelsIn(s, x)[k] = v[i]
    BY <1>5, <1>7, <1>8
  <1>10. Covers(LabelsIn(s, x), s, x)
    BY <1>3, <1>4, <1>9 DEF Covers
  <1> QED BY <1>7, <1>8, <1>10

\* What covers the labels of the records covers those of some of them.
LEMMA CoversSome ==
    ASSUME NEW s \in Seq(Rows), NEW x, NEW label, NEW labels, NEW col, Covers(labels, s, col)
    PROVE  Covers(labels, WithLabel(s, x, label), col)
  <1>1. PICK I : I = {i \in DOMAIN s : ToLabel(s[i][x]) = label}
    OBVIOUS
  <1>2. PICK w : w = WithLabel(s, x, label)
    OBVIOUS
  <1>3. w = Where(s, I)
    BY <1>1, <1>2 DEF WithLabel
  <1>4. \A k \in 1..Len(w) : \E i \in 1..Len(s) : w[k] = s[i]
    <2>1. \A k \in 1..Len(Where(s, I)) : \E i \in 1..Len(s) : i \in I /\ Where(s, I)[k] = s[i]
      BY WhereElements
    <2> QED BY <1>3, <2>1
  <1>5. Covers(labels, w, col)
    <2> SUFFICES ASSUME NEW k \in 1..Len(w)
                 PROVE  \E j \in 1..Len(labels) : ToLabel(w[k][col]) = labels[j]
      BY DEF Covers
    <2>1. PICK i \in 1..Len(s) : w[k] = s[i]
      BY <1>4
    <2>2. PICK j \in 1..Len(labels) : ToLabel(s[i][col]) = labels[j]
      BY DEF Covers
    <2> QED BY <2>1, <2>2
  <1> QED BY <1>2, <1>5

\* top are items in order, and whatever is left out comes after them.
FirstOnes(top, items, k, n) ==
    /\ Len(top) = n /\ DOMAIN top = 1..n
    /\ \E at \in [1..n -> 1..Len(items)] :
          /\ \A p \in 1..n : top[p] = items[at[p]]
          /\ \A p, q \in 1..n : p < q => Before(k, at[p], at[q])
          /\ \A i \in 1..Len(items) : items[i] \notin ToSet(top) =>
                \A p \in 1..n : Before(k, at[p], i)

\* The first n of a sort are such.
LEMMA FirstsOfSort ==
    ASSUME NEW R, NEW items \in Seq(R), NEW k \in [1..Len(items) -> Int],
           NEW n \in 1..Len(items), NEW top, top = FirstOf(SortBy(items, k), n)
    PROVE  FirstOnes(top, items, k, n)
  <1>1. PICK w : w = SortBy(items, k)
    OBVIOUS
  <1>2. w \in Seq(R) /\ Len(w) = Len(items)
    BY <1>1, SortByIs
  <1>3. PICK to : InOrderOf(w, items, k, to)
    BY <1>1, SortByIs
  <1>4. /\ to \in [1..Len(items) -> 1..Len(items)]
        /\ \A i \in 1..Len(items) : \E p \in 1..Len(items) : to[p] = i
        /\ \A p, q \in 1..Len(items) : p < q => Before(k, to[p], to[q])
        /\ \A p \in 1..Len(items) : w[p] = items[to[p]]
    BY <1>3 DEF InOrderOf
  <1>5. n \in Nat /\ Len(items) \in Nat /\ \A p \in 1..n : p \in 1..Len(items)
    OBVIOUS
  <1>6. top \in Seq(R) /\ Len(top) = n /\ \A p \in 1..n : top[p] = w[p]
    <2>1. /\ FirstOf(w, n) \in Seq(R)
          /\ Len(FirstOf(w, n)) = IF Len(w) < n THEN Len(w) ELSE n
          /\ \A i \in 1..Len(FirstOf(w, n)) : FirstOf(w, n)[i] = w[i]
      BY <1>2, <1>5, FirstOfProperties
    <2>2. ~ (Len(w) < n)
      BY <1>2
    <2> QED BY <1>1, <2>1, <2>2
  <1>7. PICK at : at = [p \in 1..n |-> to[p]]
    OBVIOUS
  <1>8. at \in [1..n -> 1..Len(items)] /\ \A p \in 1..n : at[p] = to[p]
    BY <1>4, <1>5, <1>7
  <1>9. \A p \in 1..n : top[p] = items[at[p]]
    BY <1>4, <1>5, <1>6, <1>8
  <1>10. \A p, q \in 1..n : p < q => Before(k, at[p], at[q])
    BY <1>4, <1>5, <1>8
  <1>11. ASSUME NEW i \in 1..Len(items), items[i] \notin ToSet(top), NEW p \in 1..n
         PROVE  Before(k, at[p], i)
    <2>1. PICK q \in 1..Len(items) : to[q] = i
      BY <1>4
    <2>2. q \notin 1..n
      <3> SUFFICES ASSUME q \in 1..n PROVE FALSE
        OBVIOUS
      <3>1. top[q] = items[i] /\ q \in DOMAIN top
        BY <1>6, <1>8, <1>9, <2>1
      <3>2. items[i] \in ToSet(top)
        BY <3>1, Elements
      <3> QED BY <1>11, <3>2
    <2>3. p < q /\ p \in 1..Len(items)
      BY <1>5, <2>1, <2>2
    <2>4. Before(k, to[p], to[q])
      BY <1>4, <2>1, <2>3
    <2> QED BY <1>8, <2>1, <2>4
  <1>12. DOMAIN top = 1..n
    BY <1>6
  <1> QED BY <1>6, <1>8, <1>9, <1>10, <1>11, <1>12 DEF FirstOnes

\* The chart of a component that sorts and cuts.
LEMMA ChartCut ==
    ASSUME NEW c, NEW sort \in {"desc", "asc"}, NEW n \in Nat \ {0}, NEW d,
           d.filter = c.filter, d.x = c.x, d.y = c.y, d.sort = sort, d.limit = n
    PROVE  LET all == GroupAggregate(ApplyFilter(records, c.filter).records, c.x, c.y)
           IN  ChartTile(d, records) = FirstOf(IF sort = "desc" THEN Descending(all) ELSE Ascending(all), n)
  <1>1. PICK all : all = GroupAggregate(ApplyFilter(records, c.filter).records, c.x, c.y)
    OBVIOUS
  <1>2. ChartTile(d, records) = SortLimit(all, sort, n)
    BY <1>1 DEF ChartTile
  <1>3. n > 0
    OBVIOUS
  <1>4. CASE sort = "desc"
    <2>1. SortLimit(all, "desc", n) = FirstOf(Descending(all), n)
      BY <1>3 DEF SortLimit, Descending
    <2> QED BY <1>1, <1>2, <1>4, <2>1
  <1>5. CASE sort = "asc"
    <2>1. SortLimit(all, "asc", n) = FirstOf(Ascending(all), n)
      BY <1>3 DEF SortLimit, Ascending
    <2> QED BY <1>1, <1>2, <1>5, <2>1
  <1> QED BY <1>4, <1>5

\* What TopNSound says of one sort.
TopSound(bars, top, n, sort) ==
    LET ahead(a, b) == IF sort = "desc" THEN a.value > b.value ELSE a.value < b.value
        place(bar) == CHOOSE i \in DOMAIN bars : bars[i] = bar
    IN  /\ Len(top) = n
        /\ \A i \in 1..n : Contains(bars, top[i])
        /\ \A bar \in ToSet(bars) \ ToSet(top) :
              \A i \in 1..n : /\ ~ ahead(bar, top[i])
                              /\ bar.value = top[i].value => place(top[i]) < place(bar)
        /\ \A i, j \in 1..n : i < j =>
              \/ ahead(top[i], top[j])
              \/ top[i].value = top[j].value /\ place(top[i]) < place(top[j])

\* The first bars of a sorted chart are the top ones.
LEMMA TopHolds ==
    ASSUME NEW R, NEW bars \in Seq(R), \A r \in R : r.value \in Int,
           \A i, j \in 1..Len(bars) : i # j => bars[i] # bars[j],
           NEW sort \in {"desc", "asc"}, NEW n \in 1..Len(bars),
           NEW top, top = FirstOf(IF sort = "desc" THEN Descending(bars) ELSE Ascending(bars), n)
    PROVE  TopSound(bars, top, n, sort)
  <1> DEFINE ahead(a, b) == IF sort = "desc" THEN a.value > b.value ELSE a.value < b.value
             place(bar) == CHOOSE i \in DOMAIN bars : bars[i] = bar
  <1>1. PICK N \in Nat : N = Len(bars) /\ DOMAIN bars = 1..N
    OBVIOUS
  <1>2. PICK k : /\ k \in [1..N -> Int]
                 /\ \A i \in 1..N : k[i] = IF sort = "desc" THEN - bars[i].value ELSE bars[i].value
                 /\ top = FirstOf(SortBy(bars, k), n)
    <2>1. \A i \in 1..N : bars[i].value \in Int
      <3>1. \A i \in 1..N : bars[i] \in R
        BY <1>1
      <3> QED BY <3>1
    <2>2. CASE sort = "desc"
      <3>1. PICK k : k = [i \in 1..Len(bars) |-> - bars[i].value]
        OBVIOUS
      <3>2. Descending(bars) = SortBy(bars, k)
        BY <3>1, DescendingIs
      <3>3. k \in [1..N -> Int] /\ \A i \in 1..N : k[i] = - bars[i].value
        BY <1>1, <2>1, <3>1
      <3> QED BY <2>2, <3>2, <3>3
    <2>3. CASE sort = "asc"
      <3>1. PICK k : k = [i \in 1..Len(bars) |-> bars[i].value]
        OBVIOUS
      <3>2. Ascending(bars) = SortBy(bars, k)
        BY <3>1, AscendingIs
      <3>3. k \in [1..N -> Int] /\ \A i \in 1..N : k[i] = bars[i].value
        BY <1>1, <2>1, <3>1
      <3>4. sort # "desc"
        BY <2>3
      <3> QED BY <3>2, <3>3, <3>4
    <2> QED BY <2>2, <2>3
  <1>3. FirstOnes(top, bars, k, n)
    <2>1. k \in [1..Len(bars) -> Int] /\ top = FirstOf(SortBy(bars, k), n)
      BY <1>1, <1>2
    <2> HIDE DEF ahead, place
    <2> QED BY <2>1, FirstsOfSort
  <1>4. PICK at \in [1..n -> 1..N] :
              /\ \A p \in 1..n : top[p] = bars[at[p]]
              /\ \A p, q \in 1..n : p < q => Before(k, at[p], at[q])
              /\ \A i \in 1..N : bars[i] \notin ToSet(top) =>
                    \A p \in 1..n : Before(k, at[p], i)
    BY <1>1, <1>3 DEF FirstOnes
  <1>5. \A i \in 1..N : place(bars[i]) = i
    <2> SUFFICES ASSUME NEW i \in 1..N PROVE place(bars[i]) = i
      OBVIOUS
    <2>1. \A j \in DOMAIN bars : bars[j] = bars[i] => j = i
      BY <1>1
    <2>2. \E j \in DOMAIN bars : bars[j] = bars[i]
      BY <1>1
    <2> QED BY <2>1, <2>2
  <1>6. ASSUME NEW i \in 1..N, NEW j \in 1..N
        PROVE  /\ ahead(bars[i], bars[j]) <=> k[i] < k[j]
               /\ bars[i].value = bars[j].value <=> k[i] = k[j]
               /\ k[i] \in Int /\ k[j] \in Int
    <2>1. bars[i] \in R /\ bars[j] \in R
      BY <1>1
    <2>2. bars[i].value \in Int /\ bars[j].value \in Int
      BY <2>1
    <2>3. PICK a \in Int, b \in Int : a = bars[i].value /\ b = bars[j].value
      BY <2>2
    <2>4. CASE sort = "desc"
      <3>1. k[i] = - a /\ k[j] = - b
        BY <1>2, <2>3, <2>4
      <3>2. ahead(bars[i], bars[j]) <=> a > b
        BY <2>3, <2>4
      <3>3. (k[i] < k[j] <=> a > b) /\ (k[i] = k[j] <=> a = b) /\ k[i] \in Int /\ k[j] \in Int
        BY <3>1
      <3> HIDE DEF ahead
      <3> QED BY <2>3, <3>2, <3>3
    <2>5. CASE sort = "asc"
      <3>1. k[i] = a /\ k[j] = b
        BY <1>2, <2>3, <2>5
      <3>2. ahead(bars[i], bars[j]) <=> a < b
        BY <2>3, <2>5
      <3> HIDE DEF ahead
      <3> QED BY <2>3, <3>1, <3>2
    <2> QED BY <2>4, <2>5
  <1> HIDE DEF ahead, place
  <1>7. \A i \in 1..n : at[i] \in 1..N /\ top[i] = bars[at[i]]
    BY <1>4
  <1>8. \A i \in 1..n : Contains(bars, top[i])
    BY <1>1, <1>7 DEF Contains
  <1>9. ASSUME NEW bar \in ToSet(bars) \ ToSet(top), NEW i \in 1..n
        PROVE  ~ ahead(bar, top[i]) /\ (bar.value = top[i].value => place(top[i]) < place(bar))
    <2>1. PICK b \in 1..N : bar = bars[b]
      BY <1>1, Elements
    <2>2. Before(k, at[i], b)
      BY <1>4, <2>1
    <2>3. at[i] \in 1..N /\ top[i] = bars[at[i]]
      BY <1>7
    <2>4. /\ ahead(bars[b], bars[at[i]]) <=> k[b] < k[at[i]]
          /\ bars[b].value = bars[at[i]].value <=> k[b] = k[at[i]]
          /\ k[b] \in Int /\ k[at[i]] \in Int
      BY <1>6, <2>3
    <2>5. place(bars[b]) = b /\ place(bars[at[i]]) = at[i]
      BY <1>5, <2>3
    <2> QED BY <2>1, <2>2, <2>3, <2>4, <2>5 DEF Before
  <1>10. ASSUME NEW i \in 1..n, NEW j \in 1..n, i < j
         PROVE  \/ ahead(top[i], top[j])
                \/ top[i].value = top[j].value /\ place(top[i]) < place(top[j])
    <2>1. at[i] \in 1..N /\ at[j] \in 1..N /\ top[i] = bars[at[i]] /\ top[j] = bars[at[j]]
      BY <1>7
    <2>2. Before(k, at[i], at[j])
      BY <1>4, <1>10
    <2>3. /\ ahead(bars[at[i]], bars[at[j]]) <=> k[at[i]] < k[at[j]]
          /\ bars[at[i]].value = bars[at[j]].value <=> k[at[i]] = k[at[j]]
      BY <1>6, <2>1
    <2>4. place(bars[at[i]]) = at[i] /\ place(bars[at[j]]) = at[j]
      BY <1>5, <2>1
    <2> QED BY <2>1, <2>2, <2>3, <2>4 DEF Before
  <1> QED BY <1>3, <1>8, <1>9, <1>10 DEF FirstOnes, TopSound, ahead, place

\* The bars of a chart: one for each label, no two alike.
AreBars(bars, labels, s, x, agg, f) ==
    /\ Len(bars) = Len(labels) /\ DOMAIN bars = 1..Len(labels) /\ DOMAIN labels = 1..Len(labels)
    /\ \A i \in 1..Len(labels) :
          bars[i] = [label |-> labels[i], value |-> Aggregate(WithLabel(s, x, labels[i]), agg, f)]
    /\ \A i \in 1..Len(labels) : bars[i].value \in Int
    /\ \A i, j \in 1..Len(bars) : i # j => bars[i] # bars[j]
    /\ \E R : bars \in Seq(R) /\ \A r \in R : r.value \in Int

\* What GroupAggregate returns: one bar for each label.
LEMMA BarsAre ==
    ASSUME NEW s \in Seq(Rows), NEW f \in Fields, NEW x \in Fields, NEW agg \in {"sum", "count"},
           NEW labels, labels = LabelsIn(s, x),
           NEW bars, bars = GroupAggregate(s, x, [agg |-> agg, field |-> f])
    PROVE  AreBars(bars, labels, s, x, agg, f)
  <1>1. x # "" /\ agg # ""
    BY WidgetAssumption
  <1>2. bars = [i \in DOMAIN labels |->
                  [label |-> labels[i], value |-> Aggregate(WithLabel(s, x, labels[i]), agg, f)]]
    BY <1>1 DEF GroupAggregate
  <1>3. PICK n \in Nat : n = Len(labels) /\ DOMAIN labels = 1..n
    <2>1. \E L : labels \in Seq(L)
      BY LabelsFacts
    <2> QED BY <2>1
  <1>4. \A i \in 1..n : Aggregate(WithLabel(s, x, labels[i]), agg, f) \in Int
    BY AggregateSplits
  <1>5. /\ DOMAIN bars = 1..n
        /\ \A i \in 1..n : bars[i] = [label |-> labels[i], value |-> Aggregate(WithLabel(s, x, labels[i]), agg, f)]
    BY <1>2, <1>3
  <1>6. \A i \in 1..n : bars[i].value \in Int /\ bars[i].label = labels[i]
    <2> SUFFICES ASSUME NEW i \in 1..n PROVE bars[i].value \in Int /\ bars[i].label = labels[i]
      OBVIOUS
    <2>1. PICK v \in Int : v = Aggregate(WithLabel(s, x, labels[i]), agg, f)
      BY <1>4
    <2>2. bars[i] = [label |-> labels[i], value |-> v]
      BY <1>5, <2>1
    <2> QED BY <2>2
  <1>7. PICK R : R = {bars[i] : i \in 1..n}
    OBVIOUS
  <1>8. bars \in [1..n -> R]
    BY <1>2, <1>3, <1>7
  <1>9. bars \in Seq(R) /\ Len(bars) = n
    BY <1>8
  <1>10. \A r \in R : r.value \in Int
    BY <1>6, <1>7
  <1>11. \A i, j \in 1..n : i # j => bars[i] # bars[j]
    <2>1. Distinct(labels)
      BY LabelsFacts
    <2>2. \A i, j \in 1..n : i # j => labels[i] # labels[j]
      BY <1>3, <2>1 DEF Distinct
    <2> QED BY <1>6, <2>2
  <1> QED BY <1>3, <1>5, <1>6, <1>9, <1>10, <1>11 DEF AreBars

\* A chart, pivot or kanban to compare with a stat.
Chart(filter, f, x, col, agg) ==
    [Column(filter, f) EXCEPT !.x = x, !.col = col, !.agg = agg, !.y = [agg |-> agg, field |-> f]]

\* The groups of a chart add up to the stat, the cells of a pivot row to its bar, a
\* kanban heading counts its bar, and the top bars are the top ones.
LEMMA GroupsHold ==
    ASSUME records \in Seq(Rows), NEW filter \in Filters, NEW f \in Fields,
           NEW x \in Fields, NEW col \in Fields, NEW agg \in {"sum", "count"}
    PROVE  GroupsAddUp(Chart(filter, f, x, col, agg))
  <1>1. PICK c : c = Chart(filter, f, x, col, agg)
    OBVIOUS
  <1>2. /\ c.filter = filter /\ c.field = f /\ c.x = x /\ c.col = col /\ c.agg = agg
        /\ c.y = [agg |-> agg, field |-> f] /\ c.sort = "" /\ c.limit = 0
    BY <1>1 DEF Chart, Column, Component
  <1>3. PICK s : s = ApplyFilter(records, filter).records
    OBVIOUS
  <1>4. s \in Seq(Rows)
    BY <1>3, ShownAreRecords
  <1>5. x # "" /\ col # "" /\ agg # "" /\ c.y.agg = agg /\ c.y.field = f
    <2>1. PICK y : y = [agg |-> agg, field |-> f]
      OBVIOUS
    <2>2. y.agg = agg /\ y.field = f
      BY <2>1
    <2>3. c.y = y
      BY <1>2, <2>1
    <2>4. x # "" /\ col # ""
      BY WidgetAssumption
    <2> QED BY <2>2, <2>3, <2>4
  <1>6. PICK labels, cols : labels = LabelsIn(s, x) /\ cols = LabelsIn(s, col)
    OBVIOUS
  <1>7. PICK bars : bars = GroupAggregate(s, x, [agg |-> agg, field |-> f])
    OBVIOUS
  <1>8. ChartTile(c, records) = bars
    <2>1. ChartTile(c, records) = SortLimit(bars, "", 0)
      BY <1>2, <1>3, <1>7 DEF ChartTile
    <2>2. SortLimit(bars, "", 0) = bars
      BY NoLimit DEF SortLimit
    <2> QED BY <2>1, <2>2
  <1>9. /\ Len(bars) = Len(labels) /\ DOMAIN bars = 1..Len(labels) /\ DOMAIN labels = 1..Len(labels)
        /\ \A i \in 1..Len(labels) :
              bars[i] = [label |-> labels[i], value |-> Aggregate(WithLabel(s, x, labels[i]), agg, f)]
        /\ \A i \in 1..Len(labels) : bars[i].value \in Int
        /\ \A i, j \in 1..Len(bars) : i # j => bars[i] # bars[j]
        /\ \E R : bars \in Seq(R) /\ \A r \in R : r.value \in Int
    <2>1. AreBars(bars, labels, s, x, agg, f)
      BY <1>4, <1>6, <1>7, BarsAre
    <2> QED BY <2>1 DEF AreBars
  <1>10. \A i \in 1..Len(labels) :
            bars[i].label = labels[i] /\ bars[i].value = Aggregate(WithLabel(s, x, labels[i]), agg, f)
    BY <1>9
  <1>11. /\ (\E L : labels \in Seq(L)) /\ Distinct(labels) /\ Covers(labels, s, x)
         /\ (\E L : cols \in Seq(L)) /\ Distinct(cols) /\ Covers(cols, s, col)
    BY <1>4, <1>6, LabelsFacts
  <1>12. StatTile(c, records) = Aggregate(s, agg, f)
    BY <1>2, <1>3, <1>5 DEF StatTile, AggOrCount
  <1>13. Total([i \in DOMAIN bars |-> bars[i].value]) = StatTile(c, records)
    <2>1. [i \in DOMAIN bars |-> bars[i].value] = Groups(labels, s, x, agg, f)
      BY <1>9, <1>10 DEF Groups
    <2>2. Total(Groups(labels, s, x, agg, f)) = Aggregate(s, agg, f)
      BY <1>4, <1>11, GroupsTotal
    <2> QED BY <1>12, <2>1, <2>2
  <1>14. PICK grid : grid = PivotTile(c, records)
    OBVIOUS
  <1>15. /\ grid.rows = labels
         /\ grid.grid = [i \in DOMAIN labels |-> [j \in DOMAIN cols |->
                           Aggregate(WithLabel(WithLabel(s, x, labels[i]), col, cols[j]), agg, f)]]
    <2>1. grid = Pivot(s, x, col, c.y)
      BY <1>2, <1>3, <1>14 DEF PivotTile
    <2> QED BY <1>5, <1>6, <2>1 DEF Pivot
  <1>16. ASSUME NEW i \in DOMAIN bars
         PROVE  grid.rows[i] = bars[i].label /\ Total(grid.grid[i]) = bars[i].value
    <2>1. i \in 1..Len(labels) /\ i \in DOMAIN labels
      BY <1>9
    <2>2. PICK bucket : bucket = WithLabel(s, x, labels[i])
      OBVIOUS
    <2>3. bucket \in Seq(Rows)
      BY <1>4, <2>2, BucketIs
    <2>4. Covers(cols, bucket, col)
      BY <1>4, <1>11, <2>2, CoversSome
    <2>5. grid.grid[i] = Groups(cols, bucket, col, agg, f)
      BY <1>15, <2>1, <2>2 DEF Groups
    <2>6. Total(Groups(cols, bucket, col, agg, f)) = Aggregate(bucket, agg, f)
      BY <1>11, <2>3, <2>4, GroupsTotal
    <2> QED BY <1>10, <1>15, <2>1, <2>2, <2>5, <2>6
  <1>17. ASSUME NEW i \in DOMAIN bars, agg = "count"
         PROVE  Scale * KanbanTile(c, records)[i].count = bars[i].value
    <2>1. i \in 1..Len(labels) /\ i \in DOMAIN labels
      BY <1>9
    <2>2. KanbanTile(c, records)[i].count = Len(WithLabel(s, x, labels[i]))
      BY <1>2, <1>3, <1>5, <1>6, <2>1 DEF KanbanTile
    <2>3. Aggregate(WithLabel(s, x, labels[i]), "count", f) = Scale * Len(WithLabel(s, x, labels[i]))
      BY DEF Aggregate
    <2> QED BY <1>10, <1>17, <2>1, <2>2, <2>3
  <1>18. ASSUME NEW n \in 1..Len(bars) PROVE TopNSound(c, bars, n)
    <2>1. ASSUME NEW sort \in {"desc", "asc"}, NEW top,
                 top = ChartTile([c EXCEPT !.sort = sort, !.limit = n], records)
          PROVE  TopSound(bars, top, n, sort)
      <3>1. PICK d : d = [c EXCEPT !.sort = sort, !.limit = n]
        OBVIOUS
      <3>2. d.filter = c.filter /\ d.x = c.x /\ d.y = c.y /\ d.sort = sort /\ d.limit = n
        BY <1>1, <3>1 DEF Chart, Column, Component
      <3>3. n \in Nat \ {0}
        OBVIOUS
      <3>4. bars = GroupAggregate(ApplyFilter(records, c.filter).records, c.x, c.y)
        BY <1>2, <1>3, <1>7
      <3>5. ChartTile(d, records) = FirstOf(IF sort = "desc" THEN Descending(bars) ELSE Ascending(bars), n)
        BY <3>2, <3>3, <3>4, ChartCut
      <3>6. top = FirstOf(IF sort = "desc" THEN Descending(bars) ELSE Ascending(bars), n)
        BY <2>1, <3>1, <3>5
      <3>7. PICK R : bars \in Seq(R) /\ \A r \in R : r.value \in Int
        BY <1>9
      <3>8. \A i, j \in 1..Len(bars) : i # j => bars[i] # bars[j]
        BY <1>9
      <3> QED BY <3>6, <3>7, <3>8, TopHolds
    <2>2. \A sort \in {"desc", "asc"} :
             TopSound(bars, ChartTile([c EXCEPT !.sort = sort, !.limit = n], records), n, sort)
      BY <2>1
    <2> QED BY <2>2, Zenon DEF TopSound, TopNSound
  <1>19. GroupsAddUp(c)
    BY <1>2, <1>8, <1>13, <1>14, <1>16, <1>17, <1>18 DEF GroupsAddUp
  <1> QED BY <1>1, <1>19

\* Whatever the records are, the summaries of them agree.
LEMMA SummariesOfRecords == records \in Seq(Rows) => SummariesAgree
  <1> SUFFICES ASSUME records \in Seq(Rows), NEW filter \in Filters, NEW f \in Fields
               PROVE  LET c == [Component EXCEPT !.filter = filter, !.field = f]
                      IN  /\ ColumnAgrees(c)
                          /\ \A x \in Fields, agg \in {"sum", "count"} : \A col \in Fields \ {x} :
                                GroupsAddUp([c EXCEPT !.x = x, !.col = col, !.agg = agg,
                                                      !.y = [agg |-> agg, field |-> f]])
    BY DEF SummariesAgree
  <1>1. ColumnAgrees(Column(filter, f))
    BY ColumnHolds
  <1>2. \A x \in Fields, agg \in {"sum", "count"} : \A col \in Fields \ {x} :
           GroupsAddUp(Chart(filter, f, x, col, agg))
    BY GroupsHold
  <1> QED BY <1>1, <1>2 DEF Column, Chart

\* The tiles are renderers over the same records and agree with each other, whatever
\* the records, the filters and the calendar are: the groups of a chart add up to the
\* stat, the cells of a pivot row to its bar, a kanban heading counts its bar, TopN
\* keeps the largest groups in order, lists tell the full count, and the statistics
\* of a column lie between its extremes (ops.ts, App.tsx:166-549).
THEOREM SummariesAgreeHolds == Spec => []SummariesAgree
  <1>1. IInv => SummariesAgree
    BY SummariesOfRecords DEF IInv, TypeOK, Rows
  <1> QED BY <1>1, AlwaysIInv, PTL

=============================================================================
