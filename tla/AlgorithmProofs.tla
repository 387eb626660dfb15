--------------------------- MODULE AlgorithmProofs ---------------------------
(***************************************************************************)
(* Theorems about the algorithms, for inputs of any length over any        *)
(* elements: each agrees with its reference definition.  In order: lists   *)
(* and folds, the write contract, the clusters of the compaction, the      *)
(* deduplication, the agenda, the sections of a markdown file, a whole     *)
(* migration run.                                                          *)
(***************************************************************************)
EXTENDS Algorithms, Integers, FiniteSetTheorems, FunctionTheorems,
        WellFoundedInduction, SequenceTheorems, TLAPS

-----------------------------------------------------------------------------
\* Lists, finite sets and folds.  A fold is a recursive function on the sets of
\* places, so that it exists is proved by induction on their number, and what it
\* computes is reached prefix by prefix.

LEMMA Induction ==
  ASSUME NEW S, 0 \in S, \A n \in Nat : n \in S => n + 1 \in S
  PROVE  Nat \subseteq S
<1> DEFINE R == OpToRel(<, Nat)
           T == Nat \ S
<1>1. IsWellFoundedOn(R, Nat)
  BY NatLessThanWellFounded
<1>2. SUFFICES ASSUME T # {} PROVE FALSE
  OBVIOUS
<1>3. T \subseteq Nat
  OBVIOUS
<1>4. PICK x \in T : \A y \in T : ~ (<<y, x>> \in R)
  <2> HIDE DEF R, T
  <2> QED BY <1>1, <1>2, <1>3, WFMin
<1>5. x # 0 /\ x - 1 \in Nat
  OBVIOUS
<1>6. x - 1 \in T
  <2>1. x - 1 \notin S
    BY <1>5
  <2> QED BY <2>1, <1>5
<1>7. <<x - 1, x>> \in R
  BY <1>5 DEF OpToRel
<1> QED
  BY <1>4, <1>6, <1>7

\* R is a strict total order of S.
Orders(R, S) ==
    /\ \A a \in S : <<a, a>> \notin R
    /\ \A a, b \in S : a # b => <<a, b>> \in R \/ <<b, a>> \in R
    /\ \A a, b, c \in S : <<a, b>> \in R /\ <<b, c>> \in R => <<a, c>> \in R

Ordered(f, n, R) == \A i, j \in 1 .. n : i < j => <<f[i], f[j]>> \in R

\* An ordered list of as many elements as the set has holds each of them once.
LEMMA OrderedIsBijective ==
    ASSUME NEW S, IsFiniteSet(S), NEW R, Orders(R, S),
           NEW f \in [1 .. Cardinality(S) -> S], Ordered(f, Cardinality(S), R)
    PROVE  /\ \A i, j \in 1 .. Cardinality(S) : f[i] = f[j] => i = j
           /\ \A s \in S : \E i \in 1 .. Cardinality(S) : f[i] = s
<1> DEFINE n == Cardinality(S)
<1>1. n \in Nat /\ f \in [1 .. n -> S]
  BY FS_CardinalityType
<1>2. \A i, j \in 1 .. n : f[i] = f[j] => i = j
  <2> SUFFICES ASSUME NEW i \in 1 .. n, NEW j \in 1 .. n, f[i] = f[j], i < j PROVE FALSE
    <3> HIDE DEF n
    <3> QED BY <1>1
  <2> QED BY DEF Ordered, Orders
<1>3. f \in Injection(1 .. n, S)
  <2> HIDE DEF n
  <2> QED BY <1>1, <1>2, Fun_IsInj
<1>4. IsFiniteSet(1 .. n) /\ Cardinality(1 .. n) = n
  <2> HIDE DEF n
  <2> QED BY <1>1, FS_Interval
<1>5. f \in Surjection(1 .. n, S)
  BY <1>3, <1>4, FS_Injection
<1>6. \A s \in S : \E i \in 1 .. n : f[i] = s
  <2> HIDE DEF n
  <2> QED BY <1>5 DEF Surjection
<1>7. QED
  BY <1>2, <1>6

LEMMA EnumerationExists ==
    ASSUME NEW S, IsFiniteSet(S), NEW R, Orders(R, S)
    PROVE  \E f \in [1 .. Cardinality(S) -> S] : Ordered(f, Cardinality(S), R)
<1> DEFINE Has(T) == \E f \in [1 .. Cardinality(T) -> T] : Ordered(f, Cardinality(T), R)
           P == {n \in Nat : \A T \in SUBSET S : Cardinality(T) = n => Has(T)}
<1>1. 0 \in P
  <2> SUFFICES ASSUME NEW T \in SUBSET S, Cardinality(T) = 0 PROVE Has(T)
    OBVIOUS
  <2>1. T = {}
    BY FS_Subset, FS_EmptySet
  <2>2. PICK f \in [1 .. 0 -> T] : TRUE
    <3>1. [i \in 1 .. 0 |-> {}] \in [1 .. 0 -> T]
      OBVIOUS
    <3>2. QED
      BY <3>1
  <2>3. Ordered(f, 0, R)
    BY DEF Ordered
  <2>4. QED
    BY <2>2, <2>3
<1>2. ASSUME NEW n \in Nat, n \in P PROVE n + 1 \in P
  <2> SUFFICES ASSUME NEW T \in SUBSET S, Cardinality(T) = n + 1 PROVE Has(T)
    OBVIOUS
  <2>1. IsFiniteSet(T)
    BY FS_Subset
  \* the last element of T
  <2>2. PICK m \in T : \A t \in T \ {m} : <<t, m>> \in R
    <3>1. PICK x : x \in T
      BY <2>1, FS_EmptySet
    <3> DEFINE U == T \ {x}
    <3>2. U \in SUBSET S /\ Cardinality(U) = n /\ IsFiniteSet(U)
      BY <2>1, <3>1, FS_RemoveElement
    <3>3. PICK f \in [1 .. n -> U] : Ordered(f, n, R)
      BY <1>2, <3>2
    <3>4. Orders(R, U)
      BY <3>2 DEF Orders
    <3>5. \A u \in U : \E i \in 1 .. n : f[i] = u
      <4> HIDE DEF U
      <4> QED BY <3>2, <3>3, <3>4, OrderedIsBijective
    <3>6. CASE n = 0
      BY <3>1, <3>5, <3>6
    <3>7. CASE n # 0
      <4>1. f[n] \in U /\ f[n] # x
        BY <3>3, <3>7
      <4>2. \A u \in U \ {f[n]} : <<u, f[n]>> \in R
        <5> TAKE u \in U \ {f[n]}
        <5>1. PICK i \in 1 .. n : f[i] = u
          BY <3>5
        <5>2. i < n
          BY <5>1
        <5> QED BY <3>3, <3>7, <5>1, <5>2 DEF Ordered
      <4>3. CASE <<x, f[n]>> \in R
        BY <4>1, <4>2, <4>3
      <4>4. CASE <<f[n], x>> \in R
        <5>1. \A u \in T \ {x} : <<u, x>> \in R
          <6> TAKE u \in T \ {x}
          <6>1. CASE u = f[n]
            BY <4>4, <6>1
          <6>2. CASE u # f[n]
            <7>1. <<u, f[n]>> \in R
              BY <4>2, <6>2
            <7>2. u \in S /\ f[n] \in S /\ x \in S
              BY <3>1, <4>1
            <7>3. QED
              BY <4>4, <7>1, <7>2 DEF Orders
          <6>3. QED
            BY <6>1, <6>2
        <5>2. QED
          BY <3>1, <5>1
      <4>5. QED
        BY <3>1, <4>1, <4>3, <4>4 DEF Orders
    <3>8. QED
      BY <3>6, <3>7
  <2> DEFINE U == T \ {m}
  <2>3. U \in SUBSET S /\ Cardinality(U) = n
    <3>1. Cardinality(U) = Cardinality(T) - 1
      BY <2>1, FS_RemoveElement
    <3>2. QED
      BY <3>1
  <2>4. PICK f \in [1 .. n -> U] : Ordered(f, n, R)
    BY <1>2, <2>3
  <2> DEFINE g == [i \in 1 .. n + 1 |-> IF i = n + 1 THEN m ELSE f[i]]
  <2>5. g \in [1 .. n + 1 -> T]
    BY <2>2, <2>4
  <2>6. ASSUME NEW i \in 1 .. n + 1, NEW j \in 1 .. n + 1, i < j PROVE <<g[i], g[j]>> \in R
    <3>1. i \in 1 .. n /\ g[i] = f[i] /\ f[i] \in U
      BY <2>4, <2>6
    <3>2. CASE j = n + 1
      BY <2>2, <3>1, <3>2
    <3>3. CASE j # n + 1
      <4>1. j \in 1 .. n /\ g[j] = f[j]
        BY <3>3
      <4>2. QED
        BY <2>4, <2>6, <3>1, <4>1 DEF Ordered
    <3>4. QED
      BY <3>2, <3>3
  <2>7. QED
    <3> HIDE DEF g
    <3> QED BY <2>5, <2>6 DEF Ordered
<1>3. Nat \subseteq P
  <2> HIDE DEF P
  <2> QED BY <1>1, <1>2, Induction
<1>4. Cardinality(S) \in Nat
  BY FS_CardinalityType
<1>5. QED
  BY <1>3, <1>4

LEMMA AscendingEnumeration ==
    ASSUME NEW S, IsFiniteSet(S), S \subseteq Nat
    PROVE  /\ Enumeration(S, <) \in [1 .. Cardinality(S) -> S]
           /\ \A i, j \in 1 .. Cardinality(S) : i < j => Enumeration(S, <)[i] < Enumeration(S, <)[j]
           /\ \A s \in S : \E i \in 1 .. Cardinality(S) : Enumeration(S, <)[i] = s
<1>1. PICK R : R = {p \in S \X S : p[1] < p[2]}
  OBVIOUS
<1>2. Orders(R, S)
  BY <1>1 DEF Orders
<1>3. PICK f \in [1 .. Cardinality(S) -> S] : Ordered(f, Cardinality(S), R)
  BY <1>2, EnumerationExists
<1>4. \A i, j \in 1 .. Cardinality(S) : i < j => f[i] < f[j]
  BY <1>1, <1>3 DEF Ordered
<1>5. PICK g : g = Enumeration(S, <)
  OBVIOUS
<1>6. /\ g \in [1 .. Cardinality(S) -> S]
      /\ \A i, j \in 1 .. Cardinality(S) : i < j => g[i] < g[j]
  <2>1. g = CHOOSE h \in [1 .. Cardinality(S) -> S] :
                \A i, j \in 1 .. Cardinality(S) : i < j => h[i] < h[j]
    BY <1>5 DEF Enumeration
  <2>2. QED
    BY <1>3, <1>4, <2>1, Zenon
<1>7. Ordered(g, Cardinality(S), R)
  BY <1>1, <1>6 DEF Ordered
<1>8. \A s \in S : \E i \in 1 .. Cardinality(S) : g[i] = s
  BY <1>2, <1>6, <1>7, OrderedIsBijective, FS_CardinalityType
<1>9. QED
  BY <1>5, <1>6, <1>8

LEMMA ArrangedAscending ==
    ASSUME NEW list, NEW S, IsFiniteSet(S), S \subseteq Nat
    PROVE  \E order \in [1 .. Cardinality(S) -> S] :
              /\ \A i, j \in 1 .. Cardinality(S) : i < j => order[i] < order[j]
              /\ \A s \in S : \E i \in 1 .. Cardinality(S) : order[i] = s
              /\ Arranged(list, S, <) = [i \in 1 .. Cardinality(S) |-> list[order[i]]]
BY AscendingEnumeration, Zenon DEF Arranged

\* The recursion by which MapThenFoldSet is defined has a solution.
Solvable(S, V, base, pick, step) ==
    \E g \in [SUBSET S -> V] :
        \A s \in SUBSET S : g[s] = IF s = {} THEN base ELSE step[<<pick[s], g[s \ {pick[s]}]>>]

LEMMA FoldExists ==
    ASSUME NEW S, IsFiniteSet(S), NEW V, NEW base \in V,
           NEW pick, \A s \in SUBSET S : s # {} => pick[s] \in s,
           NEW step \in [S \X V -> V]
    PROVE  Solvable(S, V, base, pick, step)
<1> DEFINE Upto(n) == {s \in SUBSET S : Cardinality(s) <= n}
           Solves(g, n) == \A s \in Upto(n) :
                               g[s] = IF s = {} THEN base ELSE step[<<pick[s], g[s \ {pick[s]}]>>]
           P == {n \in Nat : \E g \in [Upto(n) -> V] : Solves(g, n)}
<1>1. \A s \in SUBSET S : IsFiniteSet(s) /\ Cardinality(s) \in Nat /\ (s # {} => Cardinality(s) # 0)
  BY FS_Subset, FS_CardinalityType, FS_EmptySet
<1>2. \A s \in SUBSET S : s # {} => s \ {pick[s]} \in SUBSET S /\ Cardinality(s \ {pick[s]}) = Cardinality(s) - 1
  BY <1>1, FS_RemoveElement
<1>3. 0 \in P
  <2>1. PICK g : g = [s \in Upto(0) |-> base]
    OBVIOUS
  <2>2. g \in [Upto(0) -> V]
    BY <2>1
  <2>3. Solves(g, 0)
    BY <1>1, <2>1
  <2>4. QED
    BY <2>2, <2>3
<1>4. ASSUME NEW n \in Nat, n \in P PROVE n + 1 \in P
  <2>1. PICK g \in [Upto(n) -> V] : Solves(g, n)
    BY <1>4
  <2>2. \A s \in Upto(n + 1) : s # {} => s \ {pick[s]} \in Upto(n) /\ pick[s] \in S
    BY <1>1, <1>2
  <2>3. Upto(n) \subseteq Upto(n + 1)
    BY <1>1
  <2>4. PICK h : h = [s \in Upto(n + 1) |-> IF s \in Upto(n) THEN g[s]
                                             ELSE step[<<pick[s], g[s \ {pick[s]}]>>]]
    OBVIOUS
  <2>5. {} \in Upto(n)
    BY FS_EmptySet
  <2> HIDE DEF Upto
  <2>6. h \in [Upto(n + 1) -> V]
    <3>1. ASSUME NEW s \in Upto(n + 1) PROVE h[s] \in V
      <4>1. CASE s \in Upto(n)
        BY <2>1, <2>4, <4>1
      <4>2. CASE s \notin Upto(n)
        <5>1. s \ {pick[s]} \in Upto(n) /\ pick[s] \in S
          BY <2>2, <2>5, <4>2
        <5>2. g[s \ {pick[s]}] \in V
          BY <2>1, <5>1
        <5>3. h[s] = step[<<pick[s], g[s \ {pick[s]}]>>]
          BY <2>4, <4>2
        <5>4. QED
          BY <5>1, <5>2, <5>3
      <4>3. QED
        BY <4>1, <4>2
    <3>2. QED
      BY <2>4, <3>1
  <2>7. Solves(h, n + 1)
    <3> SUFFICES ASSUME NEW s \in Upto(n + 1)
                 PROVE  h[s] = IF s = {} THEN base ELSE step[<<pick[s], h[s \ {pick[s]}]>>]
      OBVIOUS
    <3>1. s # {} => h[s \ {pick[s]}] = g[s \ {pick[s]}]
      BY <2>2, <2>3, <2>4
    <3>2. CASE s \in Upto(n)
      BY <2>1, <2>3, <2>4, <3>1, <3>2
    <3>3. CASE s \notin Upto(n)
      BY <2>4, <2>5, <3>1, <3>3
    <3>4. QED
      BY <3>2, <3>3
  <2> HIDE DEF Solves
  <2>8. QED
    BY <2>6, <2>7
<1>5. Nat \subseteq P
  <2> HIDE DEF P
  <2> QED BY <1>3, <1>4, Induction
<1>6. Cardinality(S) \in Nat /\ Upto(Cardinality(S)) = SUBSET S
  BY FS_CardinalityType, FS_Subset
<1>7. PICK g \in [Upto(Cardinality(S)) -> V] : Solves(g, Cardinality(S))
  BY <1>5, <1>6
<1>8. g \in [SUBSET S -> V]
  <2> HIDE DEF Upto
  <2> QED BY <1>6, <1>7
<1>9. \A s \in SUBSET S : g[s] = IF s = {} THEN base ELSE step[<<pick[s], g[s \ {pick[s]}]>>]
  <2> HIDE DEF Upto
  <2> QED BY <1>6, <1>7
<1>10. QED
  BY <1>8, <1>9 DEF Solvable

LEMMA MaxOf ==
    ASSUME NEW n \in Nat, NEW s \in SUBSET (1 .. n), s # {}
    PROVE  Max(s) \in s /\ \A x \in s : x <= Max(s)
<1>0. IsFiniteSet(1 .. n)
  BY FS_Interval
<1>1. IsFiniteSet(s) /\ s \subseteq Nat
  <2>1. IsFiniteSet(s)
    BY <1>0, FS_Subset
  <2>2. s \subseteq Nat
    OBVIOUS
  <2>3. QED
    BY <2>1, <2>2
<1>2. Cardinality(s) \in Nat /\ Cardinality(s) # 0
  BY <1>1, FS_CardinalityType, FS_EmptySet
<1>3. PICK f \in [1 .. Cardinality(s) -> s] :
          /\ \A i, j \in 1 .. Cardinality(s) : i < j => f[i] < f[j]
          /\ \A x \in s : \E i \in 1 .. Cardinality(s) : f[i] = x
  BY <1>1, AscendingEnumeration
<1>4. f[Cardinality(s)] \in s
  BY <1>2, <1>3
<1> DEFINE last == f[Cardinality(s)]
<1>5. ASSUME NEW x \in s PROVE last >= x
  <2>1. PICK i \in 1 .. Cardinality(s) : f[i] = x
    BY <1>3
  <2>2. CASE i = Cardinality(s)
    <3>1. last = x /\ x \in Nat
      BY <1>1, <2>1, <2>2
    <3> HIDE DEF last
    <3>2. QED
      BY <3>1
  <2>3. CASE i # Cardinality(s)
    <3>1. i < Cardinality(s) /\ Cardinality(s) \in 1 .. Cardinality(s)
      BY <1>2, <2>1, <2>3
    <3>2. f[i] < f[Cardinality(s)]
      BY <1>3, <3>1
    <3>3. x < last /\ x \in Nat /\ last \in Nat
      BY <1>1, <1>4, <2>1, <3>2
    <3> HIDE DEF last
    <3>4. QED
      BY <3>3
  <2>4. QED
    BY <2>2, <2>3
<1>6. PICK m : m = Max(s)
  OBVIOUS
<1>7. m = CHOOSE y \in s : \A x \in s : y >= x
  BY <1>6, Zenon DEF Max
<1>8. m \in s /\ \A x \in s : m >= x
  BY <1>4, <1>5, <1>7
<1>9. QED
  BY <1>1, <1>6, <1>8

\* The recursion by which FoldLeft is defined has a solution.
LeftSolvable(n, V, base, step) ==
    \E g \in [SUBSET (1 .. n) -> V] :
        \A s \in SUBSET (1 .. n) : g[s] = IF s = {} THEN base ELSE step[<<Max(s), g[s \ {Max(s)}]>>]

LEMMA FoldLeftExists ==
    ASSUME NEW n \in Nat, NEW V, NEW base \in V, NEW step \in [(1 .. n) \X V -> V]
    PROVE  LeftSolvable(n, V, base, step)
<1>1. IsFiniteSet(1 .. n)
  BY FS_Interval
<1>2. PICK pick : pick = [s \in SUBSET (1 .. n) |-> Max(s)]
  OBVIOUS
<1>3. \A s \in SUBSET (1 .. n) : s # {} => pick[s] \in s
  BY <1>2, MaxOf
<1>4. Solvable(1 .. n, V, base, pick, step)
  BY <1>1, <1>3, FoldExists
<1>5. PICK g \in [SUBSET (1 .. n) -> V] :
          \A s \in SUBSET (1 .. n) : g[s] = IF s = {} THEN base ELSE step[<<pick[s], g[s \ {pick[s]}]>>]
  BY <1>4 DEF Solvable
<1>6. \A s \in SUBSET (1 .. n) : pick[s] = Max(s)
  BY <1>2
<1>7. QED
  BY <1>5, <1>6 DEF LeftSolvable

LEMMA PrefixMax ==
    ASSUME NEW n \in Nat, NEW k \in 1 .. n
    PROVE  /\ Max(1 .. k) = k /\ (1 .. k) \ {k} = 1 .. (k - 1)
           /\ 1 .. k \in SUBSET (1 .. n) /\ 1 .. k # {}
<1>1. 1 .. k \in SUBSET (1 .. n) /\ 1 .. k # {} /\ k \in 1 .. k
  OBVIOUS
<1>2. Max(1 .. k) \in 1 .. k /\ k <= Max(1 .. k)
  BY <1>1, MaxOf
<1>3. Max(1 .. k) = k
  BY <1>2
<1>4. (1 .. k) \ {k} = 1 .. (k - 1)
  OBVIOUS
<1>5. QED
  BY <1>1, <1>3, <1>4

LEMMA SameLength == ASSUME NEW m \in Nat, NEW n \in Nat, 1 .. m = 1 .. n PROVE m = n
<1>1. m \in 1 .. m \/ m = 0
  OBVIOUS
<1>2. n \in 1 .. n \/ n = 0
  OBVIOUS
<1>3. (m \in 1 .. n <=> m \in 1 .. m) /\ (n \in 1 .. m <=> n \in 1 .. n)
  OBVIOUS
<1>4. QED
  BY <1>1, <1>2, <1>3

LEMMA LenOfFunction ==
    ASSUME NEW n \in Nat, NEW f, DOMAIN f = 1 .. n, f = [i \in 1 .. n |-> f[i]]
    PROVE  Len(f) = n
<1>1. f \in [1 .. n -> {f[i] : i \in 1 .. n}]
  OBVIOUS
<1>2. f \in Seq({f[i] : i \in 1 .. n})
  BY <1>1
<1>3. Len(f) \in Nat /\ 1 .. Len(f) = 1 .. n
  BY <1>2
<1>4. QED
  BY <1>3, SameLength

\* A function on an interval is a list of that length.
LEMMA ListOf ==
    ASSUME NEW X, NEW n \in Nat, NEW f \in [1 .. n -> X]
    PROVE  f \in Seq(X) /\ Len(f) = n /\ DOMAIN f = 1 .. n
<1>1. f \in Seq(X)
  OBVIOUS
<1>2. 1 .. Len(f) = 1 .. n /\ Len(f) \in Nat
  BY <1>1
<1>3. QED
  BY <1>1, <1>2, SameLength

LEMMA AppendToSet ==
    ASSUME NEW F, NEW s \in Seq(F), NEW x
    PROVE  /\ ToSet(Append(s, x)) = ToSet(s) \cup {x}
           /\ DOMAIN Append(s, x) = DOMAIN s \cup {Len(s) + 1}
           /\ \A n \in DOMAIN s : Append(s, x)[n] = s[n]
           /\ Append(s, x)[Len(s) + 1] = x
<1>1. Len(s) \in Nat /\ DOMAIN s = 1 .. Len(s)
  OBVIOUS
<1>2. PICK t : t = Append(s, x)
  OBVIOUS
<1>3. /\ Len(t) = Len(s) + 1 /\ DOMAIN t = 1 .. Len(t)
      /\ \A n \in 1 .. Len(s) : t[n] = s[n]
      /\ t[Len(s) + 1] = x
  <2>1. s \in Seq(F \cup {x}) /\ x \in F \cup {x}
    OBVIOUS
  <2>2. t \in Seq(F \cup {x}) /\ Len(t) = Len(s) + 1 /\ t[Len(s) + 1] = x
    BY <1>2, <2>1, AppendProperties
  <2>3. \A n \in 1 .. Len(s) : t[n] = s[n]
    BY <1>2, <2>1, AppendProperties
  <2>4. QED
    BY <2>2, <2>3
<1>4. /\ DOMAIN t = DOMAIN s \cup {Len(s) + 1}
      /\ \A n \in DOMAIN s : t[n] = s[n]
      /\ t[Len(s) + 1] = x
  BY <1>1, <1>3
<1>5. ToSet(t) = ToSet(s) \cup {x}
  BY <1>4 DEF ToSet
<1>6. QED
  BY <1>2, <1>4, <1>5

LEMMA PartTyped ==
    ASSUME NEW F, NEW s \in Seq(F), NEW m \in Nat \ {0}, NEW n \in Nat, n <= Len(s)
    PROVE  SubSeq(s, m, n) \in Seq(F)
<1>1. \A i \in m .. n : s[i] \in F
  <2> TAKE i \in m .. n
  <2>1. i \in 1 .. Len(s)
    OBVIOUS
  <2>2. QED
    BY <2>1
<1>2. m \in Int /\ n \in Int
  OBVIOUS
<1>3. QED
  BY <1>1, <1>2, SubSeqProperties

LEMMA JoinedSet ==
    ASSUME NEW F, NEW s \in Seq(F), NEW t \in Seq(F)
    PROVE  s \o t \in Seq(F) /\ ToSet(s \o t) = ToSet(s) \cup ToSet(t)
<1>1. PICK u : u = s \o t
  OBVIOUS
<1>2. /\ u \in Seq(F) /\ Len(u) = Len(s) + Len(t)
      /\ \A i \in 1 .. Len(s) + Len(t) : u[i] = IF i <= Len(s) THEN s[i] ELSE t[i - Len(s)]
  BY <1>1, ConcatProperties
<1>3. /\ Len(s) \in Nat /\ Len(t) \in Nat /\ DOMAIN s = 1 .. Len(s) /\ DOMAIN t = 1 .. Len(t)
      /\ DOMAIN u = 1 .. Len(s) + Len(t)
  BY <1>2
<1>4. ASSUME NEW i \in DOMAIN u PROVE u[i] \in ToSet(s) \cup ToSet(t)
  <2>1. CASE i <= Len(s)
    BY <1>2, <1>3, <2>1 DEF ToSet
  <2>2. CASE i > Len(s)
    <3>1. i - Len(s) \in DOMAIN t /\ u[i] = t[i - Len(s)]
      BY <1>2, <1>3, <2>2
    <3>2. QED
      BY <3>1 DEF ToSet
  <2>3. QED
    BY <1>3, <2>1, <2>2
<1>5. ASSUME NEW i \in DOMAIN s PROVE s[i] \in ToSet(u)
  <2>1. i \in DOMAIN u /\ u[i] = s[i]
    BY <1>2, <1>3
  <2>2. QED
    BY <2>1 DEF ToSet
<1>6. ASSUME NEW i \in DOMAIN t PROVE t[i] \in ToSet(u)
  <2>1. i + Len(s) \in DOMAIN u /\ u[i + Len(s)] = t[i]
    BY <1>2, <1>3
  <2>2. QED
    BY <2>1 DEF ToSet
<1>7. ToSet(u) = ToSet(s) \cup ToSet(t)
  <2>1. /\ ToSet(u) = {u[i] : i \in DOMAIN u} /\ ToSet(s) = {s[i] : i \in DOMAIN s}
        /\ ToSet(t) = {t[i] : i \in DOMAIN t}
    BY DEF ToSet
  <2>2. QED
    BY <1>4, <1>5, <1>6, <2>1
<1>8. QED
  BY <1>1, <1>2, <1>7

\* f lists S in ascending order.
Ascends(f, n, S) ==
    /\ f \in [1 .. n -> S]
    /\ \A i, j \in 1 .. n : i < j => f[i] < f[j]
    /\ \A s \in S : \E i \in 1 .. n : f[i] = s

Distinct(f, n) == \A i, j \in 1 .. n : f[i] = f[j] => i = j

LEMMA AscendsBack ==
    ASSUME NEW S, S \subseteq Nat, NEW n \in Nat, NEW f, Ascends(f, n, S),
           NEW i \in 1 .. n, NEW j \in 1 .. n, f[i] <= f[j]
    PROVE  i <= j
<1>1. f[i] \in Nat /\ f[j] \in Nat
  BY DEF Ascends
<1>2. PICK a, b : a = f[i] /\ b = f[j]
  OBVIOUS
<1>3. j < i => b < a
  BY <1>2 DEF Ascends
<1>4. QED
  BY <1>1, <1>2, <1>3

LEMMA AscendsOnce ==
    ASSUME NEW S, S \subseteq Nat, NEW n \in Nat, NEW f, Ascends(f, n, S)
    PROVE  Distinct(f, n)
<1> SUFFICES ASSUME NEW i \in 1 .. n, NEW j \in 1 .. n, f[i] = f[j] PROVE i = j
  BY DEF Distinct
<1>1. PICK a : a = f[i]
  OBVIOUS
<1>2. a \in Nat /\ a = f[j]
  BY <1>1 DEF Ascends
<1>3. f[i] <= f[j] /\ f[j] <= f[i]
  BY <1>1, <1>2
<1>4. i <= j /\ j <= i
  BY <1>3, AscendsBack
<1>5. QED
  BY <1>4

LEMMA AscendsCounts ==
    ASSUME NEW S, S \subseteq Nat, NEW n \in Nat, NEW f, Ascends(f, n, S)
    PROVE  IsFiniteSet(S) /\ Cardinality(S) = n
<1>1. f \in [1 .. n -> S] /\ \A i, j \in 1 .. n : f[i] = f[j] => i = j
  <2>1. Distinct(f, n)
    BY AscendsOnce
  <2>2. QED
    BY <2>1 DEF Ascends, Distinct
<1>2. f \in Injection(1 .. n, S) /\ f \in Surjection(1 .. n, S)
  BY <1>1, Fun_IsInj DEF Ascends, Surjection
<1>3. IsFiniteSet(1 .. n) /\ Cardinality(1 .. n) = n
  BY FS_Interval
<1>4. IsFiniteSet(S) /\ (Cardinality(S) = Cardinality(1 .. n) <=> f \in Injection(1 .. n, S))
  BY <1>2, <1>3, FS_Surjection
<1>5. QED
  BY <1>2, <1>3, <1>4

\* There is one ascending order.
LEMMA AscendsUnique ==
    ASSUME NEW S, S \subseteq Nat, NEW n \in Nat, NEW f, NEW g, Ascends(f, n, S), Ascends(g, n, S)
    PROVE  f = g
<1> DEFINE P == {k \in Nat : \A i \in 1 .. n : i <= k => f[i] = g[i]}
<1>1. 0 \in P
  OBVIOUS
<1>2. ASSUME NEW k \in Nat, k \in P PROVE k + 1 \in P
  <2> SUFFICES ASSUME k + 1 \in 1 .. n PROVE f[k + 1] = g[k + 1]
    <3>1. \A i \in 1 .. n : i <= k + 1 => i <= k \/ i = k + 1
      OBVIOUS
    <3>2. QED
      BY <1>2, <3>1
  <2>0. PICK m \in 1 .. n : m = k + 1
    OBVIOUS
  <2>1. PICK i \in 1 .. n : f[i] = g[m]
    BY DEF Ascends
  <2>2. PICK j \in 1 .. n : g[j] = f[m]
    BY DEF Ascends
  <2>3. /\ f[m] \in Nat /\ g[m] \in Nat /\ f[i] \in Nat /\ g[j] \in Nat
    BY DEF Ascends
  <2>4. ~(f[m] < g[m])
    <3> SUFFICES ASSUME f[m] < g[m] PROVE FALSE
      OBVIOUS
    <3>1. g[j] < g[m]
      BY <2>2
    <3>2. j < m
      <4>1. ~(g[m] <= g[j])
        BY <2>0, <2>1, <2>2, <2>3, <3>1
      <4>2. m <= j => g[m] <= g[j]
        BY <2>0, <2>1, <2>2, <2>3, <3>1 DEF Ascends
      <4>3. QED
        BY <4>1, <4>2
    <3>3. f[j] = g[j]
      BY <1>2, <2>0, <3>2
    <3>4. f[j] = f[m]
      BY <2>2, <3>3
    <3>5. Distinct(f, n)
      BY AscendsOnce
    <3>6. QED
      BY <3>2, <3>4, <3>5 DEF Distinct
  <2>5. ~(g[m] < f[m])
    <3> SUFFICES ASSUME g[m] < f[m] PROVE FALSE
      OBVIOUS
    <3>1. f[i] < f[m]
      BY <2>1
    <3>2. i < m
      <4>1. ~(f[m] <= f[i])
        BY <2>0, <2>1, <2>2, <2>3, <3>1
      <4>2. m <= i => f[m] <= f[i]
        BY <2>0, <2>1, <2>2, <2>3, <3>1 DEF Ascends
      <4>3. QED
        BY <4>1, <4>2
    <3>3. f[i] = g[i]
      BY <1>2, <2>0, <3>2
    <3>4. g[i] = g[m]
      BY <2>1, <3>3
    <3>5. Distinct(g, n)
      BY AscendsOnce
    <3>6. QED
      BY <3>2, <3>4, <3>5 DEF Distinct
  <2>6. PICK a, b : a = f[m] /\ b = g[m]
    OBVIOUS
  <2>7. QED
    BY <2>0, <2>3, <2>4, <2>5, <2>6
<1>3. Nat \subseteq P
  <2> HIDE DEF P
  <2> QED BY <1>1, <1>2, Induction
<1>4. \A i \in 1 .. n : f[i] = g[i]
  BY <1>3
<1>5. QED
  BY <1>4 DEF Ascends

\* So a list arranged in it is known.
InOrderOf(list, S) == Arranged(list, S, <)

LEMMA ArrangedIs ==
    ASSUME NEW list, NEW S, S \subseteq Nat, NEW n \in Nat, NEW f, Ascends(f, n, S)
    PROVE  InOrderOf(list, S) = [i \in 1 .. n |-> list[f[i]]]
<1>1. IsFiniteSet(S) /\ Cardinality(S) = n
  BY AscendsCounts
<1>2. PICK order : order = Enumeration(S, <)
  OBVIOUS
<1>3. Ascends(order, n, S)
  BY <1>1, <1>2, AscendingEnumeration DEF Ascends
<1>4. order = f
  BY <1>3, AscendsUnique
<1>5. InOrderOf(list, S) = [i \in 1 .. Cardinality(S) |-> list[Enumeration(S, <)[i]]]
  BY Zenon DEF InOrderOf, Arranged
<1>6. QED
  BY <1>1, <1>2, <1>4, <1>5

\* One more, after all the others.
Longer(f, n, x) == [i \in 1 .. n + 1 |-> IF i = n + 1 THEN x ELSE f[i]]

LEMMA AscendsLonger ==
    ASSUME NEW S, S \subseteq Nat, NEW n \in Nat, NEW f, Ascends(f, n, S),
           NEW x \in Nat, \A s \in S : s < x
    PROVE  Ascends(Longer(f, n, x), n + 1, S \cup {x})
<1>1. PICK g : g = Longer(f, n, x)
  OBVIOUS
<1>2. /\ g = [i \in 1 .. n + 1 |-> IF i = n + 1 THEN x ELSE f[i]]
      /\ \A i \in 1 .. n : g[i] = f[i] /\ i \in 1 .. n + 1
      /\ g[n + 1] = x
  BY <1>1 DEF Longer
<1>3. f \in [1 .. n -> S]
  BY DEF Ascends
<1>4. g \in [1 .. n + 1 -> S \cup {x}]
  <2>1. \A i \in 1 .. n + 1 : i \in 1 .. n \/ i = n + 1
    OBVIOUS
  <2>2. \A i \in 1 .. n + 1 : g[i] \in S \cup {x}
    BY <1>2, <1>3, <2>1
  <2>3. QED
    BY <1>2, <2>2
<1>5. ASSUME NEW i \in 1 .. n + 1, NEW j \in 1 .. n + 1, i < j PROVE g[i] < g[j]
  <2>1. i \in 1 .. n /\ g[i] = f[i] /\ f[i] \in S
    BY <1>2, <1>3, <1>5
  <2>2. CASE j = n + 1
    BY <1>2, <2>1, <2>2
  <2>3. CASE j # n + 1
    <3>1. j \in 1 .. n /\ g[j] = f[j]
      BY <1>2, <2>3
    <3>2. QED
      BY <1>5, <2>1, <3>1 DEF Ascends
  <2>4. QED
    BY <2>2, <2>3
<1>6. ASSUME NEW s \in S \cup {x} PROVE \E i \in 1 .. n + 1 : g[i] = s
  <2>1. CASE s = x
    <3>1. n + 1 \in 1 .. n + 1
      OBVIOUS
    <3>2. QED
      BY <1>2, <2>1, <3>1
  <2>2. CASE s \in S
    BY <1>2, <2>2 DEF Ascends
  <2>3. QED
    BY <2>1, <2>2
<1>7. QED
  BY <1>1, <1>4, <1>5, <1>6 DEF Ascends

LEMMA AscendsNone == ASSUME NEW f \in [1 .. 0 -> {}] PROVE Ascends(f, 0, {})
BY DEF Ascends

\* The prefixes of a concatenation, up to the n-th.
FlatUpto(seqs, X, r, n) ==
    /\ r \in [0 .. n -> Seq(X)]
    /\ r[0] = <<>>
    /\ \A k \in 1 .. n : r[k] = r[k - 1] \o seqs[k]

FlatRun(seqs, X, r) == FlatUpto(seqs, X, r, Len(seqs))

FlatSolvable(seqs, X, n) == \E r : FlatUpto(seqs, X, r, n)

LEMMA FlatRunExists ==
    ASSUME NEW X, NEW seqs \in Seq(Seq(X))
    PROVE  \E r : FlatRun(seqs, X, r)
<1> DEFINE n == Len(seqs)
           P == {k \in Nat : k <= n => FlatSolvable(seqs, X, k)}
<1>1. n \in Nat /\ \A k \in 1 .. n : seqs[k] \in Seq(X)
  OBVIOUS
<1> HIDE DEF n
<1>2. 0 \in P
  <2>1. PICK r : r = [k \in 0 .. 0 |-> <<>>]
    OBVIOUS
  <2>2. r \in [0 .. 0 -> Seq(X)] /\ r[0] = <<>>
    BY <2>1, EmptySeq
  <2>3. FlatUpto(seqs, X, r, 0)
    BY <2>2 DEF FlatUpto
  <2>4. QED
    BY <2>3 DEF FlatSolvable
<1>3. ASSUME NEW k \in Nat, k \in P PROVE k + 1 \in P
  <2> SUFFICES ASSUME k + 1 <= n PROVE FlatSolvable(seqs, X, k + 1)
    OBVIOUS
  <2>0. FlatSolvable(seqs, X, k)
    BY <1>1, <1>3
  <2>1. PICK r : /\ r \in [0 .. k -> Seq(X)] /\ r[0] = <<>>
                 /\ \A j \in 1 .. k : r[j] = r[j - 1] \o seqs[j]
    BY <2>0 DEF FlatSolvable, FlatUpto
  <2>2. PICK more : more = r[k] \o seqs[k + 1]
    OBVIOUS
  <2>3. more \in Seq(X)
    <3>1. r[k] \in Seq(X) /\ seqs[k + 1] \in Seq(X)
      BY <1>1, <2>1
    <3>2. QED
      BY <2>2, <3>1, ConcatProperties
  <2>4. PICK q : q = [j \in 0 .. k + 1 |-> IF j = k + 1 THEN more ELSE r[j]]
    OBVIOUS
  <2>5. \A j \in 0 .. k : q[j] = r[j] /\ r[j] \in Seq(X)
    BY <2>1, <2>4
  <2>6. q[k + 1] = more
    BY <2>4
  <2>7. q \in [0 .. k + 1 -> Seq(X)] /\ q[0] = <<>>
    <3>1. \A j \in 0 .. k + 1 : j \in 0 .. k \/ j = k + 1
      OBVIOUS
    <3>2. \A j \in 0 .. k + 1 : q[j] \in Seq(X)
      BY <2>3, <2>5, <2>6, <3>1
    <3>3. q[0] = r[0]
      BY <2>5
    <3>4. QED
      BY <2>1, <2>4, <3>2, <3>3
  <2>8. ASSUME NEW j \in 1 .. k + 1 PROVE q[j] = q[j - 1] \o seqs[j]
    <3>1. CASE j = k + 1
      <4>1. j - 1 = k /\ q[k] = r[k]
        BY <2>5, <3>1
      <4>2. QED
        BY <2>2, <2>6, <3>1, <4>1
    <3>2. CASE j # k + 1
      <4>1. j \in 1 .. k /\ q[j] = r[j] /\ q[j - 1] = r[j - 1]
        BY <2>5, <3>2
      <4>2. QED
        BY <2>1, <4>1
    <3>3. QED
      BY <3>1, <3>2
  <2>9. FlatUpto(seqs, X, q, k + 1)
    BY <2>7, <2>8 DEF FlatUpto
  <2>10. QED
    BY <2>9 DEF FlatSolvable
<1>4. Nat \subseteq P
  <2> HIDE DEF P
  <2> QED BY <1>2, <1>3, Induction
<1>5. FlatSolvable(seqs, X, n)
  BY <1>1, <1>4
<1>6. QED
  BY <1>5 DEF FlatSolvable, FlatRun, n

\* The run ends with the concatenation.
LEMMA FlatRunEnds ==
    ASSUME NEW X, NEW seqs \in Seq(Seq(X)), NEW r, FlatRun(seqs, X, r)
    PROVE  FlattenSeq(seqs) = r[Len(seqs)]
<1> DEFINE n == Len(seqs)
           Solves(f) == f = [i \in 1 .. n |-> IF i = 1 THEN seqs[i] ELSE f[i - 1] \o seqs[i]]
<1>1. n \in Nat /\ \A k \in 1 .. n : seqs[k] \in Seq(X)
  OBVIOUS
<1>2. CASE n = 0
  <2>1. seqs = <<>>
    BY <1>2, EmptySeq
  <2>2. r[n] = <<>>
    BY <1>2 DEF FlatRun, FlatUpto
  <2>3. FlattenSeq(seqs) = seqs
    BY <1>2, Zenon DEF FlattenSeq
  <2>4. QED
    BY <2>1, <2>2, <2>3
<1>3. CASE n # 0
  <2>1. FlattenSeq(seqs) = (CHOOSE f : Solves(f))[n]
    BY <1>3, Zenon DEF FlattenSeq
  <2> HIDE DEF n
  <2>2. PICK g : g = [i \in 1 .. n |-> r[i]]
    OBVIOUS
  <2>3. ASSUME NEW i \in 1 .. n PROVE g[i] = IF i = 1 THEN seqs[i] ELSE g[i - 1] \o seqs[i]
    <3>1. g[i] = r[i - 1] \o seqs[i]
      BY <2>2 DEF FlatRun, FlatUpto, n
    <3>2. CASE i = 1
      <4>1. r[i - 1] = <<>>
        BY <3>2 DEF FlatRun, FlatUpto
      <4>2. seqs[i] \in Seq(X)
        BY <1>1
      <4>3. QED
        BY <3>1, <3>2, <4>1, <4>2, ConcatEmptySeq
    <3>3. CASE i # 1
      <4>0. i - 1 \in 1 .. n
        BY <1>1, <3>3 DEF n
      <4>1. g[i - 1] = r[i - 1]
        BY <2>2, <4>0
      <4>2. QED
        BY <3>1, <3>3, <4>1
    <3>4. QED
      BY <3>2, <3>3
  <2>4. Solves(g)
    BY <2>2, <2>3
  <2>5. PICK f : f = (CHOOSE h : Solves(h)) /\ Solves(f)
    <3> HIDE DEF Solves
    <3> QED BY <2>4
  <2> DEFINE P == {k \in Nat : k \in 1 .. n => f[k] = r[k]}
  <2>6. 0 \in P
    OBVIOUS
  <2>7. ASSUME NEW k \in Nat, k \in P PROVE k + 1 \in P
    <3> SUFFICES ASSUME k + 1 \in 1 .. n PROVE f[k + 1] = r[k + 1]
      OBVIOUS
    <3>1. PICK m \in 1 .. n : m = k + 1
      OBVIOUS
    <3>2. f[m] = IF m = 1 THEN seqs[m] ELSE f[m - 1] \o seqs[m]
      BY <2>5
    <3>3. g[m] = IF m = 1 THEN seqs[m] ELSE g[m - 1] \o seqs[m]
      BY <2>3
    <3>4. m # 1 => f[m - 1] = g[m - 1]
      <4> SUFFICES ASSUME m # 1 PROVE f[m - 1] = g[m - 1]
        OBVIOUS
      <4>1. k \in 1 .. n /\ m - 1 = k
        BY <1>1, <3>1 DEF n
      <4>2. QED
        BY <2>2, <2>7, <4>1
    <3>5. f[m] = g[m]
      BY <3>2, <3>3, <3>4
    <3>6. QED
      BY <2>2, <3>1, <3>5
  <2>8. Nat \subseteq P
    <3> HIDE DEF P
    <3> QED BY <2>6, <2>7, Induction
  <2>9. n \in Nat /\ n \in 1 .. n
    BY <1>1, <1>3
  <2>10. f[n] = r[n]
    BY <2>8, <2>9
  <2>11. QED
    BY <2>1, <2>5, <2>10 DEF n
<1>4. QED
  BY <1>2, <1>3

LEMMA FlattenTyped ==
    ASSUME NEW X, NEW seqs \in Seq(Seq(X))
    PROVE  FlattenSeq(seqs) \in Seq(X)
<1>1. PICK r : FlatRun(seqs, X, r)
  BY FlatRunExists
<1>2. Len(seqs) \in 0 .. Len(seqs)
  OBVIOUS
<1>3. FlattenSeq(seqs) = r[Len(seqs)]
  BY <1>1, FlatRunEnds
<1>4. QED
  BY <1>1, <1>2, <1>3 DEF FlatRun, FlatUpto

LEMMA FlattenNone == FlattenSeq(<<>>) = <<>>
BY Zenon, EmptySeq DEF FlattenSeq

LEMMA FlattenAppend ==
    ASSUME NEW X, NEW seqs \in Seq(Seq(X)), NEW more \in Seq(X)
    PROVE  FlattenSeq(Append(seqs, more)) = FlattenSeq(seqs) \o more
<1>1. PICK all : all = Append(seqs, more)
  OBVIOUS
<1>2. /\ all \in Seq(Seq(X)) /\ Len(all) = Len(seqs) + 1 /\ Len(seqs) \in Nat
      /\ \A i \in 1 .. Len(seqs) : all[i] = seqs[i]
      /\ all[Len(seqs) + 1] = more
  BY <1>1, AppendProperties
<1>3. PICK r : FlatRun(all, X, r)
  BY <1>2, FlatRunExists
<1> DEFINE n == Len(seqs)
<1>4. PICK s : s = [k \in 0 .. n |-> r[k]]
  OBVIOUS
<1>5. FlatRun(seqs, X, s)
  <2>1. s \in [0 .. n -> Seq(X)] /\ s[0] = <<>>
    BY <1>2, <1>3, <1>4 DEF FlatRun, FlatUpto
  <2>2. ASSUME NEW k \in 1 .. n PROVE s[k] = s[k - 1] \o seqs[k]
    <3>1. s[k] = r[k] /\ s[k - 1] = r[k - 1] /\ all[k] = seqs[k] /\ k \in 1 .. Len(all)
      BY <1>2, <1>4
    <3>2. QED
      BY <1>3, <3>1 DEF FlatRun, FlatUpto
  <2>3. QED
    BY <2>1, <2>2 DEF FlatRun, FlatUpto
<1>6. FlattenSeq(seqs) = s[n] /\ FlattenSeq(all) = r[Len(all)]
  BY <1>2, <1>3, <1>5, FlatRunEnds
<1>7. r[Len(all)] = r[n] \o more /\ s[n] = r[n]
  <2>1. Len(all) \in 1 .. Len(all) /\ Len(all) - 1 = n /\ all[Len(all)] = more
    BY <1>2
  <2>2. r[Len(all)] = r[n] \o more
    BY <1>3, <2>1 DEF FlatRun, FlatUpto
  <2>3. s[n] = r[n]
    BY <1>2, <1>4
  <2>4. QED
    BY <2>2, <2>3
<1>8. QED
  BY <1>1, <1>6, <1>7

-----------------------------------------------------------------------------
\* The inputs a behaviour can have grown.

Typed == task \in Tasks /\ input \in Seq(Inputs[task])

LEMMA TypedAlways == Spec => []Typed
<1>1. Init => Typed
  BY DEF Init, Typed
<1>2. Typed /\ [Next]_<<task, input>> => Typed'
  <2>1. ASSUME Typed, Next PROVE Typed'
    BY <2>1 DEF Typed, Next
  <2>2. ASSUME Typed, UNCHANGED <<task, input>> PROVE Typed'
    BY <2>2 DEF Typed
  <2>3. QED
    BY <2>1, <2>2
<1>3. QED
  BY <1>1, <1>2, PTL DEF Spec

\* Every element of an input is one of its task's.
LEMMA InputsOf ==
    ASSUME Typed
    PROVE  /\ ToSet(input) \subseteq Inputs[task]
           /\ DOMAIN input = 1 .. Len(input) /\ Len(input) \in Nat
           /\ \A n \in DOMAIN input : input[n] \in Inputs[task]
<1>1. /\ DOMAIN input = 1 .. Len(input) /\ Len(input) \in Nat
      /\ \A n \in DOMAIN input : input[n] \in Inputs[task]
  BY DEF Typed
<1>2. QED
  BY <1>1 DEF ToSet

-----------------------------------------------------------------------------
\* The memory write contract: contract.py, csv_to_bulk_seed.py, server.py.

\* A fact field by field.
FactWith(date, occurred, source, space, type, id, text, infer, ventures, status) ==
    [event_date |-> date, occurred_at |-> occurred, source |-> source,
     namespace |-> space, type |-> type, id |-> id, text |-> text,
     infer |-> infer, ventures |-> ventures, status |-> status]

Unset(value) == value = ""

\* What the three checks of a build agree on.
Buildable(date, source, space) ==
    ValidDate(date) /\ ValidSource(source) /\ ValidNamespace(space)

LEMMA BuildResult ==
    ASSUME NEW d, NEW o, NEW s, NEW n, NEW t, NEW i, NEW x, NEW f, NEW v, NEW u,
           NEW fact, fact = FactWith(d, o, s, n, t, i, x, f, v, u)
    PROVE  Build(fact) =
               IF Buildable(d, s, n)
               THEN {FactWith("day", "day", Source(s), Namespace(n), "fact", i, x, f, v, u)}
               ELSE {}
<1>1. /\ fact.event_date = d /\ fact.source = s /\ fact.namespace = n
  BY DEF FactWith
<1>2. CASE Buildable(d, s, n)
  <2> DEFINE ss == Source(s)
             nn == Namespace(n)
  <2>1. PICK b : b = [fact EXCEPT !.type = "fact", !.source = ss, !.event_date = "day",
                                  !.occurred_at = "day", !.namespace = nn]
    OBVIOUS
  <2>2. b = FactWith("day", "day", ss, nn, "fact", i, x, f, v, u)
    <3> HIDE DEF ss, nn
    <3> QED BY <2>1 DEF FactWith
  <2>3. Day(d) = "day"
    BY <1>2 DEF Buildable, ValidDate
  <2>4. b = [fact EXCEPT !.type = "fact", !.source = Source(@), !.event_date = Day(@),
                         !.occurred_at = Day(fact.event_date), !.namespace = Namespace(@)]
    BY <1>1, <2>1, <2>3 DEF FactWith
  <2>5. Build(fact) = {b}
    BY <1>1, <1>2, <2>4 DEF Build, Buildable
  <2>6. QED
    BY <1>2, <2>2, <2>5
<1>3. CASE ~Buildable(d, s, n)
  BY <1>1, <1>3 DEF Build, Buildable
<1>4. QED
  BY <1>2, <1>3

\* What the importer accepts, and what it stores then.
Accepted(d, o, s, n, t, i, x) ==
    /\ "" \notin {i, Cell(d, o), s} /\ ValidText(x)
    /\ Buildable(Cell(d, o), s, n)
    /\ Cell(t, "fact") \in {"fact", "open_item"}

Stored(s, n, t, i, x, f, v, u) ==
    FactWith("day", "day", Source(s), Namespace(n), Cell(t, "fact"), i, x, f, v, u)

LEMMA PreparedResult ==
    ASSUME NEW d, NEW o, NEW s, NEW n, NEW t, NEW i, NEW x, NEW f, NEW v, NEW u,
           NEW fact, fact = FactWith(d, o, s, n, t, i, x, f, v, u)
    PROVE  Prepared(fact) = IF Accepted(d, o, s, n, t, i, x)
                            THEN {Stored(s, n, t, i, x, f, v, u)} ELSE {}
<1> DEFINE date == Cell(d, o)
           type == Cell(t, "fact")
           ss == Source(s)
           nn == Namespace(n)
           stored == Stored(s, n, t, i, x, f, v, u)
           good == Buildable(date, s, n)
<1>1. /\ EventDate(fact) = date /\ fact.id = i /\ fact.source = s /\ fact.text = x /\ fact.type = t
  BY DEF FactWith, EventDate
<1>2. PICK given : given = [fact EXCEPT !.event_date = date]
  OBVIOUS
<1>3. given = FactWith(date, o, s, n, t, i, x, f, v, u)
  <2> HIDE DEF date
  <2> QED BY <1>2 DEF FactWith
<1>4. Build(given) = IF good THEN {FactWith("day", "day", ss, nn, "fact", i, x, f, v, u)} ELSE {}
  <2> HIDE DEF date
  <2> QED BY <1>3, BuildResult
<1>5. [FactWith("day", "day", ss, nn, "fact", i, x, f, v, u) EXCEPT !.type = type] = stored
  <2>1. stored = FactWith("day", "day", ss, nn, type, i, x, f, v, u)
    BY DEF Stored
  <2> HIDE DEF type, ss, nn, stored
  <2> QED BY <2>1 DEF FactWith
<1>6. ASSUME good PROVE Validates(stored) <=> type \in {"fact", "open_item"} /\ i # ""
  <2>1. ValidSource(ss) /\ ValidNamespace(nn) /\ ValidDate("day") /\ Cell("day", "day") = "day"
    BY <1>6 DEF Buildable, ValidSource, Source, ValidNamespace, Namespace, Cell, ValidDate, Day
  <2>2. /\ stored.type = type /\ stored.source = ss /\ stored.namespace = nn /\ stored.id = i
        /\ stored.event_date = "day" /\ stored.occurred_at = "day"
    BY DEF Stored, FactWith
  <2> HIDE DEF type, ss, nn, stored
  <2>3. QED
    BY <2>1, <2>2 DEF Validates, EventDate
<1>7. Prepared(fact) =
          IF "" \in {i, date, s} \/ ~ValidText(x) THEN {}
          ELSE {y \in {[b EXCEPT !.type = type] : b \in Build(given)} : Validates(y)}
  <2>1. Prepared(fact) =
          IF "" \in {i, date, s} \/ ~ValidText(x) THEN {}
          ELSE {y \in {[b EXCEPT !.type = type] : b \in Build([fact EXCEPT !.event_date = date])} : Validates(y)}
    <3> HIDE DEF date
    <3> QED BY <1>1 DEF Prepared
  <2>2. QED
    BY <1>2, <2>1
<1>8. {[b EXCEPT !.type = type] : b \in Build(given)} = IF good THEN {stored} ELSE {}
  <2> HIDE DEF type, good, stored, ss, nn
  <2> QED BY <1>4, <1>5
<1>9. QED
  <2>1. Accepted(d, o, s, n, t, i, x) <=>
          ~("" \in {i, date, s} \/ ~ValidText(x)) /\ good /\ type \in {"fact", "open_item"}
    BY DEF Accepted
  <2> HIDE DEF type, good, stored, date
  <2>2. CASE good
    <3>1. Validates(stored) <=> type \in {"fact", "open_item"} /\ i # ""
      BY <1>6, <2>2
    <3>2. {y \in {stored} : Validates(y)} = IF Validates(stored) THEN {stored} ELSE {}
      OBVIOUS
    <3>3. QED
      BY <1>7, <1>8, <2>1, <2>2, <3>1, <3>2 DEF stored
  <2>3. CASE ~good
    BY <1>7, <1>8, <2>1, <2>3
  <2>4. QED
    BY <2>2, <2>3

LEMMA StoredAgain ==
    ASSUME NEW d, NEW o, NEW s, NEW n, NEW t, NEW i, NEW x, NEW f, NEW v, NEW u,
           Accepted(d, o, s, n, t, i, x)
    PROVE  LET stored == Stored(s, n, t, i, x, f, v, u)
           IN  Validates(stored) /\ Prepared(stored) = {stored}
<1> DEFINE stored == Stored(s, n, t, i, x, f, v, u)
           ss == Source(s)
           nn == Namespace(n)
           type == Cell(t, "fact")
<1>1. /\ Source(ss) = ss /\ Namespace(nn) = nn /\ Cell(type, "fact") = type
      /\ ss # "" /\ Buildable("day", ss, nn) /\ Cell("day", "day") = "day"
      /\ type \in {"fact", "open_item"} /\ i # "" /\ ValidText(x)
  BY DEF Accepted, Buildable, Source, Namespace, Cell, ValidSource, ValidNamespace, ValidDate, Day
<1>2. stored = FactWith("day", "day", ss, nn, type, i, x, f, v, u)
  BY DEF Stored
<1> HIDE DEF ss, nn, type, stored
<1>3. Accepted("day", "day", ss, nn, type, i, x) /\ Stored(ss, nn, type, i, x, f, v, u) = stored
  BY <1>1, <1>2 DEF Accepted, Stored
<1>4. Prepared(stored) = {stored}
  BY <1>2, <1>3, PreparedResult
<1>5. Validates(stored)
  <2>1. /\ stored.type = type /\ stored.source = ss /\ stored.namespace = nn /\ stored.id = i
        /\ stored.event_date = "day" /\ stored.occurred_at = "day"
    BY <1>2 DEF FactWith
  <2>2. QED
    BY <1>1, <2>1 DEF Validates, EventDate, Buildable
<1>6. QED
  BY <1>4, <1>5 DEF stored

LEMMA CapturedResult ==
    ASSUME NEW d, NEW o, NEW s, NEW n, NEW i, NEW x, NEW v, NEW u, Unset(u),
           Cell(d, o) # "", i # "", s # "", ValidVentures(v),
           NEW fact, fact = FactWith(d, o, s, n, "fact", i, x, "no", v, u)
    PROVE  Captured(fact) = Prepared(fact)
<1> DEFINE date == Cell(d, o)
           ss == Source(s)
<1>1. PICK given : given = [fact EXCEPT !.event_date = date, !.source = ss, !.status = u]
  OBVIOUS
<1>2. given = FactWith(date, o, ss, n, "fact", i, x, "no", v, u)
  <2> HIDE DEF date, ss
  <2> QED BY <1>1 DEF FactWith
<1>3. Captured(fact) = IF ~ValidText(x) THEN {} ELSE Build(given)
  <2>1. EventDate(fact) = date /\ fact.ventures = v /\ fact.infer = "no" /\ fact.text = x
    BY DEF FactWith, EventDate
  <2>2. given = [fact EXCEPT !.event_date = EventDate(fact), !.source = Source(@), !.status = u]
    BY <1>1, <2>1 DEF FactWith
  <2>3. given.event_date = date
    BY <1>2 DEF FactWith
  <2> HIDE DEF date, ss
  <2>4. date # ""
    BY DEF date
  <2>5. Captured(fact) = IF ~ValidVentures(v) \/ ("no" # "yes" /\ ~ValidText(x)) THEN {}
            ELSE IF given.event_date # "" THEN Build(given)
            ELSE {[given EXCEPT !.type = "fact", !.namespace = Namespace(@)]}
    BY <2>1, <2>2 DEF Captured, Unset
  <2>6. QED
    BY <2>3, <2>4, <2>5
<1>4. Source(ss) = ss /\ (Buildable(date, ss, n) <=> Buildable(date, s, n)) /\ Cell("fact", "fact") = "fact"
  BY DEF Buildable, Source, ValidSource, Cell
<1>5. Build(given) = IF Buildable(date, s, n) THEN {Stored(s, n, "fact", i, x, "no", v, u)} ELSE {}
  <2>1. Build(given) = IF Buildable(date, ss, n)
           THEN {FactWith("day", "day", Source(ss), Namespace(n), "fact", i, x, "no", v, u)} ELSE {}
    <3> HIDE DEF date, ss
    <3> QED BY <1>2, BuildResult
  <2>2. QED
    BY <1>4, <2>1 DEF Stored
<1>6. Prepared(fact) = IF Accepted(d, o, s, n, "fact", i, x)
                        THEN {Stored(s, n, "fact", i, x, "no", v, u)} ELSE {}
  BY PreparedResult
<1>7. Accepted(d, o, s, n, "fact", i, x) <=> ValidText(x) /\ Buildable(date, s, n)
  BY <1>4 DEF Accepted
<1> HIDE DEF date
<1>8. QED
  BY <1>3, <1>5, <1>6, <1>7

LEMMA ByHand ==
    ASSUME NEW d, NEW o, NEW s, NEW n, NEW t, NEW i, NEW x, NEW f, NEW v, NEW u,
           NEW fact, fact = FactWith(d, o, s, n, t, i, x, f, v, u)
    PROVE  SameByHand(fact)
<1>0. SUFFICES ASSUME t = "fact", Unset(u), i # "", s # "", Cell(d, o) # "", ValidVentures(v),
                    NEW plain, plain = [fact EXCEPT !.infer = "no"],
                    NEW undated, undated = [fact EXCEPT !.event_date = "", !.occurred_at = ""]
             PROVE  /\ Captured(plain) = Prepared(plain)
                    /\ {[stored EXCEPT !.infer = "no"] : stored \in Added(undated, Cell(d, o))}
                           = Prepared(plain)
  <2>1. /\ fact.type = t /\ fact.id = i /\ fact.source = s /\ fact.ventures = v /\ fact.status = u
        /\ EventDate(fact) = Cell(d, o)
    BY DEF FactWith, EventDate
  <2>2. QED
    BY <2>1 DEF SameByHand, Unset
<1>1. plain = FactWith(d, o, s, n, "fact", i, x, "no", v, u)
  BY <1>0 DEF FactWith
<1>2. undated = FactWith("", "", s, n, "fact", i, x, f, v, u)
  BY <1>0 DEF FactWith
<1>3. i # "" /\ s # "" /\ Cell(d, o) # "" /\ ValidVentures(v) /\ Unset(u)
  BY <1>0
<1>4. Captured(plain) = Prepared(plain)
  BY <1>1, <1>3, CapturedResult
<1> DEFINE date == Cell(d, o)
           good == Buildable(date, s, n)
           ss == Source(s)
           nn == Namespace(n)
           built == FactWith("day", "day", ss, nn, "fact", i, x, f, v, u)
           stored == FactWith("day", "day", ss, nn, "fact", i, x, "no", v, u)
<1>5. PICK given : given = [undated EXCEPT !.event_date = date, !.source = s]
  OBVIOUS
<1>6. given = FactWith(date, "", s, n, "fact", i, x, f, v, u)
  <2> HIDE DEF date
  <2> QED BY <1>2, <1>5 DEF FactWith
<1>7. Build(given) = IF good THEN {built} ELSE {}
  <2> HIDE DEF date
  <2> QED BY <1>6, BuildResult
<1>8. Added(undated, date) =
          IF ~ValidText(x) THEN {}
          ELSE {[b EXCEPT !.event_date = Cell("", @), !.occurred_at = Cell("", @)] : b \in Build(given)}
  <2>1. /\ undated.type = "fact" /\ undated.status = u /\ undated.text = x /\ undated.source = s
        /\ undated.event_date = "" /\ undated.occurred_at = ""
    BY <1>2 DEF FactWith
  <2>2. Cell(date, Cell(EventDate(undated), "day")) = date /\ Cell(s, "mcp") = s
    BY <1>3 DEF Cell
  <2>3. given = [undated EXCEPT !.event_date = date, !.source = Cell(@, "mcp")]
    BY <1>5, <2>1, <2>2 DEF FactWith
  <2> HIDE DEF date
  <2>4. QED
    BY <1>0, <2>1, <2>2, <2>3 DEF Added, Unset
<1>9. [built EXCEPT !.event_date = Cell("", @), !.occurred_at = Cell("", @)] = built
  <2>1. Cell("", "day") = "day"
    BY DEF Cell
  <2>2. PICK b : b = built
    OBVIOUS
  <2>3. PICK c : c = [b EXCEPT !.event_date = Cell("", @), !.occurred_at = Cell("", @)]
    OBVIOUS
  <2>4. c = b
    <3>1. c = [b EXCEPT !.event_date = "day", !.occurred_at = "day"]
      <4>1. b.event_date = "day" /\ b.occurred_at = "day"
        BY <2>2 DEF FactWith
      <4>2. QED
        BY <2>1, <2>3, <4>1
    <3>2. c = FactWith("day", "day", ss, nn, "fact", i, x, f, v, u)
      <4> HIDE DEF ss, nn
      <4> QED BY <2>2, <3>1 DEF FactWith
    <3>3. QED
      BY <2>2, <3>2
  <2> HIDE DEF built
  <2>5. QED
    BY <2>2, <2>3, <2>4
<1>10. [built EXCEPT !.infer = "no"] = stored
  <2>1. PICK b : b = built
    OBVIOUS
  <2>2. PICK c : c = [b EXCEPT !.infer = "no"]
    OBVIOUS
  <2>3. c = stored
    <3> HIDE DEF ss, nn
    <3> QED BY <2>1, <2>2 DEF FactWith
  <2> HIDE DEF built, stored
  <2>4. QED
    BY <2>1, <2>2, <2>3
<1>11. Prepared(plain) = IF ValidText(x) /\ good THEN {stored} ELSE {}
  <2>1. Prepared(plain) = IF Accepted(d, o, s, n, "fact", i, x)
                          THEN {Stored(s, n, "fact", i, x, "no", v, u)} ELSE {}
    BY <1>1, PreparedResult
  <2>2. Cell("fact", "fact") = "fact"
    BY DEF Cell
  <2>3. /\ Accepted(d, o, s, n, "fact", i, x) <=> ValidText(x) /\ good
        /\ Stored(s, n, "fact", i, x, "no", v, u) = stored
    BY <1>3, <2>2 DEF Accepted, Stored
  <2> HIDE DEF good, stored
  <2>4. QED
    BY <2>1, <2>3
<1> HIDE DEF good, built, stored
<1>12. {[b EXCEPT !.event_date = Cell("", @), !.occurred_at = Cell("", @)] : b \in Build(given)}
          = IF good THEN {built} ELSE {}
  BY <1>7, <1>9
<1>13. Added(undated, date) = IF ValidText(x) /\ good THEN {built} ELSE {}
  BY <1>8, <1>12
<1>14. QED
  BY <1>4, <1>10, <1>11, <1>13

LEMMA ByRow ==
    ASSUME NEW d, NEW o, NEW s, NEW n, NEW t, NEW i, NEW x, NEW f0, NEW v, NEW u,
           NEW fact, fact = FactWith(d, o, s, n, t, i, x, f0, v, u)
    PROVE  SameByRow(fact)
<1>0. SUFFICES ASSUME fact.id # "example", fact.infer = "no",
                      NEW type \in {fact.type} \cup (IF fact.type = "fact" THEN {""} ELSE {}),
                      NEW infer \in {"no", ""}
               PROVE  UNION {Prepared(g) : g \in FromRow([fact EXCEPT !.occurred_at = "", !.type = type,
                                                                    !.infer = infer])}
                          = Prepared([fact EXCEPT !.occurred_at = ""])
  BY Zenon DEF SameByRow
<1>row. PICK row : row = [fact EXCEPT !.occurred_at = "", !.type = type, !.infer = infer]
  OBVIOUS
<1>base. PICK base : base = [fact EXCEPT !.occurred_at = ""]
  OBVIOUS
<1>1. /\ row = FactWith(d, "", s, n, type, i, x, infer, v, u)
      /\ base = FactWith(d, "", s, n, t, i, x, "no", v, u)
  BY <1>0, <1>row, <1>base DEF FactWith
<1>2. i # "example" /\ Cell(type, "fact") = Cell(t, "fact")
  BY <1>0 DEF Cell, FactWith
<1> DEFINE tt == Cell(type, "fact")
           nn == Namespace(n)
           passes == "" \notin {i, x, d, s} /\ ValidText(x)
<1>3. PICK f : f = [row EXCEPT !.type = tt, !.namespace = nn, !.infer = "no"]
  OBVIOUS
<1>4. f = FactWith(d, "", s, nn, tt, i, x, "no", v, u)
  <2> HIDE DEF tt, nn
  <2> QED BY <1>1, <1>3 DEF FactWith
<1>5. FromRow(row) = IF passes THEN {f} ELSE {}
  <2>1. infer \in {"", "no", "yes"} /\ infer # "yes" /\ Cell(infer, "no") = "no"
    BY DEF Cell
  <2>2. f = [row EXCEPT !.type = Cell(@, "fact"), !.namespace = Namespace(@), !.infer = Cell(@, "no")]
    BY <1>1, <1>3, <2>1 DEF FactWith
  <2>3. row.id = i /\ row.text = x /\ row.event_date = d /\ row.source = s /\ row.infer = infer
    BY <1>1 DEF FactWith
  <2>4. QED
    BY <1>2, <2>1, <2>2, <2>3 DEF FromRow
<1>6. /\ Prepared(f) = IF Accepted(d, "", s, nn, tt, i, x) THEN {Stored(s, nn, tt, i, x, "no", v, u)} ELSE {}
      /\ Prepared(base) = IF Accepted(d, "", s, n, t, i, x) THEN {Stored(s, n, t, i, x, "no", v, u)} ELSE {}
  <2> HIDE DEF nn, tt
  <2> QED BY <1>1, <1>4, PreparedResult
<1>7. /\ Cell(tt, "fact") = Cell(t, "fact") /\ Namespace(nn) = nn
      /\ ValidNamespace(nn) <=> ValidNamespace(n)
      /\ Cell(d, "") = d
  BY <1>2 DEF Cell, Namespace, ValidNamespace
<1>8. /\ Accepted(d, "", s, nn, tt, i, x) <=> Accepted(d, "", s, n, t, i, x)
      /\ Stored(s, nn, tt, i, x, "no", v, u) = Stored(s, n, t, i, x, "no", v, u)
      /\ ~passes => ~Accepted(d, "", s, n, t, i, x)
  <2>1. ~passes => ~Accepted(d, "", s, n, t, i, x)
    BY <1>7 DEF Accepted, ValidText
  <2>2. Stored(s, nn, tt, i, x, "no", v, u) = Stored(s, n, t, i, x, "no", v, u)
    BY <1>7 DEF Stored
  <2> HIDE DEF nn, tt
  <2>3. Accepted(d, "", s, nn, tt, i, x) <=> Accepted(d, "", s, n, t, i, x)
    BY <1>7 DEF Accepted, Buildable
  <2>4. QED
    BY <2>1, <2>2, <2>3
<1> HIDE DEF passes, nn, tt
<1>9. Prepared(f) = Prepared(base) /\ (~passes => Prepared(base) = {})
  BY <1>6, <1>8
<1>10. UNION {Prepared(g) : g \in FromRow(row)} = Prepared(base)
  BY <1>5, <1>9
<1>11. QED
  BY <1>10, <1>row, <1>base

(* The inputs.                                                             *)

LEMMA FieldsOf ==
    ASSUME NEW fact \in Inputs["contract"] \cup Inputs["sheet"]
    PROVE  /\ fact = FactWith(fact.event_date, fact.occurred_at, fact.source, fact.namespace,
                           fact.type, fact.id, fact.text, fact.infer, fact.ventures, fact.status)
           /\ DOMAIN fact = {"event_date", "occurred_at", "source", "namespace", "type",
                             "id", "text", "infer", "ventures", "status"}
<1>1. fact \in [event_date : STRING, occurred_at : STRING, source : STRING,
                namespace : STRING, type : STRING, id : STRING, text : STRING,
                infer : STRING, ventures : STRING, status : STRING]
  BY InputAssumption
<1>2. QED
  BY <1>1 DEF FactWith

LEMMA EveryFactCanonical ==
    ASSUME NEW fact \in Inputs["contract"]
    PROVE  StoredOnce(fact) /\ SameByHand(fact) /\ SameByRow(fact)
<1>1. PICK d, o, s, n, t, i, x, f, v, u : fact = FactWith(d, o, s, n, t, i, x, f, v, u)
  BY FieldsOf
<1>2. /\ fact.event_date = d /\ fact.occurred_at = o /\ fact.source = s /\ fact.namespace = n
      /\ fact.type = t /\ fact.id = i /\ fact.text = x /\ fact.infer = f /\ fact.ventures = v
      /\ fact.status = u
  BY <1>1 DEF FactWith
<1>3. ASSUME NEW stored \in Prepared(fact)
      PROVE  /\ Validates(stored) /\ stored.event_date = "day" /\ stored.occurred_at = "day"
             /\ Prepared(stored) = {stored}
  <2>1. Accepted(d, o, s, n, t, i, x) /\ stored = Stored(s, n, t, i, x, f, v, u)
    BY <1>1, PreparedResult
  <2>2. QED
    BY <2>1, StoredAgain DEF Stored, FactWith
<1>4. StoredOnce(fact)
  BY <1>3 DEF StoredOnce
<1>5. QED
  BY <1>1, <1>4, ByHand, ByRow

\* A row gives one fact at most.
LEMMA RowResult == ASSUME NEW row PROVE FromRow(row) = {} \/ \E f : FromRow(row) = {f}
BY DEF FromRow

LEMMA EverySheetConverted == ASSUME Typed, task = "sheet" PROVE SheetAsRows
<1> SUFFICES ASSUME NEW facts \in Sheet(input, TRUE)
             PROVE  /\ \A row \in ToSet(input) : FromRow(row) \subseteq ToSet(facts)
                    /\ \A fact \in ToSet(facts) : \E row \in ToSet(input) : fact \in FromRow(row)
  BY DEF SheetAsRows
<1>1. /\ DOMAIN input = 1 .. Len(input) /\ Len(input) \in Nat
      /\ \A n \in DOMAIN input : input[n] \in Inputs["sheet"]
  BY InputsOf
<1> DEFINE kept == {n \in DOMAIN input : /\ \E cell \in DOMAIN input[n] : input[n][cell] # ""
                                         /\ ~(TRUE /\ input[n].id = "example")}
           made == [n \in DOMAIN input |-> CHOOSE fact \in FromRow(input[n]) : TRUE]
<1>2. /\ \A n \in kept : FromRow(input[n]) # {}
      /\ facts = Arranged(made, kept, <)
  BY DEF Sheet
<1>3. kept \subseteq Nat /\ IsFiniteSet(kept) /\ Cardinality(kept) \in Nat
  <2>1. kept \subseteq 1 .. Len(input)
    BY <1>1
  <2> HIDE DEF kept
  <2>2. IsFiniteSet(1 .. Len(input))
    BY <1>1, FS_Interval
  <2>3. IsFiniteSet(kept)
    BY <2>1, <2>2, FS_Subset
  <2>4. QED
    BY <2>1, <2>3, FS_CardinalityType
<1>4. PICK order \in [1 .. Cardinality(kept) -> kept] :
          /\ \A k \in kept : \E m \in 1 .. Cardinality(kept) : order[m] = k
          /\ facts = [m \in 1 .. Cardinality(kept) |-> made[order[m]]]
  <2> HIDE DEF kept, made
  <2> QED BY <1>2, <1>3, ArrangedAscending
<1>5. \A k \in kept : FromRow(input[k]) = {made[k]}
  <2> TAKE k \in kept
  <2>1. PICK f : FromRow(input[k]) = {f}
    BY <1>2, RowResult
  <2>2. QED
    BY <2>1
<1>6. \A n \in DOMAIN input \ kept : FromRow(input[n]) = {}
  <2> TAKE n \in DOMAIN input \ kept
  <2>1. "id" \in DOMAIN input[n]
    <3>1. input[n] \in Inputs["contract"] \cup Inputs["sheet"]
      BY <1>1
    <3>2. QED
      BY <3>1, FieldsOf
  <2>2. input[n].id = "" \/ input[n].id = "example"
    BY <2>1
  <2>3. QED
    BY <2>2 DEF FromRow
<1>7. ToSet(facts) = {made[k] : k \in kept}
  <2> HIDE DEF kept, made
  <2> QED BY <1>3, <1>4 DEF ToSet
<1>8. ToSet(input) = {input[n] : n \in DOMAIN input}
  BY DEF ToSet
<1>9. kept \subseteq DOMAIN input
  OBVIOUS
<1> HIDE DEF kept, made
<1>10. QED
  BY <1>5, <1>6, <1>7, <1>8, <1>9

\* What is imported has one stored form, from JSON or from the sheet and however
\* often; so has a fact without a status, captured or given to the MCP tool.
THEOREM AcceptedIsCanonicalAlways == Spec => []AcceptedIsCanonical
<1>1. Typed => AcceptedIsCanonical
  <2> SUFFICES ASSUME Typed PROVE AcceptedIsCanonical
    OBVIOUS
  <2>1. ASSUME task = "contract", NEW fact \in ToSet(input)
        PROVE  StoredOnce(fact) /\ SameByHand(fact) /\ SameByRow(fact)
    <3>1. fact \in Inputs["contract"]
      BY <2>1, InputsOf
    <3>2. QED
      BY <3>1, EveryFactCanonical
  <2>2. task = "sheet" => SheetAsRows
    BY EverySheetConverted
  <2>3. QED
    BY <2>1, <2>2 DEF AcceptedIsCanonical
<1>2. QED
  BY <1>1, TypedAlways, PTL

-----------------------------------------------------------------------------
\* The union-find of memory_compaction.py.

\* What the union-find promises of the edges done so far.
Joined(nodes, done, root) ==
    /\ root \in [nodes -> nodes]
    /\ \A e \in done : root[e[1]] = root[e[2]]
    /\ \A a, b \in nodes : root[a] = root[b] => Linked(a, b, done)

LEMMA JoinKeeps ==
    ASSUME NEW nodes, nodes \subseteq Nodes, NEW done, NEW root, Joined(nodes, done, root),
           NEW e \in nodes \X nodes, \A d \in done : d \in nodes \X nodes
    PROVE  Joined(nodes, done \cup {e}, Join(e, root))
<1> DEFINE new == Join(e, root)
<1>1. /\ root \in [nodes -> nodes] /\ e[1] \in nodes /\ e[2] \in nodes
      /\ \A d \in done : d[1] \in nodes /\ d[2] \in nodes
  BY DEF Joined
<1>2. new = [n \in nodes |-> IF root[n] = root[e[2]] THEN root[e[1]] ELSE root[n]]
  BY <1>1 DEF Join
<1> HIDE DEF new
<1>3. new \in [nodes -> nodes]
  BY <1>1, <1>2
<1>4. \A d \in done \cup {e} : new[d[1]] = new[d[2]]
  BY <1>1, <1>2 DEF Joined
<1>5. ASSUME NEW a \in nodes, NEW b \in nodes, new[a] = new[b] PROVE Linked(a, b, done \cup {e})
  <2> SUFFICES ASSUME NEW S \in SUBSET Nodes, \A d \in done \cup {e} : d[1] \in S <=> d[2] \in S, a \in S
               PROVE  b \in S
    BY DEF Linked
  <2>1. \A x, y \in nodes : root[x] = root[y] /\ x \in S => y \in S
    BY DEF Joined, Linked
  <2>2. e[1] \in S <=> e[2] \in S
    OBVIOUS
  <2>3. CASE root[a] = root[e[2]]
    <3>1. e[1] \in S
      BY <1>1, <2>1, <2>2, <2>3
    <3>2. root[b] = root[e[2]] \/ root[b] = root[e[1]]
      BY <1>1, <1>2, <1>5, <2>3
    <3>3. QED
      BY <1>1, <2>1, <2>2, <3>1, <3>2
  <2>4. CASE root[a] # root[e[2]]
    <3>1. new[a] = root[a]
      BY <1>2, <2>4
    <3>2. root[b] = root[a] \/ (root[b] = root[e[2]] /\ root[a] = root[e[1]])
      BY <1>2, <1>5, <3>1
    <3>3. QED
      BY <1>1, <2>1, <2>2, <3>2
  <2>5. QED
    BY <2>3, <2>4
<1>6. QED
  BY <1>3, <1>4, <1>5 DEF Joined, new

\* The nodes that Clusters looks at, and the root it ends with.
NodesOf(listed, edges) == listed \cup UNION {{e[1], e[2]} : e \in edges}

RootOf(listed, edges) ==
    MapThenFoldSet(Join, [n \in NodesOf(listed, edges) |-> n], LAMBDA e : e,
                   LAMBDA S : CHOOSE e \in S : TRUE, edges)

LEMMA RootJoined ==
    ASSUME NEW listed, NEW edges, IsFiniteSet(edges), edges \subseteq Nodes \X Nodes, listed \subseteq Nodes
    PROVE  Joined(NodesOf(listed, edges), edges, RootOf(listed, edges))
<1> DEFINE nodes == NodesOf(listed, edges)
           base == [n \in nodes |-> n]
           V == [nodes -> nodes]
           pick == [s \in SUBSET edges |-> CHOOSE e \in s : TRUE]
           step == [p \in edges \X V |-> Join(p[1], p[2])]
           Solves(g) == g = [s \in SUBSET edges |->
                               IF s = {} THEN base
                               ELSE Join(CHOOSE e \in s : TRUE, g[s \ {CHOOSE e \in s : TRUE}])]
<1>1. nodes \subseteq Nodes /\ edges \subseteq nodes \X nodes
  BY DEF NodesOf
<1>2. base \in V
  OBVIOUS
<1>3. \A s \in SUBSET edges : s # {} => pick[s] \in s /\ pick[s] = CHOOSE e \in s : TRUE
  OBVIOUS
<1>4. step \in [edges \X V -> V]
  <2>1. \A p \in edges \X V : Join(p[1], p[2]) \in V
    BY <1>1 DEF Join
  <2>2. QED
    BY <2>1
<1>5. PICK g \in [SUBSET edges -> V] :
         \A s \in SUBSET edges : g[s] = IF s = {} THEN base ELSE step[<<pick[s], g[s \ {pick[s]}]>>]
  <2>1. \A s \in SUBSET edges : s # {} => pick[s] \in s
    BY <1>3
  <2> HIDE DEF base, V, pick, step
  <2>2. Solvable(edges, V, base, pick, step)
    BY <1>2, <1>4, <2>1, FoldExists
  <2>3. QED
    BY <2>2 DEF Solvable
<1>6. Solves(g)
  <2>1. ASSUME NEW s \in SUBSET edges, s # {}
        PROVE  g[s] = Join(CHOOSE e \in s : TRUE, g[s \ {CHOOSE e \in s : TRUE}])
    <3>1. pick[s] \in edges /\ g[s \ {pick[s]}] \in V
      BY <1>3, <1>5, <2>1
    <3>2. g[s] = step[<<pick[s], g[s \ {pick[s]}]>>]
      BY <1>5, <2>1
    <3>3. step[<<pick[s], g[s \ {pick[s]}]>>] = Join(pick[s], g[s \ {pick[s]}])
      <4> HIDE DEF pick, V
      <4> QED BY <3>1
    <3>4. QED
      BY <1>3, <2>1, <3>2, <3>3
  <2>2. g[{}] = base
    BY <1>5
  <2>3. QED
    <3> HIDE DEF base, V
    <3> QED BY <1>5, <2>1, <2>2
<1>7. RootOf(listed, edges) = (CHOOSE f : Solves(f))[edges]
  BY Zenon DEF RootOf, MapThenFoldSet
<1>8. PICK f : f = (CHOOSE h : Solves(h)) /\ Solves(f) 
  <2> HIDE DEF Solves
  <2> QED BY <1>6
<1>9. \A s \in SUBSET edges : Joined(nodes, s, f[s])
  <2> DEFINE P == {n \in Nat : \A s \in SUBSET edges : Cardinality(s) = n => Joined(nodes, s, f[s])}
  <2>1. 0 \in P
    <3> SUFFICES ASSUME NEW s \in SUBSET edges, Cardinality(s) = 0 PROVE Joined(nodes, s, f[s])
      OBVIOUS
    <3>1. s = {}
      BY FS_Subset, FS_EmptySet
    <3>2. f[s] = base
      BY <1>8, <3>1
    <3>3. QED
      <4> HIDE DEF nodes
      <4> QED BY <3>1, <3>2 DEF Joined, Linked
  <2>2. ASSUME NEW n \in Nat, n \in P PROVE n + 1 \in P
    <3> SUFFICES ASSUME NEW s \in SUBSET edges, Cardinality(s) = n + 1 PROVE Joined(nodes, s, f[s])
      OBVIOUS
    <3>1. IsFiniteSet(s) /\ s # {}
      BY FS_Subset, FS_EmptySet
    <3>2. PICK e \in s : e = CHOOSE d \in s : TRUE
      BY <3>1
    <3>3. f[s] = Join(e, f[s \ {e}])
      BY <1>8, <3>1, <3>2
    <3>4. Cardinality(s \ {e}) = n
      <4>1. Cardinality(s \ {e}) = Cardinality(s) - 1
        BY <3>1, FS_RemoveElement
      <4>2. QED
        BY <4>1
    <3>5. Joined(nodes, s \ {e}, f[s \ {e}])
      BY <2>2, <3>4
    <3>6. Joined(nodes, (s \ {e}) \cup {e}, f[s])
      <4> HIDE DEF nodes
      <4> QED BY <1>1, <3>3, <3>5, JoinKeeps
    <3>7. QED
      <4>1. (s \ {e}) \cup {e} = s
        OBVIOUS
      <4>2. QED
        BY <3>6, <4>1
  <2>3. Nat \subseteq P
    <3> HIDE DEF P
    <3> QED BY <2>1, <2>2, Induction
  <2>4. \A s \in SUBSET edges : Cardinality(s) \in Nat
    BY FS_Subset, FS_CardinalityType
  <2>5. QED
    BY <2>3, <2>4
<1>10. QED
  BY <1>7, <1>8, <1>9

LEMMA ClustersByRoot ==
    ASSUME NEW listed, NEW edges, NEW a, NEW b, a # b,
           RootOf(listed, edges) \in [NodesOf(listed, edges) -> NodesOf(listed, edges)],
           IsFiniteSet(NodesOf(listed, edges))
    PROVE  (\E c \in Clusters(listed, edges) : {a, b} \subseteq c)
              <=> /\ a \in NodesOf(listed, edges) /\ b \in NodesOf(listed, edges)
                  /\ RootOf(listed, edges)[a] = RootOf(listed, edges)[b]
<1> DEFINE nodes == NodesOf(listed, edges)
           root == RootOf(listed, edges)
           Class(r) == {n \in nodes : root[n] = r}
<1>1. Clusters(listed, edges) = {g \in {Class(r) : r \in nodes} : Cardinality(g) >= 2}
  BY Zenon DEF Clusters, NodesOf, RootOf
<1> HIDE DEF nodes, root
<1>2. ASSUME NEW c \in Clusters(listed, edges), {a, b} \subseteq c
      PROVE  a \in nodes /\ b \in nodes /\ root[a] = root[b]
  BY <1>1, <1>2
<1>3. ASSUME a \in nodes, b \in nodes, root[a] = root[b]
      PROVE  Class(root[a]) \in Clusters(listed, edges) /\ {a, b} \subseteq Class(root[a])
  <2>1. {a, b} \subseteq Class(root[a]) /\ Class(root[a]) \subseteq nodes
    BY <1>3
  <2>2. root[a] \in nodes
    BY <1>3 DEF root, nodes
  <2> HIDE DEF Class
  <2>3. IsFiniteSet(Class(root[a])) /\ IsFiniteSet({a, b})
    BY <2>1, FS_Subset DEF nodes
  <2>4. Cardinality({a, b}) = 2
    <3>1. IsFiniteSet({a}) /\ Cardinality({a}) = 1
      BY FS_Singleton
    <3>2. Cardinality({a} \cup {b}) = 2
      BY <3>1, FS_AddElement
    <3>3. {a} \cup {b} = {a, b}
      OBVIOUS
    <3>4. QED
      BY <3>2, <3>3
  <2>5. Cardinality(Class(root[a])) >= 2
    <3>1. Cardinality({a, b}) <= Cardinality(Class(root[a]))
      BY <2>1, <2>3, FS_Subset
    <3>2. Cardinality(Class(root[a])) \in Nat
      BY <2>3, FS_CardinalityType
    <3>3. QED
      BY <2>4, <3>1, <3>2
  <2>6. QED
    BY <1>1, <2>1, <2>2, <2>5
<1>4. QED
  BY <1>2, <1>3 DEF nodes, root

\* Two records share a cluster exactly if no search result separates them.
THEOREM ClustersAreComponentsAlways == Spec => []ClustersAreComponents
<1>1. ASSUME NEW listed \in SUBSET Nodes, NEW a \in Nodes, NEW b \in Nodes, a # b,
             NEW edges, edges = ToSet(input) \cap Pairs(listed, Nodes)
      PROVE  (\E c \in Clusters(listed, edges) : {a, b} \subseteq c) <=> Linked(a, b, edges)
  <2> DEFINE nodes == NodesOf(listed, edges)
             root == RootOf(listed, edges)
  <2>1. edges \subseteq Nodes \X Nodes
    BY <1>1 DEF Pairs
  <2>2. IsFiniteSet(edges)
    <3>1. IsFiniteSet(Nodes \X Nodes)
      BY InputAssumption, FS_Product
    <3>2. QED
      BY <2>1, <3>1, FS_Subset
  <2>3. nodes \subseteq Nodes /\ IsFiniteSet(nodes) /\ edges \subseteq nodes \X nodes
    <3>1. nodes \subseteq Nodes /\ edges \subseteq nodes \X nodes
      BY <2>1 DEF NodesOf
    <3>2. QED
      BY <3>1, InputAssumption, FS_Subset
  <2>4. Joined(nodes, edges, root)
    BY <2>1, <2>2, RootJoined
  <2> HIDE DEF nodes, root
  <2>5. (\E c \in Clusters(listed, edges) : {a, b} \subseteq c)
            <=> a \in nodes /\ b \in nodes /\ root[a] = root[b]
    <3>1. RootOf(listed, edges) \in [NodesOf(listed, edges) -> NodesOf(listed, edges)]
      BY <2>4 DEF Joined, nodes, root
    <3>2. IsFiniteSet(NodesOf(listed, edges)) /\ a # b
      BY <1>1, <2>3 DEF nodes
    <3>3. (\E c \in Clusters(listed, edges) : {a, b} \subseteq c)
              <=> /\ a \in NodesOf(listed, edges) /\ b \in NodesOf(listed, edges)
                  /\ RootOf(listed, edges)[a] = RootOf(listed, edges)[b]
      BY <3>1, <3>2, ClustersByRoot
    <3>4. QED
      BY <3>3 DEF nodes, root
  <2>6. a \in nodes /\ b \in nodes /\ root[a] = root[b] => Linked(a, b, edges)
    BY <2>4 DEF Joined
  <2>7. ASSUME Linked(a, b, edges), a \in nodes PROVE b \in nodes /\ root[a] = root[b]
    <3> DEFINE S == {n \in nodes : root[n] = root[a]}
    <3>1. \A e \in edges : e[1] \in S <=> e[2] \in S
      BY <2>3, <2>4 DEF Joined
    <3>2. S \in SUBSET Nodes /\ a \in S
      BY <2>3, <2>7
    <3>3. b \in S
      <4> HIDE DEF S
      <4> QED BY <2>7, <3>1, <3>2 DEF Linked
    <3>4. QED
      BY <3>3
  <2>8. ASSUME Linked(a, b, edges), a \notin nodes PROVE FALSE
    <3>1. \A e \in edges : e[1] \in {a} <=> e[2] \in {a}
      BY <2>3, <2>8
    <3>2. b \in {a}
      BY <2>8, <3>1 DEF Linked
    <3>3. QED
      BY <1>1, <3>2
  <2>9. QED
    BY <2>5, <2>6, <2>7, <2>8
<1>2. ClustersAreComponents
  BY <1>1 DEF ClustersAreComponents
<1>3. QED
  BY <1>2, PTL

-----------------------------------------------------------------------------
\* dedup.py: the states filter_new_facts goes through, and what they keep.

\* The states that filter_new_facts goes through, one per prefix of the facts.
KeepRun(q, base, r) ==
    /\ r[0] = base
    /\ \A k \in 1 .. Len(q) : r[k] = Keep(r[k - 1], q[k])
    /\ r[Len(q)] = FoldLeft(Keep, base, q)

LEMMA KeepRunExists ==
    ASSUME NEW F, NEW q \in Seq(F), NEW V, NEW base \in V, \A v \in V, f \in F : Keep(v, f) \in V
    PROVE  \E r : KeepRun(q, base, r)
<1> DEFINE n == Len(q)
           step == [p \in (1 .. n) \X V |-> Keep(p[2], q[p[1]])]
           Solves(g) == g = [s \in SUBSET DOMAIN q |->
                               IF s = {} THEN base ELSE Keep(g[s \ {Max(s)}], q[Max(s)])]
<1>1. n \in Nat /\ DOMAIN q = 1 .. n /\ \A k \in 1 .. n : q[k] \in F
  OBVIOUS
<1>2. step \in [(1 .. n) \X V -> V]
  <2>1. \A p \in (1 .. n) \X V : Keep(p[2], q[p[1]]) \in V
    <3> HIDE DEF n
    <3> QED BY <1>1
  <2> HIDE DEF n
  <2>2. QED
    BY <2>1
<1>3. PICK g \in [SUBSET (1 .. n) -> V] :
          \A s \in SUBSET (1 .. n) : g[s] = IF s = {} THEN base ELSE step[<<Max(s), g[s \ {Max(s)}]>>]
  <2>1. LeftSolvable(n, V, base, step)
    <3> HIDE DEF step, n
    <3> QED BY <1>1, <1>2, FoldLeftExists
  <2> HIDE DEF step, n
  <2>2. QED
    BY <2>1 DEF LeftSolvable
<1>4. Solves(g)
  <2>1. ASSUME NEW s \in SUBSET (1 .. n), s # {}
        PROVE  g[s] = Keep(g[s \ {Max(s)}], q[Max(s)])
    <3>1. Max(s) \in 1 .. n /\ g[s \ {Max(s)}] \in V
      <4>1. Max(s) \in s
        BY <1>1, <2>1, MaxOf
      <4> HIDE DEF n
      <4>2. QED
        BY <1>3, <4>1
    <3>2. g[s] = step[<<Max(s), g[s \ {Max(s)}]>>]
      <4> HIDE DEF n, step
      <4> QED BY <1>3, <2>1
    <3>3. step[<<Max(s), g[s \ {Max(s)}]>>] = Keep(g[s \ {Max(s)}], q[Max(s)])
      <4> HIDE DEF n
      <4> QED BY <3>1
    <3>4. QED
      BY <3>2, <3>3
  <2>2. g[{}] = base
    <3> HIDE DEF n, step
    <3> QED BY <1>3
  <2>3. QED
    <3> HIDE DEF n, step
    <3> QED BY <1>1, <1>3, <2>1, <2>2
<1>5. FoldLeft(Keep, base, q) = (CHOOSE f : Solves(f))[DOMAIN q]
  BY Zenon DEF FoldLeft, MapThenFoldSet
<1>6. PICK f : f = (CHOOSE h : Solves(h)) /\ Solves(f)
  <2> HIDE DEF Solves
  <2> QED BY <1>4
<1>7. PICK r : r = [k \in 0 .. n |-> f[1 .. k]]
  OBVIOUS
<1> HIDE DEF n
<1>8. \A k \in 1 .. n : f[1 .. k] = Keep(f[1 .. (k - 1)], q[k])
  <2> TAKE k \in 1 .. n
  <2>1. Max(1 .. k) = k /\ (1 .. k) \ {k} = 1 .. (k - 1) /\ 1 .. k \in SUBSET (1 .. n) /\ 1 .. k # {}
    BY <1>1, PrefixMax
  <2>2. f[1 .. k] = Keep(f[(1 .. k) \ {Max(1 .. k)}], q[Max(1 .. k)])
    BY <1>1, <1>6, <2>1
  <2>3. QED
    BY <2>1, <2>2
<1>9. f[1 .. 0] = base
  <2>1. 1 .. 0 = {} /\ {} \in SUBSET DOMAIN q
    OBVIOUS
  <2>2. QED
    BY <1>6, <2>1
<1>10. r[0] = base /\ r[n] = FoldLeft(Keep, base, q)
  <2>1. r[n] = f[DOMAIN q]
    BY <1>1, <1>7
  <2>2. r[0] = f[1 .. 0]
    BY <1>1, <1>7
  <2>3. QED
    BY <1>5, <1>6, <1>9, <2>1, <2>2
<1>11. \A k \in 1 .. n : r[k] = f[1 .. k] /\ r[k - 1] = f[1 .. (k - 1)]
  <2> TAKE k \in 1 .. n
  <2>1. k \in 0 .. n /\ k - 1 \in 0 .. n
    BY <1>1
  <2>2. QED
    BY <1>7, <2>1
<1>12. QED
  BY <1>8, <1>10, <1>11 DEF KeepRun, n

\* Two facts of which the index lets only one in.
Alike(a, b) == a.id = b.id \/ Normal(a.text) = Normal(b.text)

\* What filter_new_facts promises of the facts seen so far.
Filtered(st, bank, seen) ==
    /\ ToSet(st.kept) \subseteq seen
    /\ st.index.ids = {f.id : f \in ToSet(bank) \cup ToSet(st.kept)}
    /\ st.index.texts = {Normal(f.text) : f \in ToSet(bank) \cup ToSet(st.kept)}
    /\ \A i, j \in DOMAIN st.kept : Alike(st.kept[i], st.kept[j]) => i = j
    /\ \A f \in ToSet(st.kept), b \in ToSet(bank) : ~Alike(f, b)
    /\ \A f \in seen \ ToSet(st.kept) : \E b \in ToSet(bank) \cup ToSet(st.kept) : Alike(f, b)

LEMMA DuplicateIsAlike ==
    ASSUME NEW fact, NEW index, NEW held,
           index.ids = {f.id : f \in held}, index.texts = {Normal(f.text) : f \in held}
    PROVE  Duplicate(fact, index) <=> \E f \in held : Alike(fact, f)
BY DEF Duplicate, Alike

LEMMA KeepFilters ==
    ASSUME NEW F, NEW bank \in Seq(F), NEW seen, NEW f, NEW st,
           st.kept \in Seq(F), Filtered(st, bank, seen)
    PROVE  Filtered(Keep(st, f), bank, seen \cup {f})
<1> DEFINE held == ToSet(bank) \cup ToSet(st.kept)
<1>1. Duplicate(f, st.index) <=> \E b \in held : Alike(f, b)
  <2> HIDE DEF held
  <2>1. st.index.ids = {b.id : b \in held} /\ st.index.texts = {Normal(b.text) : b \in held}
    BY DEF Filtered, held
  <2>2. QED
    BY <2>1, DuplicateIsAlike
<1>2. CASE Duplicate(f, st.index)
  <2>1. Keep(st, f) = st
    BY <1>2 DEF Keep
  <2>2. QED
    BY <1>1, <1>2, <2>1 DEF Filtered
<1>3. CASE ~Duplicate(f, st.index)
  <2>1. PICK after : after = Keep(st, f)
    OBVIOUS
  <2>2. PICK kept : kept = Append(st.kept, f)
    OBVIOUS
  <2>3. /\ after.kept = kept
        /\ after.index.ids = st.index.ids \cup {f.id}
        /\ after.index.texts = st.index.texts \cup {Normal(f.text)}
    BY <1>3, <2>1, <2>2 DEF Keep
  <2>4. /\ ToSet(kept) = ToSet(st.kept) \cup {f}
        /\ DOMAIN kept = DOMAIN st.kept \cup {Len(st.kept) + 1}
        /\ \A n \in DOMAIN st.kept : kept[n] = st.kept[n] /\ kept[n] \in ToSet(st.kept)
        /\ kept[Len(st.kept) + 1] = f
    BY <2>2, AppendToSet DEF ToSet
  <2>5. /\ after.index.ids = {b.id : b \in ToSet(bank) \cup ToSet(kept)}
        /\ after.index.texts = {Normal(b.text) : b \in ToSet(bank) \cup ToSet(kept)}
    BY <2>3, <2>4 DEF Filtered
  <2>6. \A b \in held : ~Alike(f, b) /\ ~Alike(b, f)
    BY <1>1, <1>3 DEF Alike
  <2>7. \A i, j \in DOMAIN kept : Alike(kept[i], kept[j]) => i = j
    BY <2>4, <2>6 DEF Filtered
  <2>8. \A g \in ToSet(kept), b \in ToSet(bank) : ~Alike(g, b)
    BY <2>4, <2>6 DEF Filtered
  <2>9. \A g \in (seen \cup {f}) \ ToSet(kept) : \E b \in ToSet(bank) \cup ToSet(kept) : Alike(g, b)
    BY <2>4 DEF Filtered
  <2>10. ToSet(kept) \subseteq seen \cup {f}
    BY <2>4 DEF Filtered
  <2>11. Filtered(after, bank, seen \cup {f})
    BY <2>3, <2>5, <2>7, <2>8, <2>9, <2>10 DEF Filtered
  <2>12. QED
    BY <2>1, <2>11
<1>4. QED
  BY <1>2, <1>3

\* What it promises of all the facts, with nothing said of the index.
Deduplicated(F, facts, bank) ==
    LET kept == NewFacts(facts, bank)
    IN  /\ kept \in Seq(F)
        /\ ToSet(kept) \subseteq ToSet(facts)
        /\ \A i, j \in DOMAIN kept : Alike(kept[i], kept[j]) => i = j
        /\ \A f \in ToSet(kept), b \in ToSet(bank) : ~Alike(f, b)
        /\ \A f \in ToSet(facts) \ ToSet(kept) :
              \E b \in ToSet(bank) \cup ToSet(kept) : Alike(f, b)

\* The states there can be.
KeepStates(F) ==
    [kept : Seq(F), index : [ids : SUBSET {f.id : f \in F}, texts : SUBSET {Normal(f.text) : f \in F}]]

LEMMA KeepTyped == ASSUME NEW F PROVE \A v \in KeepStates(F), f \in F : Keep(v, f) \in KeepStates(F)
<1> TAKE v \in KeepStates(F), f \in F
<1>1. CASE Duplicate(f, v.index)
  BY <1>1 DEF Keep
<1>2. CASE ~Duplicate(f, v.index)
  <2>1. Append(v.kept, f) \in Seq(F)
    BY DEF KeepStates
  <2>2. /\ v.index.ids \cup {f.id} \in SUBSET {g.id : g \in F}
        /\ v.index.texts \cup {Normal(f.text)} \in SUBSET {Normal(g.text) : g \in F}
    BY DEF KeepStates
  <2>3. QED
    BY <1>2, <2>1, <2>2 DEF Keep, KeepStates
<1>3. QED
  BY <1>1, <1>2

LEMMA BankTyped ==
    ASSUME NEW F, NEW bank \in Seq(F)
    PROVE  /\ [kept |-> <<>>, index |-> Index(bank)] \in KeepStates(F)
           /\ Filtered([kept |-> <<>>, index |-> Index(bank)], bank, {})
<1>1. DOMAIN bank = 1 .. Len(bank) /\ \A n \in DOMAIN bank : bank[n] \in F
  OBVIOUS
<1>2. <<>> \in Seq(F) /\ ToSet(<<>>) = {} /\ DOMAIN <<>> = {}
  BY DEF ToSet
<1>3. /\ Index(bank).ids = {f.id : f \in ToSet(bank)}
      /\ Index(bank).texts = {Normal(f.text) : f \in ToSet(bank)}
  BY DEF Index, ToSet
<1>4. ToSet(bank) \subseteq F
  BY <1>1 DEF ToSet
<1>5. [kept |-> <<>>, index |-> Index(bank)] \in KeepStates(F)
  <2>1. Index(bank) \in [ids : SUBSET {f.id : f \in F}, texts : SUBSET {Normal(f.text) : f \in F}]
    BY <1>1 DEF Index
  <2>2. QED
    BY <1>2, <2>1 DEF KeepStates
<1>6. QED
  BY <1>2, <1>3, <1>5 DEF Filtered

\* The facts up to a place.
Seen(facts, k) == {facts[m] : m \in 1 .. k}

\* So it is at every state of a run.
LEMMA RunFilters ==
    ASSUME NEW F, NEW bank \in Seq(F), NEW facts \in Seq(F),
           NEW r, KeepRun(facts, [kept |-> <<>>, index |-> Index(bank)], r)
    PROVE  \A k \in 0 .. Len(facts) :
               r[k] \in KeepStates(F) /\ Filtered(r[k], bank, Seen(facts, k))
<1>0. Len(facts) \in Nat /\ DOMAIN facts = 1 .. Len(facts) /\ \A n \in DOMAIN facts : facts[n] \in F
  OBVIOUS
<1> DEFINE P == {k \in Nat : k <= Len(facts) =>
                              r[k] \in KeepStates(F) /\ Filtered(r[k], bank, Seen(facts, k))}
<1>1. 0 \in P
  <2>1. Seen(facts, 0) = {}
    BY DEF Seen
  <2>2. QED
    BY <2>1, BankTyped DEF KeepRun
<1>2. ASSUME NEW k \in Nat, k \in P PROVE k + 1 \in P
  <2> SUFFICES ASSUME k + 1 <= Len(facts)
               PROVE  r[k + 1] \in KeepStates(F) /\ Filtered(r[k + 1], bank, Seen(facts, k + 1))
    OBVIOUS
  <2>1. k + 1 \in 1 .. Len(facts) /\ k <= Len(facts) /\ (k + 1) - 1 = k
    BY <1>0
  <2>2. r[k + 1] = Keep(r[k], facts[k + 1]) /\ facts[k + 1] \in F
    BY <1>0, <2>1 DEF KeepRun
  <2>3. r[k] \in KeepStates(F) /\ Filtered(r[k], bank, Seen(facts, k))
    BY <1>2, <2>1
  <2>4. r[k].kept \in Seq(F)
    BY <2>3 DEF KeepStates
  <2>5. Seen(facts, k + 1) = Seen(facts, k) \cup {facts[k + 1]}
    BY DEF Seen
  <2>6. r[k + 1] \in KeepStates(F)
    BY <2>2, <2>3, KeepTyped
  <2>7. Filtered(Keep(r[k], facts[k + 1]), bank, Seen(facts, k) \cup {facts[k + 1]})
    BY <2>3, <2>4, KeepFilters
  <2>8. QED
    BY <2>2, <2>5, <2>6, <2>7
<1>3. Nat \subseteq P
  <2> HIDE DEF P
  <2> QED BY <1>1, <1>2, Induction
<1>4. QED
  BY <1>0, <1>3

LEMMA NewFactsDeduplicated ==
    ASSUME NEW F, NEW bank \in Seq(F), NEW facts \in Seq(F)
    PROVE  Deduplicated(F, facts, bank)
<1> DEFINE base == [kept |-> <<>>, index |-> Index(bank)]
<1>0. Len(facts) \in Nat /\ DOMAIN facts = 1 .. Len(facts)
  OBVIOUS
<1>1. PICK r : KeepRun(facts, base, r)
  <2>1. base \in KeepStates(F)
    BY BankTyped
  <2> HIDE DEF base
  <2>2. QED
    BY <2>1, KeepTyped, KeepRunExists
<1>2. r[Len(facts)] \in KeepStates(F) /\ Filtered(r[Len(facts)], bank, Seen(facts, Len(facts)))
  BY <1>0, <1>1, RunFilters
<1>3. Seen(facts, Len(facts)) = ToSet(facts)
  BY <1>0 DEF Seen, ToSet
<1>4. NewFacts(facts, bank) = r[Len(facts)].kept
  BY <1>1 DEF NewFacts, KeepRun
<1>5. QED
  BY <1>2, <1>3, <1>4 DEF Deduplicated, Filtered, KeepStates

\* With the kept facts in the bank, a second run keeps nothing.
LEMMA RerunKeepsNothing ==
    ASSUME NEW F, NEW bank \in Seq(F), NEW facts \in Seq(F), NEW more \in Seq(F),
           \A f \in ToSet(facts) : \E b \in ToSet(more) : Alike(f, b)
    PROVE  NewFacts(facts, more) = <<>>
<1> DEFINE base == [kept |-> <<>>, index |-> Index(more)]
<1>0. Len(facts) \in Nat /\ DOMAIN facts = 1 .. Len(facts)
      /\ \A n \in DOMAIN facts : facts[n] \in F /\ facts[n] \in ToSet(facts)
  BY DEF ToSet
<1>1. PICK r : KeepRun(facts, base, r)
  <2>1. base \in KeepStates(F)
    BY BankTyped
  <2> HIDE DEF base
  <2>2. QED
    BY <2>1, KeepTyped, KeepRunExists
<1>2. ASSUME NEW f \in ToSet(facts) PROVE Keep(base, f) = base
  <2>1. /\ Index(more).ids = {b.id : b \in ToSet(more)}
        /\ Index(more).texts = {Normal(b.text) : b \in ToSet(more)}
    BY DEF Index, ToSet
  <2>2. Duplicate(f, Index(more))
    BY <2>1, DuplicateIsAlike
  <2>3. QED
    BY <2>2 DEF Keep
<1> HIDE DEF base
<1> DEFINE P == {k \in Nat : k <= Len(facts) => r[k] = base}
<1>3. 0 \in P
  BY <1>1 DEF KeepRun
<1>4. ASSUME NEW k \in Nat, k \in P PROVE k + 1 \in P
  <2> SUFFICES ASSUME k + 1 <= Len(facts) PROVE r[k + 1] = base
    OBVIOUS
  <2>1. k + 1 \in 1 .. Len(facts) /\ k <= Len(facts) /\ (k + 1) - 1 = k
    BY <1>0
  <2>2. r[k + 1] = Keep(r[k], facts[k + 1])
    BY <1>1, <2>1 DEF KeepRun
  <2>3. QED
    BY <1>0, <1>2, <1>4, <2>1, <2>2
<1>5. Nat \subseteq P
  <2> HIDE DEF P
  <2> QED BY <1>3, <1>4, Induction
<1>6. r[Len(facts)] = base
  BY <1>0, <1>5
<1>7. QED
  BY <1>1, <1>6 DEF NewFacts, KeepRun, base

\* What is kept stays kept.
LEMMA KeptGrows ==
    ASSUME NEW F, NEW facts \in Seq(F), NEW base, NEW r, KeepRun(facts, base, r),
           NEW k \in Nat, \A m \in 0 .. Len(facts) : r[m] \in KeepStates(F)
    PROVE  \A m \in k .. Len(facts) : ToSet(r[k].kept) \subseteq ToSet(r[m].kept)
<1> DEFINE P == {j \in Nat : k + j <= Len(facts) => ToSet(r[k].kept) \subseteq ToSet(r[k + j].kept)}
<1>1. 0 \in P
  OBVIOUS
<1>2. ASSUME NEW j \in Nat, j \in P PROVE j + 1 \in P
  <2> SUFFICES ASSUME k + (j + 1) <= Len(facts)
               PROVE  ToSet(r[k].kept) \subseteq ToSet(r[k + (j + 1)].kept)
    OBVIOUS
  <2>1. PICK m \in Nat : m = k + j
    OBVIOUS
  <2>2. k + (j + 1) = m + 1 /\ m + 1 \in 1 .. Len(facts) /\ m \in 0 .. Len(facts) /\ (m + 1) - 1 = m
    BY <2>1
  <2>3. r[m + 1] = Keep(r[m], facts[m + 1]) /\ facts[m + 1] \in F
    BY <2>2 DEF KeepRun
  <2>4. r[m].kept \in Seq(F)
    BY <2>2 DEF KeepStates
  <2>5. ToSet(r[m].kept) \subseteq ToSet(r[m + 1].kept)
    <3>1. CASE Duplicate(facts[m + 1], r[m].index)
      BY <2>3, <3>1 DEF Keep
    <3>2. CASE ~Duplicate(facts[m + 1], r[m].index)
      <4>1. r[m + 1].kept = Append(r[m].kept, facts[m + 1])
        BY <2>3, <3>2 DEF Keep
      <4>2. QED
        BY <2>4, <4>1, AppendToSet
    <3>3. QED
      BY <3>1, <3>2
  <2>6. ToSet(r[k].kept) \subseteq ToSet(r[m].kept)
    BY <1>2, <2>1, <2>2
  <2>7. QED
    BY <2>2, <2>5, <2>6
<1>3. Nat \subseteq P
  <2> HIDE DEF P
  <2> QED BY <1>1, <1>2, Induction
<1>4. QED
  <2> TAKE m \in k .. Len(facts)
  <2>1. PICK j \in Nat : j = m - k /\ k + j = m
    OBVIOUS
  <2>2. j \in P /\ Len(facts) \in Nat /\ m <= Len(facts)
    BY <1>3, <2>1
  <2>3. QED
    BY <2>1, <2>2

\* With some of the kept facts listed, a second run keeps the others again.
LEMMA RerunKeepsTheRest ==
    ASSUME NEW F, NEW facts \in Seq(F), NEW listing \in Seq(F),
           ToSet(listing) \subseteq ToSet(NewFacts(facts, <<>>))
    PROVE  ToSet(NewFacts(facts, listing)) = ToSet(NewFacts(facts, <<>>)) \ ToSet(listing)
<1> DEFINE base == [kept |-> <<>>, index |-> Index(<<>>)]
           later == [kept |-> <<>>, index |-> Index(listing)]
           L == ToSet(listing)
           K == ToSet(NewFacts(facts, <<>>))
<1>0. /\ Len(facts) \in Nat /\ DOMAIN facts = 1 .. Len(facts) /\ \A n \in DOMAIN facts : facts[n] \in F
      /\ <<>> \in Seq(F) /\ ToSet(<<>>) = {}
  BY EmptySeq DEF ToSet
<1>1. PICK r : KeepRun(facts, base, r)
  <2>1. base \in KeepStates(F)
    BY <1>0, BankTyped
  <2> HIDE DEF base
  <2>2. QED
    BY <2>1, KeepTyped, KeepRunExists
<1>2. PICK s : KeepRun(facts, later, s)
  <2>1. later \in KeepStates(F)
    BY BankTyped
  <2> HIDE DEF later
  <2>2. QED
    BY <2>1, KeepTyped, KeepRunExists
<1>3. \A k \in 0 .. Len(facts) :
          /\ r[k] \in KeepStates(F) /\ Filtered(r[k], <<>>, Seen(facts, k))
          /\ s[k] \in KeepStates(F) /\ Filtered(s[k], listing, Seen(facts, k))
  BY <1>0, <1>1, <1>2, RunFilters
<1>4. K = ToSet(r[Len(facts)].kept) /\ ToSet(NewFacts(facts, listing)) = ToSet(s[Len(facts)].kept)
  BY <1>1, <1>2 DEF NewFacts, KeepRun
<1>5. \A f, g \in K : Alike(f, g) => f = g
  <2>1. Len(facts) \in 0 .. Len(facts)
    BY <1>0
  <2>2. \A i, j \in DOMAIN r[Len(facts)].kept :
            Alike(r[Len(facts)].kept[i], r[Len(facts)].kept[j]) => i = j
    BY <1>3, <2>1 DEF Filtered
  <2>3. QED
    BY <1>4, <2>2 DEF ToSet
<1>6. \A k \in 0 .. Len(facts) : ToSet(r[k].kept) \subseteq K
  <2> TAKE k \in 0 .. Len(facts)
  <2>1. k \in Nat /\ Len(facts) \in k .. Len(facts)
    BY <1>0
  <2> HIDE DEF base, K
  <2>2. QED
    BY <1>1, <1>3, <1>4, <2>1, KeptGrows
<1> DEFINE P == {k \in Nat : k <= Len(facts) => ToSet(s[k].kept) = ToSet(r[k].kept) \ L}
<1>7. 0 \in P
  BY <1>0, <1>1, <1>2 DEF KeepRun
<1>8. ASSUME NEW k \in Nat, k \in P PROVE k + 1 \in P
  <2> SUFFICES ASSUME k + 1 <= Len(facts) PROVE ToSet(s[k + 1].kept) = ToSet(r[k + 1].kept) \ L
    OBVIOUS
  <2>1. k + 1 \in 1 .. Len(facts) /\ k \in 0 .. Len(facts) /\ k + 1 \in 0 .. Len(facts) /\ (k + 1) - 1 = k
    BY <1>0
  <2>2. PICK f : f = facts[k + 1]
    OBVIOUS
  <2>3. r[k + 1] = Keep(r[k], f) /\ s[k + 1] = Keep(s[k], f)
    BY <1>1, <1>2, <2>1, <2>2 DEF KeepRun
  <2>4. ToSet(s[k].kept) = ToSet(r[k].kept) \ L
    BY <1>8, <2>1
  <2>5. /\ Duplicate(f, r[k].index) <=> \E b \in ToSet(r[k].kept) : Alike(f, b)
        /\ Duplicate(f, s[k].index) <=> \E b \in L \cup ToSet(s[k].kept) : Alike(f, b)
    <3>1. /\ r[k].index.ids = {b.id : b \in ToSet(r[k].kept)}
          /\ r[k].index.texts = {Normal(b.text) : b \in ToSet(r[k].kept)}
      BY <1>0, <1>3, <2>1 DEF Filtered
    <3>2. /\ s[k].index.ids = {b.id : b \in L \cup ToSet(s[k].kept)}
          /\ s[k].index.texts = {Normal(b.text) : b \in L \cup ToSet(s[k].kept)}
      BY <1>3, <2>1 DEF Filtered
    <3> HIDE DEF L
    <3>3. QED
      BY <3>1, <3>2, DuplicateIsAlike
  <2>6. r[k].kept \in Seq(F) /\ s[k].kept \in Seq(F)
    BY <1>3, <2>1 DEF KeepStates
  <2>7. L \subseteq K
    OBVIOUS
  <2> HIDE DEF L, K
  <2>8. CASE Duplicate(f, r[k].index)
    <3>1. Duplicate(f, s[k].index)
      BY <2>4, <2>5, <2>8
    <3>2. QED
      BY <2>3, <2>4, <2>8, <3>1 DEF Keep
  <2>9. CASE ~Duplicate(f, r[k].index)
    <3>1. r[k + 1].kept = Append(r[k].kept, f)
      BY <2>3, <2>9 DEF Keep
    <3>2. ToSet(r[k + 1].kept) = ToSet(r[k].kept) \cup {f}
      BY <2>6, <3>1, AppendToSet
    <3>3. f \in K
      BY <1>6, <2>1, <3>2
    <3>4. Alike(f, f)
      BY DEF Alike
    <3>5. CASE f \in L
      <4>1. Duplicate(f, s[k].index)
        BY <2>5, <3>4, <3>5
      <4>2. QED
        BY <2>3, <2>4, <3>2, <3>5, <4>1 DEF Keep
    <3>6. CASE f \notin L
      <4>1. ~Duplicate(f, s[k].index)
        BY <1>5, <2>4, <2>5, <2>7, <2>9, <3>3, <3>6
      <4>2. s[k + 1].kept = Append(s[k].kept, f)
        BY <2>3, <4>1 DEF Keep
      <4>3. ToSet(s[k + 1].kept) = ToSet(s[k].kept) \cup {f}
        BY <2>6, <4>2, AppendToSet
      <4>4. QED
        BY <2>4, <3>2, <3>6, <4>3
    <3>7. QED
      BY <3>5, <3>6
  <2>10. QED
    BY <2>8, <2>9
<1>9. Nat \subseteq P
  <2> HIDE DEF P
  <2> QED BY <1>7, <1>8, Induction
<1>10. QED
  BY <1>0, <1>4, <1>9

\* The key of the index tells apart exactly what says something else.
LEMMA AlikeIsClash == ASSUME NEW a, NEW b PROVE Alike(a, b) <=> Clash(a, b)
BY DEF Alike, Clash, Normal, SameText

\* What is kept is new, all that is new is kept once, and a re-run adds nothing,
\* whatever the bank held.
THEOREM DedupSoundAlways == Spec => []DedupSound
<1>1. ASSUME Typed, task = "dedup", NEW n \in 0 .. Len(input)
      PROVE  KeptIsNew(SubSeq(input, n + 1, Len(input)), SubSeq(input, 1, n))
  <2> DEFINE bank == SubSeq(input, 1, n)
             facts == SubSeq(input, n + 1, Len(input))
             kept == NewFacts(facts, bank)
  <2> DEFINE F == Inputs["dedup"]
  <2>1. input \in Seq(F) /\ Len(input) \in Nat
    BY <1>1 DEF Typed
  <2>2. bank \in Seq(F) /\ facts \in Seq(F)
    <3> HIDE DEF F
    <3> QED BY <2>1, PartTyped
  <2> HIDE DEF bank, facts
  <2>3. Deduplicated(F, facts, bank)
    <3> HIDE DEF F
    <3> QED BY <2>2, NewFactsDeduplicated
  <2>4. /\ kept \in Seq(F) /\ ToSet(kept) \subseteq ToSet(facts)
        /\ \A i, j \in DOMAIN kept : Alike(kept[i], kept[j]) => i = j
        /\ \A f \in ToSet(kept), b \in ToSet(bank) : ~Alike(f, b)
        /\ \A f \in ToSet(facts) \ ToSet(kept) :
              \E b \in ToSet(bank) \cup ToSet(kept) : Alike(f, b)
    BY <2>3 DEF Deduplicated
  <2>5. \A f, g \in F : Alike(f, g) <=> Clash(f, g)
    BY AlikeIsClash
  <2>6. ToSet(bank) \subseteq F /\ ToSet(facts) \subseteq F
    BY <2>2 DEF ToSet
  <2>7. \A i \in DOMAIN kept : kept[i] \in F
    BY <2>4
  <2>8. NewFacts(facts, bank \o kept) = <<>>
    <3>1. bank \o kept \in Seq(F) /\ ToSet(bank \o kept) = ToSet(bank) \cup ToSet(kept)
      <4> HIDE DEF F
      <4> QED BY <2>2, <2>4, JoinedSet
    <3>2. \A f \in ToSet(facts) : \E b \in ToSet(bank \o kept) : Alike(f, b)
      <4>1. \A f \in ToSet(kept) : Alike(f, f)
        BY DEF Alike
      <4>2. QED
        BY <2>4, <3>1, <4>1
    <3> HIDE DEF F
    <3>3. QED
      BY <2>2, <3>1, <3>2, RerunKeepsNothing
  <2>9. /\ \A i, j \in DOMAIN kept : Clash(kept[i], kept[j]) => i = j
        /\ \A f \in ToSet(kept), b \in ToSet(bank) : ~Clash(f, b)
        /\ \A f \in ToSet(facts) \ ToSet(kept) : \E b \in ToSet(bank) \cup ToSet(kept) : Clash(f, b)
    <3> HIDE DEF F, kept
    <3> QED BY <2>4, <2>5, <2>6, <2>7
  <2>10. KeptIsNew(facts, bank)
    BY <2>8, <2>9, Zenon DEF KeptIsNew
  <2>11. QED
    BY <2>10 DEF facts, bank
<1>2. Typed => DedupSound
  BY <1>1 DEF DedupSound
<1>3. QED
  BY <1>2, TypedAlways, PTL

-----------------------------------------------------------------------------
\* The agenda of memory.py.

\* How a list is arranged: which places of the old one, in which order.
Arranges(order, S, items, bucket) ==
    /\ order \in [1 .. Cardinality(S) -> S]
    /\ \A i, j \in 1 .. Cardinality(S) : order[i] = order[j] => i = j
    /\ \A s \in S : \E i \in 1 .. Cardinality(S) : order[i] = s
    /\ \A i, j \in 1 .. Cardinality(S) :
          i < j => Key(bucket, items[order[i]]) <= Key(bucket, items[order[j]])
    /\ Sorted(items, S, bucket) = [i \in 1 .. Cardinality(S) |-> items[order[i]]]

InOrder(S, items, bucket) == \E order : Arranges(order, S, items, bucket)

LEMMA SortedArranges ==
    ASSUME NEW S, IsFiniteSet(S), S \subseteq Nat, NEW items, NEW bucket,
           \A n \in S : Key(bucket, items[n]) \in Nat
    PROVE  InOrder(S, items, bucket)
<1>1. PICK key : key = [n \in S |-> Key(bucket, items[n])]
  OBVIOUS
<1>2. key \in [S -> Nat]
  BY <1>1
<1>3. PICK R : R = {p \in S \X S : key[p[1]] < key[p[2]] \/ (key[p[1]] = key[p[2]] /\ p[1] < p[2])}
  OBVIOUS
<1>4. Orders(R, S)
  <2>1. \A a \in S : <<a, a>> \notin R
    BY <1>2, <1>3
  <2>2. \A a, b \in S : a # b => <<a, b>> \in R \/ <<b, a>> \in R
    <3> SUFFICES ASSUME NEW a \in S, NEW b \in S, a # b PROVE <<a, b>> \in R \/ <<b, a>> \in R
      OBVIOUS
    <3>1. key[a] \in Nat /\ key[b] \in Nat /\ a \in Nat /\ b \in Nat
      BY <1>2
    <3>2. (key[a] < key[b] \/ (key[a] = key[b] /\ a < b)) \/ (key[b] < key[a] \/ (key[b] = key[a] /\ b < a))
      BY <3>1
    <3>3. QED
      BY <1>3, <3>2
  <2>3. \A a, b, c \in S : <<a, b>> \in R /\ <<b, c>> \in R => <<a, c>> \in R
    <3> SUFFICES ASSUME NEW a \in S, NEW b \in S, NEW c \in S, <<a, b>> \in R, <<b, c>> \in R
                 PROVE  <<a, c>> \in R
      OBVIOUS
    <3>1. key[a] \in Nat /\ key[b] \in Nat /\ key[c] \in Nat /\ a \in Nat /\ b \in Nat /\ c \in Nat
      BY <1>2
    <3>2. /\ key[a] < key[b] \/ (key[a] = key[b] /\ a < b)
          /\ key[b] < key[c] \/ (key[b] = key[c] /\ b < c)
      BY <1>3
    <3>3. key[a] < key[c] \/ (key[a] = key[c] /\ a < c)
      BY <3>1, <3>2
    <3>4. QED
      BY <1>3, <3>3
  <2>4. QED
    BY <2>1, <2>2, <2>3 DEF Orders
<1> DEFINE Before(i, j) == LET a == Key(bucket, items[i]) b == Key(bucket, items[j])
                           IN  a < b \/ (a = b /\ i < j)
           Lists(f) == \A i, j \in 1 .. Cardinality(S) : i < j => Before(f[i], f[j])
<1>5. \A a, b \in S : Before(a, b) <=> <<a, b>> \in R
  BY <1>1, <1>3
<1>6. PICK order : order = CHOOSE f \in [1 .. Cardinality(S) -> S] : Lists(f)
  OBVIOUS
<1>7. Sorted(items, S, bucket) = [i \in 1 .. Cardinality(S) |-> items[order[i]]]
  <2>1. Sorted(items, S, bucket) =
            [n \in 1 .. Cardinality(S) |->
                items[(CHOOSE f \in [1 .. Cardinality(S) -> S] : Lists(f))[n]]]
    BY Zenon DEF Sorted, Arranged, Enumeration
  <2> HIDE DEF Lists
  <2>2. QED
    BY <1>6, <2>1
<1> HIDE DEF Before
<1>8. \E f \in [1 .. Cardinality(S) -> S] : Lists(f)
  <2>1. PICK f \in [1 .. Cardinality(S) -> S] : Ordered(f, Cardinality(S), R)
    BY <1>4, EnumerationExists
  <2>2. Lists(f)
    BY <1>5, <2>1 DEF Ordered
  <2>3. QED
    BY <2>2
<1>9. order \in [1 .. Cardinality(S) -> S] /\ Lists(order)
  <2> HIDE DEF Lists
  <2> QED BY <1>6, <1>8
<1>10. Ordered(order, Cardinality(S), R)
  BY <1>5, <1>9 DEF Ordered
<1>11. /\ \A i, j \in 1 .. Cardinality(S) : order[i] = order[j] => i = j
       /\ \A s \in S : \E i \in 1 .. Cardinality(S) : order[i] = s
  <2>1. order \in [1 .. Cardinality(S) -> S]
    BY <1>9
  <2>2. QED
    BY <1>4, <1>10, <2>1, OrderedIsBijective, FS_CardinalityType
<1>12. ASSUME NEW i \in 1 .. Cardinality(S), NEW j \in 1 .. Cardinality(S), i < j
       PROVE  Key(bucket, items[order[i]]) <= Key(bucket, items[order[j]])
  <2>1. order[i] \in S /\ order[j] \in S /\ <<order[i], order[j]>> \in R
    BY <1>9, <1>10, <1>12 DEF Ordered
  <2>2. key[order[i]] < key[order[j]] \/ key[order[i]] = key[order[j]]
    BY <1>3, <2>1
  <2>3. key[order[i]] \in Nat /\ key[order[j]] \in Nat
    BY <1>2, <2>1
  <2>4. key[order[i]] <= key[order[j]]
    BY <2>2, <2>3
  <2>5. QED
    BY <1>1, <2>1, <2>4
<1>13. QED
  BY <1>7, <1>9, <1>11, <1>12 DEF InOrder, Arranges

Calendar == 0 .. BadDate

LEMMA DateOf ==
    ASSUME NEW rec \in Inputs["agenda"], NEW key \in {"due_at", "revisit_at"}
    PROVE  Get(Metadata(rec), key, NoDate) \in Calendar
<1>0. NoDate \in Calendar
  BY AgendaAssumption DEF Calendar, NoDate, BadDate
<1>1. \A meta \in {rec.nested, rec.flat} : key \in DOMAIN meta => meta[key] \in Calendar
  BY InputAssumption DEF IsDate, Calendar
<1>2. PICK meta : meta = Metadata(rec)
  OBVIOUS
<1>3. DOMAIN meta = DOMAIN rec.nested \cup DOMAIN rec.flat
  BY <1>2 DEF Metadata
<1>4. ASSUME key \in DOMAIN meta PROVE meta[key] \in Calendar
  <2>1. meta[key] = IF key \in DOMAIN rec.nested THEN rec.nested[key]
                    ELSE IF key \in DOMAIN rec.flat THEN rec.flat[key] ELSE ""
    BY <1>2, <1>3, <1>4 DEF Metadata, Get
  <2>2. QED
    BY <1>1, <1>3, <1>4, <2>1
<1>5. QED
  BY <1>0, <1>2, <1>4 DEF Get

IsItem(item) == item.due \in Calendar /\ item.revisit \in Calendar

LEMMA ItemOf ==
    ASSUME NEW n \in DOMAIN input, input[n] \in Inputs["agenda"]
    PROVE  AsOpenItem(input, n).id = n /\ IsItem(AsOpenItem(input, n))
BY DateOf DEF AsOpenItem, IsItem

LEMMA KeyTyped ==
    ASSUME NEW bucket, NEW item, IsItem(item)
    PROVE  Key(bucket, item) \in Nat
<1>1. \A value \in Calendar : SortKey(value) \in Nat
  BY AgendaAssumption DEF Calendar, SortKey, Dated, NoDate, BadDate
<1>2. Either(item) \in Calendar /\ Never \in Nat
  BY AgendaAssumption DEF Either, IsItem
<1>3. SortKey(item.due) \in Nat /\ SortKey(item.revisit) \in Nat /\ SortKey(Either(item)) \in Nat
  BY <1>1, <1>2 DEF IsItem
<1>4. QED
  BY <1>2, <1>3 DEF Key

\* The open items are the records shown, in the order of the listing.
Lists(items, order) ==
    LET S == {n \in DOMAIN input : Shown(input[n], FALSE)}
    IN  /\ order \in [DOMAIN items -> S] /\ DOMAIN items = 1 .. Len(items) /\ Len(items) \in Nat
        /\ \A i, j \in DOMAIN items : order[i] = order[j] => i = j
        /\ \A s \in S : \E i \in DOMAIN items : order[i] = s
        /\ \A i \in DOMAIN items : items[i] = AsOpenItem(input, order[i])

LEMMA ItemsListed ==
    ASSUME Typed, task = "agenda"
    PROVE  \E order : Lists(OpenItems(input, FALSE), order)
<1> DEFINE S == {n \in DOMAIN input : Shown(input[n], FALSE)}
           all == [n \in DOMAIN input |-> AsOpenItem(input, n)]
<1>1. DOMAIN input = 1 .. Len(input) /\ Len(input) \in Nat
  BY InputsOf
<1>2. IsFiniteSet(S) /\ S \subseteq Nat /\ S \subseteq DOMAIN input
  <2>1. S \subseteq 1 .. Len(input)
    BY <1>1
  <2>2. IsFiniteSet(1 .. Len(input))
    BY <1>1, FS_Interval
  <2> HIDE DEF S
  <2>3. IsFiniteSet(S)
    BY <2>1, <2>2, FS_Subset
  <2>4. QED
    BY <1>1, <2>1, <2>3
<1>3. Cardinality(S) \in Nat
  BY <1>2, FS_CardinalityType
<1>4. OpenItems(input, FALSE) = Arranged(all, S, <)
  BY DEF OpenItems
<1> HIDE DEF S
<1>5. PICK order \in [1 .. Cardinality(S) -> S] :
              /\ \A i, j \in 1 .. Cardinality(S) : i < j => order[i] < order[j]
              /\ \A s \in S : \E i \in 1 .. Cardinality(S) : order[i] = s
              /\ Arranged(all, S, <) = [i \in 1 .. Cardinality(S) |-> all[order[i]]]
  <2>1. PICK order : order = Enumeration(S, <)
    OBVIOUS
  <2>2. /\ order \in [1 .. Cardinality(S) -> S]
        /\ \A i, j \in 1 .. Cardinality(S) : i < j => order[i] < order[j]
        /\ \A s \in S : \E i \in 1 .. Cardinality(S) : order[i] = s
    BY <1>2, <2>1, AscendingEnumeration
  <2> HIDE DEF all
  <2>3. Arranged(all, S, <) = [i \in 1 .. Cardinality(S) |-> all[Enumeration(S, <)[i]]]
    BY Zenon DEF Arranged
  <2>4. QED
    BY <2>1, <2>2, <2>3
<1>6. PICK items : items = OpenItems(input, FALSE)
  OBVIOUS
<1>7. items = [i \in 1 .. Cardinality(S) |-> all[order[i]]]
  BY <1>4, <1>5, <1>6
<1>8. \A i \in 1 .. Cardinality(S) : items[i] = AsOpenItem(input, order[i])
  BY <1>2, <1>5, <1>7
<1>9. Len(items) = Cardinality(S) /\ DOMAIN items = 1 .. Cardinality(S)
  <2>1. DOMAIN items = 1 .. Cardinality(S) /\ items = [i \in 1 .. Cardinality(S) |-> items[i]]
    BY <1>7
  <2>2. QED
    BY <1>3, <2>1, LenOfFunction
<1>10. ASSUME NEW i \in 1 .. Cardinality(S), NEW j \in 1 .. Cardinality(S), order[i] = order[j] PROVE i = j
  <2>1. CASE i < j
    <3>1. order[i] < order[j] /\ order[i] \in Nat
      BY <1>2, <1>5, <2>1
    <3>2. QED
      BY <1>10, <3>1
  <2>2. CASE j < i
    <3>1. order[j] < order[i] /\ order[i] \in Nat
      BY <1>2, <1>5, <2>2
    <3>2. QED
      BY <1>10, <3>1
  <2>3. QED
    BY <1>3, <2>1, <2>2
<1>11. Lists(items, order)
  BY <1>3, <1>5, <1>8, <1>9, <1>10 DEF Lists, S
<1>12. QED
  BY <1>6, <1>11

LEMMA BucketOfIsBucket == ASSUME NEW item PROVE BucketOf(item) \in Buckets
BY DEF BucketOf, Buckets

\* One list of the agenda.
LEMMA BucketListed ==
    ASSUME NEW items, NEW bucket, DOMAIN items = 1 .. Len(items), Len(items) \in Nat,
           \A i \in DOMAIN items : IsItem(items[i])
    PROVE  /\ \A k \in DOMAIN Bucket(items, bucket) : \E i \in DOMAIN items :
                 BucketOf(items[i]) = bucket /\ Bucket(items, bucket)[k] = items[i]
           /\ \A i \in DOMAIN items : BucketOf(items[i]) = bucket =>
                 \E k \in DOMAIN Bucket(items, bucket) :
                    k \in 1 .. Len(items) /\ Bucket(items, bucket)[k] = items[i]
           /\ \A k, l \in DOMAIN Bucket(items, bucket) :
                 (\A i, j \in DOMAIN items : items[i] = items[j] => i = j)
                    /\ Bucket(items, bucket)[k] = Bucket(items, bucket)[l] => k = l
<1> DEFINE S == {n \in DOMAIN items : BucketOf(items[n]) = bucket}
<1>1. S \subseteq 1 .. Len(items) /\ S \subseteq Nat
  OBVIOUS
<1>2. Bucket(items, bucket) = Sorted(items, S, bucket)
  BY DEF Bucket
<1>3. \A n \in S : Key(bucket, items[n]) \in Nat
  BY KeyTyped
<1>4. \A n \in DOMAIN items : n \in S <=> BucketOf(items[n]) = bucket
  OBVIOUS
<1> HIDE DEF S
<1>5. IsFiniteSet(S) /\ Cardinality(S) \in Nat /\ Cardinality(S) <= Len(items)
  <2>1. IsFiniteSet(1 .. Len(items)) /\ Cardinality(1 .. Len(items)) = Len(items)
    <3>1. PICK n \in Nat : n = Len(items)
      OBVIOUS
    <3>2. IsFiniteSet(1 .. n) /\ Cardinality(1 .. n) = n
      BY FS_Interval
    <3>3. QED
      BY <3>1, <3>2
  <2>2. IsFiniteSet(S) /\ Cardinality(S) <= Cardinality(1 .. Len(items))
    BY <1>1, <2>1, FS_Subset
  <2>3. QED
    BY <2>1, <2>2, FS_CardinalityType
<1>6. PICK order : Arranges(order, S, items, bucket)
  <2>1. InOrder(S, items, bucket)
    BY <1>1, <1>3, <1>5, SortedArranges
  <2>2. QED
    BY <2>1 DEF InOrder
<1>7. PICK list : list = Bucket(items, bucket)
  OBVIOUS
<1>8. /\ list = [i \in 1 .. Cardinality(S) |-> items[order[i]]]
      /\ order \in [1 .. Cardinality(S) -> S]
      /\ \A i, j \in 1 .. Cardinality(S) : order[i] = order[j] => i = j
      /\ \A s \in S : \E i \in 1 .. Cardinality(S) : order[i] = s
  BY <1>2, <1>6, <1>7 DEF Arranges
<1>9. DOMAIN list = 1 .. Cardinality(S) /\ \A k \in DOMAIN list : order[k] \in S /\ list[k] = items[order[k]]
  BY <1>8
<1>10. \A i \in DOMAIN items : BucketOf(items[i]) = bucket =>
            \E k \in DOMAIN list : k \in 1 .. Len(items) /\ list[k] = items[i]
  <2> SUFFICES ASSUME NEW i \in DOMAIN items, BucketOf(items[i]) = bucket
               PROVE  \E k \in DOMAIN list : k \in 1 .. Len(items) /\ list[k] = items[i]
    OBVIOUS
  <2>1. PICK k \in 1 .. Cardinality(S) : order[k] = i
    BY <1>4, <1>8
  <2>2. k \in 1 .. Len(items)
    BY <1>5
  <2>3. QED
    BY <1>9, <2>1, <2>2
<1>11. \A k \in DOMAIN list : \E i \in DOMAIN items : BucketOf(items[i]) = bucket /\ list[k] = items[i]
  BY <1>1, <1>4, <1>9
<1>12. \A k, l \in DOMAIN list : (\A i, j \in DOMAIN items : items[i] = items[j] => i = j)
                                    /\ list[k] = list[l] => k = l
  <2> SUFFICES ASSUME NEW k \in DOMAIN list, NEW l \in DOMAIN list,
                      \A i, j \in DOMAIN items : items[i] = items[j] => i = j, list[k] = list[l]
               PROVE  k = l
    OBVIOUS
  <2>1. order[k] = order[l]
    BY <1>1, <1>9
  <2>2. QED
    BY <1>8, <1>9, <2>1
<1>13. QED
  BY <1>7, <1>10, <1>11, <1>12

\* What is due is in a list an operator acts on.
LEMMA DueIsActed ==
    ASSUME NEW item, IsItem(item), NEW date \in {item.due, item.revisit}, date \in 1 .. Today
    PROVE  BucketOf(item) \in Acted
<1>1. Dated(date) /\ date <= Today /\ Today \in Nat
  BY AgendaAssumption DEF Dated, NoDate, BadDate
<1>2. Due(item) \/ RevisitDue(item)
  BY <1>1 DEF Due, RevisitDue
<1>3. QED
  BY <1>2 DEF BucketOf, Acted

LEMMA EveryRecordShownOnce ==
    ASSUME NEW items, NEW order, Lists(items, order), NEW n \in DOMAIN input,
           \A i \in DOMAIN input : AsOpenItem(input, i).id = i /\ IsItem(AsOpenItem(input, i))
    PROVE  ShownOnce(items, n)
<1> DEFINE S == {i \in DOMAIN input : Shown(input[i], FALSE)}
<1>1. /\ order \in [DOMAIN items -> S] /\ DOMAIN items = 1 .. Len(items) /\ Len(items) \in Nat
      /\ \A i, j \in DOMAIN items : order[i] = order[j] => i = j
      /\ \A s \in S : \E i \in DOMAIN items : order[i] = s
      /\ \A i \in DOMAIN items : items[i] = AsOpenItem(input, order[i])
  BY DEF Lists
<1>2. S \subseteq DOMAIN input /\ (n \in S <=> Shown(input[n], FALSE))
  OBVIOUS
<1> HIDE DEF S
<1>3. \A i \in DOMAIN items : IsItem(items[i]) /\ items[i].id = order[i]
  BY <1>1, <1>2
<1>4. \A i, j \in DOMAIN items : items[i] = items[j] => i = j
  BY <1>1, <1>3
<1>5. ASSUME NEW p \in Places(items, n)
      PROVE  \E i \in DOMAIN items : /\ order[i] = n /\ p[1] = BucketOf(items[i])
                                     /\ Bucket(items, p[1])[p[2]] = items[i]
  <2>1. p[2] \in DOMAIN Bucket(items, p[1]) /\ Bucket(items, p[1])[p[2]].id = n
    BY DEF Places
  <2>2. PICK i \in DOMAIN items : BucketOf(items[i]) = p[1] /\ Bucket(items, p[1])[p[2]] = items[i]
    BY <1>1, <1>3, <2>1, BucketListed
  <2>3. QED
    BY <1>3, <2>1, <2>2
<1>6. CASE n \in S
  <2>1. PICK i \in DOMAIN items : order[i] = n
    BY <1>1, <1>6
  <2> DEFINE b == BucketOf(items[i])
  <2>2. b \in Buckets /\ IsItem(items[i])
    BY <1>3, BucketOfIsBucket
  <2>3. PICK k \in DOMAIN Bucket(items, b) : k \in 1 .. Len(items) /\ Bucket(items, b)[k] = items[i]
    BY <1>1, <1>3, BucketListed
  <2>4. <<b, k>> \in Places(items, n)
    BY <1>3, <2>1, <2>2, <2>3 DEF Places
  <2>5. ASSUME NEW p \in Places(items, n) PROVE p = <<b, k>>
    <3>1. PICK j \in DOMAIN items : /\ order[j] = n /\ p[1] = BucketOf(items[j])
                                    /\ Bucket(items, p[1])[p[2]] = items[j]
      BY <1>5
    <3>2. i = j
      BY <1>1, <2>1, <3>1
    <3>3. p[1] = b /\ p[2] \in DOMAIN Bucket(items, b) /\ Bucket(items, b)[p[2]] = items[i]
      BY <3>1, <3>2 DEF Places
    <3>4. p[2] = k
      <4>1. PICK list : list = Bucket(items, b)
        OBVIOUS
      <4>2. \A l, m \in DOMAIN list : list[l] = list[m] => l = m
        <5> HIDE DEF b
        <5> QED BY <1>1, <1>3, <1>4, <4>1, BucketListed
      <4> HIDE DEF b
      <4>3. QED
        BY <2>3, <3>3, <4>1, <4>2
    <3>5. QED
      BY <3>3, <3>4 DEF Places
  <2>6. Places(items, n) = {<<b, k>>}
    BY <2>4, <2>5
  <2>7. items[i] = AsOpenItem(input, n)
    BY <1>1, <2>1
  <2>8. ASSUME NEW date \in {AsOpenItem(input, n).due, AsOpenItem(input, n).revisit}, date \in 1 .. Today
        PROVE  b \in Acted
    BY <2>2, <2>7, <2>8, DueIsActed
  <2>9. PICK p : p = <<b, k>>
    OBVIOUS
  <2>10. /\ p \in Places(items, n) /\ Places(items, n) = {p}
         /\ (\E date \in {AsOpenItem(input, n).due, AsOpenItem(input, n).revisit} :
                date \in 1 .. Today) => p[1] \in Acted
    BY <2>4, <2>6, <2>8, <2>9
  <2>11. QED
    BY <1>2, <1>6, <2>10 DEF ShownOnce
<1>7. CASE n \notin S
  <2>1. Places(items, n) = {}
    BY <1>1, <1>5, <1>7
  <2>2. QED
    BY <1>2, <1>7, <2>1 DEF ShownOnce
<1>8. QED
  BY <1>6, <1>7

\* The three lists of the board a key tells apart.
LEMMA KeyOfBucket ==
    ASSUME NEW item, IsItem(item)
    PROVE  /\ BucketOf(item) = "overdue" => Key("board", item) < Today
           /\ BucketOf(item) = "due_today" => Key("board", item) = Today
           /\ BucketOf(item) = "upcoming" => Key("board", item) > Today
<1>1. /\ Today \in Nat /\ Never \in Nat /\ Today < Never /\ NoDate = 0 /\ BadDate = Never + 1
      /\ item.due \in 0 .. BadDate /\ item.revisit \in 0 .. BadDate
  BY AgendaAssumption DEF IsItem, Calendar, NoDate, BadDate
<1>2. Key("board", item) = SortKey(Either(item))
  BY DEF Key
<1>3. CASE Due(item)
  <2>1. Either(item) = item.due /\ SortKey(item.due) = item.due
    BY <1>1, <1>3 DEF Due, Dated, Either, SortKey
  <2>2. item.due <= Today
    BY <1>3 DEF Due
  <2>3. QED
    BY <1>1, <1>2, <1>3, <2>1, <2>2 DEF BucketOf
<1>4. CASE ~Due(item)
  <2>1. BucketOf(item) # "overdue" /\ BucketOf(item) # "due_today"
    BY <1>4 DEF BucketOf
  <2>2. ASSUME BucketOf(item) = "upcoming" PROVE SortKey(Either(item)) > Today
    <3>1. ~RevisitDue(item) /\ (Dated(item.due) \/ Dated(item.revisit))
      BY <1>4, <2>2 DEF BucketOf
    <3>2. CASE Dated(Either(item))
      <4>1. Either(item) > Today
        BY <1>1, <1>4, <3>1, <3>2 DEF Either, Dated, Due, RevisitDue
      <4>2. QED
        BY <3>2, <4>1 DEF SortKey
    <3>3. CASE ~Dated(Either(item))
      BY <1>1, <3>3 DEF SortKey
    <3>4. QED
      BY <3>2, <3>3
  <2>3. QED
    BY <1>2, <2>1, <2>2
<1>5. QED
  BY <1>3, <1>4

LEMMA BoardInOrder ==
    ASSUME NEW items, DOMAIN items = 1 .. Len(items), Len(items) \in Nat,
           \A i \in DOMAIN items : IsItem(items[i])
    PROVE  BoardAgrees(Board(items))
<1> DEFINE S == {n \in DOMAIN items : "career" \in items[n].ventures}
<1>1. S \subseteq 1 .. Len(items) /\ S \subseteq Nat /\ Board(items) = Sorted(items, S, "board")
  BY DEF Board
<1> HIDE DEF S
<1>2. \A n \in S : IsItem(items[n]) /\ Key("board", items[n]) \in Nat
  BY <1>1, KeyTyped
<1>3. IsFiniteSet(S) /\ Cardinality(S) \in Nat
  <2>1. PICK n \in Nat : n = Len(items)
    OBVIOUS
  <2>2. IsFiniteSet(1 .. n)
    BY FS_Interval
  <2>3. QED
    BY <1>1, <2>1, <2>2, FS_Subset, FS_CardinalityType
<1>4. PICK order : Arranges(order, S, items, "board")
  <2>1. InOrder(S, items, "board")
    BY <1>1, <1>2, <1>3, SortedArranges
  <2>2. QED
    BY <2>1 DEF InOrder
<1>5. PICK board : board = Board(items)
  OBVIOUS
<1>6. /\ board = [i \in 1 .. Cardinality(S) |-> items[order[i]]]
      /\ order \in [1 .. Cardinality(S) -> S]
      /\ \A i, j \in 1 .. Cardinality(S) :
            i < j => Key("board", items[order[i]]) <= Key("board", items[order[j]])
  BY <1>1, <1>4, <1>5 DEF Arranges
<1>7. /\ DOMAIN board = 1 .. Cardinality(S)
      /\ \A i \in DOMAIN board : IsItem(board[i]) /\ Key("board", board[i]) \in Nat
      /\ \A i, j \in DOMAIN board : i < j => Key("board", board[i]) <= Key("board", board[j])
  BY <1>2, <1>6
<1> DEFINE rank == [overdue |-> 1, due_today |-> 2, upcoming |-> 3]
<1>8. ASSUME NEW i \in DOMAIN board, NEW j \in DOMAIN board, i < j,
             {BucketOf(board[i]), BucketOf(board[j])} \subseteq DOMAIN rank
      PROVE  rank[BucketOf(board[i])] <= rank[BucketOf(board[j])]
  <2>1. PICK k, l : k = Key("board", board[i]) /\ l = Key("board", board[j])
    OBVIOUS
  <2>2. k \in Nat /\ l \in Nat /\ k <= l
    BY <1>7, <1>8, <2>1
  <2>3. PICK a, b : a = BucketOf(board[i]) /\ b = BucketOf(board[j])
    OBVIOUS
  <2>4. a \in {"overdue", "due_today", "upcoming"} /\ b \in {"overdue", "due_today", "upcoming"}
    BY <1>8, <2>3
  <2>5. /\ a = "overdue" => k < Today
        /\ a = "due_today" => k = Today
        /\ a = "upcoming" => k > Today
        /\ b = "overdue" => l < Today
        /\ b = "due_today" => l = Today
        /\ b = "upcoming" => l > Today
    BY <1>7, <2>1, <2>3, KeyOfBucket
  <2>6. rank[a] <= rank[b]
    BY <2>2, <2>4, <2>5, AgendaAssumption
  <2>7. QED
    BY <2>3, <2>6
<1>9. BoardAgrees(board)
  BY <1>8 DEF BoardAgrees
<1>10. QED
  BY <1>5, <1>9

\* Every open item is on the agenda once, and none that is due is out of sight.
THEOREM NothingDueHiddenAlways == Spec => []NothingDueHidden
<1>1. ASSUME Typed, task = "agenda", NEW items, items = OpenItems(input, FALSE)
      PROVE  (\A n \in DOMAIN input : ShownOnce(items, n)) /\ BoardAgrees(Board(items))
  <2>1. \A n \in DOMAIN input : AsOpenItem(input, n).id = n /\ IsItem(AsOpenItem(input, n))
    BY <1>1, InputsOf, ItemOf
  <2>2. PICK order : Lists(items, order)
    BY <1>1, ItemsListed
  <2>3. \A n \in DOMAIN input : ShownOnce(items, n)
    BY <2>1, <2>2, EveryRecordShownOnce
  <2>4. /\ DOMAIN items = 1 .. Len(items) /\ Len(items) \in Nat
        /\ \A i \in DOMAIN items : IsItem(items[i])
    <3>1. /\ DOMAIN items = 1 .. Len(items) /\ Len(items) \in Nat
          /\ \A i \in DOMAIN items : order[i] \in DOMAIN input /\ items[i] = AsOpenItem(input, order[i])
      BY <2>2 DEF Lists
    <3>2. QED
      BY <2>1, <3>1
  <2>5. BoardAgrees(Board(items))
    BY <2>4, BoardInOrder
  <2>6. QED
    BY <2>3, <2>5
<1>2. Typed => NothingDueHidden
  BY <1>1 DEF NothingDueHidden
<1>3. QED
  BY <1>2, TypedAlways, PTL

-----------------------------------------------------------------------------
\* import_md.py: the lines read so far, the headings open above them.

\* The states that split_markdown_sections goes through, one per prefix of the lines.
ReadRun(q, base, r) ==
    /\ r[0] = base
    /\ \A k \in 1 .. Len(q) : r[k] = ReadLine(r[k - 1], q[k])
    /\ r[Len(q)] = FoldLeft(ReadLine, base, q)

LEMMA ReadRunExists ==
    ASSUME NEW F, NEW q \in Seq(F), NEW V, NEW base \in V, \A v \in V, f \in F : ReadLine(v, f) \in V
    PROVE  \E r : ReadRun(q, base, r)
<1> DEFINE n == Len(q)
           step == [p \in (1 .. n) \X V |-> ReadLine(p[2], q[p[1]])]
           Solves(g) == g = [s \in SUBSET DOMAIN q |->
                               IF s = {} THEN base ELSE ReadLine(g[s \ {Max(s)}], q[Max(s)])]
<1>1. n \in Nat /\ DOMAIN q = 1 .. n /\ \A k \in 1 .. n : q[k] \in F
  OBVIOUS
<1>2. step \in [(1 .. n) \X V -> V]
  <2>1. \A p \in (1 .. n) \X V : ReadLine(p[2], q[p[1]]) \in V
    <3> HIDE DEF n
    <3> QED BY <1>1
  <2> HIDE DEF n
  <2>2. QED
    BY <2>1
<1>3. PICK g \in [SUBSET (1 .. n) -> V] :
          \A s \in SUBSET (1 .. n) : g[s] = IF s = {} THEN base ELSE step[<<Max(s), g[s \ {Max(s)}]>>]
  <2>1. LeftSolvable(n, V, base, step)
    <3> HIDE DEF step, n
    <3> QED BY <1>1, <1>2, FoldLeftExists
  <2> HIDE DEF step, n
  <2>2. QED
    BY <2>1 DEF LeftSolvable
<1>4. Solves(g)
  <2>1. ASSUME NEW s \in SUBSET (1 .. n), s # {}
        PROVE  g[s] = ReadLine(g[s \ {Max(s)}], q[Max(s)])
    <3>1. Max(s) \in 1 .. n /\ g[s \ {Max(s)}] \in V
      <4>1. Max(s) \in s
        BY <1>1, <2>1, MaxOf
      <4> HIDE DEF n
      <4>2. QED
        BY <1>3, <4>1
    <3>2. g[s] = step[<<Max(s), g[s \ {Max(s)}]>>]
      <4> HIDE DEF n, step
      <4> QED BY <1>3, <2>1
    <3>3. step[<<Max(s), g[s \ {Max(s)}]>>] = ReadLine(g[s \ {Max(s)}], q[Max(s)])
      <4> HIDE DEF n
      <4> QED BY <3>1
    <3>4. QED
      BY <3>2, <3>3
  <2>2. g[{}] = base
    <3> HIDE DEF n, step
    <3> QED BY <1>3
  <2>3. QED
    <3> HIDE DEF n, step
    <3> QED BY <1>1, <1>3, <2>1, <2>2
<1>5. FoldLeft(ReadLine, base, q) = (CHOOSE f : Solves(f))[DOMAIN q]
  BY Zenon DEF FoldLeft, MapThenFoldSet
<1>6. PICK f : f = (CHOOSE h : Solves(h)) /\ Solves(f)
  <2> HIDE DEF Solves
  <2> QED BY <1>4
<1>7. PICK r : r = [k \in 0 .. n |-> f[1 .. k]]
  OBVIOUS
<1> HIDE DEF n
<1>8. \A k \in 1 .. n : f[1 .. k] = ReadLine(f[1 .. (k - 1)], q[k])
  <2> TAKE k \in 1 .. n
  <2>1. Max(1 .. k) = k /\ (1 .. k) \ {k} = 1 .. (k - 1) /\ 1 .. k \in SUBSET (1 .. n) /\ 1 .. k # {}
    BY <1>1, PrefixMax
  <2>2. f[1 .. k] = ReadLine(f[(1 .. k) \ {Max(1 .. k)}], q[Max(1 .. k)])
    BY <1>1, <1>6, <2>1
  <2>3. QED
    BY <2>1, <2>2
<1>9. f[1 .. 0] = base
  <2>1. 1 .. 0 = {} /\ {} \in SUBSET DOMAIN q
    OBVIOUS
  <2>2. QED
    BY <1>6, <2>1
<1>10. r[0] = base /\ r[n] = FoldLeft(ReadLine, base, q)
  <2>1. r[n] = f[DOMAIN q]
    BY <1>1, <1>7
  <2>2. r[0] = f[1 .. 0]
    BY <1>1, <1>7
  <2>3. QED
    BY <1>5, <1>6, <1>9, <2>1, <2>2
<1>11. \A k \in 1 .. n : r[k] = f[1 .. k] /\ r[k - 1] = f[1 .. (k - 1)]
  <2> TAKE k \in 1 .. n
  <2>1. k \in 0 .. n /\ k - 1 \in 0 .. n
    BY <1>1
  <2>2. QED
    BY <1>7, <2>1
<1>12. QED
  BY <1>8, <1>10, <1>11 DEF ReadRun, n

Texts == DOMAIN Words

MarkdownLine == [level : Nat, text : Texts]

Section == [path : Seq(MarkdownLine), body : Seq(Texts)]

ReadStates == [stack : Seq(MarkdownLine), body : Seq(Texts), sections : Seq(Section)]

\* How far a heading unwinds the stack.
PopsTo(stack, level, c) ==
    /\ Pop(stack, level) = SubSeq(stack, 1, c)
    /\ c # 0 => stack[c].level < level
    /\ \A n \in c + 1 .. Len(stack) : ~(stack[n].level < level)

LEMMA PopIs ==
    ASSUME NEW stack \in Seq(MarkdownLine), NEW level
    PROVE  \E c \in 0 .. Len(stack) : PopsTo(stack, level, c)
<1> DEFINE keep == {n \in 0 .. Len(stack) : n = 0 \/ stack[n].level < level}
           some == {n \in 1 .. Len(stack) : stack[n].level < level}
<1>1. Len(stack) \in Nat
  OBVIOUS
<1>2. PICK c : c = CHOOSE n \in keep : \A m \in keep : m <= n
  OBVIOUS
<1>3. \E n \in keep : \A m \in keep : m <= n
  <2>1. CASE some = {}
    <3>1. \A m \in keep : m = 0
      BY <2>1
    <3>2. 0 \in keep
      BY <1>1
    <3>3. QED
      BY <3>1, <3>2
  <2>2. CASE some # {}
    <3>1. some \in SUBSET (1 .. Len(stack))
      OBVIOUS
    <3>2. keep = some \cup {0} /\ some \subseteq Nat
      BY <1>1
    <3> HIDE DEF some, keep
    <3>3. Max(some) \in some /\ \A x \in some : x <= Max(some)
      BY <1>1, <2>2, <3>1, MaxOf
    <3>4. PICK top : top = Max(some)
      OBVIOUS
    <3>5. top \in some /\ \A x \in some : x <= top
      BY <3>3, <3>4
    <3>6. top \in Nat /\ top \in keep /\ 0 <= top
      BY <3>2, <3>5
    <3>7. \A m \in keep : m <= top
      BY <3>2, <3>5, <3>6
    <3>8. QED
      BY <3>6, <3>7
  <2>3. QED
    BY <2>1, <2>2
<1>4. c \in keep /\ \A m \in keep : m <= c
  <2> HIDE DEF keep
  <2> QED BY <1>2, <1>3
<1>5. Pop(stack, level) = SubSeq(stack, 1, c)
  BY <1>2, Zenon DEF Pop
<1>6. c \in 0 .. Len(stack) /\ (c # 0 => stack[c].level < level)
  BY <1>4
<1>7. \A n \in c + 1 .. Len(stack) : ~(stack[n].level < level)
  <2> SUFFICES ASSUME NEW n \in c + 1 .. Len(stack), stack[n].level < level PROVE FALSE
    OBVIOUS
  <2>1. n \in 0 .. Len(stack) /\ ~(n <= c)
    BY <1>1, <1>6
  <2>2. QED
    BY <1>4, <2>1
<1>8. QED
  BY <1>5, <1>6, <1>7 DEF PopsTo

LEMMA PopTyped ==
    ASSUME NEW stack \in Seq(MarkdownLine), NEW level
    PROVE  Pop(stack, level) \in Seq(MarkdownLine)
<1>1. PICK c \in 0 .. Len(stack) : Pop(stack, level) = SubSeq(stack, 1, c)
  BY PopIs DEF PopsTo
<1>2. SubSeq(stack, 1, c) \in Seq(MarkdownLine)
  <2>1. c \in Nat /\ c <= Len(stack) /\ 1 \in Nat \ {0}
    OBVIOUS
  <2> HIDE DEF MarkdownLine
  <2>2. QED
    BY <2>1, PartTyped
<1>3. QED
  BY <1>1, <1>2

StateOf(stack, body, sections) == [stack |-> stack, body |-> body, sections |-> sections]

SectionOf(path, body) == [path |-> path, body |-> body]

\* What flush leaves, field by field.
Flushed(st) ==
    IF st.body = <<>> THEN st
    ELSE StateOf(st.stack, <<>>, Append(st.sections, SectionOf(st.stack, st.body)))

LEMMA StateTyped ==
    ASSUME NEW stack \in Seq(MarkdownLine), NEW body \in Seq(Texts), NEW sections \in Seq(Section)
    PROVE  StateOf(stack, body, sections) \in ReadStates
BY DEF StateOf, ReadStates

LEMMA StateFields ==
    ASSUME NEW st \in ReadStates
    PROVE  /\ st = StateOf(st.stack, st.body, st.sections)
           /\ st.stack \in Seq(MarkdownLine) /\ st.body \in Seq(Texts) /\ st.sections \in Seq(Section)
BY DEF StateOf, ReadStates

LEMMA FlushIs == ASSUME NEW st \in ReadStates PROVE Flush(st) = Flushed(st)
<1>1. PICK more : more = Append(st.sections, SectionOf(st.stack, st.body))
  OBVIOUS
<1>2. [st EXCEPT !.body = <<>>, !.sections = more] = StateOf(st.stack, <<>>, more)
  <2>1. PICK none : none = <<>>
    OBVIOUS
  <2>2. PICK a, b, c : st = StateOf(a, b, c)
    BY StateFields
  <2>3. PICK new : new = [st EXCEPT !.body = none, !.sections = more]
    OBVIOUS
  <2>4. new = StateOf(a, none, more) /\ st.stack = a
    BY <2>2, <2>3 DEF StateOf
  <2>5. QED
    BY <2>1, <2>3, <2>4
<1>3. [st EXCEPT !.body = <<>>, !.sections = Append(@, [path |-> st.stack, body |-> st.body])]
          = [st EXCEPT !.body = <<>>, !.sections = more]
  BY <1>1 DEF SectionOf, ReadStates
<1>4. QED
  BY <1>1, <1>2, <1>3 DEF Flush, Flushed

LEMMA FlushTyped == ASSUME NEW st \in ReadStates PROVE Flush(st) \in ReadStates /\ Flush(st).body = <<>>
<1>1. CASE st.body = <<>>
  BY <1>1, FlushIs DEF Flushed
<1>2. CASE st.body # <<>>
  <2>1. SectionOf(st.stack, st.body) \in Section
    BY DEF ReadStates, SectionOf, Section
  <2>2. Append(st.sections, SectionOf(st.stack, st.body)) \in Seq(Section)
    BY <2>1, AppendProperties DEF ReadStates
  <2>3. Flush(st) = StateOf(st.stack, <<>>, Append(st.sections, SectionOf(st.stack, st.body)))
    BY <1>2, FlushIs DEF Flushed
  <2>4. QED
    BY <2>2, <2>3 DEF StateOf, ReadStates
<1>3. QED
  BY <1>1, <1>2

\* What a line does, field by field.
LEMMA ReadHeading ==
    ASSUME NEW st \in ReadStates, NEW line \in MarkdownLine, Heading(line)
    PROVE  ReadLine(st, line) =
               StateOf(Append(Pop(st.stack, line.level), line), <<>>, Flush(st).sections)
<1>1. PICK f : f = Flush(st)
  OBVIOUS
<1>2. f \in ReadStates /\ f.body = <<>> /\ f.stack = st.stack
  BY <1>1, FlushTyped, FlushIs DEF Flushed, StateOf
<1>3. PICK stack : stack = Append(Pop(st.stack, line.level), line)
  OBVIOUS
<1>4. [f EXCEPT !.stack = stack] = StateOf(stack, <<>>, f.sections)
  BY <1>2 DEF ReadStates, StateOf
<1>5. [f EXCEPT !.stack = Append(Pop(@, line.level), line)] = [f EXCEPT !.stack = stack]
  BY <1>2, <1>3 DEF ReadStates
<1>6. QED
  BY <1>1, <1>3, <1>4, <1>5 DEF ReadLine

LEMMA ReadBody ==
    ASSUME NEW st \in ReadStates, NEW line \in MarkdownLine, ~Heading(line)
    PROVE  ReadLine(st, line) = StateOf(st.stack, Append(st.body, line.text), st.sections)
<1>1. PICK body : body = Append(st.body, line.text)
  OBVIOUS
<1>2. [st EXCEPT !.body = body] = StateOf(st.stack, body, st.sections)
  BY DEF ReadStates, StateOf
<1>3. [st EXCEPT !.body = Append(@, line.text)] = [st EXCEPT !.body = body]
  BY <1>1 DEF ReadStates
<1>4. QED
  BY <1>1, <1>2, <1>3 DEF ReadLine

LEMMA ReadTyped == \A st \in ReadStates, line \in MarkdownLine : ReadLine(st, line) \in ReadStates
<1> TAKE st \in ReadStates, line \in MarkdownLine
<1>1. CASE Heading(line)
  <2>1. st.stack \in Seq(MarkdownLine)
    BY DEF ReadStates
  <2>2. Pop(st.stack, line.level) \in Seq(MarkdownLine)
    BY <2>1, PopTyped
  <2>3. Append(Pop(st.stack, line.level), line) \in Seq(MarkdownLine)
    BY <2>2, AppendProperties
  <2>4. Flush(st).sections \in Seq(Section)
    BY FlushTyped DEF ReadStates
  <2>5. QED
    BY <1>1, <2>3, <2>4, ReadHeading, EmptySeq, StateTyped
<1>2. CASE ~Heading(line)
  <2>1. Append(st.body, line.text) \in Seq(Texts)
    <3>1. st.body \in Seq(Texts) /\ line.text \in Texts
      BY DEF ReadStates, MarkdownLine
    <3>2. QED
      BY <3>1, AppendProperties
  <2>2. QED
    BY <1>2, <2>1, ReadBody, StateTyped, StateFields
<1>3. QED
  BY <1>1, <1>2

Start == [stack |-> <<>>, body |-> <<>>, sections |-> <<>>]

LEMMA StartTyped == Start \in ReadStates
BY EmptySeq DEF Start, ReadStates

LEMMA ReadStatesRun ==
    ASSUME NEW lines \in Seq(MarkdownLine), NEW r, ReadRun(lines, Start, r)
    PROVE  \A k \in 0 .. Len(lines) : r[k] \in ReadStates
<1> DEFINE P == {k \in Nat : k <= Len(lines) => r[k] \in ReadStates}
<1>1. 0 \in P
  BY StartTyped DEF ReadRun
<1>2. ASSUME NEW k \in Nat, k \in P PROVE k + 1 \in P
  <2> SUFFICES ASSUME k + 1 <= Len(lines) PROVE r[k + 1] \in ReadStates
    OBVIOUS
  <2>1. k + 1 \in 1 .. Len(lines) /\ k <= Len(lines) /\ (k + 1) - 1 = k
    OBVIOUS
  <2>2. r[k + 1] = ReadLine(r[k], lines[k + 1]) /\ lines[k + 1] \in MarkdownLine
    BY <2>1 DEF ReadRun
  <2>3. QED
    BY <1>2, <2>1, <2>2, ReadTyped
<1>3. Nat \subseteq P
  <2> HIDE DEF P
  <2> QED BY <1>1, <1>2, Induction
<1>4. QED
  BY <1>3

\* The sections of a file are sequences of what they should be.
LEMMA SectionsTyped ==
    ASSUME NEW lines \in Seq(MarkdownLine)
    PROVE  Sections(lines) \in Seq(Section)
<1>1. PICK r : ReadRun(lines, Start, r)
  BY StartTyped, ReadTyped, ReadRunExists
<1>2. r[Len(lines)] \in ReadStates
  <2>1. Len(lines) \in 0 .. Len(lines)
    OBVIOUS
  <2>2. QED
    BY <1>1, <2>1, ReadStatesRun
<1>3. Sections(lines) = Flush(r[Len(lines)]).sections
  BY <1>1 DEF Sections, ReadRun, Start
<1>4. QED
  BY <1>2, <1>3, FlushTyped DEF ReadStates

\* The headings that are open after k lines.
Open(k) ==
    {h \in 1 .. k : /\ Heading(input[h])
                    /\ \A j \in h + 1 .. k : Heading(input[j]) => input[j].level > input[h].level}

\* The stack holds them, in order.
Stacked(stack, k) ==
    \E m \in Nat : \E pos : Ascends(pos, m, Open(k)) /\ stack = [n \in 1 .. m |-> input[pos[n]]]

LEMMA StackedKeeps ==
    ASSUME input \in Seq(MarkdownLine), NEW k \in Nat, k + 1 <= Len(input), NEW stack,
           Stacked(stack, k), ~Heading(input[k + 1])
    PROVE  Stacked(stack, k + 1)
<1>1. Open(k + 1) = Open(k)
  <2>1. ASSUME NEW h \in Open(k + 1) PROVE h \in Open(k)
    <3>1. h \in 1 .. k + 1 /\ Heading(input[h])
      BY DEF Open
    <3>2. h \in 1 .. k
      BY <3>1
    <3>3. \A j \in h + 1 .. k : j \in h + 1 .. k + 1
      BY <3>2
    <3>4. QED
      BY <3>2, <3>3 DEF Open
  <2>2. ASSUME NEW h \in Open(k) PROVE h \in Open(k + 1)
    <3>1. h \in 1 .. k /\ h \in 1 .. k + 1
      BY DEF Open
    <3>2. \A j \in h + 1 .. k + 1 : j \in h + 1 .. k \/ j = k + 1
      BY <3>1
    <3>3. QED
      BY <3>1, <3>2 DEF Open
  <2>3. QED
    BY <2>1, <2>2
<1>2. QED
  BY <1>1 DEF Stacked

LEMMA StackedPushes ==
    ASSUME input \in Seq(MarkdownLine), NEW k \in Nat, k + 1 <= Len(input),
           NEW stack \in Seq(MarkdownLine), Stacked(stack, k), Heading(input[k + 1])
    PROVE  Stacked(Append(Pop(stack, input[k + 1].level), input[k + 1]), k + 1)
<1> DEFINE line == input[k + 1]
           S == {h \in Open(k) : input[h].level < line.level}
<1>1. /\ \A i \in 1 .. k + 1 : input[i] \in MarkdownLine /\ input[i].level \in Nat
      /\ line \in MarkdownLine /\ line.level \in Nat
  <2>1. \A i \in 1 .. k + 1 : i \in 1 .. Len(input) /\ input[i] \in MarkdownLine
    OBVIOUS
  <2>2. line \in MarkdownLine
    OBVIOUS
  <2> HIDE DEF line
  <2>3. \A x \in MarkdownLine : x.level \in Nat
    BY DEF MarkdownLine
  <2>4. QED
    BY <2>1, <2>2, <2>3
<1> HIDE DEF line
<1>0. PICK m \in Nat : \E pos : Ascends(pos, m, Open(k)) /\ stack = [n \in 1 .. m |-> input[pos[n]]]
  BY DEF Stacked
<1>2. PICK pos : Ascends(pos, m, Open(k)) /\ stack = [n \in 1 .. m |-> input[pos[n]]]
  BY <1>0
<1>3. /\ pos \in [1 .. m -> Open(k)] /\ Open(k) \subseteq 1 .. k /\ Open(k) \subseteq Nat
      /\ \A h \in Open(k) : Heading(input[h])
  BY <1>2 DEF Ascends, Open
<1>4. Len(stack) = m /\ \A n \in 1 .. m : stack[n] = input[pos[n]]
  <2>1. DOMAIN stack = 1 .. m /\ DOMAIN stack = 1 .. Len(stack) /\ Len(stack) \in Nat
    BY <1>2
  <2>2. Len(stack) = m
    BY <2>1, SameLength
  <2>3. QED
    BY <1>2, <2>2
<1>5. PICK c \in 0 .. m : PopsTo(stack, line.level, c)
  BY <1>4, PopIs
\* Levels rise along the stack.
<1>6. ASSUME NEW a \in 1 .. m, NEW b \in 1 .. m, a < b
      PROVE  input[pos[a]].level < input[pos[b]].level
  <2>1. pos[a] < pos[b] /\ pos[a] \in Open(k) /\ pos[b] \in Open(k)
    BY <1>2, <1>3, <1>6 DEF Ascends
  <2>2. pos[b] \in pos[a] + 1 .. k /\ Heading(input[pos[b]])
    BY <1>3, <2>1
  <2>3. input[pos[b]].level > input[pos[a]].level
    BY <2>1, <2>2 DEF Open
  <2>4. input[pos[a]].level \in Nat /\ input[pos[b]].level \in Nat
    BY <1>1, <1>3, <2>1
  <2>5. QED
    BY <2>3, <2>4
<1>7. \A n \in 1 .. m : pos[n] \in Open(k) /\ input[pos[n]].level \in Nat
  BY <1>1, <1>3
<1>8. ASSUME NEW n \in 1 .. m PROVE n <= c <=> pos[n] \in S
  <2>1. CASE n <= c
    <3>1. input[pos[c]].level < line.level /\ c \in 1 .. m
      BY <1>4, <1>5, <2>1 DEF PopsTo
    <3>2. n = c \/ input[pos[n]].level < input[pos[c]].level
      BY <1>6, <2>1, <3>1
    <3>3. input[pos[n]].level < line.level
      BY <1>1, <1>7, <3>1, <3>2
    <3>4. QED
      BY <1>7, <2>1, <3>3
  <2>2. CASE n > c
    <3>1. n \in c + 1 .. Len(stack)
      BY <1>4, <2>2
    <3>2. ~(input[pos[n]].level < line.level)
      BY <1>4, <1>5, <3>1 DEF PopsTo
    <3>3. QED
      BY <2>2, <3>2
  <2>3. QED
    BY <2>1, <2>2
<1>9. PICK low : low = [n \in 1 .. c |-> pos[n]]
  OBVIOUS
<1>10. Ascends(low, c, S)
  <2>1. \A n \in 1 .. c : n \in 1 .. m /\ low[n] = pos[n] /\ low[n] \in S
    BY <1>8, <1>9
  <2>2. ASSUME NEW s \in S PROVE \E n \in 1 .. c : low[n] = s
    <3>1. PICK n \in 1 .. m : pos[n] = s
      BY <1>2 DEF Ascends
    <3>2. n \in 1 .. c
      BY <1>8, <3>1
    <3>3. QED
      BY <2>1, <3>1, <3>2
  <2>3. \A i, j \in 1 .. c : i < j => low[i] < low[j]
    BY <1>2, <2>1 DEF Ascends
  <2> HIDE DEF S
  <2>4. low \in [1 .. c -> S]
    BY <1>9, <2>1
  <2>5. QED
    BY <2>2, <2>3, <2>4 DEF Ascends
<1>11. Open(k + 1) = S \cup {k + 1}
  <2>1. ASSUME NEW h \in Open(k + 1), h # k + 1 PROVE h \in S
    <3>1. h \in 1 .. k /\ Heading(input[h]) /\ k + 1 \in h + 1 .. k + 1
      BY <2>1 DEF Open
    <3>2. line.level > input[h].level
      BY <3>1 DEF Open, line
    <3>3. \A j \in h + 1 .. k : j \in h + 1 .. k + 1
      BY <3>1
    <3>4. h \in Open(k)
      BY <3>1, <3>3 DEF Open
    <3>5. input[h].level < line.level
      BY <1>1, <3>1, <3>2
    <3>6. QED
      BY <3>4, <3>5
  <2>2. ASSUME NEW h \in S PROVE h \in Open(k + 1)
    <3>1. h \in Open(k) /\ input[h].level < line.level /\ h \in 1 .. k /\ h \in 1 .. k + 1
      BY <1>3
    <3>2. \A j \in h + 1 .. k + 1 : j \in h + 1 .. k \/ j = k + 1
      BY <3>1
    <3>3. line.level > input[h].level
      BY <1>1, <3>1
    <3>4. QED
      BY <3>1, <3>2, <3>3 DEF Open, line
  <2>3. k + 1 \in Open(k + 1)
    BY DEF Open
  <2>4. QED
    BY <2>1, <2>2, <2>3
<1>12. S \subseteq Nat /\ \A s \in S : s < k + 1
  BY <1>3
<1> HIDE DEF S
<1>13. PICK next : next = Longer(low, c, k + 1)
  OBVIOUS
<1>14. Ascends(next, c + 1, Open(k + 1))
  <2>1. c \in Nat /\ k + 1 \in Nat
    OBVIOUS
  <2>2. Ascends(Longer(low, c, k + 1), c + 1, S \cup {k + 1})
    BY <1>10, <1>12, <2>1, AscendsLonger
  <2>3. QED
    BY <1>11, <1>13, <2>2
<1>15. PICK after : after = Append(Pop(stack, line.level), line)
  OBVIOUS
<1>16. after = [n \in 1 .. c + 1 |-> input[next[n]]]
  <2>1. PICK part : part = SubSeq(stack, 1, c)
    OBVIOUS
  <2>2. /\ part \in Seq(MarkdownLine) /\ Len(part) = c
        /\ \A n \in 1 .. c : part[n] = stack[n]
    <3>1. c \in Nat /\ c <= Len(stack)
      BY <1>4
    <3>2. \A i \in 1 .. c : stack[i] \in MarkdownLine
      BY <3>1
    <3>3. /\ part \in Seq(MarkdownLine) /\ Len(part) = IF 1 <= c THEN c - 1 + 1 ELSE 0
          /\ \A i \in 1 .. c - 1 + 1 : part[i] = stack[1 + i - 1]
      BY <2>1, <3>1, <3>2, SubSeqProperties
    <3>4. QED
      BY <3>1, <3>3
  <2>3. after = Append(part, line)
    BY <1>5, <1>15, <2>1 DEF PopsTo
  <2>4. /\ after \in Seq(MarkdownLine) /\ Len(after) = c + 1
        /\ \A n \in 1 .. c : after[n] = part[n]
        /\ after[c + 1] = line
    BY <1>1, <2>2, <2>3, AppendProperties
  <2>5. ASSUME NEW n \in 1 .. c + 1 PROVE after[n] = input[next[n]]
    <3>1. CASE n = c + 1
      <4>1. next[n] = k + 1
        BY <1>13, <3>1 DEF Longer
      <4>2. QED
        BY <2>4, <3>1, <4>1 DEF line
    <3>2. CASE n # c + 1
      <4>1. n \in 1 .. c /\ n \in 1 .. m /\ next[n] = low[n] /\ low[n] = pos[n]
        BY <1>9, <1>13, <3>2 DEF Longer
      <4>2. QED
        BY <1>4, <2>2, <2>4, <4>1
    <3>3. QED
      BY <3>1, <3>2
  <2>6. DOMAIN after = 1 .. c + 1
    BY <2>4
  <2>7. QED
    BY <2>4, <2>5, <2>6
<1>17. Stacked(after, k + 1)
  <2>1. c + 1 \in Nat
    OBVIOUS
  <2>2. QED
    BY <1>14, <1>16, <2>1 DEF Stacked
<1>18. QED
  BY <1>15, <1>17 DEF line

\* A filed line: the titles above it, and the line.
Filing == Seq(Texts) \X Texts

LEMMA TitlesTyped == ASSUME NEW path \in Seq(MarkdownLine) PROVE Titles(path) \in Seq(Texts)
<1>1. \A n \in 1 .. Len(path) : path[n].text \in Texts
  <2>1. \A x \in MarkdownLine : x.text \in Texts
    BY DEF MarkdownLine
  <2> HIDE DEF MarkdownLine
  <2>2. QED
    BY <2>1
<1>2. Titles(path) = [n \in 1 .. Len(path) |-> path[n].text] /\ Len(path) \in Nat
  BY DEF Titles
<1>3. Titles(path) \in [1 .. Len(path) -> Texts]
  BY <1>1, <1>2
<1>4. QED
  BY <1>2, <1>3

LEMMA LinesTyped ==
    ASSUME NEW path \in Seq(MarkdownLine), NEW body \in Seq(Texts)
    PROVE  /\ LinesOf(SectionOf(path, body)) \in Seq(Filing)
           /\ Len(LinesOf(SectionOf(path, body))) = Len(body)
           /\ \A n \in 1 .. Len(body) : LinesOf(SectionOf(path, body))[n] = <<Titles(path), body[n]>>
<1>1. PICK lines : lines = LinesOf(SectionOf(path, body))
  OBVIOUS
<1>2. /\ lines = [n \in 1 .. Len(body) |-> <<Titles(path), body[n]>>]
      /\ Len(body) \in Nat
  BY <1>1 DEF LinesOf, SectionOf
<1>3. Titles(path) \in Seq(Texts) /\ \A n \in 1 .. Len(body) : body[n] \in Texts
  BY TitlesTyped
<1>4. lines \in [1 .. Len(body) -> Filing]
  BY <1>2, <1>3 DEF Filing
<1>5. lines \in Seq(Filing) /\ Len(lines) = Len(body)
  BY <1>2, <1>4, ListOf
<1>6. QED
  BY <1>1, <1>2, <1>5

LEMMA LinesAppend ==
    ASSUME NEW path \in Seq(MarkdownLine), NEW body \in Seq(Texts), NEW t \in Texts
    PROVE  LinesOf(SectionOf(path, Append(body, t)))
              = LinesOf(SectionOf(path, body)) \o <<<<Titles(path), t>>>>
<1>1. PICK longer : longer = Append(body, t)
  OBVIOUS
<1>2. /\ longer \in Seq(Texts) /\ Len(longer) = Len(body) + 1 /\ Len(body) \in Nat
      /\ \A n \in 1 .. Len(body) : longer[n] = body[n]
      /\ longer[Len(body) + 1] = t
  BY <1>1, AppendProperties
<1>3. PICK old, new : old = LinesOf(SectionOf(path, body)) /\ new = LinesOf(SectionOf(path, longer))
  OBVIOUS
<1>4. /\ old \in Seq(Filing) /\ Len(old) = Len(body)
      /\ \A n \in 1 .. Len(body) : old[n] = <<Titles(path), body[n]>>
  BY <1>3, LinesTyped
<1>5. /\ new \in Seq(Filing) /\ Len(new) = Len(body) + 1
      /\ \A n \in 1 .. Len(longer) : new[n] = <<Titles(path), longer[n]>>
  BY <1>2, <1>3, LinesTyped
<1>6. PICK entry : entry = <<Titles(path), t>>
  OBVIOUS
<1>7. entry \in Filing
  BY <1>6, TitlesTyped DEF Filing
<1>8. PICK sum : sum = Append(old, entry)
  OBVIOUS
<1>9. /\ sum \in Seq(Filing) /\ Len(sum) = Len(body) + 1
      /\ \A n \in 1 .. Len(body) : sum[n] = old[n]
      /\ sum[Len(body) + 1] = entry
  BY <1>4, <1>7, <1>8, AppendProperties
<1>10. ASSUME NEW n \in 1 .. Len(body) + 1 PROVE new[n] = sum[n]
  <2>1. CASE n = Len(body) + 1
    BY <1>2, <1>5, <1>6, <1>9, <2>1
  <2>2. CASE n # Len(body) + 1
    <3>1. n \in 1 .. Len(body) /\ n \in 1 .. Len(longer)
      BY <1>2, <2>2
    <3>2. QED
      BY <1>2, <1>4, <1>5, <1>9, <3>1
  <2>3. QED
    BY <2>1, <2>2
<1>11. new = sum
  BY <1>5, <1>9, <1>10, SeqEqual
<1>12. sum = old \o <<entry>>
  BY <1>4, <1>7, <1>8, AppendIsConcat
<1>13. QED
  BY <1>1, <1>3, <1>6, <1>11, <1>12

\* The lines of a file's sections, section by section.
Entries(sections) == [s \in DOMAIN sections |-> LinesOf(sections[s])]

LEMMA EntriesTyped ==
    ASSUME NEW sections \in Seq(Section)
    PROVE  /\ Entries(sections) \in Seq(Seq(Filing)) /\ Len(Entries(sections)) = Len(sections)
           /\ \A s \in 1 .. Len(sections) : Entries(sections)[s] = LinesOf(sections[s])
<1>1. Len(sections) \in Nat /\ DOMAIN sections = 1 .. Len(sections)
      /\ \A s \in 1 .. Len(sections) : sections[s] \in Section
  OBVIOUS
<1>2. ASSUME NEW sec \in Section PROVE LinesOf(sec) \in Seq(Filing)
  <2>1. sec.path \in Seq(MarkdownLine) /\ sec.body \in Seq(Texts) /\ sec = SectionOf(sec.path, sec.body)
    BY DEF Section, SectionOf
  <2>2. QED
    BY <2>1, LinesTyped
<1>3. PICK e : e = Entries(sections)
  OBVIOUS
<1>4. e = [s \in 1 .. Len(sections) |-> LinesOf(sections[s])]
  BY <1>1, <1>3 DEF Entries
<1>5. e \in [1 .. Len(sections) -> Seq(Filing)]
  BY <1>1, <1>2, <1>4
<1>6. QED
  BY <1>1, <1>3, <1>4, <1>5, ListOf

LEMMA EntriesAppend ==
    ASSUME NEW sections \in Seq(Section), NEW sec \in Section
    PROVE  Entries(Append(sections, sec)) = Append(Entries(sections), LinesOf(sec))
<1>1. PICK more : more = Append(sections, sec)
  OBVIOUS
<1>2. /\ more \in Seq(Section) /\ Len(more) = Len(sections) + 1 /\ Len(sections) \in Nat
      /\ \A s \in 1 .. Len(sections) : more[s] = sections[s]
      /\ more[Len(sections) + 1] = sec
  BY <1>1, AppendProperties
<1>3. PICK old, new : old = Entries(sections) /\ new = Entries(more)
  OBVIOUS
<1>4. /\ old \in Seq(Seq(Filing)) /\ Len(old) = Len(sections)
      /\ \A s \in 1 .. Len(sections) : old[s] = LinesOf(sections[s])
      /\ new \in Seq(Seq(Filing)) /\ Len(new) = Len(sections) + 1
      /\ \A s \in 1 .. Len(more) : new[s] = LinesOf(more[s])
  BY <1>2, <1>3, EntriesTyped
<1>5. PICK lines : lines = LinesOf(sec)
  OBVIOUS
<1>6. lines \in Seq(Filing)
  <2>1. new[Len(sections) + 1] = lines
    BY <1>2, <1>4, <1>5
  <2>2. Len(sections) + 1 \in 1 .. Len(new)
    BY <1>2, <1>4
  <2>3. QED
    BY <1>4, <2>1, <2>2, ElementOfSeq
<1>7. PICK sum : sum = Append(old, lines)
  OBVIOUS
<1>8. /\ sum \in Seq(Seq(Filing)) /\ Len(sum) = Len(sections) + 1
      /\ \A s \in 1 .. Len(sections) : sum[s] = old[s]
      /\ sum[Len(sections) + 1] = lines
  BY <1>4, <1>6, <1>7, AppendProperties
<1>9. ASSUME NEW s \in 1 .. Len(sections) + 1 PROVE new[s] = sum[s]
  <2>1. CASE s = Len(sections) + 1
    BY <1>2, <1>4, <1>5, <1>8, <2>1
  <2>2. CASE s # Len(sections) + 1
    <3>1. s \in 1 .. Len(sections) /\ s \in 1 .. Len(more)
      BY <1>2, <2>2
    <3>2. QED
      BY <1>2, <1>4, <1>8, <3>1
  <2>3. QED
    BY <2>1, <2>2
<1>10. new = sum
  BY <1>4, <1>8, <1>9, SeqEqual
<1>11. QED
  BY <1>1, <1>3, <1>5, <1>7, <1>10

\* All lines read so far: those of the sections, and those not yet flushed.
Out(st) == FlattenSeq(Entries(st.sections)) \o LinesOf(SectionOf(st.stack, st.body))

LEMMA OutParts ==
    ASSUME NEW st \in ReadStates
    PROVE  /\ Entries(st.sections) \in Seq(Seq(Filing))
           /\ FlattenSeq(Entries(st.sections)) \in Seq(Filing)
           /\ LinesOf(SectionOf(st.stack, st.body)) \in Seq(Filing)
           /\ Out(st) \in Seq(Filing)
<1>1. st.stack \in Seq(MarkdownLine) /\ st.body \in Seq(Texts) /\ st.sections \in Seq(Section)
  BY StateFields
<1>2. Entries(st.sections) \in Seq(Seq(Filing))
  BY <1>1, EntriesTyped
<1>3. FlattenSeq(Entries(st.sections)) \in Seq(Filing)
  BY <1>2, FlattenTyped
<1>4. LinesOf(SectionOf(st.stack, st.body)) \in Seq(Filing)
  BY <1>1, LinesTyped
<1>5. QED
  BY <1>2, <1>3, <1>4, ConcatProperties DEF Out

LEMMA NoLines == ASSUME NEW path PROVE LinesOf(SectionOf(path, <<>>)) = <<>>
BY EmptySeq DEF LinesOf, SectionOf

LEMMA OutFlushed ==
    ASSUME NEW st \in ReadStates
    PROVE  FlattenSeq(Entries(Flush(st).sections)) = Out(st)
<1>1. CASE st.body = <<>>
  <2>1. Flush(st) = st
    BY <1>1, FlushIs DEF Flushed
  <2>2. LinesOf(SectionOf(st.stack, st.body)) = <<>>
    BY <1>1, NoLines
  <2>3. QED
    BY <2>1, <2>2, OutParts, ConcatEmptySeq DEF Out
<1>2. CASE st.body # <<>>
  <2>1. st.stack \in Seq(MarkdownLine) /\ st.body \in Seq(Texts) /\ st.sections \in Seq(Section)
    BY StateFields
  <2>2. PICK sec : sec = SectionOf(st.stack, st.body)
    OBVIOUS
  <2>3. sec \in Section
    BY <2>1, <2>2 DEF SectionOf, Section
  <2>4. Flush(st).sections = Append(st.sections, sec)
    BY <1>2, <2>2, FlushIs DEF Flushed, StateOf
  <2>5. Entries(Flush(st).sections) = Append(Entries(st.sections), LinesOf(sec))
    BY <2>1, <2>3, <2>4, EntriesAppend
  <2>6. Entries(st.sections) \in Seq(Seq(Filing)) /\ LinesOf(sec) \in Seq(Filing)
    BY <2>2, OutParts
  <2>7. FlattenSeq(Append(Entries(st.sections), LinesOf(sec)))
            = FlattenSeq(Entries(st.sections)) \o LinesOf(sec)
    BY <2>6, FlattenAppend
  <2>8. QED
    BY <2>2, <2>5, <2>7 DEF Out
<1>3. QED
  BY <1>1, <1>2

LEMMA OutHeading ==
    ASSUME NEW st \in ReadStates, NEW line \in MarkdownLine, Heading(line)
    PROVE  Out(ReadLine(st, line)) = Out(st)
<1>1. PICK after : after = ReadLine(st, line)
  OBVIOUS
<1>2. after.body = <<>> /\ after.sections = Flush(st).sections
  BY <1>1, ReadHeading DEF StateOf
<1>3. LinesOf(SectionOf(after.stack, after.body)) = <<>>
  BY <1>2, NoLines
<1>4. FlattenSeq(Entries(after.sections)) = Out(st)
  BY <1>2, OutFlushed
<1>5. Out(after) = Out(st) \o <<>>
  BY <1>3, <1>4 DEF Out
<1>6. QED
  BY <1>1, <1>5, OutParts, ConcatEmptySeq

LEMMA OutBody ==
    ASSUME NEW st \in ReadStates, NEW line \in MarkdownLine, ~Heading(line)
    PROVE  Out(ReadLine(st, line)) = Out(st) \o <<<<Titles(st.stack), line.text>>>>
<1>1. PICK after : after = ReadLine(st, line)
  OBVIOUS
<1>2. after.body = Append(st.body, line.text) /\ after.sections = st.sections /\ after.stack = st.stack
  BY <1>1, ReadBody DEF StateOf
<1>3. st.stack \in Seq(MarkdownLine) /\ st.body \in Seq(Texts)
  BY StateFields
<1>4. line.text \in Texts
  BY DEF MarkdownLine
<1>5. PICK entry : entry = <<Titles(st.stack), line.text>>
  OBVIOUS
<1>6. LinesOf(SectionOf(after.stack, after.body)) = LinesOf(SectionOf(st.stack, st.body)) \o <<entry>>
  BY <1>2, <1>3, <1>4, <1>5, LinesAppend
<1>7. PICK a, b : a = FlattenSeq(Entries(st.sections)) /\ b = LinesOf(SectionOf(st.stack, st.body))
  OBVIOUS
<1>8. a \in Seq(Filing) /\ b \in Seq(Filing)
  BY <1>7, OutParts
<1>9. <<entry>> \in Seq(Filing)
  <2>1. entry \in Filing
    BY <1>3, <1>4, <1>5, TitlesTyped DEF Filing
  <2>2. QED
    BY <2>1
<1>10. a \o (b \o <<entry>>) = (a \o b) \o <<entry>>
  BY <1>8, <1>9, ConcatAssociative
<1>11. QED
  BY <1>1, <1>2, <1>5, <1>6, <1>7, <1>10 DEF Out

\* The body lines among the first k, and what each is to be filed as.
Bodies(k) == {i \in 1 .. k : ~Heading(input[i])}

TextsOfInput == [h \in DOMAIN input |-> input[h].text]

Entry == [i \in DOMAIN input |-> <<Arranged(TextsOfInput, Ancestors(i), <), input[i].text>>]

\* Those lines, in order, are what has been read.
Listed(out, k) ==
    \E c \in Nat : \E at : Ascends(at, c, Bodies(k)) /\ out = [n \in 1 .. c |-> Entry[at[n]]]

LEMMA AncestorsAreOpen ==
    ASSUME NEW k \in Nat, ~Heading(input[k + 1])
    PROVE  Ancestors(k + 1) = Open(k)
<1>1. (k + 1) - 1 = k
  OBVIOUS
<1>2. ASSUME NEW h \in 1 .. k
      PROVE  (\A j \in h + 1 .. k + 1 : Heading(input[j]) => input[j].level > input[h].level)
              <=> (\A j \in h + 1 .. k : Heading(input[j]) => input[j].level > input[h].level)
  <2>1. \A j \in h + 1 .. k + 1 : j \in h + 1 .. k \/ j = k + 1
    OBVIOUS
  <2>2. \A j \in h + 1 .. k : j \in h + 1 .. k + 1
    OBVIOUS
  <2>3. QED
    BY <2>1, <2>2
<1>3. QED
  BY <1>1, <1>2 DEF Ancestors, Open

LEMMA TitlesOfOpen ==
    ASSUME input \in Seq(MarkdownLine), NEW k \in Nat, k <= Len(input),
           NEW stack \in Seq(MarkdownLine), Stacked(stack, k)
    PROVE  Titles(stack) = Arranged(TextsOfInput, Open(k), <)
<1>1. PICK m \in Nat : \E pos : Ascends(pos, m, Open(k)) /\ stack = [n \in 1 .. m |-> input[pos[n]]]
  BY DEF Stacked
<1>2. PICK pos : Ascends(pos, m, Open(k)) /\ stack = [n \in 1 .. m |-> input[pos[n]]]
  BY <1>1
<1>3. Open(k) \subseteq Nat /\ Open(k) \subseteq DOMAIN input
  BY DEF Open
<1>4. Arranged(TextsOfInput, Open(k), <) = [n \in 1 .. m |-> TextsOfInput[pos[n]]]
  <2>1. PICK list : list = TextsOfInput
    OBVIOUS
  <2>2. PICK S : S = Open(k)
    OBVIOUS
  <2>3. InOrderOf(list, S) = [n \in 1 .. m |-> list[pos[n]]]
    BY <1>2, <1>3, <2>2, ArrangedIs
  <2>4. Arranged(TextsOfInput, Open(k), <) = InOrderOf(TextsOfInput, Open(k))
    BY Zenon DEF InOrderOf
  <2>5. QED
    BY <2>1, <2>2, <2>3, <2>4
<1>5. \A n \in 1 .. m : pos[n] \in DOMAIN input
  BY <1>2, <1>3 DEF Ascends
<1>6. \A n \in 1 .. m : stack[n] = input[pos[n]] /\ TextsOfInput[pos[n]] = input[pos[n]].text
  BY <1>2, <1>5 DEF TextsOfInput
<1>7. Titles(stack) = [n \in 1 .. m |-> stack[n].text]
  BY <1>2 DEF Titles
<1>8. QED
  BY <1>4, <1>6, <1>7

LEMMA ListedKeeps ==
    ASSUME NEW k \in Nat, NEW out, Listed(out, k), Heading(input[k + 1])
    PROVE  Listed(out, k + 1)
<1>1. Bodies(k + 1) = Bodies(k)
  BY DEF Bodies
<1>2. QED
  BY <1>1 DEF Listed

LEMMA ListedGrows ==
    ASSUME NEW X, NEW k \in Nat, k + 1 <= Len(input), NEW out \in Seq(X), NEW entry \in X,
           Listed(out, k), ~Heading(input[k + 1]), entry = Entry[k + 1]
    PROVE  Listed(out \o <<entry>>, k + 1)
<1>1. PICK c \in Nat : \E at : Ascends(at, c, Bodies(k)) /\ out = [n \in 1 .. c |-> Entry[at[n]]]
  BY DEF Listed
<1>2. PICK at : Ascends(at, c, Bodies(k)) /\ out = [n \in 1 .. c |-> Entry[at[n]]]
  BY <1>1
<1>3. Bodies(k) \subseteq Nat /\ \A s \in Bodies(k) : s < k + 1
  BY DEF Bodies
<1>4. Bodies(k + 1) = Bodies(k) \cup {k + 1}
  BY DEF Bodies
<1>5. PICK more : more = Longer(at, c, k + 1)
  OBVIOUS
<1>6. Ascends(more, c + 1, Bodies(k + 1))
  <2>1. k + 1 \in Nat
    OBVIOUS
  <2>2. Ascends(Longer(at, c, k + 1), c + 1, Bodies(k) \cup {k + 1})
    BY <1>2, <1>3, <2>1, AscendsLonger
  <2>3. QED
    BY <1>4, <1>5, <2>2
<1>7. Len(out) = c
  <2>1. DOMAIN out = 1 .. c /\ DOMAIN out = 1 .. Len(out) /\ Len(out) \in Nat
    BY <1>2
  <2>2. QED
    BY <2>1, SameLength
<1>8. PICK longer : longer = Append(out, entry)
  OBVIOUS
<1>9. /\ longer \in Seq(X) /\ Len(longer) = c + 1
      /\ \A n \in 1 .. c : longer[n] = out[n]
      /\ longer[c + 1] = entry
  BY <1>7, <1>8, AppendProperties
<1>10. ASSUME NEW n \in 1 .. c + 1 PROVE longer[n] = Entry[more[n]]
  <2>1. CASE n = c + 1
    BY <1>5, <1>9, <2>1 DEF Longer
  <2>2. CASE n # c + 1
    <3>1. n \in 1 .. c /\ more[n] = at[n]
      BY <1>5, <2>2 DEF Longer
    <3>2. QED
      BY <1>2, <1>9, <3>1
  <2>3. QED
    BY <2>1, <2>2
<1>11. longer = [n \in 1 .. c + 1 |-> Entry[more[n]]]
  <2>1. DOMAIN longer = 1 .. c + 1
    BY <1>9
  <2>2. QED
    BY <1>9, <1>10, <2>1
<1>12. longer = out \o <<entry>>
  BY <1>8, AppendIsConcat
<1>13. Listed(longer, k + 1)
  <2>1. c + 1 \in Nat
    OBVIOUS
  <2>2. QED
    BY <1>6, <1>11, <2>1 DEF Listed
<1>14. QED
  BY <1>12, <1>13

\* After k lines.
Read(st, k) == st \in ReadStates /\ Stacked(st.stack, k) /\ Listed(Out(st), k)

LEMMA StartRead == Read(Start, 0)
<1>1. PICK f : f = [n \in 1 .. 0 |-> 0]
  OBVIOUS
<1>2. Open(0) = {} /\ Bodies(0) = {} /\ f \in [1 .. 0 -> {}]
  BY <1>1 DEF Open, Bodies
<1>3. Ascends(f, 0, {})
  BY <1>2, AscendsNone
<1>4. /\ Start.stack = <<>> /\ Start.body = <<>> /\ Start.sections = <<>>
      /\ <<>> = [n \in 1 .. 0 |-> input[f[n]]] /\ <<>> = [n \in 1 .. 0 |-> Entry[f[n]]]
  BY EmptySeq DEF Start
<1>5. Stacked(Start.stack, 0)
  <2>1. Ascends(f, 0, Open(0)) /\ Start.stack = [n \in 1 .. 0 |-> input[f[n]]]
    BY <1>2, <1>3, <1>4
  <2>2. \E pos : Ascends(pos, 0, Open(0)) /\ Start.stack = [n \in 1 .. 0 |-> input[pos[n]]]
    BY <2>1
  <2>3. QED
    BY <2>2 DEF Stacked
<1>6. Out(Start) = <<>>
  <2>1. Entries(<<>>) = <<>>
    BY EmptySeq DEF Entries
  <2>2. Out(Start) = FlattenSeq(<<>>) \o <<>>
    BY <1>4, <2>1, NoLines DEF Out
  <2>3. QED
    BY <2>2, FlattenNone, EmptySeq, ConcatEmptySeq
<1>7. Listed(Out(Start), 0)
  <2>1. Ascends(f, 0, Bodies(0)) /\ Out(Start) = [n \in 1 .. 0 |-> Entry[f[n]]]
    BY <1>2, <1>3, <1>4, <1>6
  <2>2. \E at : Ascends(at, 0, Bodies(0)) /\ Out(Start) = [n \in 1 .. 0 |-> Entry[at[n]]]
    BY <2>1
  <2>3. QED
    BY <2>2 DEF Listed
<1>8. QED
  BY <1>5, <1>7, StartTyped DEF Read

LEMMA LineRead ==
    ASSUME input \in Seq(MarkdownLine), NEW k \in Nat, k + 1 <= Len(input), NEW st, Read(st, k)
    PROVE  Read(ReadLine(st, input[k + 1]), k + 1)
<1> DEFINE line == input[k + 1]
<1>1. line \in MarkdownLine /\ k + 1 \in DOMAIN input /\ k <= Len(input)
  OBVIOUS
<1>2. st \in ReadStates /\ Stacked(st.stack, k) /\ Listed(Out(st), k)
  BY DEF Read
<1>3. st.stack \in Seq(MarkdownLine)
  BY <1>2, StateFields
<1>4. PICK after : after = ReadLine(st, line)
  OBVIOUS
<1>5. after \in ReadStates
  <2> HIDE DEF line
  <2> QED BY <1>1, <1>2, <1>4, ReadTyped
<1>6. CASE Heading(line)
  <2>1. after.stack = Append(Pop(st.stack, line.level), line)
    <3> HIDE DEF line
    <3> QED BY <1>1, <1>2, <1>4, <1>6, ReadHeading DEF StateOf
  <2>2. Stacked(after.stack, k + 1)
    BY <1>2, <1>3, <1>6, <2>1, StackedPushes
  <2>3. Out(after) = Out(st)
    <3> HIDE DEF line
    <3> QED BY <1>1, <1>2, <1>4, <1>6, OutHeading
  <2>4. Listed(Out(after), k + 1)
    BY <1>2, <1>6, <2>3, ListedKeeps
  <2>5. QED
    BY <1>4, <1>5, <2>2, <2>4 DEF Read
<1>7. CASE ~Heading(line)
  <2>1. after.stack = st.stack
    <3> HIDE DEF line
    <3> QED BY <1>1, <1>2, <1>4, <1>7, ReadBody DEF StateOf
  <2>2. Stacked(after.stack, k + 1)
    BY <1>2, <1>7, <2>1, StackedKeeps
  <2>3. PICK entry : entry = <<Titles(st.stack), line.text>>
    OBVIOUS
  <2>4. Out(after) = Out(st) \o <<entry>>
    <3> HIDE DEF line
    <3> QED BY <1>1, <1>2, <1>4, <1>7, <2>3, OutBody
  <2>5. entry = Entry[k + 1]
    <3>1. Titles(st.stack) = Arranged(TextsOfInput, Open(k), <)
      BY <1>1, <1>2, <1>3, TitlesOfOpen
    <3>2. Ancestors(k + 1) = Open(k)
      BY <1>7, AncestorsAreOpen
    <3>3. Entry[k + 1] = <<Arranged(TextsOfInput, Ancestors(k + 1), <), input[k + 1].text>>
      BY <1>1, Zenon DEF Entry
    <3>4. QED
      BY <2>3, <3>1, <3>2, <3>3
  <2>6. entry \in Filing /\ Out(st) \in Seq(Filing)
    <3>1. line.text \in Texts
      <4> HIDE DEF line
      <4> QED BY <1>1 DEF MarkdownLine
    <3>2. Out(st) \in Seq(Filing)
      BY <1>2, OutParts
    <3> HIDE DEF line
    <3>3. QED
      BY <1>3, <2>3, <3>1, <3>2, TitlesTyped DEF Filing
  <2>7. Listed(Out(st) \o <<entry>>, k + 1)
    BY <1>2, <1>7, <2>5, <2>6, ListedGrows
  <2>8. QED
    BY <1>4, <1>5, <2>2, <2>4, <2>7 DEF Read
<1>8. QED
  BY <1>6, <1>7

LEMMA EveryLineFiled ==
    ASSUME input \in Seq(MarkdownLine)
    PROVE  FlattenSeq(Entries(Sections(input))) = Filed
<1>1. PICK r : ReadRun(input, Start, r)
  BY StartTyped, ReadTyped, ReadRunExists
<1> DEFINE P == {k \in Nat : k <= Len(input) => Read(r[k], k)}
<1>2. 0 \in P
  BY <1>1, StartRead DEF ReadRun
<1>3. ASSUME NEW k \in Nat, k \in P PROVE k + 1 \in P
  <2> SUFFICES ASSUME k + 1 <= Len(input) PROVE Read(r[k + 1], k + 1)
    OBVIOUS
  <2>1. k + 1 \in 1 .. Len(input) /\ k <= Len(input) /\ (k + 1) - 1 = k
    OBVIOUS
  <2>2. r[k + 1] = ReadLine(r[k], input[k + 1])
    BY <1>1, <2>1 DEF ReadRun
  <2>3. Read(r[k], k)
    BY <1>3, <2>1
  <2>4. QED
    BY <2>2, <2>3, LineRead
<1>4. Nat \subseteq P
  <2> HIDE DEF P
  <2> QED BY <1>2, <1>3, Induction
<1>5. PICK n \in Nat : n = Len(input) /\ DOMAIN input = 1 .. n
  OBVIOUS
<1>6. PICK st : st = r[n]
  OBVIOUS
<1>7. st \in ReadStates /\ Listed(Out(st), n)
  BY <1>4, <1>5, <1>6 DEF Read
<1>8. Sections(input) = Flush(st).sections
  BY <1>1, <1>5, <1>6 DEF Sections, ReadRun, Start
<1>9. FlattenSeq(Entries(Sections(input))) = Out(st)
  BY <1>7, <1>8, OutFlushed
<1>10. PICK c \in Nat : \E at : Ascends(at, c, Bodies(n)) /\ Out(st) = [i \in 1 .. c |-> Entry[at[i]]]
  BY <1>7 DEF Listed
<1>11. PICK at : Ascends(at, c, Bodies(n)) /\ Out(st) = [i \in 1 .. c |-> Entry[at[i]]]
  BY <1>10
<1>12. Bodies(n) \subseteq Nat
  BY DEF Bodies
<1>13. Arranged(Entry, Bodies(n), <) = [i \in 1 .. c |-> Entry[at[i]]]
  <2>1. PICK list : list = Entry
    OBVIOUS
  <2>2. PICK S : S = Bodies(n)
    OBVIOUS
  <2>3. InOrderOf(list, S) = [i \in 1 .. c |-> list[at[i]]]
    BY <1>11, <1>12, <2>2, ArrangedIs
  <2>4. Arranged(Entry, Bodies(n), <) = InOrderOf(Entry, Bodies(n))
    BY Zenon DEF InOrderOf
  <2>5. QED
    BY <2>1, <2>2, <2>3, <2>4
<1>14. Bodies(n) = {i \in DOMAIN input : ~Heading(input[i])}
  BY <1>5 DEF Bodies
<1>15. Filed = Arranged(Entry, {i \in DOMAIN input : ~Heading(input[i])}, <)
  BY Zenon DEF Filed, Entry, TextsOfInput
<1>16. QED
  BY <1>9, <1>11, <1>13, <1>14, <1>15

LEMMA InputIsMarkdown ==
    ASSUME Typed, task \in {"markdown", "files"}
    PROVE  input \in Seq(MarkdownLine)
<1>1. input \in Seq(Inputs[task])
  BY DEF Typed
<1>2. Inputs[task] \subseteq MarkdownLine
  BY InputAssumption DEF MarkdownLine, Texts
<1>3. QED
  BY <1>1, <1>2, SeqMonotonic

\* Every body line is filed once, in order, under the headings it stands under.
THEOREM PathsAreAncestorsAlways == Spec => []PathsAreAncestors
<1>1. ASSUME Typed, task = "markdown" PROVE input \in Seq(MarkdownLine)
  BY <1>1, InputIsMarkdown
<1>2. Entries(Sections(input)) = [s \in DOMAIN Sections(input) |-> LinesOf(Sections(input)[s])]
  BY DEF Entries
<1>3. Typed => PathsAreAncestors
  BY <1>1, <1>2, EveryLineFiled DEF PathsAreAncestors
<1>4. QED
  BY <1>3, TypedAlways, PTL

-----------------------------------------------------------------------------
\* cli.py: the files of a run, parsed, tagged, deduplicated.

\* The facts a file can hold, before and after they are tagged.
RawFacts(X) == {FactOf(f, s) : f \in X, s \in Section}

TaggedFacts(X) == {Categorized(f) : f \in RawFacts(X)}

File(X) == [path : X, lines : Seq(MarkdownLine)]

LEMMA FactsTyped ==
    ASSUME NEW X, NEW file \in X, NEW lines \in Seq(MarkdownLine)
    PROVE  Facts(file, lines) \in Seq(RawFacts(X))
<1>1. PICK sections : sections = Sections(lines)
  OBVIOUS
<1>2. sections \in Seq(Section)
  BY <1>1, SectionsTyped
<1>3. PICK n \in Nat : n = Len(sections) /\ DOMAIN sections = 1 .. n
  BY <1>2
<1>4. \A i \in 1 .. n : FactOf(file, sections[i]) \in RawFacts(X)
  BY <1>2, <1>3 DEF RawFacts
<1>5. [i \in 1 .. n |-> FactOf(file, sections[i])] \in [1 .. n -> RawFacts(X)]
  BY <1>4
<1>6. Facts(file, lines) = [i \in 1 .. n |-> FactOf(file, sections[i])]
  BY <1>1, <1>3 DEF Facts
<1>7. QED
  BY <1>5, <1>6, ListOf

LEMMA ParsedTyped ==
    ASSUME NEW X, NEW files \in Seq(File(X))
    PROVE  Parsed(files) \in Seq(TaggedFacts(X))
<1>1. PICK n \in Nat : n = Len(files) /\ DOMAIN files = 1 .. n
  OBVIOUS
<1>2. PICK lists : lists = [i \in 1 .. n |-> Facts(files[i].path, files[i].lines)]
  OBVIOUS
<1>3. \A i \in 1 .. n : Facts(files[i].path, files[i].lines) \in Seq(RawFacts(X))
  <2> TAKE i \in 1 .. n
  <2>1. files[i] \in File(X)
    BY <1>1
  <2>2. files[i].path \in X /\ files[i].lines \in Seq(MarkdownLine)
    BY <2>1 DEF File
  <2>3. QED
    BY <2>2, FactsTyped
<1>4. lists \in Seq(Seq(RawFacts(X)))
  <2>1. lists \in [1 .. n -> Seq(RawFacts(X))]
    BY <1>2, <1>3
  <2>2. QED
    BY <2>1, ListOf
<1>5. PICK facts : facts = FlattenSeq(lists)
  OBVIOUS
<1>6. facts \in Seq(RawFacts(X))
  BY <1>4, <1>5, FlattenTyped
<1>7. PICK m \in Nat : m = Len(facts) /\ DOMAIN facts = 1 .. m
  BY <1>6
<1>8. \A i \in 1 .. m : Categorized(facts[i]) \in TaggedFacts(X)
  BY <1>6, <1>7 DEF TaggedFacts
<1>9. [i \in 1 .. m |-> Categorized(facts[i])] \in [1 .. m -> TaggedFacts(X)]
  BY <1>8
<1>10. Parsed(files) = [i \in 1 .. m |-> Categorized(facts[i])]
  BY <1>1, <1>2, <1>5, <1>7 DEF Parsed
<1>11. QED
  BY <1>9, <1>10, ListOf

\* The tags a text earns.
TagsOf(text) == UNION {TextVentures[Lowered[t]] : t \in ToSet(text[1]) \cup ToSet(text[2])}

LEMMA TaggedIs ==
    ASSUME NEW X, NEW fact \in TaggedFacts(X)
    PROVE  /\ fact.text \in Seq(Texts) \X Seq(Texts)
           /\ fact.ventures = (PathVentures[fact.doc] \cup TagsOf(fact.text)) \cap Ventures
<1>1. PICK raw \in RawFacts(X) : fact = Categorized(raw)
  BY DEF TaggedFacts
<1>2. PICK file \in X, sec \in Section : raw = FactOf(file, sec)
  BY <1>1 DEF RawFacts
<1>3. sec.path \in Seq(MarkdownLine) /\ sec.body \in Seq(Texts)
  BY DEF Section
<1>4. PICK id : id = <<file, IdOf(sec.path)>>
  OBVIOUS
<1>5. PICK text : text = <<Titles(sec.path), sec.body>>
  OBVIOUS
<1>6. raw = [id |-> id, doc |-> file, ventures |-> {}, text |-> text]
  BY <1>2, <1>4, <1>5 DEF FactOf
<1>7. text \in Seq(Texts) \X Seq(Texts)
  BY <1>3, <1>5, TitlesTyped
<1>8. PICK tags : tags = Inferred(raw) \cap Ventures
  OBVIOUS
<1>9. tags = (PathVentures[file] \cup TagsOf(text)) \cap Ventures
  BY <1>6, <1>8 DEF Inferred, TagsOf
<1>10. fact = [id |-> id, doc |-> file, ventures |-> tags, text |-> text]
  <2>1. fact = [raw EXCEPT !.ventures = tags]
    BY <1>1, <1>6, <1>8 DEF Categorized
  <2>2. QED
    BY <1>6, <2>1
<1>11. QED
  BY <1>7, <1>9, <1>10

TagSets(list) == {TextVentures[Lowered[t]] : t \in ToSet(list)}

LEMMA SameLists ==
    ASSUME NEW s \in Seq(Texts), NEW t \in Seq(Texts), Len(s) = Len(t),
           \A n \in DOMAIN s : Lowered[s[n]] = Lowered[t[n]]
    PROVE  TagSets(s) \subseteq TagSets(t)
<1>1. DOMAIN s = 1 .. Len(s) /\ DOMAIN t = 1 .. Len(s)
  OBVIOUS
<1>2. ASSUME NEW x \in ToSet(s) PROVE \E y \in ToSet(t) : Lowered[x] = Lowered[y]
  <2>1. PICK n \in DOMAIN s : s[n] = x
    BY DEF ToSet
  <2>2. t[n] \in ToSet(t)
    BY <1>1 DEF ToSet
  <2>3. QED
    BY <2>1, <2>2
<1>3. QED
  BY <1>2 DEF TagSets

\* Texts laid out alike, and equal up to case, earn the same tags.
LEMMA SameTags ==
    ASSUME NEW a \in Seq(Texts) \X Seq(Texts), NEW b \in Seq(Texts) \X Seq(Texts), SameLayout(a, b)
    PROVE  TagsOf(a) \subseteq TagsOf(b)
<1>1. a[1] \in Seq(Texts) /\ a[2] \in Seq(Texts) /\ b[1] \in Seq(Texts) /\ b[2] \in Seq(Texts)
  OBVIOUS
<1>2. \A p \in 1 .. 2 : Len(a[p]) = Len(b[p]) /\ \A n \in DOMAIN a[p] : Lowered[a[p][n]] = Lowered[b[p][n]]
  BY DEF SameLayout
<1>3. TagSets(a[1]) \subseteq TagSets(b[1])
  <2>1. Len(a[1]) = Len(b[1]) /\ \A n \in DOMAIN a[1] : Lowered[a[1][n]] = Lowered[b[1][n]]
    BY <1>2
  <2>2. QED
    BY <1>1, <2>1, SameLists
<1>4. TagSets(a[2]) \subseteq TagSets(b[2])
  <2>1. Len(a[2]) = Len(b[2]) /\ \A n \in DOMAIN a[2] : Lowered[a[2][n]] = Lowered[b[2][n]]
    BY <1>2
  <2>2. QED
    BY <1>1, <2>1, SameLists
<1>5. \A t \in ToSet(a[1]) \cup ToSet(a[2]) :
          \E u \in ToSet(b[1]) \cup ToSet(b[2]) : TextVentures[Lowered[t]] = TextVentures[Lowered[u]]
  BY <1>3, <1>4 DEF TagSets
<1>6. QED
  BY <1>5 DEF TagsOf

\* A listing is a list of records of the bank.
LEMMA ListingTyped ==
    ASSUME NEW F, NEW bank \in Seq(F), NEW listing \in Listings(bank)
    PROVE  listing \in Seq(F) /\ ToSet(listing) \subseteq ToSet(bank)
<1>1. CASE Len(bank) <= ListLimit
  BY <1>1 DEF Listings
<1>2. CASE ~(Len(bank) <= ListLimit)
  <2>1. PICK S \in SUBSET DOMAIN bank : listing = Arranged(bank, S, <)
    BY <1>2 DEF Listings
  <2>2. S \subseteq Nat /\ IsFiniteSet(S) /\ Cardinality(S) \in Nat
    <3>1. DOMAIN bank = 1 .. Len(bank) /\ Len(bank) \in Nat
      OBVIOUS
    <3>2. IsFiniteSet(1 .. Len(bank))
      BY <3>1, FS_Interval
    <3>3. IsFiniteSet(S)
      BY <3>1, <3>2, FS_Subset
    <3>4. QED
      BY <3>1, <3>3, FS_CardinalityType
  <2>3. PICK order \in [1 .. Cardinality(S) -> S] : listing = [m \in 1 .. Cardinality(S) |-> bank[order[m]]]
    BY <2>1, <2>2, ArrangedAscending
  <2>4. PICK n \in Nat : n = Cardinality(S)
    BY <2>2
  <2>5. \A m \in 1 .. n : bank[order[m]] \in F /\ bank[order[m]] \in ToSet(bank)
    BY <2>3, <2>4 DEF ToSet
  <2>6. listing \in [1 .. n -> F]
    BY <2>3, <2>4, <2>5
  <2>7. listing \in Seq(F)
    BY <2>6, ListOf
  <2>8. ToSet(listing) \subseteq ToSet(bank)
    BY <2>3, <2>4, <2>5 DEF ToSet
  <2>9. QED
    BY <2>7, <2>8
<1>3. QED
  BY <1>1, <1>2

LEMMA FilesLoseNothing ==
    ASSUME NEW X, NEW files \in Seq(File(X))
    PROVE  NothingLost(files)
<1>1. PICK facts : facts = Parsed(files)
  OBVIOUS
<1>2. PICK F : F = TaggedFacts(X)
  OBVIOUS
<1>3. facts \in Seq(F)
  BY <1>1, <1>2, ParsedTyped
<1>4. PICK kept : kept = NewFacts(facts, <<>>)
  OBVIOUS
<1>5. Exported(files, <<>>, TRUE, FALSE) = {kept}
  BY <1>1, <1>4 DEF Exported, Loaded, Pipeline
<1>6. Exported(files, kept, TRUE, TRUE) = {NewFacts(facts, listing) : listing \in Listings(kept)}
  BY <1>1 DEF Exported, Loaded, Pipeline
<1>7. <<>> \in Seq(F) /\ ToSet(<<>>) = {}
  BY EmptySeq DEF ToSet
<1>8. Deduplicated(F, facts, <<>>)
  BY <1>3, <1>7, NewFactsDeduplicated
<1>9. /\ kept \in Seq(F) /\ ToSet(kept) \subseteq ToSet(facts)
      /\ \A f \in ToSet(facts) \ ToSet(kept) : \E b \in ToSet(kept) : Alike(f, b)
  BY <1>4, <1>7, <1>8 DEF Deduplicated
<1>10. \A f \in ToSet(facts) : \E b \in ToSet(kept) : Alike(f, b)
  <2>1. \A f \in ToSet(kept) : Alike(f, f)
    BY DEF Alike
  <2>2. QED
    BY <1>9, <2>1
<1>11. ASSUME NEW again \in Exported(files, kept, TRUE, TRUE)
       PROVE  \E listing \in Listings(kept) : ToSet(again) = ToSet(kept) \ ToSet(listing)
  <2>1. PICK listing \in Listings(kept) : again = NewFacts(facts, listing)
    BY <1>6
  <2>2. listing \in Seq(F) /\ ToSet(listing) \subseteq ToSet(kept)
    BY <1>9, ListingTyped
  <2>3. ToSet(again) = ToSet(kept) \ ToSet(listing)
    BY <1>3, <1>4, <2>1, <2>2, RerunKeepsTheRest
  <2>4. QED
    BY <2>3
<1>12. ASSUME \A i, j \in DOMAIN facts : facts[i].id = facts[j].id => i = j,
              NEW i \in DOMAIN facts
       PROVE  Survives(facts[i], kept)
  <2>1. facts[i] \in ToSet(facts)
    BY DEF ToSet
  <2>2. PICK b \in ToSet(kept) : Alike(facts[i], b)
    BY <1>10, <2>1
  <2>3. PICK n \in DOMAIN kept : kept[n] = b
    BY DEF ToSet
  <2>4. PICK j \in DOMAIN facts : facts[j] = b
    BY <1>9 DEF ToSet
  <2>5. facts[i] \in F /\ b \in F
    BY <1>3, <2>4
  <2>6. /\ facts[i].text \in Seq(Texts) \X Seq(Texts) /\ b.text \in Seq(Texts) \X Seq(Texts)
        /\ facts[i].ventures = (PathVentures[facts[i].doc] \cup TagsOf(facts[i].text)) \cap Ventures
        /\ b.ventures = (PathVentures[b.doc] \cup TagsOf(b.text)) \cap Ventures
    BY <1>2, <2>5, TaggedIs
  <2>7. SameText(facts[i].text, b.text)
    BY <1>12, <2>2, <2>4 DEF Alike, Normal, SameText
  <2>8. SameLayout(facts[i].text, b.text) => TagsOf(facts[i].text) \subseteq TagsOf(b.text)
    BY <2>6, SameTags
  <2>9. SameLayout(facts[i].text, b.text) =>
            facts[i].ventures \ PathVentures[facts[i].doc] \subseteq b.ventures
    BY <2>6, <2>8
  <2>10. QED
    BY <2>3, <2>7, <2>9 DEF Survives
<1>13. QED
  BY <1>1, <1>5, <1>11, <1>12, Zenon DEF NothingLost

\* Whatever is in the files, a section is lost only where ids collide or where
\* another one says the same, and a run that looks at the bank exports what its
\* listing of the bank leaves out.
THEOREM NothingLostAlways == Spec => []NothingLostWithoutCollision
<1>1. ASSUME Typed, task = "files", NEW cut \in 0 .. Len(input)
      PROVE  NothingLost(<<[path |-> "f", lines |-> SubSeq(input, 1, cut)],
                           [path |-> "g", lines |-> SubSeq(input, cut + 1, Len(input))]>>)
  <2>1. input \in Seq(MarkdownLine) /\ Len(input) \in Nat
    BY <1>1, InputIsMarkdown
  <2>2. cut \in Nat /\ cut <= Len(input)
    BY <2>1
  <2>3. PICK first : first = SubSeq(input, 1, cut)
    OBVIOUS
  <2>4. PICK second : second = SubSeq(input, cut + 1, Len(input))
    OBVIOUS
  <2>5. first \in Seq(MarkdownLine)
    BY <2>1, <2>2, <2>3, PartTyped
  <2>6. second \in Seq(MarkdownLine)
    <3>1. cut + 1 \in Nat \ {0}
      BY <2>2
    <3>2. QED
      BY <2>1, <2>4, <3>1, PartTyped
  <2>7. [path |-> "f", lines |-> first] \in File({"f", "g"}) /\ [path |-> "g", lines |-> second] \in File({"f", "g"})
    BY <2>5, <2>6 DEF File
  <2>8. <<[path |-> "f", lines |-> first], [path |-> "g", lines |-> second]>> \in Seq(File({"f", "g"}))
    BY <2>7
  <2>9. QED
    BY <2>3, <2>4, <2>8, FilesLoseNothing
<1>2. Typed => NothingLostWithoutCollision
  BY <1>1, Zenon DEF NothingLostWithoutCollision
<1>3. QED
  BY <1>2, TypedAlways, PTL

=============================================================================
