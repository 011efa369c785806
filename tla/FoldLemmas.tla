------------------------------ MODULE FoldLemmas ------------------------------
(***************************************************************************)
(* What the recursive operators of the community modules that the models   *)
(* use compute, for every argument.  A recursive function is               *)
(* CHOOSE f : f = [...]; that there is such an f, and what follows of it,  *)
(* is proved by induction, which here means that a set of numbers with 0   *)
(* and closed under successor is Nat.                                      *)
(***************************************************************************)
EXTENDS Integers, SequencesExt, SequenceTheorems, FunctionTheorems,
        FiniteSetTheorems, WellFoundedInduction, TLAPS

\* A non-empty set of natural numbers has a least element.
LEMMA LeastNat ==
    ASSUME NEW T \in SUBSET Nat, T # {}
    PROVE  \E m \in T : \A n \in T : m <= n
<1>1. PICK m \in T : \A n \in T : ~(<<n, m>> \in OpToRel(<, Nat))
  BY WFMin, NatLessThanWellFounded
<1>2. ASSUME NEW n \in T PROVE m <= n
  <2>1. m \in Nat /\ n \in Nat
    OBVIOUS
  <2>2. ~(n < m)
    BY <1>1, <2>1, Zenon DEF OpToRel
  <2> QED BY <2>1, <2>2
<1> QED BY <1>2

\* Induction over the natural numbers, with a set for the predicate.
LEMMA NatSetInduction ==
    ASSUME NEW T, 0 \in T, \A n \in Nat : n \in T => n + 1 \in T
    PROVE  \A n \in Nat : n \in T
<1> SUFFICES ASSUME NEW n0 \in Nat, n0 \notin T PROVE FALSE
  OBVIOUS
<1> DEFINE U == {n \in Nat : n \notin T}
<1>1. PICK m \in U : \A n \in U : m <= n
  BY LeastNat
<1>2. m \in Nat /\ m # 0 /\ m \notin T
  OBVIOUS
<1>3. m - 1 \in Nat /\ m = (m - 1) + 1 /\ ~(m <= m - 1)
  BY <1>2
<1>4. m - 1 \in T
  BY <1>1, <1>3
<1> QED BY <1>2, <1>3, <1>4

\* The same up to a bound.
LEMMA IntervalInduction ==
    ASSUME NEW N \in Nat, NEW T, 0 \in T, \A n \in 0..N - 1 : n \in T => n + 1 \in T
    PROVE  \A n \in 0..N : n \in T
<1> DEFINE U == {n \in Nat : n <= N => n \in T}
<1>1. 0 \in U
  OBVIOUS
<1>2. ASSUME NEW n \in Nat, n \in U PROVE n + 1 \in U
  <2>1. CASE n + 1 <= N
    BY <1>2, <2>1
  <2>2. CASE ~(n + 1 <= N)
    BY <2>2
  <2> QED BY <2>1, <2>2
<1> HIDE DEF U
<1>3. \A n \in Nat : n \in U
  BY <1>1, <1>2, NatSetInduction
<1> QED BY <1>3 DEF U

-----------------------------------------------------------------------------
(* FlattenSeq *)

\* The elements of a concatenation.
LEMMA ToSetConcat ==
    ASSUME NEW S, NEW s \in Seq(S), NEW t \in Seq(S)
    PROVE  ToSet(s \o t) = ToSet(s) \cup ToSet(t)
<1>1. Range(s \o t) = Range(s) \cup Range(t)
  BY RangeConcatenation
<1> QED BY <1>1, Zenon DEF Range, ToSet

\* The function with which FlattenSeq is defined exists, and its values are
\* the concatenations of ever more of the sequences.
LEMMA FlattenSteps ==
    ASSUME NEW S, NEW ss \in Seq(Seq(S))
    PROVE  \E f \in [0..Len(ss) -> Seq(S)] :
              /\ f[0] = <<>>
              /\ \A i \in 1..Len(ss) : f[i] = f[i - 1] \o ss[i]
              /\ FlattenSeq(ss) = f[Len(ss)]
<1> DEFINE N == Len(ss)
           Def(f, n) == f = [i \in 1..n |-> IF i = 1 THEN ss[i] ELSE f[i - 1] \o ss[i]]
<1>0. N \in Nat /\ \A i \in 1..N : ss[i] \in Seq(S)
  OBVIOUS
<1>1. CASE N = 0
  <2> DEFINE f == [i \in 0..0 |-> <<>>]
  <2>1. FlattenSeq(ss) = <<>> /\ <<>> \in Seq(S)
    BY <1>1, EmptySeq DEF FlattenSeq
  <2>2. f \in [0..Len(ss) -> Seq(S)] /\ f[0] = <<>> /\ FlattenSeq(ss) = f[Len(ss)]
    BY <1>1, <2>1
  <2>3. \A i \in 1..Len(ss) : FALSE
    BY <1>1
  <2> HIDE DEF f
  <2> QED BY <2>2, <2>3
<1>2. CASE N > 0
  <2> DEFINE T == {n \in Nat : \E f : Def(f, n)}
  <2>1. 0 \in T
    <3>1. Def(<<>>, 0)
      OBVIOUS
    <3> QED BY <3>1
  <2>2. ASSUME NEW n \in Nat, n \in T PROVE n + 1 \in T
    <3>1. PICK f : Def(f, n)
      BY <2>2
    <3> DEFINE g == [i \in 1..n + 1 |-> IF i = 1 THEN ss[i] ELSE f[i - 1] \o ss[i]]
    <3>2. ASSUME NEW i \in 1..n + 1, i # 1 PROVE g[i - 1] = f[i - 1]
      <4>1. i - 1 \in 1..n /\ i - 1 \in 1..n + 1
        BY <3>2
      <4> QED BY <3>1, <4>1
    <3>3. Def(g, n + 1)
      BY <3>2
    <3> HIDE DEF g, Def
    <3> QED BY <3>3
  <2>3. N \in T
    <3> HIDE DEF T
    <3> QED BY <1>0, <2>1, <2>2, NatSetInduction
  <2> DEFINE flatten == CHOOSE f : Def(f, N)
  <2>4. Def(flatten, N)
    BY <2>3
  <2>5. FlattenSeq(ss) = flatten[N]
    BY <1>0, <1>2 DEF FlattenSeq
  <2> HIDE DEF flatten
  <2>6. ASSUME NEW i \in 1..N
        PROVE  flatten[i] = IF i = 1 THEN ss[i] ELSE flatten[i - 1] \o ss[i]
    BY <1>0, <2>4
  <2> HIDE DEF Def
  <2>7. \A i \in 1..N : flatten[i] \in Seq(S)
    <3> DEFINE U == {n \in Nat : n = 0 \/ flatten[n] \in Seq(S)}
    <3>1. 0 \in U
      OBVIOUS
    <3>2. ASSUME NEW n \in 0..N - 1, n \in U PROVE n + 1 \in U
      <4>0. n \in Nat /\ n + 1 \in 1..N /\ (n + 1) - 1 = n /\ ss[n + 1] \in Seq(S)
        BY <1>0
      <4>1. CASE n = 0
        BY <4>0, <4>1, <2>6
      <4>2. CASE n # 0
        <5>0. n + 1 # 1
          BY <4>0, <4>2
        <5>1. flatten[n + 1] = flatten[n] \o ss[n + 1]
          BY <4>0, <5>0, <2>6
        <5>2. flatten[n] \in Seq(S)
          BY <3>2, <4>2
        <5>3. flatten[n + 1] \in Seq(S)
          BY <4>0, <5>1, <5>2, ConcatProperties
        <5> QED BY <4>0, <5>3
      <4> QED BY <4>1, <4>2
    <3> HIDE DEF U
    <3>3. \A n \in 0..N : n \in U
      BY <1>0, <3>1, <3>2, IntervalInduction
    <3> QED BY <3>3, <1>0 DEF U
  <2> DEFINE h == [i \in 0..N |-> IF i = 0 THEN <<>> ELSE flatten[i]]
  <2>8. h \in [0..N -> Seq(S)]
    BY <2>7, EmptySeq
  <2>9. ASSUME NEW i \in 1..N PROVE h[i] = h[i - 1] \o ss[i]
    <3>0. /\ i \in 0..N /\ i - 1 \in 0..N /\ i # 0 /\ (i - 1 = 0 <=> i = 1)
          /\ ss[i] \in Seq(S)
      BY <1>0
    <3>1. CASE i = 1
      <4>1. h[i] = ss[i] /\ h[i - 1] = <<>>
        BY <3>0, <3>1, <2>6
      <4> HIDE DEF h
      <4> QED BY <4>1, <3>0
    <3>2. CASE i # 1
      <4>1. h[i] = flatten[i] /\ h[i - 1] = flatten[i - 1]
        BY <3>0, <3>2
      <4> QED BY <4>1, <3>2, <2>6
    <3> QED BY <3>1, <3>2
  <2>10. h[0] = <<>> /\ FlattenSeq(ss) = h[N]
    BY <1>0, <1>2, <2>5
  <2> HIDE DEF h
  <2> QED BY <2>8, <2>9, <2>10
<1>3. N = 0 \/ N > 0
  BY <1>0
<1> HIDE DEF N, Def
<1> QED BY <1>1, <1>2, <1>3

\* The result is a sequence, of the elements of the sequences.
LEMMA FlattenElements ==
    ASSUME NEW S, NEW ss \in Seq(Seq(S))
    PROVE  /\ FlattenSeq(ss) \in Seq(S)
           /\ \A x : x \in ToSet(FlattenSeq(ss)) <=> \E i \in 1..Len(ss) : x \in ToSet(ss[i])
<1>0. Len(ss) \in Nat /\ \A i \in 1..Len(ss) : ss[i] \in Seq(S)
  OBVIOUS
<1>1. PICK f \in [0..Len(ss) -> Seq(S)] :
          /\ f[0] = <<>>
          /\ \A i \in 1..Len(ss) : f[i] = f[i - 1] \o ss[i]
          /\ FlattenSeq(ss) = f[Len(ss)]
  BY FlattenSteps
<1> DEFINE P(n) == \A x : x \in ToSet(f[n]) <=> \E i \in 1..n : x \in ToSet(ss[i])
           U == {n \in Nat : P(n)}
<1>2. 0 \in U
  <2>1. ToSet(f[0]) = {}
    BY <1>1 DEF ToSet
  <2> QED BY <2>1
<1>3. ASSUME NEW n \in 0..Len(ss) - 1, n \in U PROVE n + 1 \in U
  <2>0. /\ n \in Nat /\ n \in 0..Len(ss) /\ n + 1 \in 1..Len(ss) /\ (n + 1) - 1 = n
        /\ \A i : i \in 1..n + 1 <=> (i \in 1..n \/ i = n + 1)
    BY <1>0
  <2>1. f[n + 1] = f[n] \o ss[n + 1] /\ f[n] \in Seq(S) /\ ss[n + 1] \in Seq(S)
    BY <1>0, <1>1, <2>0
  <2>2. ToSet(f[n + 1]) = ToSet(f[n]) \cup ToSet(ss[n + 1])
    BY <2>1, ToSetConcat
  <2>3. P(n)
    BY <1>3
  <2>4. P(n + 1)
    BY <2>0, <2>2, <2>3, Zenon
  <2> QED BY <2>0, <2>4
<1> HIDE DEF U
<1>4. \A n \in 0..Len(ss) : n \in U
  BY <1>0, <1>2, <1>3, IntervalInduction
<1>5. P(Len(ss))
  BY <1>0, <1>4 DEF U
<1> QED BY <1>0, <1>1, <1>5

\* The first sequence can be taken off.
LEMMA FlattenFirst ==
    ASSUME NEW S, NEW s \in Seq(S), NEW ss \in Seq(Seq(S))
    PROVE  FlattenSeq(<<s>> \o ss) = s \o FlattenSeq(ss)
<1>a. ASSUME NEW a \in Seq(S), NEW b \in Seq(S)
      PROVE  (s \o a) \o b = s \o (a \o b)
  BY ConcatAssociative
<1> DEFINE tt == <<s>> \o ss
<1>0. /\ Len(ss) \in Nat /\ tt \in Seq(Seq(S)) /\ Len(tt) = Len(ss) + 1
      /\ tt[1] = s /\ \A i \in 1..Len(ss) : tt[i + 1] = ss[i] /\ ss[i] \in Seq(S)
  OBVIOUS
<1> HIDE DEF tt
<1>1. PICK f \in [0..Len(ss) -> Seq(S)] :
          /\ f[0] = <<>>
          /\ \A i \in 1..Len(ss) : f[i] = f[i - 1] \o ss[i]
          /\ FlattenSeq(ss) = f[Len(ss)]
  BY FlattenSteps
<1>2. PICK g \in [0..Len(tt) -> Seq(S)] :
          /\ g[0] = <<>>
          /\ \A i \in 1..Len(tt) : g[i] = g[i - 1] \o tt[i]
          /\ FlattenSeq(tt) = g[Len(tt)]
  BY <1>0, FlattenSteps
<1> DEFINE U == {n \in Nat : g[n + 1] = s \o f[n]}
<1>3. 0 \in U
  <2>1. g[1] = <<>> \o s
    <3>1. 1 \in 1..Len(tt) /\ 1 - 1 = 0
      BY <1>0
    <3>2. g[1] = g[1 - 1] \o tt[1]
      BY <1>2, <3>1
    <3> QED BY <3>1, <3>2, <1>0, <1>2
  <2>2. g[0 + 1] = s \o f[0]
    BY <2>1, <1>1, ConcatEmptySeq
  <2> QED BY <2>2
<1>4. ASSUME NEW n \in 0..Len(ss) - 1, n \in U PROVE n + 1 \in U
  <2>0. /\ n \in Nat /\ n \in 0..Len(ss) /\ n + 1 \in 1..Len(ss) /\ (n + 1) - 1 = n
        /\ (n + 1) + 1 \in 1..Len(tt) /\ ((n + 1) + 1) - 1 = n + 1
    BY <1>0
  <2>1. f[n + 1] = f[n] \o ss[n + 1] /\ f[n] \in Seq(S) /\ ss[n + 1] \in Seq(S)
    BY <1>0, <1>1, <2>0
  <2>2. g[(n + 1) + 1] = g[n + 1] \o ss[n + 1]
    BY <1>0, <1>2, <2>0
  <2>3. g[n + 1] = s \o f[n]
    BY <1>4
  <2>4. (s \o f[n]) \o ss[n + 1] = s \o (f[n] \o ss[n + 1])
    BY <1>a, <2>1
  <2>5. g[(n + 1) + 1] = s \o f[n + 1]
    BY <2>1, <2>2, <2>3, <2>4
  <2> QED BY <2>0, <2>5
<1> HIDE DEF U
<1>5. \A n \in 0..Len(ss) : n \in U
  BY <1>0, <1>3, <1>4, IntervalInduction
<1>6. g[Len(ss) + 1] = s \o f[Len(ss)]
  BY <1>0, <1>5 DEF U
<1> QED BY <1>0, <1>1, <1>2, <1>6 DEF tt

\* Sequences of at most k elements each.
LEMMA FlattenLength ==
    ASSUME NEW S, NEW ss \in Seq(Seq(S)), NEW k \in Nat,
           \A i \in 1..Len(ss) : Len(ss[i]) <= k
    PROVE  Len(FlattenSeq(ss)) <= k * Len(ss)
<1>0. Len(ss) \in Nat /\ \A i \in 1..Len(ss) : ss[i] \in Seq(S)
  OBVIOUS
<1>1. PICK f \in [0..Len(ss) -> Seq(S)] :
          /\ f[0] = <<>>
          /\ \A i \in 1..Len(ss) : f[i] = f[i - 1] \o ss[i]
          /\ FlattenSeq(ss) = f[Len(ss)]
  BY FlattenSteps
<1> DEFINE U == {n \in Nat : Len(f[n]) <= k * n}
<1>2. 0 \in U
  BY <1>1
<1>3. ASSUME NEW n \in 0..Len(ss) - 1, n \in U PROVE n + 1 \in U
  <2>0. n \in Nat /\ n \in 0..Len(ss) /\ n + 1 \in 1..Len(ss) /\ (n + 1) - 1 = n
    BY <1>0
  <2>1. f[n + 1] = f[n] \o ss[n + 1] /\ f[n] \in Seq(S) /\ ss[n + 1] \in Seq(S)
    BY <1>0, <1>1, <2>0
  <2>2. Len(f[n + 1]) = Len(f[n]) + Len(ss[n + 1])
    BY <2>1, ConcatProperties
  <2>3. Len(f[n]) \in Nat /\ Len(f[n]) <= k * n /\ Len(ss[n + 1]) \in Nat /\ Len(ss[n + 1]) <= k
    BY <1>3, <2>0, <2>1
  <2> DEFINE kn == k * n
             k1 == k * (n + 1)
             a  == Len(f[n])
             b  == Len(ss[n + 1])
  <2>4. k1 = kn + k /\ kn \in Nat
    BY <2>0
  <2> HIDE DEF U, kn, k1
  <2>5. Len(f[n + 1]) <= k1
    <3>1. a \in Nat /\ b \in Nat /\ a <= kn /\ b <= k
      BY <2>3 DEF kn
    <3> HIDE DEF a, b
    <3>2. a + b <= k1
      BY <3>1, <2>4
    <3> QED BY <3>2, <2>2 DEF a, b
  <2> QED BY <2>0, <2>5 DEF U, k1
<1> HIDE DEF U
<1>4. \A n \in 0..Len(ss) : n \in U
  BY <1>0, <1>2, <1>3, IntervalInduction
<1>5. Len(ss) \in U
  BY <1>0, <1>4
<1> QED BY <1>1, <1>5 DEF U

\* Where an element is in a sequence.
Positions(s, x) == {i \in DOMAIN s : s[i] = x}

\* An element of each of the sequences is in the result at least once for each.
LEMMA FlattenPositions ==
    ASSUME NEW S, NEW ss \in Seq(Seq(S)), NEW x,
           \A i \in 1..Len(ss) : x \in ToSet(ss[i])
    PROVE  Cardinality(Positions(FlattenSeq(ss), x)) >= Len(ss)
<1>0. Len(ss) \in Nat /\ \A i \in 1..Len(ss) : ss[i] \in Seq(S)
  OBVIOUS
<1>1. PICK f \in [0..Len(ss) -> Seq(S)] :
          /\ f[0] = <<>>
          /\ \A i \in 1..Len(ss) : f[i] = f[i - 1] \o ss[i]
          /\ FlattenSeq(ss) = f[Len(ss)]
  BY FlattenSteps
<1>2. ASSUME NEW s \in Seq(S)
      PROVE  IsFiniteSet(Positions(s, x)) /\ Cardinality(Positions(s, x)) \in Nat
  <2>1. Positions(s, x) \subseteq 1..Len(s) /\ Len(s) \in Nat
    BY DEF Positions
  <2>2. IsFiniteSet(1..Len(s))
    BY <2>1, FS_Interval
  <2>3. IsFiniteSet(Positions(s, x))
    BY <2>1, <2>2, FS_Subset
  <2> QED BY <2>3, FS_CardinalityType
<1> DEFINE U == {n \in Nat : Cardinality(Positions(f[n], x)) >= n}
<1>3. 0 \in U
  BY <1>1, <1>2
<1>4. ASSUME NEW n \in 0..Len(ss) - 1, n \in U PROVE n + 1 \in U
  <2>0. n \in Nat /\ n \in 0..Len(ss) /\ n + 1 \in 1..Len(ss) /\ (n + 1) - 1 = n
    BY <1>0
  <2>1. f[n + 1] = f[n] \o ss[n + 1] /\ f[n] \in Seq(S) /\ ss[n + 1] \in Seq(S)
    BY <1>0, <1>1, <2>0
  <2>2. f[n + 1] \in Seq(S)
    BY <2>1
  <2>3. PICK j \in 1..Len(ss[n + 1]) : ss[n + 1][j] = x
    BY <2>0, <2>1 DEF ToSet
  <2> DEFINE P == Positions(f[n], x)
             Q == Positions(f[n + 1], x)
             m == Len(f[n]) + j
  <2>c. /\ Len(f[n]) \in Nat /\ Len(ss[n + 1]) \in Nat
        /\ DOMAIN f[n + 1] = 1..Len(f[n]) + Len(ss[n + 1])
        /\ \A i \in 1..Len(f[n]) + Len(ss[n + 1]) :
              f[n + 1][i] = IF i <= Len(f[n]) THEN f[n][i] ELSE ss[n + 1][i - Len(f[n])]
        /\ DOMAIN f[n] = 1..Len(f[n])
    <3>1. /\ Len(f[n]) \in Nat /\ DOMAIN f[n] = 1..Len(f[n])
          /\ Len(ss[n + 1]) \in Nat
          /\ DOMAIN f[n + 1] = 1..Len(f[n + 1])
      BY <2>1, <2>2, LenProperties
    <3>2. /\ Len(f[n + 1]) = Len(f[n]) + Len(ss[n + 1])
          /\ \A i \in 1..Len(f[n]) + Len(ss[n + 1]) :
              f[n + 1][i] = IF i <= Len(f[n]) THEN f[n][i] ELSE ss[n + 1][i - Len(f[n])]
      <4> DEFINE a == f[n]
                 b == ss[n + 1]
      <4>1. a \in Seq(S) /\ b \in Seq(S) /\ f[n + 1] = a \o b
        BY <2>1
      <4> HIDE DEF a, b, U
      <4>2. /\ Len(a \o b) = Len(a) + Len(b)
            /\ \A i \in 1..Len(a) + Len(b) :
                  (a \o b)[i] = IF i <= Len(a) THEN a[i] ELSE b[i - Len(a)]
        BY <4>1, ConcatProperties
      <4> QED BY <4>1, <4>2 DEF a, b
    <3> QED BY <3>1, <3>2
  <2>4. m \in Q /\ m \notin P
    <3>1. m \in 1..Len(f[n]) + Len(ss[n + 1]) /\ ~(m <= Len(f[n])) /\ m - Len(f[n]) = j
      <4> DEFINE L == Len(f[n])
                 M == Len(ss[n + 1])
      <4>1. L \in Nat /\ M \in Nat /\ j \in 1..M
        BY <2>c, <2>3
      <4> HIDE DEF L, M
      <4>2. L + j \in 1..L + M /\ ~(L + j <= L) /\ (L + j) - L = j
        BY <4>1
      <4> QED BY <4>2 DEF L, M
    <3>2. f[n + 1][m] = x
      BY <3>1, <2>c, <2>3
    <3>3. m \notin DOMAIN f[n]
      BY <3>1, <2>c
    <3> QED BY <3>1, <3>2, <3>3, <2>c DEF Positions
  <2>5. P \subseteq Q
    <3>1. ASSUME NEW i \in P PROVE i \in Q
      <4>1. i \in 1..Len(f[n]) /\ f[n][i] = x
        BY <2>c DEF Positions
      <4>2. i \in 1..Len(f[n]) + Len(ss[n + 1]) /\ i <= Len(f[n])
        <5> DEFINE L == Len(f[n])
                   M == Len(ss[n + 1])
        <5>1. L \in Nat /\ M \in Nat /\ i \in 1..L
          BY <2>c, <4>1
        <5> HIDE DEF L, M
        <5>2. i \in 1..L + M /\ i <= L
          BY <5>1
        <5> QED BY <5>2 DEF L, M
      <4>3. f[n + 1][i] = x
        BY <2>c, <4>1, <4>2
      <4> QED BY <2>c, <4>2, <4>3 DEF Positions
    <3> QED BY <3>1
  <2>6. IsFiniteSet(P) /\ IsFiniteSet(Q) /\ Cardinality(P) \in Nat /\ Cardinality(Q) \in Nat
    BY <1>2, <2>1, <2>2
  <2>7. Cardinality(P) >= n
    BY <1>4
  <2> HIDE DEF P, Q, m, U
  <2>8. Cardinality(P \cup {m}) = Cardinality(P) + 1
    BY <2>4, <2>6, FS_AddElement
  <2>9. Cardinality(P \cup {m}) <= Cardinality(Q)
    BY <2>4, <2>5, <2>6, FS_Subset
  <2>10. Cardinality(Q) >= n + 1
    BY <2>0, <2>6, <2>7, <2>8, <2>9
  <2> QED BY <2>0, <2>10 DEF U, Q
<1> HIDE DEF U
<1>5. \A n \in 0..Len(ss) : n \in U
  BY <1>0, <1>3, <1>4, IntervalInduction
<1>6. Len(ss) \in U
  BY <1>0, <1>5
<1> QED BY <1>1, <1>6 DEF U

-----------------------------------------------------------------------------
(* SumFunction *)

\* The function with which SumFunction is defined exists, on a finite set.
LEMMA SumSteps ==
    ASSUME NEW S, IsFiniteSet(S), NEW w \in [S -> Int]
    PROVE  \E iter \in [SUBSET S -> Int] :
              /\ iter[{}] = 0
              /\ \A s \in SUBSET S :
                    s # {} => LET x == CHOOSE x \in s : TRUE
                              IN  iter[s] = w[x] + iter[s \ {x}]
              /\ SumFunction(w) = iter[S]
<1> DEFINE ch(s)     == CHOOSE x \in s : TRUE
           Upto(n)   == {s \in SUBSET S : Cardinality(s) <= n}
           Rule(f, s) == IF s = {} THEN 0 ELSE w[ch(s)] + f[s \ {ch(s)}]
           T == {n \in Nat : \E f \in [Upto(n) -> Int] : \A s \in Upto(n) : f[s] = Rule(f, s)}
           M == Cardinality(S)
<1>1. /\ M \in Nat /\ Upto(M) = SUBSET S
      /\ \A s \in SUBSET S : IsFiniteSet(s) /\ Cardinality(s) \in Nat
  BY FS_CardinalityType, FS_Subset
<1>2. ASSUME NEW s \in SUBSET S, s # {}
      PROVE  /\ ch(s) \in s /\ s \ {ch(s)} \in SUBSET S
             /\ Cardinality(s \ {ch(s)}) = Cardinality(s) - 1
  <2>1. ch(s) \in s
    BY <1>2
  <2> HIDE DEF ch
  <2> QED BY <2>1, <1>1, FS_RemoveElement
<1> HIDE DEF M, ch
<1>3. 0 \in T
  <2> DEFINE f == [s \in Upto(0) |-> 0]
  <2>1. \A s \in Upto(0) : s = {}
    BY <1>1, FS_EmptySet
  <2>2. f \in [Upto(0) -> Int] /\ \A s \in Upto(0) : f[s] = Rule(f, s)
    BY <2>1
  <2> HIDE DEF f, Upto, Rule
  <2> QED BY <2>2
<1>4. ASSUME NEW n \in Nat, n \in T PROVE n + 1 \in T
  <2>1. PICK f \in [Upto(n) -> Int] : \A s \in Upto(n) : f[s] = Rule(f, s)
    BY <1>4
  <2> DEFINE g == [s \in Upto(n + 1) |-> Rule(f, s)]
  <2>2. ASSUME NEW s \in Upto(n + 1), s # {}
        PROVE  s \ {ch(s)} \in Upto(n) /\ s \ {ch(s)} \in Upto(n + 1) /\ ch(s) \in S
    <3>1. s \in SUBSET S /\ Cardinality(s) <= n + 1 /\ Cardinality(s) \in Nat
      BY <1>1
    <3>2. Cardinality(s \ {ch(s)}) <= n /\ Cardinality(s \ {ch(s)}) <= n + 1
      BY <1>2, <2>2, <3>1
    <3> QED BY <1>2, <2>2, <3>1, <3>2
  <2>3. g \in [Upto(n + 1) -> Int]
    BY <2>1, <2>2
  <2>4. ASSUME NEW s \in Upto(n + 1) PROVE g[s] = Rule(g, s)
    <3>1. CASE s = {}
      BY <3>1
    <3>2. CASE s # {}
      <4> DEFINE t == s \ {ch(s)}
      <4>1. t \in Upto(n) /\ t \in Upto(n + 1)
        BY <2>2, <3>2
      <4> HIDE DEF t, Upto
      <4>2. g[t] = f[t]
        BY <4>1, <2>1
      <4> QED BY <3>2, <4>2 DEF t
    <3> QED BY <3>1, <3>2
  <2> HIDE DEF g, Upto, Rule
  <2> QED BY <2>3, <2>4
<1>5. M \in T
  <2> HIDE DEF T
  <2> QED BY <1>1, <1>3, <1>4, NatSetInduction
<1>6. PICK f0 \in [SUBSET S -> Int] : \A s \in SUBSET S : f0[s] = Rule(f0, s)
  BY <1>1, <1>5
<1> DEFINE Def(f) == f = [s \in SUBSET S |-> Rule(f, s)]
           iter   == CHOOSE f : Def(f)
<1>7. Def(f0)
  BY <1>6
<1>8. Def(iter)
  <2> HIDE DEF Def
  <2> QED BY <1>7
<1>9. SumFunction(w) = iter[S]
  BY DEF SumFunction, SumFunctionOnSet, FoldFunctionOnSet, MapThenFoldSet, ch
<1> HIDE DEF iter
<1>10. /\ iter[{}] = 0
       /\ \A s \in SUBSET S : s # {} => iter[s] = w[ch(s)] + iter[s \ {ch(s)}]
  BY <1>8
<1>11. iter \in [SUBSET S -> Int]
  <2> DEFINE U == {n \in Nat : \A s \in Upto(n) : iter[s] \in Int}
  <2>1. 0 \in U
    <3>1. \A s \in Upto(0) : s = {}
      BY <1>1, FS_EmptySet
    <3> HIDE DEF Upto
    <3>2. ASSUME NEW s \in Upto(0) PROVE iter[s] \in Int
      <4>1. iter[s] = iter[{}]
        BY <3>1
      <4> QED BY <4>1, <1>10
    <3> QED BY <3>2
  <2>2. ASSUME NEW n \in Nat, n \in U PROVE n + 1 \in U
    <3>1. ASSUME NEW s \in Upto(n + 1), s # {} PROVE iter[s] \in Int
      <4>1. /\ s \in SUBSET S /\ Cardinality(s) <= n + 1 /\ Cardinality(s) \in Nat
        BY <1>1
      <4>2. s \ {ch(s)} \in Upto(n)
        BY <1>2, <3>1, <4>1
      <4>3. iter[s \ {ch(s)}] \in Int
        BY <2>2, <4>2
      <4>4. w[ch(s)] \in Int /\ iter[s] = w[ch(s)] + iter[s \ {ch(s)}]
        BY <1>2, <1>10, <3>1, <4>1
      <4> QED BY <4>3, <4>4
    <3> HIDE DEF Upto
    <3>2. ASSUME NEW s \in Upto(n + 1), s = {} PROVE iter[s] \in Int
      <4>1. iter[s] = iter[{}]
        BY <3>2
      <4> QED BY <4>1, <1>10
    <3>3. \A s \in Upto(n + 1) : iter[s] \in Int
      BY <3>1, <3>2
    <3> QED BY <3>3
  <2> HIDE DEF U
  <2>3. M \in U
    BY <1>1, <2>1, <2>2, NatSetInduction
  <2>4. \A s \in SUBSET S : iter[s] \in Int
    BY <1>1, <2>3 DEF U
  <2> QED BY <1>8, <2>4
<1> QED BY <1>9, <1>10, <1>11 DEF ch

\* Changing one value changes the sum by as much.
LEMMA SumChange ==
    ASSUME NEW S, IsFiniteSet(S), NEW w \in [S -> Int], NEW u \in [S -> Int],
           NEW v \in S, \A x \in S : x # v => u[x] = w[x]
    PROVE  /\ SumFunction(w) \in Int /\ SumFunction(u) \in Int
           /\ SumFunction(u) = SumFunction(w) + (u[v] - w[v])
<1> DEFINE ch(s) == CHOOSE x \in s : TRUE
<1>1. PICK f \in [SUBSET S -> Int] :
          /\ f[{}] = 0
          /\ \A s \in SUBSET S : s # {} => f[s] = w[ch(s)] + f[s \ {ch(s)}]
          /\ SumFunction(w) = f[S]
  BY SumSteps
<1>2. PICK g \in [SUBSET S -> Int] :
          /\ g[{}] = 0
          /\ \A s \in SUBSET S : s # {} => g[s] = u[ch(s)] + g[s \ {ch(s)}]
          /\ SumFunction(u) = g[S]
  BY SumSteps
<1>3. /\ Cardinality(S) \in Nat
      /\ \A s \in SUBSET S : /\ IsFiniteSet(s) /\ Cardinality(s) \in Nat
                             /\ Cardinality(s) <= Cardinality(S)
  BY FS_CardinalityType, FS_Subset
<1>4. ASSUME NEW s \in SUBSET S, s # {}
      PROVE  /\ ch(s) \in s /\ s \ {ch(s)} \in SUBSET S
             /\ Cardinality(s \ {ch(s)}) = Cardinality(s) - 1
  <2>1. ch(s) \in s
    BY <1>4
  <2> HIDE DEF ch
  <2> QED BY <2>1, <1>3, FS_RemoveElement
<1> HIDE DEF ch
<1> DEFINE Moved(s) == IF v \in s THEN f[s] + (u[v] - w[v]) ELSE f[s]
           U == {n \in Nat : \A s \in SUBSET S : Cardinality(s) <= n => g[s] = Moved(s)}
<1>5. 0 \in U
  <2>1. ASSUME NEW s \in SUBSET S, Cardinality(s) <= 0 PROVE s = {}
    BY <1>3, <2>1, FS_EmptySet
  <2> QED BY <1>1, <1>2, <2>1
<1>6. ASSUME NEW n \in Nat, n \in U PROVE n + 1 \in U
  <2>1. ASSUME NEW s \in SUBSET S, Cardinality(s) <= n + 1, s # {} PROVE g[s] = Moved(s)
    <3> DEFINE x == ch(s)
               t == s \ {x}
    <3>1. x \in s /\ x \in S /\ t \in SUBSET S /\ Cardinality(t) <= n
      BY <1>3, <1>4, <2>1
    <3>2. g[t] = Moved(t)
      BY <1>6, <3>1
    <3>3. g[s] = u[x] + g[t] /\ f[s] = w[x] + f[t]
      BY <1>1, <1>2, <2>1
    <3>4. u[x] \in Int /\ w[x] \in Int /\ f[t] \in Int /\ u[v] \in Int /\ w[v] \in Int
      BY <3>1
    <3>5. CASE x = v
      <4>1. v \in s /\ v \notin t
        BY <3>1, <3>5
      <4> QED BY <4>1, <3>2, <3>3, <3>4, <3>5
    <3>6. CASE x # v
      <4>1. u[x] = w[x] /\ (v \in t <=> v \in s)
        BY <3>1, <3>6
      <4> QED BY <4>1, <3>2, <3>3, <3>4
    <3> QED BY <3>5, <3>6
  <2>2. g[{}] = Moved({})
    BY <1>1, <1>2
  <2> HIDE DEF Moved
  <2>3. \A s \in SUBSET S : Cardinality(s) <= n + 1 => g[s] = Moved(s)
    BY <2>1, <2>2
  <2> QED BY <2>3
<1> HIDE DEF U
<1>7. Cardinality(S) \in U
  BY <1>3, <1>5, <1>6, NatSetInduction
<1>8. g[S] = Moved(S)
  BY <1>3, <1>7 DEF U
<1> QED BY <1>1, <1>2, <1>8

-----------------------------------------------------------------------------
(* The greatest element of a set of numbers, and functions defined by steps *)

LEMMA MaxInSet ==
    ASSUME NEW N \in Nat, NEW S \in SUBSET (0..N), S # {}
    PROVE  Max(S) \in S /\ \A y \in S : Max(S) >= y
<1> DEFINE Has(s) == \E x \in s : \A y \in s : x >= y
           T == {n \in Nat : \A s \in SUBSET (0..n) : s # {} => Has(s)}
<1>1. 0 \in T
  <2> SUFFICES ASSUME NEW s \in SUBSET (0..0), s # {} PROVE Has(s)
    OBVIOUS
  <2>1. \A y \in s : y = 0
    OBVIOUS
  <2>2. PICK x \in s : TRUE
    OBVIOUS
  <2>3. x = 0 /\ \A y \in s : x >= y
    BY <2>1
  <2> QED BY <2>3
<1>2. ASSUME NEW n \in Nat, n \in T PROVE n + 1 \in T
  <2> SUFFICES ASSUME NEW s \in SUBSET (0..n + 1), s # {} PROVE Has(s)
    OBVIOUS
  <2>1. CASE n + 1 \in s
    <3>1. \A y \in s : n + 1 >= y
      OBVIOUS
    <3> QED BY <2>1, <3>1
  <2>2. CASE n + 1 \notin s
    <3>1. s \in SUBSET (0..n)
      BY <2>2
    <3> QED BY <3>1, <1>2
  <2> QED BY <2>1, <2>2
<1> HIDE DEF T
<1>3. \A n \in Nat : n \in T
  BY <1>1, <1>2, NatSetInduction
<1>4. N \in T
  BY <1>3
<1>5. Has(S)
  BY <1>4 DEF T
<1> QED BY <1>5 DEF Max

\* What a function is that is defined from each value to the next.
Steps(n, X)                == [1..n -> [X -> X]]
Follows(f, n, first, step) == f[0] = first /\ \A i \in 1..n : f[i] = step[i][f[i - 1]]

LEMMA StepsExist ==
    ASSUME NEW X, NEW n \in Nat, NEW first \in X, NEW step \in Steps(n, X)
    PROVE  \E f : f \in [0..n -> X] /\ Follows(f, n, first, step)
<1> USE DEF Steps, Follows
<1> DEFINE Good(f, k) == f[0] = first /\ \A i \in 1..k : f[i] = step[i][f[i - 1]]
           T == {k \in 0..n : \E f \in [0..k -> X] : Good(f, k)}
<1>1. 0 \in T
  <2> DEFINE f == [i \in 0..0 |-> first]
  <2>1. f \in [0..0 -> X] /\ Good(f, 0) /\ 0 \in 0..n
    OBVIOUS
  <2> HIDE DEF f
  <2> QED BY <2>1
<1>2. ASSUME NEW k \in 0..n - 1, k \in T PROVE k + 1 \in T
  <2>1. PICK f \in [0..k -> X] : Good(f, k)
    BY <1>2
  <2> DEFINE x == step[k + 1][f[k]]
             g == [i \in 0..k + 1 |-> IF i = k + 1 THEN x ELSE f[i]]
  <2>2. k \in Nat /\ k + 1 \in 1..n /\ k \in 0..k
    OBVIOUS
  <2>3. x \in X
    BY <2>2
  <2>4. \A i \in 0..k + 1 : i # k + 1 => i \in 0..k
    BY <2>2
  <2>5. g \in [0..k + 1 -> X]
    BY <2>3, <2>4
  <2>6. \A i \in 0..k : g[i] = f[i]
    BY <2>2
  <2>7. g[k + 1] = step[k + 1][g[k]]
    BY <2>2, <2>6
  <2>8. ASSUME NEW i \in 1..k + 1 PROVE g[i] = step[i][g[i - 1]]
    <3>1. CASE i = k + 1
      BY <3>1, <2>2, <2>7
    <3>2. CASE i # k + 1
      <4>1. i \in 1..k /\ i \in 0..k /\ i - 1 \in 0..k
        BY <3>2, <2>2
      <4> QED BY <4>1, <2>1, <2>6
    <3> QED BY <3>1, <3>2
  <2>9. Good(g, k + 1)
    <3>1. 0 \in 0..k
      BY <2>2
    <3> HIDE DEF g
    <3> QED BY <2>1, <2>6, <2>8, <3>1
  <2> HIDE DEF g
  <2> QED BY <2>2, <2>5, <2>9
<1> HIDE DEF T
<1>3. \A k \in 0..n : k \in T
  BY <1>1, <1>2, IntervalInduction
<1>4. n \in T
  BY <1>3
<1> QED BY <1>4 DEF T
=============================================================================
