--------------------------- MODULE PositionsProofs ---------------------------
(* What Ascending and Keep return, for every sequence and set of positions. *)
EXTENDS Positions, SequenceTheorems, FiniteSetTheorems, TLAPS

\* A function on 1..n is a sequence.
LEMMA FunctionIsSeq ==
  ASSUME NEW S, NEW n \in Nat, NEW f \in [1..n -> S]
  PROVE  f \in Seq(S) /\ Len(f) = n
  OBVIOUS

\* The counted positions are finitely many.
LEMMA UpToFinite ==
  ASSUME NEW m \in Nat
  PROVE  IsFiniteSet(1..m) /\ Cardinality(1..m) = m
<1>1. 1 \in Int /\ m \in Int /\ (IF 1 > m THEN 0 ELSE m - 1 + 1) = m
  OBVIOUS
<1> QED
  BY <1>1, FS_Interval

\* Counting a set of positions: it is finite, and a step further counts at most
\* one more, and only a position of the set.
LEMMA Counting ==
  ASSUME NEW n \in Nat, NEW S \in SUBSET (1..n)
  PROVE  /\ IsFiniteSet(S) /\ Cardinality(S) \in Nat
         /\ \A i \in Nat : Cardinality(S \cap (1..i)) \in Nat
         /\ S \cap (1..0) = {} /\ S \cap (1..n) = S /\ Cardinality(S \cap (1..0)) = 0
         /\ \A i, j \in Nat : i <= j => Cardinality(S \cap (1..i)) <= Cardinality(S \cap (1..j))
         /\ \A i \in Nat : i + 1 \notin S =>
               Cardinality(S \cap (1..(i + 1))) = Cardinality(S \cap (1..i))
         /\ \A i \in Nat : Cardinality(S \cap (1..(i + 1))) <= Cardinality(S \cap (1..i)) + 1
<1>1. IsFiniteSet(S)
  BY UpToFinite, FS_Subset
<1>2. \A i \in Nat : IsFiniteSet(S \cap (1..i))
  <2> TAKE i \in Nat
  <2>1. S \cap (1..i) \in SUBSET S
    OBVIOUS
  <2> QED
    BY <1>1, <2>1, FS_Subset
<1>3. \A i, j \in Nat : i <= j => Cardinality(S \cap (1..i)) <= Cardinality(S \cap (1..j))
  <2> SUFFICES ASSUME NEW i \in Nat, NEW j \in Nat, i <= j
               PROVE  Cardinality(S \cap (1..i)) <= Cardinality(S \cap (1..j))
    OBVIOUS
  <2>1. S \cap (1..i) \in SUBSET (S \cap (1..j))
    OBVIOUS
  <2> QED
    BY <1>2, <2>1, FS_Subset
<1>4. S \cap (1..0) = {} /\ S \cap (1..n) = S
  <2>1. S \cap (1..0) = {}
    OBVIOUS
  <2>2. \A x : x \in S => x \in 1..n
    OBVIOUS
  <2>3. S \cap (1..n) = S
    BY <2>2, Zenon
  <2> QED
    BY <2>1, <2>3
<1>5. \A i \in Nat : i + 1 \notin S => S \cap (1..(i + 1)) = S \cap (1..i)
  OBVIOUS
<1>6. \A i \in Nat : Cardinality(S \cap (1..(i + 1))) <= Cardinality(S \cap (1..i)) + 1
  <2> TAKE i \in Nat
  <2>1. CASE i + 1 \notin S
    BY <1>2, <1>5, <2>1, FS_CardinalityType
  <2>2. CASE i + 1 \in S
    <3>1. S \cap (1..(i + 1)) = (S \cap (1..i)) \cup {i + 1} /\ i + 1 \notin S \cap (1..i)
      BY <2>2
    <3>2. Cardinality((S \cap (1..i)) \cup {i + 1}) = Cardinality(S \cap (1..i)) + 1
      BY <1>2, <3>1, FS_AddElement
    <3> QED
      BY <1>2, <3>1, <3>2, FS_CardinalityType
  <2> QED
    BY <2>1, <2>2
<1> QED
  BY <1>1, <1>2, <1>3, <1>4, <1>5, <1>6, FS_CardinalityType, FS_EmptySet

\* The k-th position is in the set, and later ones are greater.
LEMMA AscendingPosition ==
  ASSUME NEW n \in Nat, NEW S \in SUBSET (1..n), NEW k \in 1..Cardinality(S)
  PROVE  /\ Ascending(S, n)[k] \in S
         /\ Cardinality(S \cap (1..Ascending(S, n)[k])) = k
<1> DEFINE Count == [i \in Nat |-> Cardinality(S \cap (1..i))]
           Before == {i \in 1..n : Count[i] < k}
           c == Cardinality(Before)
<1>1. /\ k \in Nat /\ k >= 1 /\ k <= Count[n]
      /\ \A i \in Nat : Count[i] \in Nat
      /\ Count[0] = 0
      /\ \A i, j \in Nat : i <= j => Count[i] <= Count[j]
      /\ \A i \in Nat : i + 1 \notin S => Count[i + 1] = Count[i]
      /\ \A i \in Nat : Count[i + 1] <= Count[i] + 1
  <2>1. Cardinality(S) \in Nat
    BY Counting
  <2>2. Cardinality(S \cap (1..n)) = Cardinality(S)
    BY Counting
  <2>3. \A i \in Nat : i + 1 \in Nat /\ Count[i] = Cardinality(S \cap (1..i))
    OBVIOUS
  <2> HIDE DEF Count
  <2>4. k \in Nat /\ k >= 1 /\ k <= Count[n]
    BY <2>1, <2>2, <2>3
  <2>5. \A i \in Nat : Count[i] \in Nat
    <3> TAKE i \in Nat
    <3>1. Cardinality(S \cap (1..i)) \in Nat
      BY Counting
    <3> QED
      BY <2>3, <3>1
  <2>6. Count[0] = 0
    <3>1. Cardinality(S \cap (1..0)) = 0
      BY Counting
    <3> QED
      BY <2>3, <3>1
  <2>7. \A i, j \in Nat : i <= j => Count[i] <= Count[j]
    <3> SUFFICES ASSUME NEW i \in Nat, NEW j \in Nat, i <= j PROVE Count[i] <= Count[j]
      OBVIOUS
    <3>1. Cardinality(S \cap (1..i)) <= Cardinality(S \cap (1..j))
      BY Counting
    <3> QED
      BY <2>3, <3>1
  <2>8. \A i \in Nat : i + 1 \notin S => Count[i + 1] = Count[i]
    <3> SUFFICES ASSUME NEW i \in Nat, i + 1 \notin S PROVE Count[i + 1] = Count[i]
      OBVIOUS
    <3>1. Cardinality(S \cap (1..(i + 1))) = Cardinality(S \cap (1..i))
      BY ZenonT(60), Counting
    <3> QED
      BY <2>3, <3>1
  <2>9. \A i \in Nat : Count[i + 1] <= Count[i] + 1
    <3> TAKE i \in Nat
    <3>1. Cardinality(S \cap (1..(i + 1))) <= Cardinality(S \cap (1..i)) + 1
      BY Counting
    <3> QED
      BY <2>3, <3>1
  <2> QED
    BY <2>4, <2>5, <2>6, <2>7, <2>8, <2>9
<1>2. \A i \in 1..n : Count[i] = Cardinality(S \cap (1..i))
  OBVIOUS
<1> HIDE DEF Count
<1>3. IsFiniteSet(Before) /\ c \in Nat /\ c <= n
  <2>1. Before \in SUBSET (1..n)
    OBVIOUS
  <2> QED
    BY <2>1, UpToFinite, FS_Subset, FS_CardinalityType
<1>4. \A i \in Before, j \in 1..n : j <= i => j \in Before
  BY <1>1
<1>5. \A m \in 0..n : 1..m \in SUBSET Before => m <= c
  <2> SUFFICES ASSUME NEW m \in 0..n, 1..m \in SUBSET Before PROVE m <= c
    OBVIOUS
  <2>1. Cardinality(1..m) = m
    BY UpToFinite
  <2> QED
    BY <1>3, <2>1, FS_Subset
<1>6. \A m \in 0..n : Before \in SUBSET (1..m) => c <= m
  <2> SUFFICES ASSUME NEW m \in 0..n, Before \in SUBSET (1..m) PROVE c <= m
    OBVIOUS
  <2>1. IsFiniteSet(1..m) /\ Cardinality(1..m) = m
    BY UpToFinite
  <2> QED
    BY <2>1, FS_Subset
<1>7. Before \subseteq 1..n
  OBVIOUS
<1> HIDE DEF Before, c
<1>8. c + 1 \notin Before
  <2> SUFFICES ASSUME c + 1 \in Before PROVE FALSE
    OBVIOUS
  <2>1. c + 1 \in 0..n /\ 1..(c + 1) \in SUBSET Before
    BY <1>3, <1>4, <1>7
  <2> QED
    BY <1>3, <1>5, <2>1
<1>9. c = 0 \/ c \in Before
  <2> SUFFICES ASSUME c # 0, c \notin Before PROVE FALSE
    OBVIOUS
  <2>1. c \in 1..n /\ c - 1 \in 0..n
    BY <1>3
  <2>2. Before \in SUBSET (1..(c - 1))
    BY <1>3, <1>4, <1>7, <2>1
  <2> QED
    BY <1>3, <1>6, <2>1, <2>2
<1>10. Count[c] < k
  BY <1>1, <1>9 DEF Before
<1>11. c + 1 \in 1..n
  <2>1. c # n
    BY <1>1, <1>10
  <2> QED
    BY <1>3, <2>1
<1>12. Count[c + 1] >= k
  BY <1>1, <1>3, <1>8, <1>11 DEF Before
<1>13. c + 1 \in S /\ Count[c + 1] = k
  BY SMTT(30), <1>1, <1>3, <1>10, <1>12
<1>14. Ascending(S, n)[k] = c + 1
  <2>1. c = Cardinality({i \in 1..n : Cardinality(S \cap (1..i)) < k})
    BY <1>2 DEF c, Before
  <2>2. Ascending(S, n)[k] = 1 + Cardinality({i \in 1..n : Cardinality(S \cap (1..i)) < k})
    BY DEF Ascending
  <2> QED
    BY <1>3, <2>1, <2>2
<1> QED
  BY <1>2, <1>11, <1>13, <1>14

\* Ascending yields a sequence of positions.
LEMMA AscendingType ==
  ASSUME NEW n \in Nat, NEW S \in SUBSET (1..n)
  PROVE  Ascending(S, n) \in Seq(1..n)
<1>1. Cardinality(S) \in Nat
  BY Counting
<1>2. \A k \in 1..Cardinality(S) : Ascending(S, n)[k] \in 1..n
  BY AscendingPosition
<1>3. Ascending(S, n) \in [1..Cardinality(S) -> 1..n]
  BY <1>2 DEF Ascending
<1> QED
  BY <1>1, <1>3, FunctionIsSeq

\* What is kept are elements of the sequence at different kept positions, in order.
LEMMA KeptElements ==
  ASSUME NEW T, NEW s \in Seq(T), NEW S \in SUBSET (1..Len(s))
  PROVE  /\ Keep(s, S) \in Seq(T)
         /\ Len(Keep(s, S)) = Cardinality(S) /\ Cardinality(S) \in Nat
         /\ \A k \in DOMAIN Keep(s, S) : /\ Ascending(S, Len(s))[k] \in S
                                         /\ Keep(s, S)[k] = s[Ascending(S, Len(s))[k]]
         /\ \A k, l \in DOMAIN Keep(s, S) :
               k < l => Ascending(S, Len(s))[k] < Ascending(S, Len(s))[l]
<1> DEFINE A == Ascending(S, Len(s))
<1>1. Len(s) \in Nat /\ Cardinality(S) \in Nat /\ DOMAIN s = 1..Len(s)
  BY LenProperties, Counting
<1>2. \A k \in 1..Cardinality(S) : A[k] \in S /\ Cardinality(S \cap (1..A[k])) = k
  BY <1>1, AscendingPosition
<1>3. \A k \in 1..Cardinality(S) : s[A[k]] \in T
  BY <1>1, <1>2, ElementOfSeq
<1>4. Keep(s, S) \in [1..Cardinality(S) -> T]
  BY <1>3 DEF Keep
<1>5. Keep(s, S) \in Seq(T) /\ Len(Keep(s, S)) = Cardinality(S) /\ DOMAIN Keep(s, S) = 1..Cardinality(S)
  BY <1>1, <1>4, FunctionIsSeq
<1>6. \A k, l \in 1..Cardinality(S) : k < l => A[k] < A[l]
  <2> SUFFICES ASSUME NEW k \in 1..Cardinality(S), NEW l \in 1..Cardinality(S), k < l, ~(A[k] < A[l])
               PROVE  FALSE
    OBVIOUS
  <2> HIDE DEF A
  <2>3. A[k] \in 1..Len(s) /\ A[l] \in 1..Len(s)
    BY <1>2
  <2>1. A[k] \in Nat /\ A[l] \in Nat /\ A[l] <= A[k]
    BY <1>1, <2>3
  <2>2. Cardinality(S \cap (1..A[l])) <= Cardinality(S \cap (1..A[k]))
    BY <1>1, <2>1, Counting
  <2> QED
    BY <1>1, <1>2, <2>2
<1> QED
  BY <1>1, <1>2, <1>5, <1>6 DEF Keep

\* In other words: what is kept is embedded in the sequence.
LEMMA KeepEmbeds ==
  ASSUME NEW T, NEW s \in Seq(T), NEW S \in SUBSET (DOMAIN s)
  PROVE  /\ Keep(s, S) \in Seq(T)
         /\ \E from \in [DOMAIN Keep(s, S) -> S] :
              /\ \A k \in DOMAIN Keep(s, S) : Keep(s, S)[k] = s[from[k]]
              /\ \A k, l \in DOMAIN Keep(s, S) : k < l => from[k] < from[l]
<1> DEFINE from == [k \in DOMAIN Keep(s, S) |-> Ascending(S, Len(s))[k]]
<1>1. S \in SUBSET (1..Len(s))
  BY LenProperties
<1>2. /\ Keep(s, S) \in Seq(T)
      /\ \A k \in DOMAIN Keep(s, S) : from[k] \in S /\ Keep(s, S)[k] = s[from[k]]
      /\ \A k, l \in DOMAIN Keep(s, S) : k < l => from[k] < from[l]
  BY <1>1, KeptElements
<1>3. from \in [DOMAIN Keep(s, S) -> S]
  BY <1>2
<1> HIDE DEF from
<1> QED
  BY <1>2, <1>3

\* A set of positions that is not empty has a least one.
LEMMA LeastPosition ==
  ASSUME NEW n \in Nat, NEW S \in SUBSET (1..n), S # {}
  PROVE  \E m \in S : \A i \in S : m <= i
<1> DEFINE a == Ascending(S, n)[1]
<1>1. IsFiniteSet(S) /\ Cardinality(S) \in Nat /\ Cardinality(S) # 0
  BY Counting, FS_EmptySet
<1>2. 1 \in 1..Cardinality(S)
  BY <1>1
<1>3. a \in S /\ Cardinality(S \cap (1..a)) = 1
  BY <1>2, AscendingPosition
<1> HIDE DEF a
<1>4. ASSUME NEW i \in S, ~(a <= i) PROVE FALSE
  <2>1. i \in S \cap (1..a) /\ a \in S \cap (1..a) /\ i # a
    BY <1>3, <1>4
  <2>2. IsFiniteSet(S \cap (1..a))
    BY <1>1, FS_Subset
  <2>3. S \cap (1..a) = {i}
    BY <1>3, <2>1, <2>2, FS_Singleton
  <2> QED
    BY <2>1, <2>3
<1> QED
  BY <1>3, <1>4

\* ... and a greatest one.
LEMMA GreatestPosition ==
  ASSUME NEW n \in Nat, NEW S \in SUBSET (1..n), S # {}
  PROVE  \E m \in S : \A i \in S : i <= m
<1> DEFINE R == {i \in 1..n : n + 1 - i \in S}
<1>1. \A i \in S : n + 1 - i \in R /\ n + 1 - (n + 1 - i) = i
  OBVIOUS
<1>2. R \in SUBSET (1..n) /\ R # {}
  BY <1>1
<1>3. PICK m \in R : \A i \in R : m <= i
  BY <1>2, LeastPosition
<1>4. n + 1 - m \in S /\ m \in 1..n
  BY <1>3
<1>5. \A i \in S : i <= n + 1 - m
  <2> TAKE i \in S
  <2>1. i \in 1..n /\ n + 1 - i \in R
    BY <1>1
  <2>2. m <= n + 1 - i
    BY <1>3, <2>1
  <2> QED BY <1>4, <2>1, <2>2
<1> QED
  BY <1>4, <1>5

\* Every kept position has its place among them.
LEMMA KeepsEach ==
  ASSUME NEW T, NEW s \in Seq(T), NEW S \in SUBSET (DOMAIN s), NEW i \in S
  PROVE  \E k \in DOMAIN Keep(s, S) : Keep(s, S)[k] = s[i]
<1> DEFINE n == Len(s)
           k == Cardinality(S \cap (1..i))
           a == Ascending(S, n)[k]
<1>1. n \in Nat /\ S \in SUBSET (1..n) /\ i \in 1..n
  BY LenProperties
<1>2. k \in Nat /\ Cardinality(S) \in Nat /\ k <= Cardinality(S)
  <2>1. Cardinality(S \cap (1..i)) <= Cardinality(S \cap (1..n)) /\ S \cap (1..n) = S
    <3> HIDE DEF n
    <3>1. i \in Nat /\ n \in Nat /\ i <= n
      BY <1>1
    <3> QED BY <1>1, <3>1, Counting
  <2>2. Cardinality(S \cap (1..i)) \in Nat /\ Cardinality(S) \in Nat
    BY <1>1, Counting
  <2> QED BY <2>1, <2>2
<1>3. IsFiniteSet(S) /\ \A j \in Nat : IsFiniteSet(S \cap (1..j))
  <2>1. IsFiniteSet(S)
    BY <1>1, Counting
  <2>2. \A j \in Nat : S \cap (1..j) \in SUBSET S
    OBVIOUS
  <2> QED BY <2>1, <2>2, FS_Subset
<1>4. ASSUME NEW x \in S, NEW y \in S, x < y
      PROVE  Cardinality(S \cap (1..x)) < Cardinality(S \cap (1..y))
  <2>1. x \in 1..n /\ y \in 1..n
    BY <1>1
  <2>2. /\ S \cap (1..x) \in SUBSET (S \cap (1..y)) /\ y \in S \cap (1..y) /\ y \notin S \cap (1..x)
        /\ IsFiniteSet(S \cap (1..y))
    BY <1>3, <1>4, <2>1
  <2>3. S \cap (1..x) # S \cap (1..y)
    BY <2>2
  <2> DEFINE X == S \cap (1..x)
             Y == S \cap (1..y)
  <2>4. X \in SUBSET Y /\ IsFiniteSet(Y) /\ X # Y
    BY <2>2, <2>3
  <2> HIDE DEF X, Y
  <2>5. /\ IsFiniteSet(X) /\ Cardinality(X) <= Cardinality(Y)
        /\ Cardinality(X) = Cardinality(Y) => X = Y
    BY <2>4, FS_Subset
  <2>6. Cardinality(X) \in Nat /\ Cardinality(Y) \in Nat
    BY <2>4, <2>5, FS_CardinalityType
  <2>7. Cardinality(X) < Cardinality(Y)
    BY <2>4, <2>5, <2>6
  <2> QED BY <2>7 DEF X, Y
<1>5. k # 0
  <2>1. i \in S \cap (1..i) /\ IsFiniteSet(S \cap (1..i))
    BY <1>1, <1>3
  <2> QED BY <2>1, FS_EmptySet
<1>6. k \in 1..Cardinality(S)
  BY <1>2, <1>5
<1>7. a \in S /\ Cardinality(S \cap (1..a)) = k
  BY <1>1, <1>6, AscendingPosition
<1> HIDE DEF a, n
<1>8. a = i
  <2>1. a \in 1..n
    BY <1>1, <1>7
  <2>2. ~(a < i) /\ ~(i < a)
    BY <1>2, <1>4, <1>7
  <2> QED BY <1>1, <2>1, <2>2
<1> HIDE DEF k
<1> QED
  BY <1>6, <1>8 DEF Keep, a, n

\* f lists the m elements of S in ascending order.
Lists(f, m, S) ==
  /\ f \in [1..m -> S]
  /\ \A k, l \in 1..m : k < l => f[k] < f[l]
  /\ \A i \in S : \E k \in 1..m : f[k] = i

\* Nothing but Ascending lists a set of positions.
LEMMA AscendingUnique ==
  ASSUME NEW n \in Nat, NEW S \in SUBSET (1..n), NEW m \in Nat, NEW f, Lists(f, m, S)
  PROVE  m = Cardinality(S) /\ \A k \in 1..m : Ascending(S, n)[k] = f[k]
<1> USE DEF Lists
<1>1. \A k \in 1..m : f[k] \in 1..n
  OBVIOUS
<1>2. ASSUME NEW x \in 0..n, NEW k \in 0..m,
             \A l \in 1..m : f[l] <= x <=> l <= k
      PROVE  Cardinality(S \cap (1..x)) = k
  <2> DEFINE T == S \cap (1..x)
             g == [l \in 1..k |-> f[l]]
  <2>1. \A l \in 1..k : l \in 1..m /\ f[l] \in T
    BY <1>1, <1>2
  <2>2. \A l, j \in 1..k : l # j => f[l] # f[j]
    <3> SUFFICES ASSUME NEW l \in 1..k, NEW j \in 1..k, l # j PROVE f[l] # f[j]
      OBVIOUS
    <3>1. l \in 1..m /\ j \in 1..m /\ (l < j \/ j < l)
      BY <1>2
    <3> QED
      BY <1>1, <3>1
  <2>3. \A i \in T : \E l \in 1..k : f[l] = i
    <3> SUFFICES ASSUME NEW i \in T PROVE \E l \in 1..k : f[l] = i
      OBVIOUS
    <3>1. PICK l \in 1..m : f[l] = i
      OBVIOUS
    <3>2. l <= k
      BY <1>2, <3>1
    <3> QED
      BY <3>1, <3>2
  <2> HIDE DEF T
  <2>4. g \in Bijection(1..k, T)
    BY <2>1, <2>2, <2>3 DEF Bijection, Injection, Surjection, IsInjective
  <2>5. ExistsBijection(1..k, T)
    BY <2>4 DEF ExistsBijection
  <2>6. Cardinality(T) = Cardinality(1..k)
    <3>1. k \in Nat /\ IsFiniteSet(1..k)
      BY UpToFinite
    <3> QED
      BY <2>5, <3>1, FS_Bijection
  <2> QED
    BY <2>6, UpToFinite DEF T
<1>3. m = Cardinality(S)
  <2>1. /\ n \in 0..n /\ m \in 0..m
        /\ \A l \in 1..m : f[l] <= n <=> l <= m
    BY <1>1
  <2>2. Cardinality(S \cap (1..n)) = m
    BY <1>2, <2>1
  <2> QED
    BY <2>2, Counting
<1>4. ASSUME NEW k \in 1..m PROVE Ascending(S, n)[k] = f[k]
  <2> DEFINE a == Ascending(S, n)[k]
  <2>1. a \in S /\ Cardinality(S \cap (1..a)) = k
    BY <1>3, AscendingPosition
  <2>2. PICK j \in 1..m : f[j] = a
    BY <2>1
  <2> HIDE DEF a
  <2>3. \A l \in 1..m : f[l] <= f[j] <=> l <= j
    <3> TAKE l \in 1..m
    <3>1. (l < j => f[l] < f[j]) /\ (j < l => f[j] < f[l])
      OBVIOUS
    <3> QED
      BY <1>1, <3>1
  <2>4. f[j] \in 0..n /\ j \in 0..m
    BY <1>1
  <2>5. Cardinality(S \cap (1..f[j])) = j
    BY <1>2, <2>3, <2>4
  <2> QED
    BY <2>1, <2>2, <2>5 DEF a
<1> QED
  BY <1>3, <1>4

\* A position that is put in front of the p-th one moves the positions from p on.
Shifted(i, p) == IF i < p THEN i ELSE i + 1

\* The positions keep their order then.
LEMMA AscendingShifted ==
  ASSUME NEW n \in Nat, NEW S \in SUBSET (1..n), NEW p \in 1..(n + 1),
         NEW R \in SUBSET (1..(n + 1)), R = {Shifted(i, p) : i \in S}
  PROVE  /\ Cardinality(R) = Cardinality(S)
         /\ \A k \in 1..Cardinality(S) : Ascending(R, n + 1)[k] = Shifted(Ascending(S, n)[k], p)
<1> DEFINE A == Ascending(S, n)
           m == Cardinality(S)
           f == [k \in 1..m |-> Shifted(A[k], p)]
<1>1. m \in Nat /\ \A k \in 1..m : A[k] \in S
  BY Counting, AscendingPosition
<1>2. \A k, l \in 1..m : k < l => A[k] < A[l]
  <2> SUFFICES ASSUME NEW k \in 1..m, NEW l \in 1..m, k < l, ~(A[k] < A[l]) PROVE FALSE
    OBVIOUS
  <2>1. /\ A[k] \in S /\ Cardinality(S \cap (1..A[k])) = k
        /\ A[l] \in S /\ Cardinality(S \cap (1..A[l])) = l
    BY AscendingPosition
  <2> HIDE DEF A
  <2>4. A[k] \in 1..n /\ A[l] \in 1..n
    BY <1>1
  <2>2. A[k] \in Nat /\ A[l] \in Nat /\ A[l] <= A[k]
    BY <2>4
  <2>3. Cardinality(S \cap (1..A[l])) <= Cardinality(S \cap (1..A[k]))
    BY <2>2, Counting
  <2> QED
    BY <1>1, <2>1, <2>3
<1>3. \A i \in S : \E k \in 1..m : A[k] = i
  <2> SUFFICES ASSUME NEW i \in S PROVE \E k \in 1..m : A[k] = i
    OBVIOUS
  <2> DEFINE s == [j \in 1..n |-> j]
  <2>0. s \in [1..n -> 1..n]
    OBVIOUS
  <2> HIDE DEF s
  <2>1. s \in Seq(1..n) /\ Len(s) = n /\ DOMAIN s = 1..n
    BY <2>0, FunctionIsSeq
  <2>2. PICK k \in DOMAIN Keep(s, S) : Keep(s, S)[k] = s[i]
    <3>1. S \in SUBSET (DOMAIN s) /\ s \in Seq(1..n)
      BY <2>1
    <3> QED
      BY <3>1, KeepsEach
  <2>3. k \in 1..m /\ Keep(s, S)[k] = s[A[k]]
    BY <2>1, <2>2 DEF Keep
  <2>4. A[k] \in 1..n /\ i \in 1..n
    BY <1>1, <2>3
  <2> QED
    BY <2>2, <2>3, <2>4 DEF s
<1> HIDE DEF A, m
<1>4. f \in [1..m -> R]
  BY <1>1
<1>5. \A k, l \in 1..m : k < l => f[k] < f[l]
  <2>1. \A i, j \in S : i < j => Shifted(i, p) < Shifted(j, p)
    BY DEF Shifted
  <2> QED
    BY <1>1, <1>2, <2>1
<1>6. \A j \in R : \E k \in 1..m : f[k] = j
  BY <1>3
<1> HIDE DEF f
<1>7. Lists(f, m, R)
  BY <1>4, <1>5, <1>6 DEF Lists
<1>8. \A N \in Nat : R \in SUBSET (1..N) =>
        m = Cardinality(R) /\ \A k \in 1..m : Ascending(R, N)[k] = f[k]
  BY ONLY <1>1, <1>7, AscendingUnique
<1>9. PICK N \in Nat : N = n + 1
  OBVIOUS
<1>10. R \in SUBSET (1..N)
  BY <1>9
<1>11. m = Cardinality(R) /\ \A k \in 1..m : Ascending(R, N)[k] = f[k]
  BY <1>8, <1>10
<1> QED
  BY <1>9, <1>11 DEF f, A, m

=============================================================================
