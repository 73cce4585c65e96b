----------------------------- MODULE WireProofs -----------------------------
(***************************************************************************)
(* FramesAreUnderstood for any requests, texts, errors and candidates: what *)
(* the engine writes, the service reads as what it was, and the reverse.   *)
(*                                                                         *)
(* A reader is followed from the front of the fields to the last one: each *)
(* lemma says what one part of a message leaves behind it, for any fields  *)
(* that follow it.  The lemmas about lists go by induction on their length. *)
(***************************************************************************)
EXTENDS WireProtocol, SequenceTheorems, FiniteSetTheorems, WellFoundedInduction, TLAPS

-----------------------------------------------------------------------------
(* Induction over the natural numbers, in the form of sets and functions.   *)

Before == {p \in Nat \X Nat : p[1] < p[2]}

LEMMA BeforeWellFounded == IsWellFoundedOn(Before, Nat)
<1>1. IsWellFoundedOn(OpToRel(<, Nat), Nat)
  BY NatLessThanWellFounded, Zenon
<1>2. OpToRel(<, Nat) = Before
  BY DEF OpToRel, Before
<1> QED BY <1>1, <1>2, Zenon

\* A set of numbers that has the first one and the next of each has them all.
LEMMA Induction ==
  ASSUME NEW T, 0 \in T, \A n \in Nat : n \in T => n + 1 \in T
  PROVE  Nat \subseteq T
<1> DEFINE U == {n \in Nat : n \notin T}
<1>1. SUFFICES ASSUME U # {} PROVE FALSE
  OBVIOUS
<1>2. U \subseteq Nat
  OBVIOUS
<1> HIDE DEF U
<1>3. PICK x \in U : \A y \in U : <<y, x>> \notin Before
  BY <1>1, <1>2, BeforeWellFounded, WFMin
<1> USE DEF U
<1>4. x # 0 /\ x - 1 \in Nat /\ x - 1 \notin T
  OBVIOUS
<1>5. <<x - 1, x>> \in Before
  BY <1>4 DEF Before
<1> QED BY <1>3, <1>4, <1>5

\* The same up to a number.
LEMMA InductionUpTo ==
  ASSUME NEW n \in Nat, NEW T, 0 \in T, \A i \in 1..n : i - 1 \in T => i \in T
  PROVE  \A i \in 0..n : i \in T
<1> DEFINE U == {i \in Nat : i <= n => i \in T}
<1>1. 0 \in U
  OBVIOUS
<1>2. \A i \in Nat : i \in U => i + 1 \in U
  <2> SUFFICES ASSUME NEW i \in Nat, i \in U, i + 1 <= n PROVE i + 1 \in T
    OBVIOUS
  <2>1. i + 1 \in 1..n /\ (i + 1) - 1 = i
    OBVIOUS
  <2> QED BY <2>1
<1>3. Nat \subseteq U
  <2> HIDE DEF U
  <2> QED BY <1>1, <1>2, Induction
<1> QED BY <1>3

\* A recursive function over the numbers up to n exists.
Iterated(n, D, base, step) ==
  \E f \in [0..n -> D] : f[0] = base /\ \A i \in 1..n : f[i] = step[<<i, f[i - 1]>>]

LEMMA Iteration ==
  ASSUME NEW n \in Nat, NEW D, NEW base \in D, NEW step \in [(1..n) \X D -> D]
  PROVE  Iterated(n, D, base, step)
<1> DEFINE Solves(f, k) == f[0] = base /\ \A i \in 1..k : f[i] = step[<<i, f[i - 1]>>]
           T == {k \in Nat : k <= n => \E f \in [0..k -> D] : Solves(f, k)}
<1>1. 0 \in T
  <2>1. [i \in 0..0 |-> base] \in [0..0 -> D] /\ Solves([i \in 0..0 |-> base], 0)
    OBVIOUS
  <2> QED BY <2>1
<1>2. ASSUME NEW k \in Nat, k \in T PROVE k + 1 \in T
  <2> SUFFICES ASSUME k + 1 <= n PROVE \E f \in [0..(k + 1) -> D] : Solves(f, k + 1)
    OBVIOUS
  <2>1. PICK f \in [0..k -> D] : Solves(f, k)
    BY <1>2
  <2> DEFINE g == [i \in 0..(k + 1) |-> IF i = k + 1 THEN step[<<k + 1, f[k]>>] ELSE f[i]]
  <2>2. <<k + 1, f[k]>> \in (1..n) \X D
    OBVIOUS
  <2>3. g \in [0..(k + 1) -> D]
    BY <2>2
  <2>4. \A i \in 1..k : g[i] = f[i] /\ g[i - 1] = f[i - 1]
    OBVIOUS
  <2>5. g[k + 1] = step[<<k + 1, g[k]>>] /\ g[0] = f[0]
    OBVIOUS
  <2>6. Solves(g, k + 1)
    <3> HIDE DEF g
    <3>1. ASSUME NEW i \in 1..(k + 1) PROVE g[i] = step[<<i, g[i - 1]>>]
      <4>1. CASE i \in 1..k
        BY <4>1, <2>1, <2>4
      <4>2. CASE i = k + 1
        <5>1. i - 1 = k
          BY <4>2
        <5> QED BY <4>2, <5>1, <2>5
      <4> QED BY <4>1, <4>2
    <3> QED BY <3>1, <2>1, <2>5
  <2> QED BY <2>3, <2>6
<1>3. Nat \subseteq T
  <2> HIDE DEF T
  <2> QED BY <1>1, <1>2, Induction
<1> QED BY <1>3 DEF Iterated

\* Two functions that start equal and go on alike end equal.
Alike(n, f, g) == \A i \in 0..n : f[i] = g[i]

LEMMA SameIteration ==
  ASSUME NEW n \in Nat, NEW f, NEW g, f[0] = g[0],
         \A i \in 1..n : f[i - 1] = g[i - 1] => f[i] = g[i]
  PROVE  Alike(n, f, g)
<1> DEFINE T == {i \in 0..n : f[i] = g[i]}
<1>1. 0 \in T /\ \A i \in 1..n : i - 1 \in T => i \in T
  OBVIOUS
<1> HIDE DEF T
<1>2. \A i \in 0..n : i \in T
  BY <1>1, InductionUpTo
<1> QED BY <1>2 DEF T, Alike
-----------------------------------------------------------------------------
(* Fields and their bytes *)

Values == Ids \cup Nat \cup Texts
Field == (Nat \ {0}) \X Values
Fields == Seq(Field)

LEMMA FieldWidth == ASSUME NEW x \in Field PROVE x[1] \in Nat \ {0} /\ x[2] \in Values /\ x = <<x[1], x[2]>>
BY DEF Field

LEMMA BytesSum ==
  ASSUME NEW s \in Fields
  PROVE  \E sum \in [0..Len(s) -> Nat] :
           sum[0] = 0 /\ (\A i \in 1..Len(s) : sum[i] = sum[i - 1] + s[i][1]) /\ Bytes(s) = sum[Len(s)]
<1> DEFINE n == Len(s)
           step == [p \in (1..n) \X Nat |-> p[2] + s[p[1]][1]]
           Body(h) == [i \in 0..n |-> IF i = 0 THEN 0 ELSE h[i - 1] + s[i][1]]
           g == CHOOSE h : h = Body(h)
<1>1. n \in Nat /\ \A i \in 1..n : s[i] \in Field
  BY DEF Fields
<1>2. step \in [(1..n) \X Nat -> Nat]
  BY <1>1, FieldWidth
<1> HIDE DEF n
<1>3. PICK f \in [0..n -> Nat] : f[0] = 0 /\ \A i \in 1..n : f[i] = step[<<i, f[i - 1]>>]
  <2>1. n \in Nat /\ 0 \in Nat
    BY <1>1
  <2> HIDE DEF step, n
  <2>2. Iterated(n, Nat, 0, step)
    BY <2>1, <1>2, Iteration
  <2> QED BY <2>2 DEF Iterated
<1>4. \A i \in 1..n : f[i] = f[i - 1] + s[i][1]
  <2> SUFFICES ASSUME NEW i \in 1..n PROVE f[i] = f[i - 1] + s[i][1]
    OBVIOUS
  <2>1. i - 1 \in 0..n /\ f[i - 1] \in Nat
    BY <1>1
  <2> QED BY <1>3, <2>1
<1>5. f = Body(f)
  BY <1>1, <1>3, <1>4
<1>6. g = Body(g)
  <2> HIDE DEF Body
  <2> QED BY <1>5
<1>7. Bytes(s) = g[n]
  BY DEF Bytes, n
<1>8. g[0] = f[0] /\ \A i \in 1..n : g[i - 1] = f[i - 1] => g[i] = f[i]
  <2> HIDE DEF g
  <2> QED BY <1>1, <1>3, <1>4, <1>6
<1>9. \A i \in 0..n : g[i] = f[i]
  <2> HIDE DEF g
  <2>1. Alike(n, g, f)
    BY <1>1, <1>8, SameIteration
  <2> QED BY <2>1 DEF Alike
<1> QED BY <1>1, <1>3, <1>4, <1>7, <1>9 DEF n

LEMMA BytesNat == ASSUME NEW s \in Fields PROVE Bytes(s) \in Nat
BY BytesSum DEF Fields

LEMMA BytesEmpty == Bytes(<<>>) = 0
<1>1. <<>> \in Fields /\ Len(<<>>) = 0
  BY DEF Fields
<1> QED BY <1>1, BytesSum

LEMMA BytesAppend ==
  ASSUME NEW s \in Fields, NEW x \in Field
  PROVE  Append(s, x) \in Fields /\ Bytes(Append(s, x)) = Bytes(s) + x[1]
<1> DEFINE t == Append(s, x)
           n == Len(s)
<1>1. /\ t \in Fields /\ Len(t) = n + 1 /\ n \in Nat /\ t[n + 1] = x
      /\ \A i \in 1..n : t[i] = s[i]
  BY DEF Fields
<1>2. PICK f \in [0..n -> Nat] :
         f[0] = 0 /\ (\A i \in 1..n : f[i] = f[i - 1] + s[i][1]) /\ Bytes(s) = f[n]
  BY BytesSum
<1>3. PICK g \in [0..Len(t) -> Nat] :
         g[0] = 0 /\ (\A i \in 1..Len(t) : g[i] = g[i - 1] + t[i][1]) /\ Bytes(t) = g[Len(t)]
  <2> HIDE DEF t
  <2> QED BY <1>1, BytesSum
<1> HIDE DEF t, n
<1>4. \A i \in 1..n : g[i - 1] = f[i - 1] => g[i] = f[i]
  <2> SUFFICES ASSUME NEW i \in 1..n PROVE g[i - 1] = f[i - 1] => g[i] = f[i]
    OBVIOUS
  <2>1. i \in 1..Len(t) /\ t[i] = s[i]
    BY <1>1
  <2> QED BY <1>2, <1>3, <2>1
<1>5. g[n] = f[n]
  <2>1. n \in Nat /\ n \in 0..n /\ g[0] = f[0]
    BY <1>1, <1>2, <1>3
  <2>2. Alike(n, g, f)
    BY <1>4, <2>1, SameIteration
  <2> QED BY <2>1, <2>2 DEF Alike
<1>6. n + 1 \in 1..Len(t) /\ (n + 1) - 1 = n
  BY <1>1
<1>7. g[n + 1] = g[n] + x[1]
  BY <1>1, <1>3, <1>6
<1> QED BY <1>1, <1>2, <1>3, <1>5, <1>7 DEF t, n

LEMMA BytesConcat ==
  ASSUME NEW s \in Fields, NEW t \in Fields
  PROVE  s \o t \in Fields /\ Bytes(s \o t) = Bytes(s) + Bytes(t)
<1> DEFINE n == Len(t)
           part(i) == SubSeq(t, 1, i)
           T == {i \in 0..n : Bytes(s \o part(i)) = Bytes(s) + Bytes(part(i))}
<1>1. n \in Nat
  BY DEF Fields
<1>2. 0 \in T
  <2>1. part(0) = <<>> /\ s \o <<>> = s /\ 0 \in 0..n
    BY <1>1 DEF Fields
  <2>2. Bytes(s \o part(0)) = Bytes(s) + Bytes(part(0))
    <3> HIDE DEF part
    <3>1. Bytes(s) = Bytes(s) + 0
      BY BytesNat
    <3> QED BY <2>1, <3>1, BytesEmpty
  <2> HIDE DEF part, n
  <2> QED BY <2>1, <2>2
<1>3. ASSUME NEW i \in 1..n, i - 1 \in T PROVE i \in T
  <2>1. part(i - 1) \in Fields /\ t[i] \in Field
    BY <1>1 DEF Fields
  <2>2. part(i) = Append(part(i - 1), t[i])
    BY <1>1, SubSeqRecursiveSecond, i \in 1..n, SMT DEF Fields
  <2>3. s \o part(i - 1) \in Fields
    BY <2>1 DEF Fields
  <2>4. s \o part(i) = Append(s \o part(i - 1), t[i])
    <3> HIDE DEF part
    <3>1. s \o Append(part(i - 1), t[i]) = Append(s \o part(i - 1), t[i])
      BY <2>1 DEF Fields
    <3> QED BY <2>2, <3>1
  <2> HIDE DEF part
  <2>5. Bytes(part(i)) = Bytes(part(i - 1)) + t[i][1] /\ Bytes(s \o part(i)) = Bytes(s \o part(i - 1)) + t[i][1]
    BY <2>1, <2>2, <2>3, <2>4, BytesAppend
  <2>6. Bytes(s \o part(i - 1)) = Bytes(s) + Bytes(part(i - 1))
    BY <1>3
  <2> QED BY <2>1, <2>5, <2>6, BytesNat, FieldWidth
<1>4. n \in T
  <2> HIDE DEF T, n
  <2> QED BY <1>1, <1>2, <1>3, InductionUpTo
<1>5. part(n) = t /\ s \o t \in Fields
  BY DEF Fields
<1> QED BY <1>4, <1>5

\* A field in front of others.
Put(x, t) == <<x>> \o t

LEMMA PutFields ==
  ASSUME NEW x \in Field, NEW t \in Fields
  PROVE  /\ Put(x, t) \in Fields /\ Put(x, t) # <<>>
         /\ Put(x, t)[1] = x /\ Tail(Put(x, t)) = t
         /\ Bytes(Put(x, t)) = x[1] + Bytes(t)
<1>1. <<x>> \in Fields /\ <<>> \in Fields /\ Append(<<>>, x) = <<x>>
  BY DEF Fields
<1>2. Bytes(<<x>>) = x[1]
  <2>1. Bytes(Append(<<>>, x)) = 0 + x[1]
    BY <1>1, BytesAppend, BytesEmpty
  <2> QED BY <1>1, <2>1, FieldWidth
<1>3. Put(x, t) \in Fields /\ Bytes(Put(x, t)) = x[1] + Bytes(t)
  BY <1>1, <1>2, BytesConcat DEF Put
<1>4. Put(x, t) # <<>> /\ Put(x, t)[1] = x /\ Tail(Put(x, t)) = t
  BY <1>1 DEF Put, Fields
<1> QED BY <1>3, <1>4

LEMMA PutConcat ==
  ASSUME NEW x \in Field, NEW s \in Fields, NEW t \in Fields
  PROVE  Put(x, s) \o t = Put(x, s \o t)
<1>1. <<x>> \in Seq(Field) /\ s \in Seq(Field) /\ t \in Seq(Field)
  BY DEF Fields
<1> QED BY <1>1, ConcatAssociative DEF Put

LEMMA EmptyFields == <<>> \in Fields /\ \A t \in Fields : <<>> \o t = t /\ t \o <<>> = t
BY DEF Fields

LEMMA FirstField ==
  ASSUME NEW s \in Fields, s # <<>>
  PROVE  /\ s[1] \in Field /\ Tail(s) \in Fields /\ s = Put(s[1], Tail(s))
         /\ \A t \in Fields : s \o t = Put(s[1], Tail(s) \o t)
<1>1. s \in Seq(Field)
  BY DEF Fields
<1>2. s[1] \in Field /\ Tail(s) \in Seq(Field) /\ Len(s) >= 1 /\ Len(Tail(s)) = Len(s) - 1
      /\ \A i \in 1..Len(Tail(s)) : Tail(s)[i] = s[i + 1]
  BY <1>1, HeadTailProperties
<1> DEFINE q == <<s[1]>> \o Tail(s)
<1>3. <<s[1]>> \in Seq(Field) /\ Len(<<s[1]>>) = 1 /\ <<s[1]>>[1] = s[1]
  BY <1>2
<1>4. q \in Seq(Field) /\ Len(q) = Len(s) /\ q[1] = s[1] /\ \A i \in 2..Len(s) : q[i] = Tail(s)[i - 1]
  BY <1>2, <1>3, ConcatProperties
<1>5. \A i \in 1..Len(s) : q[i] = s[i]
  BY <1>2, <1>4
<1>6. q = s
  <2> HIDE DEF q
  <2> QED BY <1>1, <1>4, <1>5, SeqEqual
<1>7. s = Put(s[1], Tail(s)) /\ Tail(s) \in Fields
  BY <1>2, <1>6 DEF Put, Fields
<1>8. \A t \in Fields : Put(s[1], Tail(s)) \o t = Put(s[1], Tail(s) \o t)
  BY <1>2, <1>7, PutConcat
<1> QED BY <1>2, <1>7, <1>8

LEMMA OneField ==
  ASSUME NEW a \in Field
  PROVE  <<a>> \in Fields /\ \A t \in Fields : <<a>> \o t = Put(a, t)
BY DEF Put, Fields

LEMMA TwoFields ==
  ASSUME NEW a \in Field, NEW b \in Field
  PROVE  <<a, b>> \in Fields /\ \A t \in Fields : <<a, b>> \o t = Put(a, <<b>> \o t)
<1>1. <<a, b>> \in Fields /\ <<a, b>>[1] = a /\ Tail(<<a, b>>) = <<b>> /\ <<a, b>> # <<>>
  BY DEF Fields
<1> QED BY <1>1, FirstField

LEMMA ThreeFields ==
  ASSUME NEW a \in Field, NEW b \in Field, NEW c \in Field
  PROVE  <<a, b, c>> \in Fields /\ \A t \in Fields : <<a, b, c>> \o t = Put(a, <<b, c>> \o t)
<1>1. <<a, b, c>> \in Fields /\ <<a, b, c>>[1] = a /\ Tail(<<a, b, c>>) = <<b, c>> /\ <<a, b, c>> # <<>>
  BY DEF Fields
<1> QED BY <1>1, FirstField

\* Some fields, in front of others or alone.
LEMMA PutOne ==
  ASSUME NEW a \in Field
  PROVE  /\ <<a>> \in Fields /\ <<a>> = Put(a, <<>>)
         /\ \A u \in Fields : <<a>> \o u = Put(a, u)
<1> DEFINE s1 == <<a>>
<1>1. s1 \in Fields /\ s1[1] = a /\ Tail(s1) = <<>> /\ s1 # <<>>
  BY DEF Fields
<1>2. \A u \in Fields : s1 \o u = Put(a, u)
  BY OneField
<1> HIDE DEF s1
<1>3. ASSUME NEW u \in Fields PROVE s1 \o u = Put(a, u)
  <2>1. s1 \o u = Put(a, u)
    BY <1>2
  <2> QED BY <2>1
<1>4. s1 = Put(a, <<>>)
  <2>1. s1 \o <<>> = s1
    BY <1>1, EmptyFields
  <2>2. s1 \o <<>> = Put(a, <<>>)
    BY <1>3, EmptyFields
  <2> QED BY <2>1, <2>2, Zenon
<1> QED BY <1>1, <1>3, <1>4 DEF s1

LEMMA PutTwo ==
  ASSUME NEW a \in Field, NEW b \in Field
  PROVE  /\ <<a, b>> \in Fields /\ <<a, b>> = Put(a, Put(b, <<>>))
         /\ \A u \in Fields : <<a, b>> \o u = Put(a, Put(b, u))
<1> DEFINE s1 == <<a, b>>
           s2 == <<b>>
<1>1. s1 \in Fields /\ s1[1] = a /\ Tail(s1) = s2 /\ s1 # <<>>
  BY DEF Fields
<1>2. s2 \in Fields /\ s2[1] = b /\ Tail(s2) = <<>> /\ s2 # <<>>
  BY DEF Fields
<1>3. \A u \in Fields : s2 \o u = Put(b, u)
  BY OneField
<1> HIDE DEF s1, s2
<1>4. ASSUME NEW u \in Fields PROVE s1 \o u = Put(a, Put(b, u))
  <2>1. s1 \o u = Put(a, s2 \o u)
    BY <1>1, FirstField
  <2>2. s2 \o u = Put(b, u)
    BY <1>3
  <2> QED BY <2>1, <2>2
<1>5. s1 = Put(a, Put(b, <<>>))
  <2>1. s1 \o <<>> = s1
    BY <1>1, EmptyFields
  <2>2. s1 \o <<>> = Put(a, Put(b, <<>>))
    BY <1>4, EmptyFields
  <2> QED BY <2>1, <2>2, Zenon
<1> QED BY <1>1, <1>4, <1>5 DEF s1

LEMMA PutThree ==
  ASSUME NEW a \in Field, NEW b \in Field, NEW c \in Field
  PROVE  /\ <<a, b, c>> \in Fields /\ <<a, b, c>> = Put(a, Put(b, Put(c, <<>>)))
         /\ \A u \in Fields : <<a, b, c>> \o u = Put(a, Put(b, Put(c, u)))
<1> DEFINE s1 == <<a, b, c>>
           s2 == <<b, c>>
           s3 == <<c>>
<1>1. s1 \in Fields /\ s1[1] = a /\ Tail(s1) = s2 /\ s1 # <<>>
  BY DEF Fields
<1>2. s2 \in Fields /\ s2[1] = b /\ Tail(s2) = s3 /\ s2 # <<>>
  BY DEF Fields
<1>3. s3 \in Fields /\ s3[1] = c /\ Tail(s3) = <<>> /\ s3 # <<>>
  BY DEF Fields
<1>4. \A u \in Fields : s3 \o u = Put(c, u)
  BY OneField
<1> HIDE DEF s1, s2, s3
<1>5. ASSUME NEW u \in Fields PROVE s1 \o u = Put(a, Put(b, Put(c, u)))
  <2>1. s1 \o u = Put(a, s2 \o u)
    BY <1>1, FirstField
  <2>2. s2 \o u = Put(b, s3 \o u)
    BY <1>2, FirstField
  <2>3. s3 \o u = Put(c, u)
    BY <1>4
  <2> QED BY <2>1, <2>2, <2>3
<1>6. s1 = Put(a, Put(b, Put(c, <<>>)))
  <2>1. s1 \o <<>> = s1
    BY <1>1, EmptyFields
  <2>2. s1 \o <<>> = Put(a, Put(b, Put(c, <<>>)))
    BY <1>5, EmptyFields
  <2> QED BY <2>1, <2>2, Zenon
<1> QED BY <1>1, <1>5, <1>6 DEF s1

LEMMA PutFour ==
  ASSUME NEW a \in Field, NEW b \in Field, NEW c \in Field, NEW d \in Field
  PROVE  /\ <<a, b, c, d>> \in Fields /\ <<a, b, c, d>> = Put(a, Put(b, Put(c, Put(d, <<>>))))
         /\ \A u \in Fields : <<a, b, c, d>> \o u = Put(a, Put(b, Put(c, Put(d, u))))
<1> DEFINE s1 == <<a, b, c, d>>
           s2 == <<b, c, d>>
           s3 == <<c, d>>
           s4 == <<d>>
<1>1. s1 \in Fields /\ s1[1] = a /\ Tail(s1) = s2 /\ s1 # <<>>
  BY DEF Fields
<1>2. s2 \in Fields /\ s2[1] = b /\ Tail(s2) = s3 /\ s2 # <<>>
  BY DEF Fields
<1>3. s3 \in Fields /\ s3[1] = c /\ Tail(s3) = s4 /\ s3 # <<>>
  BY DEF Fields
<1>4. s4 \in Fields /\ s4[1] = d /\ Tail(s4) = <<>> /\ s4 # <<>>
  BY DEF Fields
<1>5. \A u \in Fields : s4 \o u = Put(d, u)
  BY OneField
<1> HIDE DEF s1, s2, s3, s4
<1>6. ASSUME NEW u \in Fields PROVE s1 \o u = Put(a, Put(b, Put(c, Put(d, u))))
  <2>1. s1 \o u = Put(a, s2 \o u)
    BY <1>1, FirstField
  <2>2. s2 \o u = Put(b, s3 \o u)
    BY <1>2, FirstField
  <2>3. s3 \o u = Put(c, s4 \o u)
    BY <1>3, FirstField
  <2>4. s4 \o u = Put(d, u)
    BY <1>5
  <2> QED BY <2>1, <2>2, <2>3, <2>4
<1>7. s1 = Put(a, Put(b, Put(c, Put(d, <<>>))))
  <2>1. s1 \o <<>> = s1
    BY <1>1, EmptyFields
  <2>2. s1 \o <<>> = Put(a, Put(b, Put(c, Put(d, <<>>))))
    BY <1>6, EmptyFields
  <2> QED BY <2>1, <2>2, Zenon
<1> QED BY <1>1, <1>6, <1>7 DEF s1

InFrontFive(a, b, c, d, e) ==
  /\ <<a, b, c, d, e>> \in Fields /\ <<a, b, c, d, e>> = Put(a, Put(b, Put(c, Put(d, Put(e, <<>>)))))
  /\ \A u \in Fields : <<a, b, c, d, e>> \o u = Put(a, Put(b, Put(c, Put(d, Put(e, u)))))

LEMMA PutFive ==
  ASSUME NEW a \in Field, NEW b \in Field, NEW c \in Field, NEW d \in Field, NEW e \in Field
  PROVE  InFrontFive(a, b, c, d, e)
<1> DEFINE s1 == <<a, b, c, d, e>>
           s2 == <<b, c, d, e>>
           s3 == <<c, d, e>>
           s4 == <<d, e>>
           s5 == <<e>>
<1>1. s1 \in Fields /\ s1[1] = a /\ Tail(s1) = s2 /\ s1 # <<>>
  BY DEF Fields
<1>2. s2 \in Fields /\ s2[1] = b /\ Tail(s2) = s3 /\ s2 # <<>>
  BY DEF Fields
<1>3. s3 \in Fields /\ s3[1] = c /\ Tail(s3) = s4 /\ s3 # <<>>
  BY DEF Fields
<1>4. s4 \in Fields /\ s4[1] = d /\ Tail(s4) = s5 /\ s4 # <<>>
  BY DEF Fields
<1>5. s5 \in Fields /\ s5[1] = e /\ Tail(s5) = <<>> /\ s5 # <<>>
  BY DEF Fields
<1>6. \A u \in Fields : s5 \o u = Put(e, u)
  BY OneField
<1> HIDE DEF s1, s2, s3, s4, s5
<1>7. ASSUME NEW u \in Fields PROVE s1 \o u = Put(a, Put(b, Put(c, Put(d, Put(e, u)))))
  <2>1. s1 \o u = Put(a, s2 \o u)
    BY <1>1, FirstField
  <2>2. s2 \o u = Put(b, s3 \o u)
    BY <1>2, FirstField
  <2>3. s3 \o u = Put(c, s4 \o u)
    BY <1>3, FirstField
  <2>4. s4 \o u = Put(d, s5 \o u)
    BY <1>4, FirstField
  <2>5. s5 \o u = Put(e, u)
    BY <1>6
  <2> QED BY <2>1, <2>2, <2>3, <2>4, <2>5
<1>8. s1 = Put(a, Put(b, Put(c, Put(d, Put(e, <<>>)))))
  <2>1. s1 \o <<>> = s1
    BY <1>1, EmptyFields
  <2>2. s1 \o <<>> = Put(a, Put(b, Put(c, Put(d, Put(e, <<>>)))))
    BY <1>7, EmptyFields
  <2> QED BY <2>1, <2>2, Zenon
<1> QED BY <1>1, <1>7, <1>8 DEF s1, InFrontFive

InFrontEight(a, b, c, d, e, f, g, h) ==
  /\ <<a, b, c, d, e, f, g, h>> \in Fields /\ <<a, b, c, d, e, f, g, h>> = Put(a, Put(b, Put(c, Put(d, Put(e, Put(f, Put(g, Put(h, <<>>))))))))
  /\ \A u \in Fields : <<a, b, c, d, e, f, g, h>> \o u = Put(a, Put(b, Put(c, Put(d, Put(e, Put(f, Put(g, Put(h, u))))))))

LEMMA PutEight ==
  ASSUME NEW a \in Field, NEW b \in Field, NEW c \in Field, NEW d \in Field, NEW e \in Field, NEW f \in Field, NEW g \in Field, NEW h \in Field
  PROVE  InFrontEight(a, b, c, d, e, f, g, h)
<1> DEFINE s1 == <<a, b, c, d, e, f, g, h>>
           s2 == <<b, c, d, e, f, g, h>>
           s3 == <<c, d, e, f, g, h>>
           s4 == <<d, e, f, g, h>>
           s5 == <<e, f, g, h>>
           s6 == <<f, g, h>>
           s7 == <<g, h>>
           s8 == <<h>>
<1>1. s1 \in Fields /\ s1[1] = a /\ Tail(s1) = s2 /\ s1 # <<>>
  BY DEF Fields
<1>2. s2 \in Fields /\ s2[1] = b /\ Tail(s2) = s3 /\ s2 # <<>>
  BY DEF Fields
<1>3. s3 \in Fields /\ s3[1] = c /\ Tail(s3) = s4 /\ s3 # <<>>
  BY DEF Fields
<1>4. s4 \in Fields /\ s4[1] = d /\ Tail(s4) = s5 /\ s4 # <<>>
  BY DEF Fields
<1>5. s5 \in Fields /\ s5[1] = e /\ Tail(s5) = s6 /\ s5 # <<>>
  BY DEF Fields
<1>6. s6 \in Fields /\ s6[1] = f /\ Tail(s6) = s7 /\ s6 # <<>>
  BY DEF Fields
<1>7. s7 \in Fields /\ s7[1] = g /\ Tail(s7) = s8 /\ s7 # <<>>
  BY DEF Fields
<1>8. s8 \in Fields /\ s8[1] = h /\ Tail(s8) = <<>> /\ s8 # <<>>
  BY DEF Fields
<1>9. \A u \in Fields : s8 \o u = Put(h, u)
  BY OneField
<1> HIDE DEF s1, s2, s3, s4, s5, s6, s7, s8
<1>10. ASSUME NEW u \in Fields PROVE s1 \o u = Put(a, Put(b, Put(c, Put(d, Put(e, Put(f, Put(g, Put(h, u))))))))
  <2>1. s1 \o u = Put(a, s2 \o u)
    BY <1>1, FirstField
  <2>2. s2 \o u = Put(b, s3 \o u)
    BY <1>2, FirstField
  <2>3. s3 \o u = Put(c, s4 \o u)
    BY <1>3, FirstField
  <2>4. s4 \o u = Put(d, s5 \o u)
    BY <1>4, FirstField
  <2>5. s5 \o u = Put(e, s6 \o u)
    BY <1>5, FirstField
  <2>6. s6 \o u = Put(f, s7 \o u)
    BY <1>6, FirstField
  <2>7. s7 \o u = Put(g, s8 \o u)
    BY <1>7, FirstField
  <2>8. s8 \o u = Put(h, u)
    BY <1>9
  <2> QED BY <2>1, <2>2, <2>3, <2>4, <2>5, <2>6, <2>7, <2>8
<1>11. s1 = Put(a, Put(b, Put(c, Put(d, Put(e, Put(f, Put(g, Put(h, <<>>))))))))
  <2>1. s1 \o <<>> = s1
    BY <1>1, EmptyFields
  <2>2. s1 \o <<>> = Put(a, Put(b, Put(c, Put(d, Put(e, Put(f, Put(g, Put(h, <<>>))))))))
    BY <1>10, EmptyFields
  <2> QED BY <2>1, <2>2, Zenon
<1> QED BY <1>1, <1>10, <1>11 DEF s1, InFrontEight

-----------------------------------------------------------------------------
(* What a reader does with the fields that a writer has written *)

Cell(w, v) == <<w, v>>

LEMMA Cells ==
  ASSUME NEW w \in Nat \ {0}, NEW v \in Values
  PROVE  Cell(w, v) \in Field /\ Cell(w, v)[1] = w /\ Cell(w, v)[2] = v
BY DEF Cell, Field

\* What a reader got, and one value more.
Push(got, v) == Append(got, v)

LEMMA ReadPut ==
  ASSUME NEW w \in Nat \ {0}, NEW v \in Values, NEW t \in Fields, NEW got
  PROVE  Read(ReaderAt(Put(Cell(w, v), t), got), w) = ReaderAt(t, Push(got, v))
<1> DEFINE s == Put(Cell(w, v), t)
<1>1. s # <<>> /\ s[1] = Cell(w, v) /\ Tail(s) = t /\ Cell(w, v)[1] = w /\ Cell(w, v)[2] = v
  BY Cells, PutFields
<1> HIDE DEF s
<1>2. Read(ReaderAt(s, got), w) = ReaderAt(t, Push(got, v))
  BY <1>1 DEF Read, ReaderAt, Push
<1> QED BY <1>2 DEF s

LEMMA FreshReader == \A rest, got : Fresh(ReaderAt(rest, got)) = ReaderAt(rest, <<>>)
BY DEF Fresh, ReaderAt

LEMMA Pushed ==
  /\ \A a : Push(<<>>, a) = <<a>>
  /\ \A a, b : Push(<<a>>, b) = <<a, b>>
  /\ \A a, b, c : Push(<<a, b>>, c) = <<a, b, c>>
  /\ \A a, b, c, d : Push(<<a, b, c>>, d) = <<a, b, c, d>>
  /\ \A a, b, c, d, e : Push(<<a, b, c, d>>, e) = <<a, b, c, d, e>>
  /\ \A a, b, c, d, e, f : Push(<<a, b, c, d, e>>, f) = <<a, b, c, d, e, f>>
<1>2. ASSUME NEW a, NEW b PROVE Push(<<a>>, b) = <<a, b>>
  <2> DEFINE S == {a, b}
             s == <<a>>
             t == <<a, b>>
  <2>1. /\ s \in Seq(S) /\ Len(s) = 1 /\ t \in Seq(S) /\ Len(t) = 2 /\ t[2] = b /\ b \in S
        /\ \A i \in 1..1 : s[i] = t[i]
    OBVIOUS
  <2> DEFINE q == Append(s, b)
  <2>2. q \in Seq(S) /\ Len(q) = 2 /\ \A i \in 1..2 : q[i] = t[i]
    OBVIOUS
  <2> HIDE DEF S, s, t, q
  <2>3. q = t
    BY <2>1, <2>2, SeqEqual
  <2> QED BY <2>3 DEF q, s, t, Push
<1>3. ASSUME NEW a, NEW b, NEW c PROVE Push(<<a, b>>, c) = <<a, b, c>>
  <2> DEFINE S == {a, b, c}
             s == <<a, b>>
             t == <<a, b, c>>
  <2>1. /\ s \in Seq(S) /\ Len(s) = 2 /\ t \in Seq(S) /\ Len(t) = 3 /\ t[3] = c /\ c \in S
        /\ \A i \in 1..2 : s[i] = t[i]
    OBVIOUS
  <2> DEFINE q == Append(s, c)
  <2>2. q \in Seq(S) /\ Len(q) = 3 /\ \A i \in 1..3 : q[i] = t[i]
    OBVIOUS
  <2> HIDE DEF S, s, t, q
  <2>3. q = t
    BY <2>1, <2>2, SeqEqual
  <2> QED BY <2>3 DEF q, s, t, Push
<1>4. ASSUME NEW a, NEW b, NEW c, NEW d PROVE Push(<<a, b, c>>, d) = <<a, b, c, d>>
  <2> DEFINE S == {a, b, c, d}
             s == <<a, b, c>>
             t == <<a, b, c, d>>
  <2>1. /\ s \in Seq(S) /\ Len(s) = 3 /\ t \in Seq(S) /\ Len(t) = 4 /\ t[4] = d /\ d \in S
        /\ \A i \in 1..3 : s[i] = t[i]
    OBVIOUS
  <2> DEFINE q == Append(s, d)
  <2>2. q \in Seq(S) /\ Len(q) = 4 /\ \A i \in 1..4 : q[i] = t[i]
    OBVIOUS
  <2> HIDE DEF S, s, t, q
  <2>3. q = t
    BY <2>1, <2>2, SeqEqual
  <2> QED BY <2>3 DEF q, s, t, Push
<1>5. ASSUME NEW a, NEW b, NEW c, NEW d, NEW e PROVE Push(<<a, b, c, d>>, e) = <<a, b, c, d, e>>
  <2> DEFINE S == {a, b, c, d, e}
             s == <<a, b, c, d>>
             t == <<a, b, c, d, e>>
  <2>1. /\ s \in Seq(S) /\ Len(s) = 4 /\ t \in Seq(S) /\ Len(t) = 5 /\ t[5] = e /\ e \in S
        /\ \A i \in 1..4 : s[i] = t[i]
    OBVIOUS
  <2> DEFINE q == Append(s, e)
  <2>2. q \in Seq(S) /\ Len(q) = 5 /\ \A i \in 1..5 : q[i] = t[i]
    OBVIOUS
  <2> HIDE DEF S, s, t, q
  <2>3. q = t
    BY <2>1, <2>2, SeqEqual
  <2> QED BY <2>3 DEF q, s, t, Push
<1>6. ASSUME NEW a, NEW b, NEW c, NEW d, NEW e, NEW f PROVE Push(<<a, b, c, d, e>>, f) = <<a, b, c, d, e, f>>
  <2> DEFINE S == {a, b, c, d, e, f}
             s == <<a, b, c, d, e>>
             t == <<a, b, c, d, e, f>>
  <2>1. /\ s \in Seq(S) /\ Len(s) = 5 /\ t \in Seq(S) /\ Len(t) = 6 /\ t[6] = f /\ f \in S
        /\ \A i \in 1..5 : s[i] = t[i]
    OBVIOUS
  <2> DEFINE q == Append(s, f)
  <2>2. q \in Seq(S) /\ Len(q) = 6 /\ \A i \in 1..6 : q[i] = t[i]
    OBVIOUS
  <2> HIDE DEF S, s, t, q
  <2>3. q = t
    BY <2>1, <2>2, SeqEqual
  <2> QED BY <2>3 DEF q, s, t, Push
<1>1. \A a : Push(<<>>, a) = <<a>>
  BY DEF Push
<1> QED BY <1>1, <1>2, <1>3, <1>4, <1>5, <1>6

LEMMA FlagFields ==
  ASSUME NEW b \in BOOLEAN, NEW t \in Fields, NEW got
  PROVE  ReadFlag(ReaderAt(Put(Flag(b), t), got)) = ReaderAt(t, Push(got, b))
<1> DEFINE v == IF b THEN 1 ELSE 0
           r == ReaderAt(Put(Cell(1, v), t), got)
           c == Read(Fresh(r), 1)
<1>1. v \in Values /\ Flag(b) = Cell(1, v) /\ b = (v # 0)
  BY DEF Values, Flag, Cell
<1> HIDE DEF v
<1>2. c = ReaderAt(t, Push(<<>>, v))
  <2>1. Fresh(r) = ReaderAt(Put(Cell(1, v), t), <<>>)
    BY FreshReader
  <2>2. 1 \in Nat \ {0}
    OBVIOUS
  <2>3. Read(ReaderAt(Put(Cell(1, v), t), <<>>), 1) = ReaderAt(t, Push(<<>>, v))
    BY <1>1, <2>2, ReadPut
  <2> QED BY <2>1, <2>3
<1>3. Push(<<>>, v) = <<v>>
  BY Pushed
<1> HIDE DEF c
<1>4. Within(r, c, c.got[1] # 0) = ReaderAt(t, Push(got, v # 0))
  BY <1>2, <1>3 DEF Within, ReaderAt, Push
<1>5. ReadFlag(r) = ReaderAt(t, Push(got, v # 0))
  BY <1>4 DEF ReadFlag, c
<1> QED BY <1>1, <1>5

LEMMA LastPushed ==
  ASSUME NEW S, NEW got \in Seq(S), NEW v
  PROVE  Last(Push(got, v)) = v
<1> DEFINE T == S \cup {v}
<1>1. got \in Seq(T) /\ v \in T
  BY SeqMonotonic
<1> HIDE DEF T
<1> QED BY <1>1, AppendProperties DEF Last, Push

LEMMA ScalarRead ==
  ASSUME NEW S, NEW got \in Seq(S), NEW v \in Nat, ValidScalar(v), NEW t \in Fields
  PROVE  ReadScalar(ReaderAt(Put(Cell(4, v), t), got)) = ReaderAt(t, Push(got, v))
<1>1. v \in Values /\ 4 \in Nat \ {0}
  BY DEF Values
<1> DEFINE c == Read(ReaderAt(Put(Cell(4, v), t), got), 4)
<1>2. c = ReaderAt(t, Push(got, v))
  BY <1>1, ReadPut
<1>3. Last(Push(got, v)) = v
  BY LastPushed
<1> HIDE DEF c
<1>4. Checked(c, ValidScalar(Last(c.got))) = ReaderAt(t, Push(got, v))
  BY <1>2, <1>3 DEF Checked, ReaderAt
<1> QED BY <1>4 DEF ReadScalar, c

\* A width times a number of items.
LEMMA Widths ==
  ASSUME NEW size \in {1, 2, 4}, NEW n \in Nat
  PROVE  /\ size * n \in Nat /\ (n # 0 => size * n \in Nat \ {0})
         /\ \A b \in Nat : size * n <= b => n <= b \div size
<1>1. CASE size = 1
  BY <1>1
<1>2. CASE size = 2
  BY <1>2
<1>3. CASE size = 4
  BY <1>3
<1> QED BY <1>1, <1>2, <1>3

\* The units of a text, in front of others.
Units(t, size, u) == IF t.units = 0 THEN u ELSE Put(Cell(size * t.units, t), u)

LEMMA TextIsFields ==
  ASSUME NEW t \in Texts, NEW size \in {1, 2}, NEW u \in Fields
  PROVE  /\ TextFields(t, size) \in Fields
         /\ TextFields(t, size) \o u = Put(Cell(4, t.units), Units(t, size, u))
         /\ Units(t, size, u) \in Fields /\ size * t.units <= Bytes(Units(t, size, u))
<1>1. t.units \in Nat /\ t.units \in Values /\ t \in Values /\ 4 \in Nat \ {0}
  BY DEF Texts, Values
<1>2. Cell(4, t.units) \in Field /\ Cell(4, t.units) = <<4, t.units>>
  BY <1>1, Cells DEF Cell
<1>3. CASE t.units = 0
  <2>1. TextFields(t, size) = <<Cell(4, t.units)>> \o <<>> /\ Units(t, size, u) = u
    BY <1>2, <1>3 DEF TextFields, Units
  <2>2. <<Cell(4, t.units)>> \in Fields /\ <<Cell(4, t.units)>> \o u = Put(Cell(4, t.units), u)
    BY <1>2, OneField
  <2>3. TextFields(t, size) = <<Cell(4, t.units)>>
    BY <2>1, <2>2, EmptyFields
  <2>4. size * t.units = 0 /\ Bytes(u) \in Nat
    BY <1>3, BytesNat
  <2> QED BY <2>1, <2>2, <2>3, <2>4
<1>4. CASE t.units # 0
  <2> DEFINE w == size * t.units
  <2>1. w \in Nat \ {0}
    BY <1>1, <1>4, Widths
  <2> HIDE DEF w
  <2>2. Cell(w, t) \in Field /\ Cell(w, t) = <<w, t>> /\ Cell(w, t)[1] = w
    BY <1>1, <2>1, Cells DEF Cell
  <2>3. TextFields(t, size) = <<Cell(4, t.units)>> \o <<Cell(w, t)>> /\ Units(t, size, u) = Put(Cell(w, t), u)
    BY <1>2, <1>4, <2>2 DEF TextFields, Units, w
  <2> DEFINE one == <<Cell(w, t)>>
  <2>4. one \in Fields /\ one \o u = Put(Cell(w, t), u)
    BY <2>2, OneField
  <2>5. TextFields(t, size) = Put(Cell(4, t.units), one)
    BY <1>2, <2>3, <2>4, OneField
  <2> DEFINE x == Cell(4, t.units)
  <2> HIDE DEF one, x
  <2>6. TextFields(t, size) \in Fields /\ TextFields(t, size) \o u = Put(Cell(4, t.units), one \o u)
    <3>1. x \in Field /\ TextFields(t, size) = Put(x, one)
      BY <1>2, <2>5 DEF x
    <3>2. Put(x, one) \in Fields
      BY <2>4, <3>1, PutFields
    <3>3. Put(x, one) \o u = Put(x, one \o u)
      BY <2>4, <3>1, PutConcat
    <3> QED BY <3>1, <3>2, <3>3 DEF x
  <2>7. Put(Cell(w, t), u) \in Fields /\ Bytes(Put(Cell(w, t), u)) = w + Bytes(u) /\ Bytes(u) \in Nat
    BY <2>2, PutFields, BytesNat
  <2>8. TextFields(t, size) \o u = Put(Cell(4, t.units), Units(t, size, u))
    BY <2>3, <2>4, <2>6
  <2>9. w <= Bytes(Units(t, size, u)) /\ Units(t, size, u) \in Fields
    BY <2>1, <2>3, <2>7
  <2> QED BY <2>6, <2>8, <2>9 DEF w
<1> QED BY <1>3, <1>4

LEMMA TextRead ==
  ASSUME NEW t \in Texts, NEW size \in {1, 2}, NEW limit \in Nat, Sendable(t, limit), NEW u \in Fields, NEW got
  PROVE  ReadUtf(ReaderAt(TextFields(t, size) \o u, got), size, limit) = ReaderAt(u, Push(got, t))
<1> DEFINE r == ReaderAt(TextFields(t, size) \o u, got)
           rest == Units(t, size, u)
           c == Read(Fresh(r), 4)
           count == Checked(c, c.got[1] <= limit /\ c.got[1] <= Bytes(c.rest) \div size)
           text == Read(Fresh(count), size * c.got[1])
<1>1. /\ t.units \in Nat /\ t.units \in Values /\ t \in Values /\ 4 \in Nat \ {0}
      /\ t.units = 0 => t = EmptyText
      /\ t.valid /\ t.units <= limit
  BY DEF Texts, Values, Sendable, EmptyText
<1>2. rest \in Fields /\ size * t.units <= Bytes(rest) /\ TextFields(t, size) \o u = Put(Cell(4, t.units), rest)
  BY TextIsFields
<1>3. Fresh(r) = ReaderAt(Put(Cell(4, t.units), rest), <<>>)
  BY <1>2, FreshReader
<1> HIDE DEF rest
<1>4. Read(ReaderAt(Put(Cell(4, t.units), rest), <<>>), 4) = ReaderAt(rest, Push(<<>>, t.units))
  BY <1>1, <1>2, ReadPut
<1>5. c = ReaderAt(rest, <<t.units>>)
  BY <1>3, <1>4, Pushed
<1>6. t.units <= Bytes(rest) \div size
  <2>1. size \in {1, 2, 4} /\ Bytes(rest) \in Nat
    BY <1>2, BytesNat
  <2> QED BY <1>1, <1>2, <2>1, Widths
<1> HIDE DEF c
<1>7. c.got[1] = t.units /\ c.rest = rest /\ c.ok
  BY <1>5 DEF ReaderAt
<1>8. count = ReaderAt(rest, <<t.units>>)
  BY <1>1, <1>5, <1>6, <1>7 DEF Checked
<1> HIDE DEF count
<1>9. count.ok /\ count.got[1] = t.units
  BY <1>8 DEF ReaderAt
<1>10. CASE t.units = 0
  <2>1. Within(r, count, EmptyText) = ReaderAt(u, Push(got, t))
    BY <1>1, <1>8, <1>10 DEF rest, Units, Within, ReaderAt, Push
  <2> QED BY <1>9, <1>10, <2>1 DEF ReadUtf, count, c
<1>11. CASE t.units # 0
  <2>1. Fresh(count) = ReaderAt(Put(Cell(size * t.units, t), u), <<>>)
    BY <1>8, <1>11, FreshReader DEF rest, Units
  <2>2. size * t.units \in Nat \ {0}
    BY <1>1, <1>11, Widths
  <2>3. Read(ReaderAt(Put(Cell(size * t.units, t), u), <<>>), size * t.units) = ReaderAt(u, Push(<<>>, t))
    <3> DEFINE w == size * t.units
    <3>1. w \in Nat \ {0}
      BY <2>2
    <3> HIDE DEF w
    <3>2. Read(ReaderAt(Put(Cell(w, t), u), <<>>), w) = ReaderAt(u, Push(<<>>, t))
      BY <1>1, <3>1, ReadPut
    <3> QED BY <3>2 DEF w
  <2>4. text = ReaderAt(u, <<t>>)
    BY <1>7, <2>1, <2>3, Pushed
  <2> HIDE DEF text
  <2>5. text.got[1] = t /\ Checked(text, text.got[1].valid) = ReaderAt(u, <<t>>)
    BY <1>1, <2>4 DEF Checked, ReaderAt
  <2>6. Within(r, Checked(text, text.got[1].valid), text.got[1]) = ReaderAt(u, Push(got, t))
    BY <2>5 DEF Within, ReaderAt, Push
  <2> QED BY <1>9, <1>11, <2>6 DEF ReadUtf, text, count, c
<1> QED BY <1>10, <1>11

LEMMA ConcatFields ==
  ASSUME NEW s \in Fields, NEW t \in Fields, NEW u \in Fields
  PROVE  s \o t \in Fields /\ (s \o t) \o u = s \o (t \o u)
<1>1. s \in Seq(Field) /\ t \in Seq(Field) /\ u \in Seq(Field)
  BY DEF Fields
<1> QED BY <1>1, ConcatAssociative, ConcatProperties DEF Fields

LEMMA TextBytes ==
  ASSUME NEW t \in Texts, NEW size \in {1, 2}
  PROVE  4 <= Bytes(TextFields(t, size))
<1> DEFINE rest == Units(t, size, <<>>)
           s == TextFields(t, size)
<1>1. s \in Fields /\ s \o <<>> = Put(Cell(4, t.units), rest) /\ rest \in Fields
  BY TextIsFields, EmptyFields
<1>2. Cell(4, t.units) \in Field /\ Cell(4, t.units)[1] = 4
  <2>1. t.units \in Values /\ 4 \in Nat \ {0}
    BY DEF Texts, Values
  <2> QED BY <2>1, Cells
<1> HIDE DEF rest, s
<1>3. s = Put(Cell(4, t.units), rest) /\ Bytes(rest) \in Nat
  BY <1>1, EmptyFields, BytesNat
<1>4. Bytes(s) = 4 + Bytes(rest)
  BY <1>1, <1>2, <1>3, PutFields
<1>5. 4 <= Bytes(s)
  BY <1>3, <1>4
<1> QED BY <1>5 DEF s

LEMMA PaddingParts ==
  ASSUME NEW e \in Paddings
  PROVE  /\ e.character \in Nat
         /\ e.chosen => e = [chosen |-> TRUE, character |-> e.character, reading |-> EmptyText]
         /\ ~e.chosen => e.reading \in Texts /\ e = [chosen |-> FALSE, character |-> 0, reading |-> e.reading]
<1>1. CASE e \in [chosen : {TRUE}, character : Nat, reading : {EmptyText}]
  BY <1>1
<1>2. CASE e \in [chosen : {FALSE}, character : {0}, reading : Texts]
  <2>1. e.chosen = FALSE /\ e.character = 0 /\ e.reading \in Texts
    BY <1>2
  <2>2. e = [chosen |-> e.chosen, character |-> e.character, reading |-> e.reading]
    BY <1>2
  <2> QED BY <2>1, <2>2
<1> QED BY <1>1, <1>2 DEF Paddings

LEMMA PaddingIsFields ==
  ASSUME NEW e \in Paddings, NEW u \in Fields
  PROVE  /\ PaddingFields(e) \in Fields /\ 4 <= Bytes(PaddingFields(e))
         /\ e.chosen => PaddingFields(e) \o u = Put(Cell(1, 1), Put(Cell(4, e.character), u))
         /\ ~e.chosen => PaddingFields(e) \o u = Put(Cell(1, 0), TextFields(e.reading, 2) \o u)
<1> DEFINE x == Cell(1, 1)
           y == Cell(4, e.character)
           z == Cell(1, 0)
<1>1. x \in Field /\ y \in Field /\ z \in Field /\ x[1] = 1 /\ y[1] = 4 /\ z[1] = 1
  <2>1. e.character \in Values /\ 1 \in Values /\ 0 \in Values /\ 1 \in Nat \ {0} /\ 4 \in Nat \ {0}
    BY PaddingParts DEF Values
  <2> QED BY <2>1, Cells
<1>2. PaddingFields(e) = IF e.chosen THEN <<x, y>> ELSE <<z>> \o TextFields(e.reading, 2)
  BY DEF PaddingFields, Cell
<1> HIDE DEF x, y, z
<1>3. CASE e.chosen
  <2> DEFINE one == <<y>>
  <2>1. one \in Fields /\ Bytes(one) = 4 /\ one \o u = Put(y, u)
    <3>1. <<y>> \in Fields /\ <<y>> \o u = Put(y, u) /\ <<y>> = Put(y, <<>>)
      BY <1>1, OneField DEF Put, Fields
    <3>2. Bytes(Put(y, <<>>)) = 4 + 0
      BY <1>1, EmptyFields, PutFields, BytesEmpty
    <3> QED BY <3>1, <3>2
  <2>2. <<x, y>> = Put(x, one)
    <3>1. <<x, y>> \in Fields /\ <<x, y>>[1] = x /\ Tail(<<x, y>>) = <<y>> /\ <<x, y>> # <<>>
      BY <1>1 DEF Fields
    <3> QED BY <3>1, FirstField
  <2> HIDE DEF one
  <2>3. Put(x, one) \in Fields /\ Bytes(Put(x, one)) = 1 + 4 /\ Put(x, one) \o u = Put(x, one \o u)
    <3>1. Put(x, one) \in Fields /\ Bytes(Put(x, one)) = x[1] + Bytes(one)
      BY <1>1, <2>1, PutFields
    <3>2. Put(x, one) \o u = Put(x, one \o u)
      BY <1>1, <2>1, PutConcat
    <3> QED BY <1>1, <2>1, <3>1, <3>2
  <2>4. PaddingFields(e) = Put(x, one)
    BY <1>2, <1>3, <2>2
  <2>5. 4 <= 1 + 4
    OBVIOUS
  <2> QED BY <1>3, <2>1, <2>3, <2>4, <2>5 DEF x, y
<1>4. CASE ~e.chosen
  <2> DEFINE s == TextFields(e.reading, 2)
  <2>1. s \in Fields /\ 4 <= Bytes(s)
    <3>1. e.reading \in Texts /\ 2 \in {1, 2}
      BY <1>4, PaddingParts
    <3> QED BY <3>1, TextIsFields, EmptyFields, TextBytes
  <2>2. PaddingFields(e) = Put(z, s)
    BY <1>1, <1>2, <1>4, <2>1, OneField
  <2> HIDE DEF s
  <2>3. Put(z, s) \in Fields /\ Bytes(Put(z, s)) = 1 + Bytes(s) /\ Put(z, s) \o u = Put(z, s \o u)
    <3>1. Put(z, s) \in Fields /\ Bytes(Put(z, s)) = z[1] + Bytes(s)
      BY <1>1, <2>1, PutFields
    <3>2. Put(z, s) \o u = Put(z, s \o u)
      BY <1>1, <2>1, PutConcat
    <3> QED BY <1>1, <3>1, <3>2
  <2>4. 4 <= 1 + Bytes(s)
    BY <2>1, BytesNat
  <2> QED BY <1>4, <2>2, <2>3, <2>4 DEF z, s
<1> QED BY <1>3, <1>4

LEMMA PaddingRead ==
  ASSUME NEW e \in Paddings, SendablePadding(e), NEW u \in Fields, NEW got
  PROVE  ReadPadding(ReaderAt(PaddingFields(e) \o u, got)) = ReaderAt(u, Push(got, e))
<1> DEFINE r == ReaderAt(PaddingFields(e) \o u, got)
           kind == Read(Fresh(r), 1)
           char == ReadScalar(Fresh(kind))
           text == ReadUtf(Fresh(kind), 2, MaxBopomofo)
<1>1. 1 \in Nat \ {0} /\ 1 \in Values /\ 0 \in Values /\ 4 \in Nat \ {0} /\ MaxBopomofo \in Nat
  BY DEF Values, MaxBopomofo
<1>2. CASE e.chosen
  <2>1. /\ e.character \in Nat /\ e.character \in Values /\ e.character # 0 /\ ValidScalar(e.character)
        /\ e = [chosen |-> TRUE, character |-> e.character, reading |-> EmptyText]
    BY <1>2, PaddingParts DEF Values, SendablePadding
  <2> DEFINE rest == Put(Cell(4, e.character), u)
  <2>2. rest \in Fields
    <3>1. Cell(4, e.character) \in Field
      BY <1>1, <2>1, Cells
    <3> QED BY <3>1, PutFields
  <2>3. Fresh(r) = ReaderAt(Put(Cell(1, 1), rest), <<>>)
    BY <1>2, PaddingIsFields, FreshReader
  <2> HIDE DEF rest
  <2>4. Read(ReaderAt(Put(Cell(1, 1), rest), <<>>), 1) = ReaderAt(rest, Push(<<>>, 1))
    BY <1>1, <2>2, ReadPut
  <2>5. kind = ReaderAt(rest, <<1>>)
    BY <2>3, <2>4, Pushed
  <2> HIDE DEF kind
  <2>6. kind.ok /\ kind.got[1] = 1 /\ Fresh(kind) = ReaderAt(rest, <<>>)
    BY <2>5, FreshReader DEF ReaderAt
  <2>7. <<>> \in Seq(Nat)
    OBVIOUS
  <2>8. ReadScalar(ReaderAt(Put(Cell(4, e.character), u), <<>>)) = ReaderAt(u, Push(<<>>, e.character))
    BY <2>1, <2>7, ScalarRead
  <2>9. char = ReaderAt(u, <<e.character>>)
    BY <2>6, <2>8, Pushed DEF rest
  <2> HIDE DEF char
  <2>10. char.got[1] = e.character /\ Checked(char, char.got[1] # 0) = char
    BY <2>1, <2>9 DEF Checked, ReaderAt
  <2>11. Within(r, Checked(char, char.got[1] # 0), [chosen |-> TRUE, character |-> char.got[1], reading |-> EmptyText])
           = ReaderAt(u, Push(got, e))
    <3>1. [chosen |-> TRUE, character |-> char.got[1], reading |-> EmptyText] = e
      BY <2>1, <2>10
    <3>2. Within(r, char, e) = ReaderAt(u, Push(got, e))
      BY <2>9 DEF Within, ReaderAt, Push
    <3> QED BY <2>10, <3>1, <3>2
  <2> QED BY <2>6, <2>11 DEF ReadPadding, kind, char
<1>3. CASE ~e.chosen
  <2>1. /\ e.reading \in Texts /\ Sendable(e.reading, MaxBopomofo)
        /\ e = [chosen |-> FALSE, character |-> 0, reading |-> e.reading]
    BY <1>3, PaddingParts DEF SendablePadding
  <2> DEFINE rest == TextFields(e.reading, 2) \o u
  <2>2. rest \in Fields
    <3>1. TextFields(e.reading, 2) \in Fields
      BY <2>1, TextIsFields, EmptyFields
    <3> QED BY <3>1, ConcatFields
  <2>3. Fresh(r) = ReaderAt(Put(Cell(1, 0), rest), <<>>)
    BY <1>3, PaddingIsFields, FreshReader
  <2> HIDE DEF rest
  <2>4. Read(ReaderAt(Put(Cell(1, 0), rest), <<>>), 1) = ReaderAt(rest, Push(<<>>, 0))
    BY <1>1, <2>2, ReadPut
  <2>5. kind = ReaderAt(rest, <<0>>)
    BY <2>3, <2>4, Pushed
  <2> HIDE DEF kind
  <2>6. kind.ok /\ kind.got[1] = 0 /\ Fresh(kind) = ReaderAt(rest, <<>>)
    BY <2>5, FreshReader DEF ReaderAt
  <2>7. ReadUtf(ReaderAt(TextFields(e.reading, 2) \o u, <<>>), 2, MaxBopomofo) = ReaderAt(u, Push(<<>>, e.reading))
    BY <1>1, <2>1, TextRead
  <2>8. text = ReaderAt(u, <<e.reading>>)
    BY <2>6, <2>7, Pushed DEF rest
  <2> HIDE DEF text
  <2>9. text.got[1] = e.reading /\ Checked(text, kind.got[1] = 0) = text
    BY <2>6, <2>8 DEF Checked, ReaderAt
  <2>10. Within(r, Checked(text, kind.got[1] = 0), [chosen |-> FALSE, character |-> 0, reading |-> text.got[1]])
           = ReaderAt(u, Push(got, e))
    <3>1. [chosen |-> FALSE, character |-> 0, reading |-> text.got[1]] = e
      BY <2>1, <2>9
    <3>2. Within(r, text, e) = ReaderAt(u, Push(got, e))
      BY <2>8 DEF Within, ReaderAt, Push
    <3> QED BY <2>9, <3>1, <3>2
  <2>11. ~(kind.got[1] = 1)
    BY <2>6
  <2> QED BY <2>10, <2>11 DEF ReadPadding, kind, text
<1> QED BY <1>2, <1>3

Bit(b) == IF b THEN 1 ELSE 0

LEMMA FlagCell ==
  ASSUME NEW b \in BOOLEAN
  PROVE  Flag(b) = Cell(1, Bit(b)) /\ Bit(b) \in Values /\ Bit(b) <= 1 /\ (Bit(b) = 1) = b /\ Flag(b) \in Field
<1>1. Bit(b) \in Values /\ 1 \in Nat \ {0} /\ Bit(b) <= 1 /\ (Bit(b) = 1) = b
  BY DEF Bit, Values
<1>2. Flag(b) = Cell(1, Bit(b))
  BY DEF Flag, Bit, Cell
<1> QED BY <1>1, <1>2, Cells

LEMMA EntryParts ==
  ASSUME NEW e \in CommitEntries
  PROVE  /\ e.reading \in Texts /\ e.character \in Nat /\ e.manual \in BOOLEAN /\ e.literal \in BOOLEAN
         /\ e = [reading |-> e.reading, character |-> e.character, manual |-> e.manual, literal |-> e.literal]
BY DEF CommitEntries

LEMMA EntryIsFields ==
  ASSUME NEW e \in CommitEntries, NEW u \in Fields
  PROVE  /\ EntryFields(e) \in Fields /\ 4 <= Bytes(EntryFields(e))
         /\ EntryFields(e) \o u =
              TextFields(e.reading, 2) \o Put(Cell(4, e.character), Put(Cell(1, Bit(e.manual)), Put(Cell(1, Bit(e.literal)), u)))
<1> DEFINE s == TextFields(e.reading, 2)
           x == Cell(4, e.character)
           y == Cell(1, Bit(e.manual))
           z == Cell(1, Bit(e.literal))
           three == <<x, y, z>>
<1>1. s \in Fields /\ 4 <= Bytes(s)
  <2>1. e.reading \in Texts /\ 2 \in {1, 2}
    BY EntryParts
  <2> QED BY <2>1, TextIsFields, EmptyFields, TextBytes
<1>2. x \in Field /\ y \in Field /\ z \in Field
  <2>1. e.character \in Values /\ Bit(e.manual) \in Values /\ Bit(e.literal) \in Values
        /\ 1 \in Nat \ {0} /\ 4 \in Nat \ {0}
    BY EntryParts, FlagCell DEF Values
  <2> QED BY <2>1, Cells
<1>3. EntryFields(e) = s \o three
  <2>1. Flag(e.manual) = y /\ Flag(e.literal) = z
    BY EntryParts, FlagCell
  <2> QED BY <2>1 DEF EntryFields, Cell
<1> HIDE DEF s, x, y, z
<1>4. three \in Fields /\ three \o u = Put(x, Put(y, Put(z, u)))
  <2>1. three \in Fields /\ \A t \in Fields : three \o t = Put(x, <<y, z>> \o t)
    BY <1>2, ThreeFields
  <2>2. <<y, z>> \o u = Put(y, <<z>> \o u)
    BY <1>2, TwoFields
  <2>3. <<z>> \o u = Put(z, u)
    BY <1>2, OneField
  <2> QED BY <2>1, <2>2, <2>3
<1> HIDE DEF three
<1>5. s \o three \in Fields /\ (s \o three) \o u = s \o (three \o u)
  BY <1>1, <1>4, ConcatFields
<1>6. Bytes(s \o three) = Bytes(s) + Bytes(three) /\ Bytes(s) \in Nat /\ Bytes(three) \in Nat
  BY <1>1, <1>4, BytesConcat, BytesNat
<1>7. 4 <= Bytes(s \o three)
  BY <1>1, <1>6
<1> QED BY <1>3, <1>4, <1>5, <1>7 DEF s, x, y, z

LEMMA EntryRead ==
  ASSUME NEW e \in CommitEntries, SendableEntry(e), NEW u \in Fields, NEW got
  PROVE  ReadEntry(ReaderAt(EntryFields(e) \o u, got)) = ReaderAt(u, Push(got, e))
<1> DEFINE r == ReaderAt(EntryFields(e) \o u, got)
           t3 == Put(Cell(1, Bit(e.literal)), u)
           t2 == Put(Cell(1, Bit(e.manual)), t3)
           t1 == Put(Cell(4, e.character), t2)
           q == Read(Read(ReadScalar(ReadUtf(Fresh(r), 2, MaxReading)), 1), 1)
<1>1. /\ e.reading \in Texts /\ e.character \in Nat /\ e.manual \in BOOLEAN /\ e.literal \in BOOLEAN
      /\ e.character # 0 /\ ValidScalar(e.character) /\ Sendable(e.reading, MaxReading)
      /\ e.literal <=> e.reading.units = 0
  BY EntryParts DEF SendableEntry
<1>2. /\ 1 \in Nat \ {0} /\ 4 \in Nat \ {0} /\ MaxReading \in Nat /\ e.character \in Values
      /\ Bit(e.manual) \in Values /\ Bit(e.literal) \in Values
      /\ Bit(e.manual) <= 1 /\ (Bit(e.manual) = 1) = e.manual
      /\ Bit(e.literal) <= 1 /\ (Bit(e.literal) = 1) = e.literal
  BY <1>1, FlagCell DEF Values, MaxReading
<1>3. t3 \in Fields /\ t2 \in Fields /\ t1 \in Fields
  BY <1>2, Cells, PutFields
<1>4. Fresh(r) = ReaderAt(TextFields(e.reading, 2) \o t1, <<>>)
  BY EntryIsFields, FreshReader
<1>5. ReadUtf(Fresh(r), 2, MaxReading) = ReaderAt(t1, <<e.reading>>)
  <2> HIDE DEF t1
  <2>1. ReadUtf(ReaderAt(TextFields(e.reading, 2) \o t1, <<>>), 2, MaxReading) = ReaderAt(t1, Push(<<>>, e.reading))
    BY <1>1, <1>2, <1>3, TextRead
  <2> QED BY <1>4, <2>1, Pushed
<1>6. ReadScalar(ReaderAt(t1, <<e.reading>>)) = ReaderAt(t2, <<e.reading, e.character>>)
  <2> DEFINE g == <<e.reading>>
  <2>1. g \in Seq({e.reading})
    OBVIOUS
  <2> HIDE DEF t2, g
  <2>2. ReadScalar(ReaderAt(t1, g)) = ReaderAt(t2, Push(g, e.character))
    BY <1>1, <1>3, <2>1, ScalarRead
  <2> QED BY <2>2, Pushed DEF g
<1>7. Read(ReaderAt(t2, <<e.reading, e.character>>), 1) = ReaderAt(t3, <<e.reading, e.character, Bit(e.manual)>>)
  <2> DEFINE g == <<e.reading, e.character>>
  <2> HIDE DEF t3, g
  <2>1. Read(ReaderAt(t2, g), 1) = ReaderAt(t3, Push(g, Bit(e.manual)))
    BY <1>2, <1>3, ReadPut
  <2> QED BY <2>1, Pushed DEF g
<1>8. Read(ReaderAt(t3, <<e.reading, e.character, Bit(e.manual)>>), 1)
        = ReaderAt(u, <<e.reading, e.character, Bit(e.manual), Bit(e.literal)>>)
  <2> DEFINE g == <<e.reading, e.character, Bit(e.manual)>>
  <2> HIDE DEF g
  <2>1. Read(ReaderAt(t3, g), 1) = ReaderAt(u, Push(g, Bit(e.literal)))
    BY <1>2, <1>3, ReadPut
  <2> QED BY <2>1, Pushed DEF g
<1>9. q = ReaderAt(u, <<e.reading, e.character, Bit(e.manual), Bit(e.literal)>>)
  BY <1>5, <1>6, <1>7, <1>8
<1> HIDE DEF q
<1>10. q.got[1] = e.reading /\ q.got[2] = e.character /\ q.got[3] = Bit(e.manual) /\ q.got[4] = Bit(e.literal) /\ q.ok
  BY <1>9 DEF ReaderAt
<1> DEFINE fine == /\ q.got[2] # 0 /\ q.got[3] <= 1 /\ q.got[4] <= 1
                   /\ q.got[4] = 1 <=> q.got[1].units = 0
<1>11. fine
  BY <1>1, <1>2, <1>10
<1>12. [reading |-> q.got[1], character |-> q.got[2], manual |-> q.got[3] = 1, literal |-> q.got[4] = 1] = e
  BY <1>2, <1>10, EntryParts
<1> HIDE DEF fine
<1>13. Checked(q, fine) = ReaderAt(u, <<e.reading, e.character, Bit(e.manual), Bit(e.literal)>>)
  BY <1>9, <1>10, <1>11 DEF Checked
<1>14. Within(r, Checked(q, fine), e) = ReaderAt(u, Push(got, e))
  BY <1>13 DEF Within, ReaderAt, Push
<1>15. ReadEntry(r) = Within(r, Checked(q, fine), e)
  BY <1>12 DEF ReadEntry, q, fine
<1> QED BY <1>14, <1>15

-----------------------------------------------------------------------------
(* Repeated parts *)

\* What is left of the items of a list before each of them, with u behind the last.
FieldsFrom(items, u) ==
  {g \in [0..Len(items) -> Fields] :
     g[Len(items)] = u /\ \A i \in 1..Len(items) : g[i - 1] = items[i] \o g[i]}

LEMMA SuffixesExist ==
  ASSUME NEW items \in Seq(Fields), NEW u \in Fields
  PROVE  \E g : g \in FieldsFrom(items, u)
<1> DEFINE n == Len(items)
           step == [p \in (1..n) \X Fields |-> items[n - p[1] + 1] \o p[2]]
<1>1. n \in Nat /\ \A i \in 1..n : items[i] \in Fields
  OBVIOUS
<1>2. step \in [(1..n) \X Fields -> Fields]
  <2> HIDE DEF n
  <2>1. \A p \in (1..n) \X Fields : p[1] \in 1..n /\ p[2] \in Fields /\ n - p[1] + 1 \in 1..n
    BY <1>1
  <2>2. \A p \in (1..n) \X Fields : items[n - p[1] + 1] \o p[2] \in Fields
    BY <1>1, <2>1, ConcatFields
  <2> QED BY <2>2
<1>3. Iterated(n, Fields, u, step)
  <2> HIDE DEF n, step
  <2> QED BY <1>1, <1>2, Iteration
<1>4. PICK h \in [0..n -> Fields] : h[0] = u /\ \A i \in 1..n : h[i] = step[<<i, h[i - 1]>>]
  BY <1>3 DEF Iterated
<1> DEFINE g == [i \in 0..n |-> h[n - i]]
<1> HIDE DEF n
<1>5. g \in [0..n -> Fields] /\ g[n] = u
  BY <1>1, <1>4
<1>6. ASSUME NEW i \in 1..n PROVE g[i - 1] = items[i] \o g[i]
  <2> DEFINE k == n - i + 1
  <2>1. k \in 1..n /\ n - k + 1 = i /\ n - (i - 1) = k /\ k - 1 = n - i /\ k - 1 \in 0..n /\ i - 1 \in 0..n /\ i \in 0..n
    BY <1>1
  <2>2. g[i - 1] = h[k] /\ g[i] = h[k - 1]
    BY <2>1
  <2> HIDE DEF k
  <2>3. <<k, h[k - 1]>> \in (1..n) \X Fields
    BY <1>4, <2>1
  <2>4. step[<<k, h[k - 1]>>] = items[n - k + 1] \o h[k - 1]
    BY <2>3
  <2>5. h[k] = items[i] \o h[k - 1]
    BY <1>4, <2>1, <2>4
  <2> QED BY <2>2, <2>5
<1> QED BY <1>5, <1>6 DEF FieldsFrom, n

LEMMA FlattenedSuffixes ==
  ASSUME NEW items \in Seq(Fields), NEW u \in Fields, NEW g \in FieldsFrom(items, u)
  PROVE  FlattenSeq(items) \in Fields /\ FlattenSeq(items) \o u = g[0]
<1> DEFINE n == Len(items)
<1>1. /\ n \in Nat /\ \A i \in 1..n : items[i] \in Fields
      /\ g \in [0..n -> Fields] /\ g[n] = u /\ \A i \in 1..n : g[i - 1] = items[i] \o g[i]
  BY DEF FieldsFrom
<1>2. CASE n = 0
  <2>1. FlattenSeq(items) = <<>>
    BY <1>2 DEF FlattenSeq
  <2> QED BY <1>1, <1>2, <2>1, EmptyFields
<1>3. CASE n # 0
  <2> DEFINE Body(f) == [i \in 1..n |-> IF i = 1 THEN items[i] ELSE f[i - 1] \o items[i]]
             flat == CHOOSE f : f = Body(f)
             step == [p \in (1..n) \X Fields |-> p[2] \o items[p[1]]]
  <2>1. FlattenSeq(items) = flat[n]
    BY <1>3 DEF FlattenSeq
  <2> HIDE DEF n
  <2>2. step \in [(1..n) \X Fields -> Fields]
    <3>1. \A p \in (1..n) \X Fields : p[1] \in 1..n /\ p[2] \in Fields
      OBVIOUS
    <3>2. \A p \in (1..n) \X Fields : p[2] \o items[p[1]] \in Fields
      BY <1>1, <3>1, ConcatFields
    <3> QED BY <3>2
  <2>3. Iterated(n, Fields, <<>>, step)
    <3> HIDE DEF step
    <3> QED BY <1>1, <2>2, EmptyFields, Iteration
  <2>4. PICK h \in [0..n -> Fields] : h[0] = <<>> /\ \A i \in 1..n : h[i] = step[<<i, h[i - 1]>>]
    BY <2>3 DEF Iterated
  <2>5. ASSUME NEW i \in 1..n PROVE h[i] = h[i - 1] \o items[i]
    <3>1. i - 1 \in 0..n /\ h[i - 1] \in Fields
      BY <1>1, <2>4
    <3>2. step[<<i, h[i - 1]>>] = h[i - 1] \o items[i]
      BY <3>1
    <3> QED BY <2>4, <3>2
  <2> DEFINE k == [i \in 1..n |-> h[i]]
  <2>6. \A i \in 1..n : k[i] = IF i = 1 THEN items[i] ELSE k[i - 1] \o items[i]
    <3> SUFFICES ASSUME NEW i \in 1..n PROVE k[i] = IF i = 1 THEN items[i] ELSE k[i - 1] \o items[i]
      OBVIOUS
    <3>1. CASE i = 1
      <4>1. i - 1 = 0 /\ items[i] \in Fields
        BY <1>1, <3>1
      <4>2. h[i] = h[i - 1] \o items[i] /\ h[i - 1] = <<>>
        BY <2>4, <2>5, <4>1, Zenon
      <4>3. <<>> \o items[i] = items[i]
        BY <4>1, EmptyFields
      <4>4. h[i] = items[i]
        BY <4>2, <4>3, Zenon
      <4> QED BY <3>1, <4>4
    <3>2. CASE i # 1
      <4>1. i - 1 \in 1..n
        BY <1>1, <3>2
      <4> QED BY <2>5, <3>2, <4>1
    <3> QED BY <3>1, <3>2
  <2>7. k = Body(k)
    BY <2>6
  <2>8. flat = Body(flat)
    <3> HIDE DEF Body, k
    <3> QED BY <2>7
  <2> HIDE DEF flat
  <2> DEFINE part(i) == IF i = 0 THEN <<>> ELSE flat[i]
             T == {i \in 0..n : part(i) \in Fields /\ part(i) \o g[i] = g[0]}
  <2>9. ASSUME NEW i \in 1..n, part(i - 1) \in Fields PROVE part(i) = part(i - 1) \o items[i]
    <3>1. CASE i = 1
      <4>1. flat[1] = items[1] /\ items[1] \in Fields
        BY <1>1, <2>8, <3>1
      <4> QED BY <3>1, <4>1, EmptyFields
    <3>2. CASE i # 1
      <4>1. i - 1 \in 1..n
        BY <1>1, <3>2
      <4>2. flat[i] = flat[i - 1] \o items[i]
        BY <2>8, <3>2
      <4>3. part(i) = flat[i] /\ part(i - 1) = flat[i - 1]
        BY <4>1
      <4> HIDE DEF part
      <4> QED BY <4>2, <4>3, Zenon
    <3> QED BY <3>1, <3>2
  <2>10. 0 \in T
    <3>1. 0 \in 0..n /\ g[0] \in Fields
      BY <1>1
    <3> QED BY <3>1, EmptyFields
  <2>11. ASSUME NEW i \in 1..n, i - 1 \in T PROVE i \in T
    <3> HIDE DEF part
    <3>1. part(i - 1) \in Fields /\ part(i - 1) \o g[i - 1] = g[0]
      BY <2>11
    <3>2. part(i) = part(i - 1) \o items[i]
      BY <2>9, <3>1
    <3>3. i \in 0..n /\ items[i] \in Fields /\ g[i] \in Fields /\ g[i - 1] = items[i] \o g[i]
      BY <1>1
    <3>4. /\ part(i - 1) \o items[i] \in Fields
          /\ (part(i - 1) \o items[i]) \o g[i] = part(i - 1) \o (items[i] \o g[i])
      BY <3>1, <3>3, ConcatFields
    <3>5. part(i) \in Fields /\ part(i) \o g[i] = g[0]
      BY <3>1, <3>2, <3>3, <3>4, Zenon
    <3> QED BY <3>3, <3>5
  <2>12. n \in T
    <3>1. n \in Nat /\ n \in 0..n
      BY <1>1
    <3> HIDE DEF T
    <3> QED BY <3>1, <2>10, <2>11, InductionUpTo
  <2> QED BY <1>1, <1>3, <2>1, <2>12
<1> QED BY <1>2, <1>3

\* The fields of a list with u behind them: the count, then the first of the suffixes.
LEMMA ListIsFields ==
  ASSUME NEW items \in Seq(Fields), NEW u \in Fields, NEW g \in FieldsFrom(items, u)
  PROVE  ListFields(items) \in Fields /\ ListFields(items) \o u = Put(Cell(4, Len(items)), g[0])
<1> DEFINE x == Cell(4, Len(items))
           one == <<x>>
           s == FlattenSeq(items)
<1>1. x \in Field
  <2>1. Len(items) \in Values /\ 4 \in Nat \ {0}
    BY DEF Values
  <2> QED BY <2>1, Cells
<1>2. s \in Fields /\ s \o u = g[0]
  BY FlattenedSuffixes
<1>3. ListFields(items) = one \o s
  BY DEF ListFields, Cell
<1> HIDE DEF x, s
<1>4. one \in Fields /\ one \o g[0] = Put(x, g[0])
  <2>1. g[0] \in Fields
    BY DEF FieldsFrom
  <2> QED BY <1>1, <2>1, OneField
<1> HIDE DEF one
<1>5. one \o s \in Fields /\ (one \o s) \o u = one \o (s \o u)
  BY <1>2, <1>4, ConcatFields
<1>6. ListFields(items) \in Fields /\ ListFields(items) \o u = Put(x, g[0])
  BY <1>2, <1>3, <1>4, <1>5, Zenon
<1> QED BY <1>6 DEF x

LEMMA ListBytes ==
  ASSUME NEW items \in Seq(Fields), NEW u \in Fields, NEW g \in FieldsFrom(items, u),
         \A i \in 1..Len(items) : 4 <= Bytes(items[i])
  PROVE  4 * Len(items) <= Bytes(g[0])
<1> DEFINE n == Len(items)
           T == {i \in 0..n : 4 * i <= Bytes(g[n - i])}
<1>1. /\ n \in Nat /\ \A i \in 1..n : items[i] \in Fields
      /\ g \in [0..n -> Fields] /\ \A i \in 1..n : g[i - 1] = items[i] \o g[i]
  BY DEF FieldsFrom
<1> HIDE DEF n
<1>2. 0 \in T
  <2>1. Bytes(g[n]) \in Nat
    BY <1>1, BytesNat
  <2> QED BY <1>1, <2>1
<1>3. ASSUME NEW i \in 1..n, i - 1 \in T PROVE i \in T
  <2> DEFINE k == n - i + 1
  <2>1. k \in 1..n /\ k - 1 = n - i /\ k = n - (i - 1) /\ k \in 0..n /\ n - i \in 0..n
    BY <1>1
  <2> HIDE DEF k
  <2>2. items[k] \in Fields /\ g[k] \in Fields /\ g[n - i] \in Fields /\ g[n - i] = items[k] \o g[k]
    BY <1>1, <2>1
  <2>3. Bytes(g[n - i]) = Bytes(items[k]) + Bytes(g[k]) /\ Bytes(items[k]) \in Nat /\ Bytes(g[k]) \in Nat
    BY <2>2, BytesConcat, BytesNat
  <2>4. 4 <= Bytes(items[k]) /\ 4 * (i - 1) <= Bytes(g[k])
    BY <1>3, <2>1 DEF n
  <2> QED BY <2>3, <2>4
<1>4. n \in T
  <2>1. n \in Nat /\ n \in 0..n
    BY <1>1
  <2> HIDE DEF T
  <2> QED BY <2>1, <1>2, <1>3, InductionUpTo
<1>5. n - n = 0
  BY <1>1
<1> QED BY <1>4, <1>5 DEF n

LEMMA CountRead ==
  ASSUME NEW n \in Nat, NEW limit \in Nat, n <= limit, NEW smallest \in {0, 1, 4},
         NEW rest \in Fields, 4 * n <= Bytes(rest), NEW got
  PROVE  ReadCount(ReaderAt(Put(Cell(4, n), rest), got), smallest, limit) = ReaderAt(rest, <<n>>)
<1> DEFINE r == ReaderAt(Put(Cell(4, n), rest), got)
           c == Read(Fresh(r), 4)
<1>1. 4 \in Nat \ {0} /\ n \in Values /\ Bytes(rest) \in Nat
  BY BytesNat DEF Values
<1>2. Fresh(r) = ReaderAt(Put(Cell(4, n), rest), <<>>)
  BY FreshReader
<1>3. Read(ReaderAt(Put(Cell(4, n), rest), <<>>), 4) = ReaderAt(rest, Push(<<>>, n))
  BY <1>1, ReadPut
<1>4. c = ReaderAt(rest, <<n>>)
  BY <1>2, <1>3, Pushed
<1> HIDE DEF c
<1>5. c.got[1] = n /\ c.rest = rest /\ c.ok
  BY <1>4 DEF ReaderAt
<1>6. smallest # 0 => n <= Bytes(rest) \div smallest
  <2>1. CASE smallest = 1
    BY <1>1, <2>1
  <2>2. CASE smallest = 4
    BY <1>1, <2>2
  <2> QED BY <2>1, <2>2
<1>7. Checked(c, c.got[1] <= limit /\ (smallest # 0 => c.got[1] <= Bytes(c.rest) \div smallest)) = ReaderAt(rest, <<n>>)
  BY <1>4, <1>5, <1>6 DEF Checked
<1> QED BY <1>7 DEF ReadCount, c

\* The fields of a list, its count as it is read, and the readers between its items:
\* each of these has read the items before it.
LEMMA ListParts ==
  ASSUME NEW items \in Seq(Fields), \A i \in 1..Len(items) : 4 <= Bytes(items[i])
  PROVE  ListFields(items) \in Fields /\ 4 <= Bytes(ListFields(items))
<1> DEFINE n == Len(items)
           s == ListFields(items)
<1>1. PICK g : g \in FieldsFrom(items, <<>>)
  BY EmptyFields, SuffixesExist
<1>2. s \in Fields /\ s \o <<>> = Put(Cell(4, n), g[0])
  BY <1>1, EmptyFields, ListIsFields
<1>3. g[0] \in Fields /\ n \in Nat
  BY <1>1 DEF FieldsFrom
<1> HIDE DEF n, s
<1>4. s = Put(Cell(4, n), g[0])
  BY <1>2, EmptyFields
<1>5. Cell(4, n) \in Field /\ Cell(4, n)[1] = 4
  <2>1. n \in Values /\ 4 \in Nat \ {0}
    BY <1>3 DEF Values
  <2> QED BY <2>1, Cells
<1>6. Bytes(s) = 4 + Bytes(g[0]) /\ Bytes(g[0]) \in Nat
  BY <1>3, <1>4, <1>5, PutFields, BytesNat
<1>7. 4 <= Bytes(s)
  BY <1>6
<1> QED BY <1>2, <1>7 DEF s

LEMMA CountOfList ==
  ASSUME NEW items \in Seq(Fields), \A i \in 1..Len(items) : 4 <= Bytes(items[i]),
         NEW u \in Fields, NEW g \in FieldsFrom(items, u),
         NEW limit \in Nat, Len(items) <= limit, NEW smallest \in {0, 1, 4}, NEW got
  PROVE  ReadCount(ReaderAt(ListFields(items) \o u, got), smallest, limit) = ReaderAt(g[0], <<Len(items)>>)
<1> DEFINE n == Len(items)
<1>1. n \in Nat /\ n <= limit /\ g[0] \in Fields
  BY DEF FieldsFrom
<1>2. 4 * n <= Bytes(g[0])
  BY ListBytes
<1>3. ListFields(items) \o u = Put(Cell(4, n), g[0])
  BY ListIsFields
<1> HIDE DEF n
<1>4. ReadCount(ReaderAt(Put(Cell(4, n), g[0]), got), smallest, limit) = ReaderAt(g[0], <<n>>)
  BY <1>1, <1>2, CountRead
<1> QED BY <1>3, <1>4, Zenon DEF n

Between(list, g) == [i \in 0..Len(list) |-> ReaderAt(g[i], SubSeq(list, 1, i))]

LEMMA BetweenItems ==
  ASSUME NEW S, NEW list \in Seq(S), NEW items \in Seq(Fields), Len(items) = Len(list),
         NEW u \in Fields, NEW g \in FieldsFrom(items, u)
  PROVE  /\ Between(list, g)[0] = ReaderAt(g[0], <<>>)
         /\ Between(list, g)[Len(list)] = ReaderAt(u, list)
         /\ \A i \in 1..Len(list) :
              /\ g[i] \in Fields /\ SubSeq(list, 1, i - 1) \in Seq(S)
              /\ Between(list, g)[i - 1] = ReaderAt(items[i] \o g[i], SubSeq(list, 1, i - 1))
              /\ Between(list, g)[i] = ReaderAt(g[i], Push(SubSeq(list, 1, i - 1), list[i]))
<1>1. Len(list) \in Nat /\ 0 \in 0..Len(list) /\ Len(list) \in 0..Len(list)
  OBVIOUS
<1>2. SubSeq(list, 1, 0) = <<>> /\ SubSeq(list, 1, Len(list)) = list
  OBVIOUS
<1>3. ASSUME NEW i \in 1..Len(list)
      PROVE  /\ i - 1 \in 0..Len(list) /\ i \in 0..Len(list)
             /\ SubSeq(list, 1, i - 1) \in Seq(S)
             /\ SubSeq(list, 1, i) = Push(SubSeq(list, 1, i - 1), list[i])
  <2>1. i - 1 \in 0..Len(list) /\ i \in 0..Len(list) /\ SubSeq(list, 1, i - 1) \in Seq(S)
    BY <1>1
  <2>2. SubSeq(list, 1, i) = Append(SubSeq(list, 1, i - 1), list[i])
    BY <1>1, SubSeqRecursiveSecond
  <2> QED BY <2>1, <2>2 DEF Push
<1>4. /\ g[Len(list)] = u
      /\ \A i \in 1..Len(list) : g[i] \in Fields /\ g[i - 1] = items[i] \o g[i]
  <2>1. /\ g \in [0..Len(items) -> Fields] /\ g[Len(items)] = u
        /\ \A i \in 1..Len(items) : g[i - 1] = items[i] \o g[i]
    BY DEF FieldsFrom
  <2>2. \A i \in 1..Len(items) : g[i] \in Fields
    BY <2>1
  <2> QED BY <2>1, <2>2, Zenon
<1>5. \A i \in 0..Len(list) : Between(list, g)[i] = ReaderAt(g[i], SubSeq(list, 1, i))
  BY DEF Between
<1>6. ASSUME NEW i \in 1..Len(list)
      PROVE  /\ Between(list, g)[i - 1] = ReaderAt(items[i] \o g[i], SubSeq(list, 1, i - 1))
             /\ Between(list, g)[i] = ReaderAt(g[i], Push(SubSeq(list, 1, i - 1), list[i]))
  <2>1. Between(list, g)[i - 1] = ReaderAt(g[i - 1], SubSeq(list, 1, i - 1))
    BY <1>3, <1>5
  <2>2. Between(list, g)[i] = ReaderAt(g[i], SubSeq(list, 1, i))
    BY <1>3, <1>5
  <2> QED BY <1>3, <1>4, <2>1, <2>2, Zenon
<1>7. Between(list, g)[0] = ReaderAt(g[0], SubSeq(list, 1, 0)) /\ Between(list, g)[Len(list)] = ReaderAt(g[Len(list)], SubSeq(list, 1, Len(list)))
  BY <1>1, <1>5
<1> QED BY <1>2, <1>3, <1>4, <1>6, <1>7, Zenon

LEMMA FunctionIsSequence ==
  ASSUME NEW n \in Nat, NEW S, NEW f \in [1..n -> S]
  PROVE  f \in Seq(S) /\ Len(f) = n
OBVIOUS

\* The value of a list that has been read.
LEMMA ListWithin ==
  ASSUME NEW rest, NEW got, NEW u, NEW list, NEW q, q = ReaderAt(u, list)
  PROVE  Within(ReaderAt(rest, got), q, q.got) = ReaderAt(u, Push(got, list))
BY DEF Within, ReaderAt, Push

LEMMA PaddingsRead ==
  ASSUME NEW list \in Seq(Paddings), Len(list) <= MaxRepeated, \A i \in DOMAIN list : SendablePadding(list[i]),
         NEW u \in Fields, NEW got
  PROVE  LET items == [i \in DOMAIN list |-> PaddingFields(list[i])]
         IN  /\ ListFields(items) \in Fields /\ 4 <= Bytes(ListFields(items))
             /\ ReadPaddings(ReaderAt(ListFields(items) \o u, got)) = ReaderAt(u, Push(got, list))
<1> DEFINE n == Len(list)
           items == [i \in DOMAIN list |-> PaddingFields(list[i])]
           r == ReaderAt(ListFields(items) \o u, got)
<1>1. n \in Nat /\ DOMAIN list = 1..n /\ \A i \in 1..n : list[i] \in Paddings /\ SendablePadding(list[i])
  OBVIOUS
<1> HIDE DEF n
<1>2. ASSUME NEW e \in Paddings, SendablePadding(e) PROVE PaddingFields(e) \in Fields /\ 4 <= Bytes(PaddingFields(e))
  BY <1>2, PaddingIsFields, EmptyFields
<1>3. items \in [1..n -> Fields] /\ \A i \in 1..n : items[i] = PaddingFields(list[i]) /\ 4 <= Bytes(items[i])
  BY <1>1, <1>2
<1> HIDE DEF items
<1>4. items \in Seq(Fields) /\ Len(items) = n /\ Len(items) = Len(list)
  <2>1. items \in Seq(Fields) /\ Len(items) = n
    BY <1>1, <1>3, FunctionIsSequence
  <2> QED BY <2>1 DEF n
<1>5. \A i \in 1..Len(items) : 4 <= Bytes(items[i])
  BY <1>3, <1>4
<1>6. ListFields(items) \in Fields /\ 4 <= Bytes(ListFields(items))
  BY <1>4, <1>5, ListParts
<1>7. PICK g : g \in FieldsFrom(items, u)
  BY <1>4, SuffixesExist
<1> DEFINE count == ReadCount(r, 1, MaxRepeated)
           Body(h) == [i \in 0..count.got[1] |-> IF i = 0 THEN Fresh(count) ELSE ReadPadding(h[i - 1])]
           read == CHOOSE h : h = Body(h)
           f == Between(list, g)
<1>8. count = ReaderAt(g[0], <<n>>)
  <2>1. Len(items) <= MaxRepeated /\ MaxRepeated \in Nat /\ 1 \in {0, 1, 4}
    BY <1>4 DEF MaxRepeated
  <2> QED BY <1>4, <1>5, <1>7, <2>1, CountOfList
<1> HIDE DEF count
<1>9. count.ok /\ count.got[1] = n /\ Fresh(count) = ReaderAt(g[0], <<>>)
  BY <1>8, FreshReader DEF ReaderAt
<1>10. /\ f[0] = ReaderAt(g[0], <<>>) /\ f[n] = ReaderAt(u, list)
       /\ \A i \in 1..n :
            /\ g[i] \in Fields /\ SubSeq(list, 1, i - 1) \in Seq(Paddings)
            /\ f[i - 1] = ReaderAt(items[i] \o g[i], SubSeq(list, 1, i - 1))
            /\ f[i] = ReaderAt(g[i], Push(SubSeq(list, 1, i - 1), list[i]))
  BY <1>4, <1>7, BetweenItems DEF n
<1>11. f = [i \in 0..n |-> f[i]]
  BY DEF Between, n
<1> HIDE DEF f
<1>12. ASSUME NEW e \in Paddings, SendablePadding(e), NEW v \in Fields, NEW before \in Seq(Paddings)
       PROVE  ReadPadding(ReaderAt(PaddingFields(e) \o v, before)) = ReaderAt(v, Push(before, e))
  BY <1>12, PaddingRead
<1>13. ASSUME NEW i \in 1..n PROVE f[i] = ReadPadding(f[i - 1])
  <2> DEFINE before == SubSeq(list, 1, i - 1)
  <2>1. g[i] \in Fields /\ before \in Seq(Paddings) /\ f[i - 1] = ReaderAt(items[i] \o g[i], before) /\ f[i] = ReaderAt(g[i], Push(before, list[i]))
    BY <1>10
  <2> HIDE DEF before
  <2>2. items[i] = PaddingFields(list[i])
    BY <1>3
  <2>3. ReadPadding(ReaderAt(PaddingFields(list[i]) \o g[i], before)) = ReaderAt(g[i], Push(before, list[i]))
    BY <1>1, <1>12, <2>1
  <2> QED BY <2>1, <2>2, <2>3, Zenon
<1>14. f = Body(f)
  <2>1. ASSUME NEW i \in 0..n PROVE f[i] = IF i = 0 THEN Fresh(count) ELSE ReadPadding(f[i - 1])
    <3>1. CASE i = 0
      BY <1>9, <1>10, <3>1
    <3>2. CASE i # 0
      <4>1. i \in 1..n
        BY <1>1, <3>2
      <4> QED BY <1>13, <3>2, <4>1
    <3> QED BY <3>1, <3>2
  <2>2. [i \in 0..n |-> f[i]] = [i \in 0..n |-> IF i = 0 THEN Fresh(count) ELSE ReadPadding(f[i - 1])]
    BY <2>1, Zenon
  <2> QED BY <1>9, <1>11, <2>2, Zenon
<1>15. read = Body(read)
  <2> HIDE DEF Body
  <2> QED BY <1>14
<1> HIDE DEF read
<1>16. read[0] = f[0]
  BY <1>1, <1>9, <1>10, <1>15
<1>17. ASSUME NEW i \in 1..n PROVE read[i] = ReadPadding(read[i - 1])
  <2>1. i \in 0..n /\ i # 0
    BY <1>1
  <2> QED BY <1>9, <1>15, <2>1, Zenon
<1>18. \A i \in 1..n : read[i - 1] = f[i - 1] => read[i] = f[i]
  BY <1>13, <1>17, Zenon
<1>19. read[n] = ReaderAt(u, list)
  <2>1. Alike(n, read, f)
    BY <1>1, <1>16, <1>18, SameIteration
  <2> QED BY <1>1, <1>10, <2>1 DEF Alike
<1>20. ReadPaddings(r) = Within(r, read[n], read[n].got)
  BY <1>9, Zenon DEF ReadPaddings, ReadList, read, count, Body
<1>21. Within(r, read[n], read[n].got) = ReaderAt(u, Push(got, list))
  BY <1>19, ListWithin
<1> QED BY <1>6, <1>20, <1>21, Zenon DEF items, r

LEMMA EntriesRead ==
  ASSUME NEW list \in Seq(CommitEntries), Len(list) <= MaxCommit, \A i \in DOMAIN list : SendableEntry(list[i]),
         NEW u \in Fields, NEW got
  PROVE  LET items == [i \in DOMAIN list |-> EntryFields(list[i])]
         IN  /\ ListFields(items) \in Fields /\ 4 <= Bytes(ListFields(items))
             /\ ReadEntries(ReaderAt(ListFields(items) \o u, got)) = ReaderAt(u, Push(got, list))
<1> DEFINE n == Len(list)
           items == [i \in DOMAIN list |-> EntryFields(list[i])]
           r == ReaderAt(ListFields(items) \o u, got)
<1>1. n \in Nat /\ DOMAIN list = 1..n /\ \A i \in 1..n : list[i] \in CommitEntries /\ SendableEntry(list[i])
  OBVIOUS
<1> HIDE DEF n
<1>2. ASSUME NEW e \in CommitEntries, SendableEntry(e) PROVE EntryFields(e) \in Fields /\ 4 <= Bytes(EntryFields(e))
  BY <1>2, EntryIsFields, EmptyFields
<1>3. items \in [1..n -> Fields] /\ \A i \in 1..n : items[i] = EntryFields(list[i]) /\ 4 <= Bytes(items[i])
  BY <1>1, <1>2
<1> HIDE DEF items
<1>4. items \in Seq(Fields) /\ Len(items) = n /\ Len(items) = Len(list)
  <2>1. items \in Seq(Fields) /\ Len(items) = n
    BY <1>1, <1>3, FunctionIsSequence
  <2> QED BY <2>1 DEF n
<1>5. \A i \in 1..Len(items) : 4 <= Bytes(items[i])
  BY <1>3, <1>4
<1>6. ListFields(items) \in Fields /\ 4 <= Bytes(ListFields(items))
  BY <1>4, <1>5, ListParts
<1>7. PICK g : g \in FieldsFrom(items, u)
  BY <1>4, SuffixesExist
<1> DEFINE count == ReadCount(r, 0, MaxCommit)
           Body(h) == [i \in 0..count.got[1] |-> IF i = 0 THEN Fresh(count) ELSE ReadEntry(h[i - 1])]
           read == CHOOSE h : h = Body(h)
           f == Between(list, g)
<1>8. count = ReaderAt(g[0], <<n>>)
  <2>1. Len(items) <= MaxCommit /\ MaxCommit \in Nat /\ 0 \in {0, 1, 4}
    BY <1>4 DEF MaxCommit
  <2> QED BY <1>4, <1>5, <1>7, <2>1, CountOfList
<1> HIDE DEF count
<1>9. count.ok /\ count.got[1] = n /\ Fresh(count) = ReaderAt(g[0], <<>>)
  BY <1>8, FreshReader DEF ReaderAt
<1>10. /\ f[0] = ReaderAt(g[0], <<>>) /\ f[n] = ReaderAt(u, list)
       /\ \A i \in 1..n :
            /\ g[i] \in Fields /\ SubSeq(list, 1, i - 1) \in Seq(CommitEntries)
            /\ f[i - 1] = ReaderAt(items[i] \o g[i], SubSeq(list, 1, i - 1))
            /\ f[i] = ReaderAt(g[i], Push(SubSeq(list, 1, i - 1), list[i]))
  BY <1>4, <1>7, BetweenItems DEF n
<1>11. f = [i \in 0..n |-> f[i]]
  BY DEF Between, n
<1> HIDE DEF f
<1>12. ASSUME NEW e \in CommitEntries, SendableEntry(e), NEW v \in Fields, NEW before \in Seq(CommitEntries)
       PROVE  ReadEntry(ReaderAt(EntryFields(e) \o v, before)) = ReaderAt(v, Push(before, e))
  BY <1>12, EntryRead
<1>13. ASSUME NEW i \in 1..n PROVE f[i] = ReadEntry(f[i - 1])
  <2> DEFINE before == SubSeq(list, 1, i - 1)
  <2>1. g[i] \in Fields /\ before \in Seq(CommitEntries) /\ f[i - 1] = ReaderAt(items[i] \o g[i], before) /\ f[i] = ReaderAt(g[i], Push(before, list[i]))
    BY <1>10
  <2> HIDE DEF before
  <2>2. items[i] = EntryFields(list[i])
    BY <1>3
  <2>3. ReadEntry(ReaderAt(EntryFields(list[i]) \o g[i], before)) = ReaderAt(g[i], Push(before, list[i]))
    BY <1>1, <1>12, <2>1
  <2> QED BY <2>1, <2>2, <2>3, Zenon
<1>14. f = Body(f)
  <2>1. ASSUME NEW i \in 0..n PROVE f[i] = IF i = 0 THEN Fresh(count) ELSE ReadEntry(f[i - 1])
    <3>1. CASE i = 0
      BY <1>9, <1>10, <3>1
    <3>2. CASE i # 0
      <4>1. i \in 1..n
        BY <1>1, <3>2
      <4> QED BY <1>13, <3>2, <4>1
    <3> QED BY <3>1, <3>2
  <2>2. [i \in 0..n |-> f[i]] = [i \in 0..n |-> IF i = 0 THEN Fresh(count) ELSE ReadEntry(f[i - 1])]
    BY <2>1, Zenon
  <2> QED BY <1>9, <1>11, <2>2, Zenon
<1>15. read = Body(read)
  <2> HIDE DEF Body
  <2> QED BY <1>14
<1> HIDE DEF read
<1>16. read[0] = f[0]
  BY <1>1, <1>9, <1>10, <1>15
<1>17. ASSUME NEW i \in 1..n PROVE read[i] = ReadEntry(read[i - 1])
  <2>1. i \in 0..n /\ i # 0
    BY <1>1
  <2> QED BY <1>9, <1>15, <2>1, Zenon
<1>18. \A i \in 1..n : read[i - 1] = f[i - 1] => read[i] = f[i]
  BY <1>13, <1>17, Zenon
<1>19. read[n] = ReaderAt(u, list)
  <2>1. Alike(n, read, f)
    BY <1>1, <1>16, <1>18, SameIteration
  <2> QED BY <1>1, <1>10, <2>1 DEF Alike
<1>20. ReadEntries(r) = Within(r, read[n], read[n].got)
  BY <1>9, Zenon DEF ReadEntries, ReadList, read, count, Body
<1>21. Within(r, read[n], read[n].got) = ReaderAt(u, Push(got, list))
  BY <1>19, ListWithin
<1> QED BY <1>6, <1>20, <1>21, Zenon DEF items, r

\* A character of a candidate is one field.
LEMMA CandidateParts ==
  ASSUME NEW v \in Nat, NEW u \in Fields
  PROVE  <<<<4, v>>>> \in Fields /\ 4 <= Bytes(<<<<4, v>>>>) /\ <<<<4, v>>>> \o u = Put(Cell(4, v), u)
<1> DEFINE x == Cell(4, v)
<1>1. x \in Field /\ x[1] = 4
  <2>1. v \in Values /\ 4 \in Nat \ {0}
    BY DEF Values
  <2> QED BY <2>1, Cells
<1>2. <<<<4, v>>>> = <<x>>
  BY DEF Cell
<1> HIDE DEF x
<1>3. <<x>> \in Fields /\ <<x>> \o u = Put(x, u) /\ <<x>> \o <<>> = Put(x, <<>>)
  BY <1>1, EmptyFields, OneField
<1>4. <<x>> = Put(x, <<>>)
  BY <1>3, EmptyFields
<1>5. Bytes(Put(x, <<>>)) = 4 + Bytes(<<>>) /\ Bytes(<<>>) \in Nat
  BY <1>1, EmptyFields, PutFields, BytesNat
<1>6. 4 <= Bytes(<<x>>)
  BY <1>4, <1>5
<1> QED BY <1>2, <1>3, <1>6, Zenon DEF x

LEMMA CandidateRead ==
  ASSUME NEW v \in Nat, ValidScalar(v), NEW u \in Fields, NEW got \in Seq(Nat)
  PROVE  ReadScalar(ReaderAt(<<<<4, v>>>> \o u, got)) = ReaderAt(u, Push(got, v))
<1>1. <<<<4, v>>>> \o u = Put(Cell(4, v), u)
  BY CandidateParts
<1>2. ReadScalar(ReaderAt(Put(Cell(4, v), u), got)) = ReaderAt(u, Push(got, v))
  BY ScalarRead
<1> QED BY <1>1, <1>2, Zenon

LEMMA ScalarsRead ==
  ASSUME NEW list \in Seq(Nat), Len(list) <= MaxRepeated, \A i \in DOMAIN list : ValidScalar(list[i]),
         NEW u \in Fields, NEW got
  PROVE  LET items == [i \in DOMAIN list |-> <<<<4, list[i]>>>>]
         IN  /\ ListFields(items) \in Fields /\ 4 <= Bytes(ListFields(items))
             /\ ReadCandidates(ReaderAt(ListFields(items) \o u, got)) = ReaderAt(u, Push(got, list))
<1> DEFINE n == Len(list)
           items == [i \in DOMAIN list |-> <<<<4, list[i]>>>>]
           r == ReaderAt(ListFields(items) \o u, got)
<1>1. n \in Nat /\ DOMAIN list = 1..n /\ \A i \in 1..n : list[i] \in Nat /\ ValidScalar(list[i])
  OBVIOUS
<1> HIDE DEF n
<1>2. ASSUME NEW e \in Nat, ValidScalar(e) PROVE <<<<4, e>>>> \in Fields /\ 4 <= Bytes(<<<<4, e>>>>)
  BY <1>2, CandidateParts, EmptyFields
<1>3. items \in [1..n -> Fields] /\ \A i \in 1..n : items[i] = <<<<4, list[i]>>>> /\ 4 <= Bytes(items[i])
  BY <1>1, <1>2
<1> HIDE DEF items
<1>4. items \in Seq(Fields) /\ Len(items) = n /\ Len(items) = Len(list)
  <2>1. items \in Seq(Fields) /\ Len(items) = n
    BY <1>1, <1>3, FunctionIsSequence
  <2> QED BY <2>1 DEF n
<1>5. \A i \in 1..Len(items) : 4 <= Bytes(items[i])
  BY <1>3, <1>4
<1>6. ListFields(items) \in Fields /\ 4 <= Bytes(ListFields(items))
  BY <1>4, <1>5, ListParts
<1>7. PICK g : g \in FieldsFrom(items, u)
  BY <1>4, SuffixesExist
<1> DEFINE count == ReadCount(r, 4, MaxRepeated)
           Body(h) == [i \in 0..count.got[1] |-> IF i = 0 THEN Fresh(count) ELSE ReadScalar(h[i - 1])]
           read == CHOOSE h : h = Body(h)
           f == Between(list, g)
<1>8. count = ReaderAt(g[0], <<n>>)
  <2>1. Len(items) <= MaxRepeated /\ MaxRepeated \in Nat /\ 4 \in {0, 1, 4}
    BY <1>4 DEF MaxRepeated
  <2> QED BY <1>4, <1>5, <1>7, <2>1, CountOfList
<1> HIDE DEF count
<1>9. count.ok /\ count.got[1] = n /\ Fresh(count) = ReaderAt(g[0], <<>>)
  BY <1>8, FreshReader DEF ReaderAt
<1>10. /\ f[0] = ReaderAt(g[0], <<>>) /\ f[n] = ReaderAt(u, list)
       /\ \A i \in 1..n :
            /\ g[i] \in Fields /\ SubSeq(list, 1, i - 1) \in Seq(Nat)
            /\ f[i - 1] = ReaderAt(items[i] \o g[i], SubSeq(list, 1, i - 1))
            /\ f[i] = ReaderAt(g[i], Push(SubSeq(list, 1, i - 1), list[i]))
  BY <1>4, <1>7, BetweenItems DEF n
<1>11. f = [i \in 0..n |-> f[i]]
  BY DEF Between, n
<1> HIDE DEF f
<1>12. ASSUME NEW e \in Nat, ValidScalar(e), NEW v \in Fields, NEW before \in Seq(Nat)
       PROVE  ReadScalar(ReaderAt(<<<<4, e>>>> \o v, before)) = ReaderAt(v, Push(before, e))
  BY <1>12, CandidateRead
<1>13. ASSUME NEW i \in 1..n PROVE f[i] = ReadScalar(f[i - 1])
  <2> DEFINE before == SubSeq(list, 1, i - 1)
  <2>1. g[i] \in Fields /\ before \in Seq(Nat) /\ f[i - 1] = ReaderAt(items[i] \o g[i], before) /\ f[i] = ReaderAt(g[i], Push(before, list[i]))
    BY <1>10
  <2> HIDE DEF before
  <2>2. items[i] = <<<<4, list[i]>>>>
    BY <1>3
  <2>3. ReadScalar(ReaderAt(<<<<4, list[i]>>>> \o g[i], before)) = ReaderAt(g[i], Push(before, list[i]))
    BY <1>1, <1>12, <2>1
  <2> QED BY <2>1, <2>2, <2>3, Zenon
<1>14. f = Body(f)
  <2>1. ASSUME NEW i \in 0..n PROVE f[i] = IF i = 0 THEN Fresh(count) ELSE ReadScalar(f[i - 1])
    <3>1. CASE i = 0
      BY <1>9, <1>10, <3>1
    <3>2. CASE i # 0
      <4>1. i \in 1..n
        BY <1>1, <3>2
      <4> QED BY <1>13, <3>2, <4>1
    <3> QED BY <3>1, <3>2
  <2>2. [i \in 0..n |-> f[i]] = [i \in 0..n |-> IF i = 0 THEN Fresh(count) ELSE ReadScalar(f[i - 1])]
    BY <2>1, Zenon
  <2> QED BY <1>9, <1>11, <2>2, Zenon
<1>15. read = Body(read)
  <2> HIDE DEF Body
  <2> QED BY <1>14
<1> HIDE DEF read
<1>16. read[0] = f[0]
  BY <1>1, <1>9, <1>10, <1>15
<1>17. ASSUME NEW i \in 1..n PROVE read[i] = ReadScalar(read[i - 1])
  <2>1. i \in 0..n /\ i # 0
    BY <1>1
  <2> QED BY <1>9, <1>15, <2>1, Zenon
<1>18. \A i \in 1..n : read[i - 1] = f[i - 1] => read[i] = f[i]
  BY <1>13, <1>17, Zenon
<1>19. read[n] = ReaderAt(u, list)
  <2>1. Alike(n, read, f)
    BY <1>1, <1>16, <1>18, SameIteration
  <2> QED BY <1>1, <1>10, <2>1 DEF Alike
<1>20. ReadCandidates(r) = Within(r, read[n], read[n].got)
  BY <1>9, Zenon DEF ReadCandidates, ReadList, read, count, Body
<1>21. Within(r, read[n], read[n].got) = ReaderAt(u, Push(got, list))
  BY <1>19, ListWithin
<1> QED BY <1>6, <1>20, <1>21, Zenon DEF items, r

SendableCandidate(e) == Len(e) <= MaxRepeated /\ \A i \in DOMAIN e : ValidScalar(e[i])

LEMMA CandidateListRead ==
  ASSUME NEW e \in Seq(Nat), SendableCandidate(e), NEW u \in Fields, NEW got
  PROVE  /\ CandidateFields(e) \in Fields /\ 4 <= Bytes(CandidateFields(e))
         /\ ReadCandidates(ReaderAt(CandidateFields(e) \o u, got)) = ReaderAt(u, Push(got, e))
<1>1. Len(e) <= MaxRepeated /\ \A i \in DOMAIN e : ValidScalar(e[i])
  BY DEF SendableCandidate
<1> DEFINE s == ListFields([i \in DOMAIN e |-> <<<<4, e[i]>>>>])
<1>2. s \in Fields /\ 4 <= Bytes(s) /\ ReadCandidates(ReaderAt(s \o u, got)) = ReaderAt(u, Push(got, e))
  BY <1>1, ScalarsRead, Zenon
<1>3. s = CandidateFields(e)
  BY DEF CandidateFields
<1> QED BY <1>2, <1>3, Zenon

LEMMA CandidateListsRead ==
  ASSUME NEW list \in Seq(Seq(Nat)), Len(list) <= MaxRepeated, \A i \in DOMAIN list : SendableCandidate(list[i]),
         NEW u \in Fields, NEW got
  PROVE  LET items == [i \in DOMAIN list |-> CandidateFields(list[i])]
         IN  /\ ListFields(items) \in Fields /\ 4 <= Bytes(ListFields(items))
             /\ ReadAllCandidates(ReaderAt(ListFields(items) \o u, got)) = ReaderAt(u, Push(got, list))
<1> DEFINE n == Len(list)
           items == [i \in DOMAIN list |-> CandidateFields(list[i])]
           r == ReaderAt(ListFields(items) \o u, got)
<1>1. n \in Nat /\ DOMAIN list = 1..n /\ \A i \in 1..n : list[i] \in Seq(Nat) /\ SendableCandidate(list[i])
  OBVIOUS
<1> HIDE DEF n
<1>2. ASSUME NEW e \in Seq(Nat), SendableCandidate(e) PROVE CandidateFields(e) \in Fields /\ 4 <= Bytes(CandidateFields(e))
  BY <1>2, CandidateListRead, EmptyFields
<1>3. items \in [1..n -> Fields] /\ \A i \in 1..n : items[i] = CandidateFields(list[i]) /\ 4 <= Bytes(items[i])
  BY <1>1, <1>2
<1> HIDE DEF items
<1>4. items \in Seq(Fields) /\ Len(items) = n /\ Len(items) = Len(list)
  <2>1. items \in Seq(Fields) /\ Len(items) = n
    BY <1>1, <1>3, FunctionIsSequence
  <2> QED BY <2>1 DEF n
<1>5. \A i \in 1..Len(items) : 4 <= Bytes(items[i])
  BY <1>3, <1>4
<1>6. ListFields(items) \in Fields /\ 4 <= Bytes(ListFields(items))
  BY <1>4, <1>5, ListParts
<1>7. PICK g : g \in FieldsFrom(items, u)
  BY <1>4, SuffixesExist
<1> DEFINE count == ReadCount(r, 4, MaxRepeated)
           Body(h) == [i \in 0..count.got[1] |-> IF i = 0 THEN Fresh(count) ELSE ReadCandidates(h[i - 1])]
           read == CHOOSE h : h = Body(h)
           f == Between(list, g)
<1>8. count = ReaderAt(g[0], <<n>>)
  <2>1. Len(items) <= MaxRepeated /\ MaxRepeated \in Nat /\ 4 \in {0, 1, 4}
    BY <1>4 DEF MaxRepeated
  <2> QED BY <1>4, <1>5, <1>7, <2>1, CountOfList
<1> HIDE DEF count
<1>9. count.ok /\ count.got[1] = n /\ Fresh(count) = ReaderAt(g[0], <<>>)
  BY <1>8, FreshReader DEF ReaderAt
<1>10. /\ f[0] = ReaderAt(g[0], <<>>) /\ f[n] = ReaderAt(u, list)
       /\ \A i \in 1..n :
            /\ g[i] \in Fields /\ SubSeq(list, 1, i - 1) \in Seq(Seq(Nat))
            /\ f[i - 1] = ReaderAt(items[i] \o g[i], SubSeq(list, 1, i - 1))
            /\ f[i] = ReaderAt(g[i], Push(SubSeq(list, 1, i - 1), list[i]))
  BY <1>4, <1>7, BetweenItems DEF n
<1>11. f = [i \in 0..n |-> f[i]]
  BY DEF Between, n
<1> HIDE DEF f
<1>12. ASSUME NEW e \in Seq(Nat), SendableCandidate(e), NEW v \in Fields, NEW before \in Seq(Seq(Nat))
       PROVE  ReadCandidates(ReaderAt(CandidateFields(e) \o v, before)) = ReaderAt(v, Push(before, e))
  BY <1>12, CandidateListRead
<1>13. ASSUME NEW i \in 1..n PROVE f[i] = ReadCandidates(f[i - 1])
  <2> DEFINE before == SubSeq(list, 1, i - 1)
  <2>1. g[i] \in Fields /\ before \in Seq(Seq(Nat)) /\ f[i - 1] = ReaderAt(items[i] \o g[i], before) /\ f[i] = ReaderAt(g[i], Push(before, list[i]))
    BY <1>10
  <2> HIDE DEF before
  <2>2. items[i] = CandidateFields(list[i])
    BY <1>3
  <2>3. ReadCandidates(ReaderAt(CandidateFields(list[i]) \o g[i], before)) = ReaderAt(g[i], Push(before, list[i]))
    BY <1>1, <1>12, <2>1
  <2> QED BY <2>1, <2>2, <2>3, Zenon
<1>14. f = Body(f)
  <2>1. ASSUME NEW i \in 0..n PROVE f[i] = IF i = 0 THEN Fresh(count) ELSE ReadCandidates(f[i - 1])
    <3>1. CASE i = 0
      BY <1>9, <1>10, <3>1
    <3>2. CASE i # 0
      <4>1. i \in 1..n
        BY <1>1, <3>2
      <4> QED BY <1>13, <3>2, <4>1
    <3> QED BY <3>1, <3>2
  <2>2. [i \in 0..n |-> f[i]] = [i \in 0..n |-> IF i = 0 THEN Fresh(count) ELSE ReadCandidates(f[i - 1])]
    BY <2>1, Zenon
  <2> QED BY <1>9, <1>11, <2>2, Zenon
<1>15. read = Body(read)
  <2> HIDE DEF Body
  <2> QED BY <1>14
<1> HIDE DEF read
<1>16. read[0] = f[0]
  BY <1>1, <1>9, <1>10, <1>15
<1>17. ASSUME NEW i \in 1..n PROVE read[i] = ReadCandidates(read[i - 1])
  <2>1. i \in 0..n /\ i # 0
    BY <1>1
  <2> QED BY <1>9, <1>15, <2>1, Zenon
<1>18. \A i \in 1..n : read[i - 1] = f[i - 1] => read[i] = f[i]
  BY <1>13, <1>17, Zenon
<1>19. read[n] = ReaderAt(u, list)
  <2>1. Alike(n, read, f)
    BY <1>1, <1>16, <1>18, SameIteration
  <2> QED BY <1>1, <1>10, <2>1 DEF Alike
<1>20. ReadAllCandidates(r) = Within(r, read[n], read[n].got)
  BY <1>9, Zenon DEF ReadAllCandidates, ReadList, read, count, Body
<1>21. Within(r, read[n], read[n].got) = ReaderAt(u, Push(got, list))
  BY <1>19, ListWithin
<1> QED BY <1>6, <1>20, <1>21, Zenon DEF items, r

-----------------------------------------------------------------------------
(* Whole messages *)

LEMMA MessageRead == \A got, m : Message(ReaderAt(<<>>, got), TRUE, m) = m
BY DEF Message, ReaderAt

\* The first field of a message is its type.
LEMMA FirstRead ==
  ASSUME NEW a \in Nat, NEW t \in Fields
  PROVE  LET r == Read(Reader(Put(Cell(1, a), t)), 1)
         IN  r = ReaderAt(t, <<a>>) /\ r.ok /\ r.got[1] = a /\ Fresh(r) = ReaderAt(t, <<>>)
<1> DEFINE r == Read(Reader(Put(Cell(1, a), t)), 1)
<1>1. r = ReaderAt(t, Push(<<>>, a))
  <2>1. 1 \in Nat \ {0} /\ a \in Values
    BY DEF Values
  <2> QED BY <2>1, ReadPut DEF Reader
<1> HIDE DEF r
<1>2. r = ReaderAt(t, <<a>>)
  BY <1>1, Pushed
<1>3. r.ok /\ r.got[1] = a /\ Fresh(r) = ReaderAt(t, <<>>)
  BY <1>2, FreshReader DEF ReaderAt
<1> QED BY <1>2, <1>3 DEF r

\* The second one, of most messages, says whether it is a request or an answer.
LEMMA KindRead ==
  ASSUME NEW a \in Nat, NEW b \in Nat, NEW t \in Fields
  PROVE  LET type == Read(Reader(Put(Cell(1, a), Put(Cell(1, b), t))), 1)
             kind == Read(Fresh(type), 1)
         IN  type.ok /\ type.got[1] = a /\ kind.ok /\ kind.got[1] = b /\ Fresh(kind) = ReaderAt(t, <<>>)
<1> DEFINE s == Put(Cell(1, b), t)
           type == Read(Reader(Put(Cell(1, a), s)), 1)
<1>1. s \in Fields
  <2>1. 1 \in Nat \ {0} /\ b \in Values
    BY DEF Values
  <2> QED BY <2>1, Cells, PutFields
<1>2. Read(Reader(s), 1).ok /\ Read(Reader(s), 1).got[1] = b /\ Fresh(Read(Reader(s), 1)) = ReaderAt(t, <<>>)
  BY FirstRead
<1> HIDE DEF s
<1>3. type.ok /\ type.got[1] = a /\ Fresh(type) = Reader(s)
  BY <1>1, FirstRead DEF Reader
<1> QED BY <1>2, <1>3, Zenon DEF s

\* What the service decodes, by the type of the message.
LEMMA RequestBranches ==
  ASSUME NEW a \in {1, 4, 5, 6, 8, 9}, NEW t \in Fields
  PROVE  LET payload == Put(Cell(1, a), Put(Cell(1, 0), t))
             body == ReaderAt(t, <<>>)
             id == Read(body, 16)
             flag == ReadFlag(body)
             option == ReadOption(body, flag, Read(Fresh(flag), 16))
             commit == ReadEntries(ReadUtf(ReadUtf(Read(id, 16), 2, MaxCommitContext), 2, MaxCommit))
         IN  /\ a = 1 => RequestOf(payload) = Message(body, TRUE, [kind |-> "OpenSession"])
             /\ a = 4 => RequestOf(payload) = Message(id, id.got[1] # Zero, [kind |-> "CloseSession", session |-> id.got[1]])
             /\ a = 5 => RequestOf(payload) = Message(option, TRUE, [kind |-> "Status", about |-> option.got[1]])
             /\ a = 6 => RequestOf(payload) = Message(body, TRUE, [kind |-> "Shutdown"])
             /\ a = 8 => RequestOf(payload) =
                  Message(commit, /\ commit.got[1] # Zero /\ commit.got[2] # Zero
                                  /\ commit.got[5] # <<>> /\ commit.got[4].units # 0,
                          [kind |-> "RecordCommit", event |-> commit.got[1], source |-> commit.got[2],
                           context |-> commit.got[3], answer |-> commit.got[4], entries |-> commit.got[5]])
             /\ a = 9 => RequestOf(payload) = Message(id, id.got[1] # Zero, [kind |-> "DiscardCommit", event |-> id.got[1]])
<1> DEFINE payload == Put(Cell(1, a), Put(Cell(1, 0), t))
           type == Read(Reader(payload), 1)
           kind == Read(Fresh(type), 1)
           body == Fresh(kind)
           id == Read(body, 16)
           flag == ReadFlag(body)
           option == ReadOption(body, flag, Read(Fresh(flag), 16))
           predict == ReadPaddings(ReadUtf(ReadHeader(Fresh(type)), 2, MaxContext))
           commit == ReadEntries(ReadUtf(ReadUtf(Read(id, 16), 2, MaxCommitContext), 2, MaxCommit))
           is(n) == type.ok /\ type.got[1] = n /\ kind.ok /\ kind.got[1] = 0
           first == type.ok /\ type.got[1] = 2
           m1 == Message(body, TRUE, [kind |-> "OpenSession"])
           m2 == Message(predict, predict.got[2] # 0,
                     [kind |-> "Predict", session |-> predict.got[1], request |-> predict.got[2],
                      revision |-> predict.got[3], context |-> predict.got[4], padding |-> predict.got[5]])
           m4 == Message(id, id.got[1] # Zero, [kind |-> "CloseSession", session |-> id.got[1]])
           m5 == Message(option, TRUE, [kind |-> "Status", about |-> option.got[1]])
           m6 == Message(body, TRUE, [kind |-> "Shutdown"])
           m8 == Message(commit, /\ commit.got[1] # Zero /\ commit.got[2] # Zero
                                 /\ commit.got[5] # <<>> /\ commit.got[4].units # 0,
                         [kind |-> "RecordCommit", event |-> commit.got[1], source |-> commit.got[2],
                          context |-> commit.got[3], answer |-> commit.got[4], entries |-> commit.got[5]])
           m9 == Message(id, id.got[1] # Zero, [kind |-> "DiscardCommit", event |-> id.got[1]])
<1>1. type.ok /\ type.got[1] = a /\ kind.ok /\ kind.got[1] = 0 /\ body = ReaderAt(t, <<>>)
  BY KindRead
<1>2. RequestOf(payload) =
        CASE first -> m2 [] is(1) -> m1 [] is(4) -> m4 [] is(5) -> m5 [] is(6) -> m6 [] is(8) -> m8 [] is(9) -> m9
          [] OTHER -> Undecodable
  BY Zenon DEF RequestOf
<1>3. /\ ~first /\ (is(1) <=> a = 1) /\ (is(4) <=> a = 4) /\ (is(5) <=> a = 5)
      /\ (is(6) <=> a = 6) /\ (is(8) <=> a = 8) /\ (is(9) <=> a = 9)
  <2> HIDE DEF type, kind
  <2> QED BY <1>1
<1> HIDE DEF m1, m2, m4, m5, m6, m8, m9, is, first, payload
<1>4. /\ a = 1 => RequestOf(payload) = m1
      /\ a = 4 => RequestOf(payload) = m4
      /\ a = 5 => RequestOf(payload) = m5
      /\ a = 6 => RequestOf(payload) = m6
      /\ a = 8 => RequestOf(payload) = m8
      /\ a = 9 => RequestOf(payload) = m9
  BY <1>2, <1>3
<1>5. body = ReaderAt(t, <<>>)
  BY <1>1
<1> HIDE DEF body
<1> QED BY <1>4, <1>5 DEF m1, m4, m5, m6, m8, m9, payload

LEMMA PredictBranch ==
  ASSUME NEW t \in Fields
  PROVE  LET predict == ReadPaddings(ReadUtf(ReadHeader(ReaderAt(t, <<>>)), 2, MaxContext))
         IN  RequestOf(Put(Cell(1, 2), t)) =
               Message(predict, predict.got[2] # 0,
                       [kind |-> "Predict", session |-> predict.got[1], request |-> predict.got[2],
                        revision |-> predict.got[3], context |-> predict.got[4], padding |-> predict.got[5]])
<1> DEFINE payload == Put(Cell(1, 2), t)
           type == Read(Reader(payload), 1)
<1>1. type.ok /\ type.got[1] = 2 /\ Fresh(type) = ReaderAt(t, <<>>)
  BY FirstRead
<1> DEFINE kind == Read(Fresh(type), 1)
           body == Fresh(kind)
           id == Read(body, 16)
           flag == ReadFlag(body)
           option == ReadOption(body, flag, Read(Fresh(flag), 16))
           predict == ReadPaddings(ReadUtf(ReadHeader(Fresh(type)), 2, MaxContext))
           commit == ReadEntries(ReadUtf(ReadUtf(Read(id, 16), 2, MaxCommitContext), 2, MaxCommit))
           is(n) == type.ok /\ type.got[1] = n /\ kind.ok /\ kind.got[1] = 0
           first == type.ok /\ type.got[1] = 2
           m1 == Message(body, TRUE, [kind |-> "OpenSession"])
           m2 == Message(predict, predict.got[2] # 0,
                     [kind |-> "Predict", session |-> predict.got[1], request |-> predict.got[2],
                      revision |-> predict.got[3], context |-> predict.got[4], padding |-> predict.got[5]])
           m4 == Message(id, id.got[1] # Zero, [kind |-> "CloseSession", session |-> id.got[1]])
           m5 == Message(option, TRUE, [kind |-> "Status", about |-> option.got[1]])
           m6 == Message(body, TRUE, [kind |-> "Shutdown"])
           m8 == Message(commit, /\ commit.got[1] # Zero /\ commit.got[2] # Zero
                                 /\ commit.got[5] # <<>> /\ commit.got[4].units # 0,
                         [kind |-> "RecordCommit", event |-> commit.got[1], source |-> commit.got[2],
                          context |-> commit.got[3], answer |-> commit.got[4], entries |-> commit.got[5]])
           m9 == Message(id, id.got[1] # Zero, [kind |-> "DiscardCommit", event |-> id.got[1]])
<1>2. RequestOf(payload) =
        CASE first -> m2 [] is(1) -> m1 [] is(4) -> m4 [] is(5) -> m5 [] is(6) -> m6 [] is(8) -> m8 [] is(9) -> m9
          [] OTHER -> Undecodable
  BY Zenon DEF RequestOf
<1>3. RequestOf(payload) = m2
  <2>1. first /\ ~is(1) /\ ~is(4) /\ ~is(5) /\ ~is(6) /\ ~is(8) /\ ~is(9)
    <3> HIDE DEF type
    <3> QED BY <1>1
  <2> HIDE DEF m1, m2, m4, m5, m6, m8, m9, is, first, payload
  <2> QED BY <1>2, <2>1
<1> DEFINE after == Fresh(type)
<1>4. after = ReaderAt(t, <<>>)
  BY <1>1
<1> HIDE DEF after, payload
<1> HIDE DEF type
<1> QED BY <1>3, <1>4 DEF m2, predict, payload, after

LEMMA RequestParts ==
  ASSUME NEW m \in AllRequests
  PROVE  /\ m.kind \in {"OpenSession", "Shutdown", "Predict", "CloseSession", "Status", "RecordCommit", "DiscardCommit"}
         /\ m.kind \in {"OpenSession", "Shutdown"} => m = [kind |-> m.kind]
         /\ m.kind = "Predict" =>
              /\ m.session \in Ids /\ m.request \in Nat /\ m.revision \in Nat /\ m.context \in Texts /\ m.padding \in Seq(Paddings)
              /\ m = [kind |-> "Predict", session |-> m.session, request |-> m.request, revision |-> m.revision,
                      context |-> m.context, padding |-> m.padding]
         /\ m.kind = "CloseSession" => m.session \in Ids /\ m = [kind |-> "CloseSession", session |-> m.session]
         /\ m.kind = "Status" => /\ m.about = {} \/ \E s \in Ids : m.about = {s}
                                 /\ m = [kind |-> "Status", about |-> m.about]
         /\ m.kind = "RecordCommit" =>
              /\ m.event \in Ids /\ m.source \in Ids /\ m.context \in Texts /\ m.answer \in Texts /\ m.entries \in Seq(CommitEntries)
              /\ m = [kind |-> "RecordCommit", event |-> m.event, source |-> m.source, context |-> m.context,
                      answer |-> m.answer, entries |-> m.entries]
         /\ m.kind = "DiscardCommit" => m.event \in Ids /\ m = [kind |-> "DiscardCommit", event |-> m.event]
<1>1. CASE m \in [kind : {"OpenSession", "Shutdown"}]
  BY <1>1
<1>2. CASE m \in [kind : {"Predict"}, session : Ids, request : Nat, revision : Nat, context : Texts, padding : Seq(Paddings)]
  BY <1>2
<1>3. CASE m \in [kind : {"CloseSession"}, session : Ids]
  BY <1>3
<1>4. CASE m \in [kind : {"Status"}, about : {{}} \cup {{s} : s \in Ids}]
  BY <1>4
<1>5. CASE m \in [kind : {"RecordCommit"}, event : Ids, source : Ids, context : Texts, answer : Texts, entries : Seq(CommitEntries)]
  BY <1>5
<1>6. CASE m \in [kind : {"DiscardCommit"}, event : Ids]
  BY <1>6
<1> QED BY <1>1, <1>2, <1>3, <1>4, <1>5, <1>6 DEF AllRequests

LEMMA IdRead ==
  ASSUME NEW v \in Ids, NEW t \in Fields, NEW got
  PROVE  /\ Read(ReaderAt(Put(Cell(16, v), t), got), 16) = ReaderAt(t, Push(got, v))
         /\ Cell(16, v) \in Field /\ Put(Cell(16, v), t) \in Fields
<1>1. 16 \in Nat \ {0} /\ v \in Values
  BY DEF Values
<1> QED BY <1>1, ReadPut, Cells, PutFields

LEMMA NumberRead ==
  ASSUME NEW w \in {1, 4, 8}, NEW v \in Nat, NEW t \in Fields, NEW got
  PROVE  /\ Read(ReaderAt(Put(Cell(w, v), t), got), w) = ReaderAt(t, Push(got, v))
         /\ Cell(w, v) \in Field /\ Put(Cell(w, v), t) \in Fields
<1>1. w \in Nat \ {0} /\ v \in Values
  BY DEF Values
<1> QED BY <1>1, ReadPut, Cells, PutFields

\* Two fields that say what a message is.
LEMMA RequestOfId ==
  ASSUME NEW a \in {4, 9}, NEW v \in Ids, v # Zero
  PROVE  LET s == <<<<1, a>>, <<1, 0>>, <<16, v>>>>
         IN  /\ s \in Fields
             /\ RequestOf(s) = IF a = 4 THEN [kind |-> "CloseSession", session |-> v] ELSE [kind |-> "DiscardCommit", event |-> v]
<1> DEFINE s == <<<<1, a>>, <<1, 0>>, <<16, v>>>>
           x == Cell(1, a)
           y == Cell(1, 0)
           z == Cell(16, v)
           t == Put(z, <<>>)
           id == Read(ReaderAt(t, <<>>), 16)
<1>1. x \in Field /\ y \in Field
  <2>1. a \in Nat /\ 0 \in Nat /\ 1 \in {1, 4, 8}
    OBVIOUS
  <2> QED BY <2>1, NumberRead, EmptyFields
<1>2. z \in Field /\ t \in Fields /\ id = ReaderAt(<<>>, <<v>>)
  <2>1. z \in Field /\ t \in Fields /\ id = ReaderAt(<<>>, Push(<<>>, v))
    BY IdRead, EmptyFields
  <2> QED BY <2>1, Pushed
<1>3. s = <<x, y, z>>
  BY DEF Cell
<1> HIDE DEF z
<1>4. <<x, y, z>> \in Fields /\ <<x, y, z>> = Put(x, Put(y, t))
  <2> HIDE DEF x, y
  <2> QED BY <1>1, <1>2, PutThree
<1>5. id.got[1] = v
  BY <1>2 DEF ReaderAt
<1> HIDE DEF id, t
<1>6. /\ a = 4 => RequestOf(Put(x, Put(y, t))) = Message(id, id.got[1] # Zero, [kind |-> "CloseSession", session |-> id.got[1]])
      /\ a = 9 => RequestOf(Put(x, Put(y, t))) = Message(id, id.got[1] # Zero, [kind |-> "DiscardCommit", event |-> id.got[1]])
  BY <1>2, RequestBranches DEF id
<1>7. \A m : Message(id, id.got[1] # Zero, m) = m
  BY <1>2, <1>5, MessageRead
<1>8. /\ a = 4 => RequestOf(Put(x, Put(y, t))) = [kind |-> "CloseSession", session |-> v]
      /\ a = 9 => RequestOf(Put(x, Put(y, t))) = [kind |-> "DiscardCommit", event |-> v]
  BY <1>5, <1>6, <1>7
<1> HIDE DEF x, y, s
<1>9. s \in Fields /\ RequestOf(s) = IF a = 4 THEN [kind |-> "CloseSession", session |-> v] ELSE [kind |-> "DiscardCommit", event |-> v]
  BY <1>3, <1>4, <1>8
<1> QED BY <1>9 DEF s

LEMMA RequestOfNothing ==
  ASSUME NEW a \in {1, 6}
  PROVE  LET s == <<<<1, a>>, <<1, 0>>>>
         IN  /\ s \in Fields
             /\ RequestOf(s) = IF a = 1 THEN [kind |-> "OpenSession"] ELSE [kind |-> "Shutdown"]
<1> DEFINE s == <<<<1, a>>, <<1, 0>>>>
           x == Cell(1, a)
           y == Cell(1, 0)
           t == <<>>
<1>1. x \in Field /\ y \in Field
  <2>1. a \in Nat /\ 0 \in Nat /\ 1 \in {1, 4, 8}
    OBVIOUS
  <2> QED BY <2>1, NumberRead, EmptyFields
<1>2. s = <<x, y>>
  BY DEF Cell
<1>3. <<x, y>> \in Fields /\ <<x, y>> = Put(x, Put(y, t)) /\ t \in Fields
  <2> HIDE DEF x, y
  <2> QED BY <1>1, PutTwo, EmptyFields
<1> DEFINE body == ReaderAt(t, <<>>)
<1>4. \A m : Message(body, TRUE, m) = m
  BY MessageRead
<1> HIDE DEF t
<1>5. /\ a = 1 => RequestOf(Put(x, Put(y, t))) = Message(body, TRUE, [kind |-> "OpenSession"])
      /\ a = 6 => RequestOf(Put(x, Put(y, t))) = Message(body, TRUE, [kind |-> "Shutdown"])
  <2>1. t \in Fields /\ a \in {1, 4, 5, 6, 8, 9}
    BY <1>3
  <2> HIDE DEF s, x, y
  <2>2. a = 1 => RequestOf(Put(Cell(1, a), Put(Cell(1, 0), t))) = Message(ReaderAt(t, <<>>), TRUE, [kind |-> "OpenSession"])
    BY <2>1, RequestBranches
  <2>3. a = 6 => RequestOf(Put(Cell(1, a), Put(Cell(1, 0), t))) = Message(ReaderAt(t, <<>>), TRUE, [kind |-> "Shutdown"])
    BY <2>1, RequestBranches
  <2> QED BY <2>2, <2>3 DEF x, y
<1> HIDE DEF x, y, s, body
<1>6. s \in Fields /\ RequestOf(s) = IF a = 1 THEN [kind |-> "OpenSession"] ELSE [kind |-> "Shutdown"]
  <2>1. s \in Fields /\ s = Put(x, Put(y, t))
    BY <1>2, <1>3
  <2>2. a = 1 \/ (a = 6 /\ a # 1)
    OBVIOUS
  <2> QED BY <1>4, <1>5, <2>1, <2>2, Zenon
<1> QED BY <1>6 DEF s

\* The sequence of no element, and of one.
LEMMA SmallSetToSeq == SetToSeq({}) = <<>> /\ \A x : SetToSeq({x}) = <<x>>
<1>1. SetToSeq({}) = <<>>
  BY FS_EmptySet DEF SetToSeq, IsInjective
<1>2. ASSUME NEW x PROVE SetToSeq({x}) = <<x>>
  <2>1. Cardinality({x}) = 1
    BY FS_Singleton
  <2>2. <<x>> \in [1..1 -> {x}] /\ IsInjective(<<x>>)
    BY DEF IsInjective
  <2>3. \A f \in [1..1 -> {x}] : f = <<x>>
    OBVIOUS
  <2> QED BY <2>1, <2>2, <2>3 DEF SetToSeq
<1> QED BY <1>1, <1>2

LEMMA OptionRead ==
  ASSUME NEW rest, NEW got, NEW flag, NEW item, NEW b, NEW i, NEW v, NEW t,
         flag = ReaderAt(t, <<b>>), item = ReaderAt(i, <<v>>), b \in BOOLEAN
  PROVE  ReadOption(ReaderAt(rest, got), flag, item) =
           IF b THEN ReaderAt(i, Push(got, {v})) ELSE ReaderAt(t, Push(got, {}))
BY DEF ReadOption, Within, ReaderAt, Push

LEMMA StatusRequest ==
  ASSUME NEW about, about = {} \/ \E v \in Ids : about = {v}
  PROVE  LET s == <<<<1, 5>>, <<1, 0>>, Flag(about # {})>> \o SetToSeq({<<16, v>> : v \in about})
         IN  s \in Fields /\ RequestOf(s) = [kind |-> "Status", about |-> about]
<1> DEFINE s == <<<<1, 5>>, <<1, 0>>, Flag(about # {})>> \o SetToSeq({<<16, v>> : v \in about})
           x == Cell(1, 5)
           y == Cell(1, 0)
           z == Flag(about # {})
<1>1. x \in Field /\ y \in Field
  <2>1. 5 \in Nat /\ 0 \in Nat /\ 1 \in {1, 4, 8}
    OBVIOUS
  <2> QED BY <2>1, NumberRead, EmptyFields
<1>2. z \in Field
  BY FlagCell DEF Flag
<1> DEFINE rest == SetToSeq({<<16, v>> : v \in about})
           body == ReaderAt(Put(z, rest), <<>>)
           flag == ReadFlag(body)
           option == ReadOption(body, flag, Read(Fresh(flag), 16))
<1>3. s = <<x, y, z>> \o rest
  BY DEF Cell
<1>4. rest \in Fields /\ (about # {} => \E v \in Ids : about = {v} /\ rest = Put(Cell(16, v), <<>>))
  <2>1. CASE about = {}
    <3>1. {<<16, v>> : v \in about} = {}
      BY <2>1
    <3> QED BY <2>1, <3>1, SmallSetToSeq, EmptyFields
  <2>2. ASSUME NEW v \in Ids, about = {v} PROVE rest \in Fields /\ rest = Put(Cell(16, v), <<>>)
    <3>1. {<<16, w>> : w \in about} = {Cell(16, v)}
      BY <2>2 DEF Cell
    <3>2. rest = <<Cell(16, v)>>
      BY <3>1, SmallSetToSeq
    <3>3. Cell(16, v) \in Field
      BY IdRead, EmptyFields
    <3> QED BY <3>2, <3>3, PutOne
  <2> QED BY <2>1, <2>2
<1> HIDE DEF x, y, z, rest
<1>5. s \in Fields /\ s = Put(x, Put(y, Put(z, rest)))
  <2>1. <<x, y, z>> \in Fields /\ <<x, y, z>> \o rest = Put(x, Put(y, Put(z, rest)))
    <3>1. <<x, y, z>> \in Fields /\ \A u \in Fields : <<x, y, z>> \o u = Put(x, Put(y, Put(z, u)))
      BY <1>1, <1>2, PutThree
    <3> QED BY <1>4, <3>1
  <2>2. Put(x, Put(y, Put(z, rest))) \in Fields
    BY <1>1, <1>2, <1>4, PutFields
  <2> QED BY <1>3, <2>1, <2>2, Zenon
<1>6. flag = ReaderAt(rest, <<about # {}>>)
  <2>1. ReadFlag(ReaderAt(Put(z, rest), <<>>)) = ReaderAt(rest, Push(<<>>, about # {}))
    BY <1>4, FlagFields DEF z
  <2> QED BY <2>1, Pushed
<1>7. Fresh(flag) = ReaderAt(rest, <<>>)
  BY <1>6, FreshReader
<1> DEFINE item == Read(Fresh(flag), 16)
<1>8. option = ReaderAt(<<>>, <<about>>)
  <2>1. CASE about = {}
    <3>1. rest = <<>>
      <4>1. {<<16, v>> : v \in about} = {}
        BY <2>1
      <4> QED BY <4>1, SmallSetToSeq DEF rest
    <3>2. ReadOption(ReaderAt(Put(z, rest), <<>>), ReaderAt(rest, <<FALSE>>), item) = ReaderAt(rest, Push(<<>>, {}))
      BY DEF ReadOption, Within, ReaderAt, Push
    <3> QED BY <1>6, <2>1, <3>1, <3>2, Pushed
  <2>2. CASE about # {}
    <3>1. PICK v \in Ids : about = {v} /\ rest = Put(Cell(16, v), <<>>)
      BY <1>4, <2>2
    <3>2. item = ReaderAt(<<>>, <<v>>)
      BY <1>7, <3>1, IdRead, EmptyFields, Pushed
    <3> HIDE DEF item
    <3>3. ReadOption(ReaderAt(Put(z, rest), <<>>), ReaderAt(rest, <<TRUE>>), item) = ReaderAt(<<>>, Push(<<>>, {v}))
      BY <3>2 DEF ReadOption, Within, ReaderAt, Push
    <3>4. flag = ReaderAt(rest, <<TRUE>>)
      BY <1>6, <2>2
    <3>5. option = ReadOption(ReaderAt(Put(z, rest), <<>>), ReaderAt(rest, <<TRUE>>), item)
      BY <3>4, Zenon DEF item
    <3>6. Push(<<>>, {v}) = <<about>>
      BY <3>1, Pushed
    <3> QED BY <3>3, <3>5, <3>6, Zenon
  <2> QED BY <2>1, <2>2
<1>9. Put(z, rest) \in Fields /\ option.got[1] = about
  BY <1>2, <1>4, <1>8, PutFields DEF ReaderAt
<1>10. RequestOf(Put(x, Put(y, Put(z, rest)))) = Message(option, TRUE, [kind |-> "Status", about |-> option.got[1]])
  BY <1>9, RequestBranches DEF x, y
<1> HIDE DEF option
<1>11. RequestOf(Put(x, Put(y, Put(z, rest)))) = [kind |-> "Status", about |-> about]
  BY <1>8, <1>9, <1>10, MessageRead
<1> QED BY <1>5, <1>11, Zenon DEF s, x, y, z

LEMMA HeaderRead ==
  ASSUME NEW v \in Ids, NEW n \in Nat, NEW w \in Nat, NEW t \in Fields, NEW got
  PROVE  /\ ReadHeader(ReaderAt(Put(Cell(16, v), Put(Cell(8, n), Put(Cell(8, w), t))), got)) =
              ReaderAt(t, Push(Push(Push(got, v), n), w))
         /\ Cell(16, v) \in Field /\ Cell(8, n) \in Field /\ Cell(8, w) \in Field
         /\ Put(Cell(16, v), Put(Cell(8, n), Put(Cell(8, w), t))) \in Fields
<1> DEFINE t1 == Put(Cell(8, w), t)
           t2 == Put(Cell(8, n), t1)
<1>1. \A g : Read(ReaderAt(t1, g), 8) = ReaderAt(t, Push(g, w))
  BY NumberRead
<1>2. t1 \in Fields /\ Cell(8, w) \in Field
  BY NumberRead
<1> HIDE DEF t1
<1>3. \A g : Read(ReaderAt(t2, g), 8) = ReaderAt(t1, Push(g, n))
  BY <1>2, NumberRead
<1>4. t2 \in Fields /\ Cell(8, n) \in Field
  BY <1>2, NumberRead
<1> HIDE DEF t2
<1>5. Read(ReaderAt(Put(Cell(16, v), t2), got), 16) = ReaderAt(t2, Push(got, v)) /\ Cell(16, v) \in Field /\ Put(Cell(16, v), t2) \in Fields
  BY <1>4, IdRead
<1>6. ReadHeader(ReaderAt(Put(Cell(16, v), t2), got)) = ReaderAt(t, Push(Push(Push(got, v), n), w))
  BY <1>1, <1>3, <1>5 DEF ReadHeader
<1> QED BY <1>2, <1>4, <1>5, <1>6 DEF t1, t2

LEMMA PredictRequest ==
  ASSUME NEW v \in Ids, NEW n \in Nat, n # 0, NEW w \in Nat,
         NEW context \in Texts, Sendable(context, MaxContext),
         NEW padding \in Seq(Paddings), Len(padding) <= MaxRepeated, \A i \in DOMAIN padding : SendablePadding(padding[i])
  PROVE  LET s == <<<<1, 2>>, <<16, v>>, <<8, n>>, <<8, w>>>>
                    \o TextFields(context, 2) \o ListFields([i \in DOMAIN padding |-> PaddingFields(padding[i])])
         IN  /\ s \in Fields
             /\ RequestOf(s) = [kind |-> "Predict", session |-> v, request |-> n, revision |-> w,
                                context |-> context, padding |-> padding]
<1> DEFINE head == <<<<1, 2>>, <<16, v>>, <<8, n>>, <<8, w>>>>
           text == TextFields(context, 2)
           list == ListFields([i \in DOMAIN padding |-> PaddingFields(padding[i])])
           a == Cell(1, 2)
           b == Cell(16, v)
           c == Cell(8, n)
           d == Cell(8, w)
<1>1. /\ list \in Fields
      /\ \A got : ReadPaddings(ReaderAt(list \o <<>>, got)) = ReaderAt(<<>>, Push(got, padding))
  BY EmptyFields, PaddingsRead
<1>2. text \in Fields
  BY EmptyFields, TextIsFields
<1> HIDE DEF list
<1>3. \A got : ReadUtf(ReaderAt(text \o list, got), 2, MaxContext) = ReaderAt(list, Push(got, context))
  <2>1. MaxContext \in Nat /\ 2 \in {1, 2}
    BY DEF MaxContext
  <2> QED BY <1>1, <2>1, TextRead
<1> HIDE DEF text
<1>4. text \o list \in Fields
  BY <1>1, <1>2, ConcatFields
<1> DEFINE q == text \o list
           t == Put(b, Put(c, Put(d, q)))
<1>5. a \in Field /\ b \in Field /\ c \in Field /\ d \in Field /\ t \in Fields
  <2>1. a \in Field
    <3>1. 2 \in Nat /\ 1 \in {1, 4, 8}
      OBVIOUS
    <3> QED BY <3>1, NumberRead, EmptyFields
  <2> HIDE DEF q, a
  <2> QED BY <1>4, <2>1, HeaderRead DEF q
<1>6. head = <<a, b, c, d>>
  BY DEF Cell
<1>7. (head \o text) \o list \in Fields /\ (head \o text) \o list = Put(a, t)
  <2> HIDE DEF a, b, c, d, head
  <2>1. head \in Fields /\ \A u \in Fields : head \o u = Put(a, Put(b, Put(c, Put(d, u))))
    BY <1>5, <1>6, PutFour
  <2>2. (head \o text) \o list = head \o q /\ head \o q \in Fields
    <3>1. (head \o text) \o list = head \o (text \o list)
      BY <1>1, <1>2, <2>1, ConcatFields
    <3>2. q \in Fields
      BY <1>4
    <3> HIDE DEF q
    <3>3. head \o q \in Fields
      BY <2>1, <3>2, ConcatFields
    <3> QED BY <3>1, <3>3, Zenon DEF q
  <2>3. head \o q = Put(a, t)
    BY <1>4, <2>1
  <2> HIDE DEF q, t
  <2> QED BY <2>2, <2>3
<1> DEFINE h == ReadHeader(ReaderAt(t, <<>>))
           r == ReadUtf(h, 2, MaxContext)
           predict == ReadPaddings(r)
<1>8. h = ReaderAt(q, <<v, n, w>>)
  <2> HIDE DEF q
  <2>1. h = ReaderAt(q, Push(Push(Push(<<>>, v), n), w))
    BY <1>4, HeaderRead DEF q
  <2> HIDE DEF h
  <2> QED BY <2>1, Pushed
<1> HIDE DEF h
<1>9. r = ReaderAt(list, <<v, n, w, context>>)
  <2>1. r = ReaderAt(list, Push(<<v, n, w>>, context))
    BY <1>3, <1>8
  <2> QED BY <2>1, Pushed
<1> HIDE DEF r
<1>10. predict = ReaderAt(<<>>, <<v, n, w, context, padding>>)
  <2>1. list \o <<>> = list
    BY <1>1, EmptyFields
  <2>2. ReadPaddings(ReaderAt(list, <<v, n, w, context>>)) = ReaderAt(<<>>, Push(<<v, n, w, context>>, padding))
    BY <1>1, <2>1, Zenon
  <2>3. predict = ReaderAt(<<>>, Push(<<v, n, w, context>>, padding))
    BY <1>9, <2>2, Zenon
  <2> QED BY <2>3, Pushed
<1> HIDE DEF predict, t
<1>11. predict.got[1] = v /\ predict.got[2] = n /\ predict.got[3] = w /\ predict.got[4] = context /\ predict.got[5] = padding
  BY <1>10 DEF ReaderAt
<1>12. RequestOf(Put(a, t)) =
         Message(predict, predict.got[2] # 0,
                 [kind |-> "Predict", session |-> predict.got[1], request |-> predict.got[2],
                  revision |-> predict.got[3], context |-> predict.got[4], padding |-> predict.got[5]])
  BY <1>5, PredictBranch DEF predict, r, h
<1>13. \A m : Message(predict, predict.got[2] # 0, m) = m
  BY <1>10, <1>11, MessageRead
<1>14. RequestOf(Put(a, t)) = [kind |-> "Predict", session |-> v, request |-> n, revision |-> w, context |-> context, padding |-> padding]
  BY <1>11, <1>12, <1>13
<1> QED BY <1>7, <1>14, Zenon DEF head, text, list

LEMMA CommitLimits == MaxCommit \in Nat /\ MaxCommitContext \in Nat
BY DEF MaxCommit, MaxCommitContext

LEMMA CommitRequest ==
  ASSUME NEW v \in Ids, v # Zero, NEW o \in Ids, o # Zero,
         NEW context \in Texts, Sendable(context, MaxCommitContext),
         NEW answered \in Texts, Sendable(answered, MaxCommit), answered.units # 0,
         NEW entries \in Seq(CommitEntries), Len(entries) \in 1..MaxCommit,
         \A i \in DOMAIN entries : SendableEntry(entries[i])
  PROVE  LET s == <<<<1, 8>>, <<1, 0>>, <<16, v>>, <<16, o>>>>
                    \o TextFields(context, 2) \o TextFields(answered, 2)
                    \o ListFields([i \in DOMAIN entries |-> EntryFields(entries[i])])
         IN  /\ s \in Fields
             /\ RequestOf(s) = [kind |-> "RecordCommit", event |-> v, source |-> o, context |-> context,
                                answer |-> answered, entries |-> entries]
<1> DEFINE head == <<<<1, 8>>, <<1, 0>>, <<16, v>>, <<16, o>>>>
           text == TextFields(context, 2)
           typed == TextFields(answered, 2)
           list == ListFields([i \in DOMAIN entries |-> EntryFields(entries[i])])
           a == Cell(1, 8)
           b == Cell(1, 0)
           c == Cell(16, v)
           d == Cell(16, o)
<1>1. /\ list \in Fields
      /\ \A got : ReadEntries(ReaderAt(list \o <<>>, got)) = ReaderAt(<<>>, Push(got, entries))
  <2>1. Len(entries) <= MaxCommit
    OBVIOUS
  <2> QED BY <2>1, EmptyFields, EntriesRead
<1>2. text \in Fields /\ typed \in Fields
  BY EmptyFields, TextIsFields
<1>3. entries # <<>>
  OBVIOUS
<1> HIDE DEF list
<1>4. MaxCommit \in Nat /\ MaxCommitContext \in Nat /\ 2 \in {1, 2}
  BY CommitLimits
<1>5. \A got : ReadUtf(ReaderAt(typed \o list, got), 2, MaxCommit) = ReaderAt(list, Push(got, answered))
  BY <1>1, <1>4, TextRead
<1> HIDE DEF typed
<1> DEFINE p == typed \o list
<1>6. p \in Fields
  BY <1>1, <1>2, ConcatFields
<1>7. \A got : ReadUtf(ReaderAt(text \o p, got), 2, MaxCommitContext) = ReaderAt(p, Push(got, context))
  <2> HIDE DEF p
  <2> QED BY <1>4, <1>6, TextRead
<1> HIDE DEF text
<1> DEFINE q == text \o p
<1>8. q \in Fields
  <2> HIDE DEF p
  <2> QED BY <1>2, <1>6, ConcatFields
<1> DEFINE t == Put(c, Put(d, q))
<1>9. a \in Field /\ b \in Field /\ c \in Field /\ d \in Field /\ t \in Fields
  <2>1. a \in Field /\ b \in Field
    <3>1. 8 \in Nat /\ 0 \in Nat /\ 1 \in {1, 4, 8}
      OBVIOUS
    <3> QED BY <3>1, NumberRead, EmptyFields
  <2> HIDE DEF q, a, b
  <2>2. d \in Field /\ Put(d, q) \in Fields
    BY <1>8, IdRead
  <2>3. c \in Field /\ t \in Fields
    BY <2>2, IdRead
  <2> QED BY <2>1, <2>2, <2>3
<1>10. head = <<a, b, c, d>>
  BY DEF Cell
<1>11. ((head \o text) \o typed) \o list \in Fields /\ ((head \o text) \o typed) \o list = Put(a, Put(b, t))
  <2> HIDE DEF a, b, c, d, head
  <2>1. head \in Fields /\ \A u \in Fields : head \o u = Put(a, Put(b, Put(c, Put(d, u))))
    BY <1>9, <1>10, PutFour
  <2> DEFINE f == head \o text
  <2>2. f \in Fields
    BY <1>2, <2>1, ConcatFields
  <2>3. f \o p = head \o (text \o p)
    <3>1. head \in Fields /\ text \in Fields /\ p \in Fields
      BY <1>2, <1>6, <2>1
    <3> HIDE DEF p
    <3> QED BY <3>1, ConcatFields
  <2> HIDE DEF f
  <2>4. (f \o typed) \o list = f \o (typed \o list)
    BY <1>1, <1>2, <2>2, ConcatFields
  <2>5. head \o q \in Fields /\ head \o q = Put(a, Put(b, t))
    <3> HIDE DEF q
    <3> QED BY <1>8, <2>1, ConcatFields
  <2> QED BY <2>3, <2>4, <2>5, Zenon DEF f, p, q
<1> DEFINE body == ReaderAt(t, <<>>)
           id == Read(body, 16)
           origin == Read(id, 16)
           r == ReadUtf(origin, 2, MaxCommitContext)
           r2 == ReadUtf(r, 2, MaxCommit)
           commit == ReadEntries(r2)
<1>12. origin = ReaderAt(q, <<v, o>>)
  <2> HIDE DEF q
  <2>1. Put(d, q) \in Fields /\ \A got : Read(ReaderAt(Put(d, q), got), 16) = ReaderAt(q, Push(got, o))
    BY <1>8, IdRead
  <2>2. id = ReaderAt(Put(d, q), Push(<<>>, v))
    BY <2>1, IdRead
  <2> HIDE DEF id
  <2>3. origin = ReaderAt(q, Push(Push(<<>>, v), o))
    BY <2>1, <2>2
  <2> HIDE DEF origin
  <2> QED BY <2>3, Pushed
<1> HIDE DEF origin
<1>13. r = ReaderAt(p, <<v, o, context>>)
  <2> HIDE DEF p
  <2>1. r = ReaderAt(p, Push(<<v, o>>, context))
    BY <1>7, <1>12
  <2> QED BY <2>1, Pushed
<1> HIDE DEF r
<1>14. r2 = ReaderAt(list, <<v, o, context, answered>>)
  <2>1. r2 = ReaderAt(list, Push(<<v, o, context>>, answered))
    BY <1>5, <1>13
  <2> QED BY <2>1, Pushed
<1> HIDE DEF r2
<1>15. commit = ReaderAt(<<>>, <<v, o, context, answered, entries>>)
  <2>1. list \o <<>> = list
    BY <1>1, EmptyFields
  <2>2. ReadEntries(ReaderAt(list, <<v, o, context, answered>>)) = ReaderAt(<<>>, Push(<<v, o, context, answered>>, entries))
    BY <1>1, <2>1, Zenon
  <2>3. commit = ReaderAt(<<>>, Push(<<v, o, context, answered>>, entries))
    BY <1>14, <2>2, Zenon
  <2> QED BY <2>3, Pushed
<1> HIDE DEF commit, t
<1>16. commit.got[1] = v /\ commit.got[2] = o /\ commit.got[3] = context /\ commit.got[4] = answered /\ commit.got[5] = entries
  BY <1>15 DEF ReaderAt
<1> DEFINE fine == /\ commit.got[1] # Zero /\ commit.got[2] # Zero
                   /\ commit.got[5] # <<>> /\ commit.got[4].units # 0
           m == [kind |-> "RecordCommit", event |-> commit.got[1], source |-> commit.got[2],
                 context |-> commit.got[3], answer |-> commit.got[4], entries |-> commit.got[5]]
<1>17. RequestOf(Put(a, Put(b, t))) = Message(commit, fine, m)
  BY <1>9, RequestBranches DEF commit, r2, r, origin
<1>18. fine = TRUE /\ m = [kind |-> "RecordCommit", event |-> v, source |-> o, context |-> context, answer |-> answered, entries |-> entries]
  BY <1>3, <1>16
<1> HIDE DEF fine, m
<1>19. Message(commit, fine, m) = m
  BY <1>15, <1>18, MessageRead
<1>20. RequestOf(Put(a, Put(b, t))) = [kind |-> "RecordCommit", event |-> v, source |-> o, context |-> context, answer |-> answered, entries |-> entries]
  BY <1>17, <1>18, <1>19, Zenon
<1> QED BY <1>11, <1>20, Zenon DEF head, text, typed, list

\* Whatever request encode() of the engine does not refuse, decode() of the service reads
\* as that request: every kind, list, optional part and length.
THEOREM RequestUnderstood ==
  ASSUME NEW m \in AllRequests, SendableRequest(m)
  PROVE  RequestFields(m) \in Fields /\ RequestOf(RequestFields(m)) = m
<1>1. CASE m.kind \in {"OpenSession", "Shutdown"}
  <2> DEFINE n == IF m.kind = "OpenSession" THEN 1 ELSE 6
             s == <<<<1, n>>, <<1, 0>>>>
  <2>1. RequestFields(m) = s
    BY <1>1 DEF RequestFields
  <2>2. n \in {1, 6} /\ (n = 1 <=> m.kind = "OpenSession")
    OBVIOUS
  <2>3. m = IF n = 1 THEN [kind |-> "OpenSession"] ELSE [kind |-> "Shutdown"]
    BY <1>1, <2>2, RequestParts
  <2> HIDE DEF n
  <2>4. s \in Fields /\ RequestOf(s) = IF n = 1 THEN [kind |-> "OpenSession"] ELSE [kind |-> "Shutdown"]
    BY <2>2, RequestOfNothing
  <2> QED BY <2>1, <2>3, <2>4, Zenon
<1>2. CASE m.kind = "CloseSession"
  <2>1. RequestFields(m) = <<<<1, 4>>, <<1, 0>>, <<16, m.session>>>>
    BY <1>2 DEF RequestFields
  <2>2. m.session \in Ids /\ m = [kind |-> "CloseSession", session |-> m.session]
    BY <1>2, RequestParts
  <2>3. m.session # Zero
    BY <1>2 DEF SendableRequest
  <2> DEFINE v == m.session
             s == <<<<1, 4>>, <<1, 0>>, <<16, v>>>>
  <2> HIDE DEF v
  <2>4. s \in Fields /\ RequestOf(s) = [kind |-> "CloseSession", session |-> v]
    <3>1. v \in Ids /\ v # Zero
      BY <2>2, <2>3 DEF v
    <3> QED BY <3>1, RequestOfId
  <2> QED BY <2>1, <2>2, <2>4, Zenon DEF v
<1>3. CASE m.kind = "DiscardCommit"
  <2>1. RequestFields(m) = <<<<1, 9>>, <<1, 0>>, <<16, m.event>>>>
    BY <1>3 DEF RequestFields
  <2>2. m.event \in Ids /\ m = [kind |-> "DiscardCommit", event |-> m.event]
    BY <1>3, RequestParts
  <2>3. m.event # Zero
    BY <1>3 DEF SendableRequest
  <2> DEFINE v == m.event
             s == <<<<1, 9>>, <<1, 0>>, <<16, v>>>>
  <2> HIDE DEF v
  <2>4. s \in Fields /\ RequestOf(s) = [kind |-> "DiscardCommit", event |-> v]
    <3>1. v \in Ids /\ v # Zero
      BY <2>2, <2>3 DEF v
    <3> QED BY <3>1, RequestOfId
  <2> QED BY <2>1, <2>2, <2>4, Zenon DEF v
<1>4. CASE m.kind = "Status"
  <2>1. RequestFields(m) = <<<<1, 5>>, <<1, 0>>, Flag(m.about # {})>> \o SetToSeq({<<16, v>> : v \in m.about})
    BY <1>4 DEF RequestFields
  <2>2. (m.about = {} \/ \E v \in Ids : m.about = {v}) /\ m = [kind |-> "Status", about |-> m.about]
    BY <1>4, RequestParts
  <2> DEFINE about == m.about
             s == <<<<1, 5>>, <<1, 0>>, Flag(about # {})>> \o SetToSeq({<<16, v>> : v \in about})
  <2> HIDE DEF about
  <2>3. s \in Fields /\ RequestOf(s) = [kind |-> "Status", about |-> about]
    <3>1. about = {} \/ \E v \in Ids : about = {v}
      BY <2>2 DEF about
    <3> QED BY <3>1, StatusRequest, Zenon
  <2> QED BY <2>1, <2>2, <2>3, Zenon DEF about
<1>5. CASE m.kind = "Predict"
  <2>1. RequestFields(m) =
          <<<<1, 2>>, <<16, m.session>>, <<8, m.request>>, <<8, m.revision>>>>
            \o TextFields(m.context, 2) \o ListFields([i \in DOMAIN m.padding |-> PaddingFields(m.padding[i])])
    BY <1>5 DEF RequestFields
  <2>2. /\ m.session \in Ids /\ m.request \in Nat /\ m.revision \in Nat /\ m.context \in Texts /\ m.padding \in Seq(Paddings)
        /\ m = [kind |-> "Predict", session |-> m.session, request |-> m.request, revision |-> m.revision,
                context |-> m.context, padding |-> m.padding]
    BY <1>5, RequestParts
  <2>3. /\ m.request # 0 /\ Sendable(m.context, MaxContext) /\ Len(m.padding) <= MaxRepeated
        /\ \A i \in DOMAIN m.padding : SendablePadding(m.padding[i])
    BY <1>5 DEF SendableRequest
  <2> DEFINE v == m.session
             n == m.request
             w == m.revision
             context == m.context
             padding == m.padding
             s == <<<<1, 2>>, <<16, v>>, <<8, n>>, <<8, w>>>>
                    \o TextFields(context, 2) \o ListFields([i \in DOMAIN padding |-> PaddingFields(padding[i])])
  <2>4. /\ v \in Ids /\ n \in Nat /\ n # 0 /\ w \in Nat /\ context \in Texts /\ Sendable(context, MaxContext)
        /\ padding \in Seq(Paddings) /\ Len(padding) <= MaxRepeated /\ \A i \in DOMAIN padding : SendablePadding(padding[i])
    BY <2>2, <2>3
  <2> HIDE DEF v, n, w, context, padding
  <2>5. s \in Fields /\ RequestOf(s) = [kind |-> "Predict", session |-> v, request |-> n, revision |-> w,
                                         context |-> context, padding |-> padding]
    BY <2>4, PredictRequest
  <2> QED BY <2>1, <2>2, <2>5, Zenon DEF v, n, w, context, padding
<1>6. CASE m.kind = "RecordCommit"
  <2>1. RequestFields(m) =
          <<<<1, 8>>, <<1, 0>>, <<16, m.event>>, <<16, m.source>>>>
            \o TextFields(m.context, 2) \o TextFields(m.answer, 2)
            \o ListFields([i \in DOMAIN m.entries |-> EntryFields(m.entries[i])])
    BY <1>6 DEF RequestFields
  <2>2. /\ m.event \in Ids /\ m.source \in Ids /\ m.context \in Texts /\ m.answer \in Texts /\ m.entries \in Seq(CommitEntries)
        /\ m = [kind |-> "RecordCommit", event |-> m.event, source |-> m.source, context |-> m.context,
                answer |-> m.answer, entries |-> m.entries]
    BY <1>6, RequestParts
  <2>3. /\ m.event # Zero /\ m.source # Zero
        /\ Len(m.entries) \in 1..MaxCommit /\ m.answer.units # 0
        /\ Sendable(m.context, MaxCommitContext) /\ Sendable(m.answer, MaxCommit)
        /\ \A i \in DOMAIN m.entries : SendableEntry(m.entries[i])
    BY <1>6 DEF SendableRequest
  <2> DEFINE v == m.event
             o == m.source
             context == m.context
             answered == m.answer
             entries == m.entries
             s == <<<<1, 8>>, <<1, 0>>, <<16, v>>, <<16, o>>>>
                    \o TextFields(context, 2) \o TextFields(answered, 2)
                    \o ListFields([i \in DOMAIN entries |-> EntryFields(entries[i])])
  <2>4. /\ v \in Ids /\ v # Zero /\ o \in Ids /\ o # Zero /\ context \in Texts /\ Sendable(context, MaxCommitContext)
        /\ answered \in Texts /\ Sendable(answered, MaxCommit) /\ answered.units # 0
        /\ entries \in Seq(CommitEntries) /\ Len(entries) \in 1..MaxCommit /\ \A i \in DOMAIN entries : SendableEntry(entries[i])
    BY <2>2, <2>3
  <2> HIDE DEF v, o, context, answered, entries
  <2>5. s \in Fields /\ RequestOf(s) = [kind |-> "RecordCommit", event |-> v, source |-> o, context |-> context,
                                         answer |-> answered, entries |-> entries]
    BY <2>4, CommitRequest
  <2> QED BY <2>1, <2>2, <2>5, Zenon DEF v, o, context, answered, entries
<1> QED BY <1>1, <1>2, <1>3, <1>4, <1>5, <1>6, RequestParts

-----------------------------------------------------------------------------
(* Replies *)

\* What the engine decodes, by the type of the message.
LEMMA ResponseBranches ==
  ASSUME NEW a \in {1, 4, 5, 6, 8, 9}, NEW t \in Fields
  PROVE  LET payload == Put(Cell(1, a), Put(Cell(1, 1), t))
             body == ReaderAt(t, <<>>)
             ids == Read(Read(body, 16), 16)
             flag == ReadFlag(body)
             answered == ReadFlag(Read(body, 16))
             header == Read(Read(ReadFlag(answered), 4), 4)
             described == ReadFlag(Fresh(header))
             status == ReadOption(header, described, ReadSession(Fresh(described)))
         IN  /\ a = 1 => ResponseOf(payload) = Message(ids, TRUE, [kind |-> "OpenSession", session |-> ids.got[1], epoch |-> ids.got[2]])
             /\ a = 4 => ResponseOf(payload) = Message(answered, answered.got[1] # Zero,
                         [kind |-> "CloseSession", session |-> answered.got[1], closed |-> answered.got[2]])
             /\ a = 5 => ResponseOf(payload) = Message(status, TRUE,
                         [kind |-> "Status", epoch |-> status.got[1], stopping |-> status.got[2],
                          loaded |-> status.got[3], sessions |-> status.got[4], limit |-> status.got[5],
                          about |-> status.got[6]])
             /\ a = 6 => ResponseOf(payload) = Message(flag, TRUE, [kind |-> "Shutdown", accepted |-> flag.got[1]])
             /\ a = 8 => ResponseOf(payload) = Message(answered, TRUE, [kind |-> "RecordCommit", event |-> answered.got[1], stored |-> answered.got[2]])
             /\ a = 9 => ResponseOf(payload) = Message(answered, answered.got[1] # Zero,
                         [kind |-> "DiscardCommit", event |-> answered.got[1], discarded |-> answered.got[2]])
<1> DEFINE payload == Put(Cell(1, a), Put(Cell(1, 1), t))
           type == Read(Reader(payload), 1)
           kind == Read(Fresh(type), 1)
           body == Fresh(kind)
           ids == Read(Read(body, 16), 16)
           flag == ReadFlag(body)
           answered == ReadFlag(Read(body, 16))
           header == Read(Read(ReadFlag(answered), 4), 4)
           described == ReadFlag(Fresh(header))
           status == ReadOption(header, described, ReadSession(Fresh(described)))
           prediction == ReadAllCandidates(ReadHeader(Fresh(type)))
           error == ReadUtf(ReadHeader(Read(Fresh(type), 1)), 1, MaxUtf8)
           is(n) == type.ok /\ type.got[1] = n /\ kind.ok /\ kind.got[1] = 1
           third == type.ok /\ type.got[1] = 3
           seventh == type.ok /\ type.got[1] = 7
           m1 == Message(ids, TRUE, [kind |-> "OpenSession", session |-> ids.got[1], epoch |-> ids.got[2]])
           m3 == Message(prediction, prediction.got[2] # 0,
                         [kind |-> "Prediction", session |-> prediction.got[1], request |-> prediction.got[2],
                          revision |-> prediction.got[3], candidates |-> prediction.got[4]])
           m4 == Message(answered, answered.got[1] # Zero,
                         [kind |-> "CloseSession", session |-> answered.got[1], closed |-> answered.got[2]])
           m5 == Message(status, TRUE,
                         [kind |-> "Status", epoch |-> status.got[1], stopping |-> status.got[2],
                          loaded |-> status.got[3], sessions |-> status.got[4], limit |-> status.got[5],
                          about |-> status.got[6]])
           m6 == Message(flag, TRUE, [kind |-> "Shutdown", accepted |-> flag.got[1]])
           m7 == Message(error, error.got[1] \in 1..9,
                         [kind |-> "Error", code |-> error.got[1], session |-> error.got[2],
                          request |-> error.got[3], revision |-> error.got[4], message |-> error.got[5]])
           m8 == Message(answered, TRUE, [kind |-> "RecordCommit", event |-> answered.got[1], stored |-> answered.got[2]])
           m9 == Message(answered, answered.got[1] # Zero,
                         [kind |-> "DiscardCommit", event |-> answered.got[1], discarded |-> answered.got[2]])
<1>1. type.ok /\ type.got[1] = a /\ kind.ok /\ kind.got[1] = 1 /\ body = ReaderAt(t, <<>>)
  BY KindRead
<1>2. ResponseOf(payload) =
        CASE third -> m3 [] seventh -> m7 [] is(1) -> m1 [] is(4) -> m4 [] is(5) -> m5 [] is(6) -> m6 [] is(8) -> m8
          [] is(9) -> m9 [] OTHER -> Undecodable
  BY Zenon DEF ResponseOf
<1>3. /\ ~third /\ ~seventh /\ (is(1) <=> a = 1) /\ (is(4) <=> a = 4) /\ (is(5) <=> a = 5)
      /\ (is(6) <=> a = 6) /\ (is(8) <=> a = 8) /\ (is(9) <=> a = 9)
  <2> HIDE DEF type, kind
  <2> QED BY <1>1
<1> HIDE DEF m1, m3, m4, m5, m6, m7, m8, m9, is, third, seventh, payload
<1>4. /\ a = 1 => ResponseOf(payload) = m1
      /\ a = 4 => ResponseOf(payload) = m4
      /\ a = 5 => ResponseOf(payload) = m5
      /\ a = 6 => ResponseOf(payload) = m6
      /\ a = 8 => ResponseOf(payload) = m8
      /\ a = 9 => ResponseOf(payload) = m9
  BY <1>2, <1>3
<1>5. body = ReaderAt(t, <<>>)
  BY <1>1
<1> HIDE DEF body
<1> QED BY <1>4, <1>5 DEF m1, m4, m5, m6, m8, m9, payload

LEMMA EarlyBranches ==
  ASSUME NEW a \in {3, 7}, NEW t \in Fields
  PROVE  LET payload == Put(Cell(1, a), t)
             prediction == ReadAllCandidates(ReadHeader(ReaderAt(t, <<>>)))
             error == ReadUtf(ReadHeader(Read(ReaderAt(t, <<>>), 1)), 1, MaxUtf8)
         IN  /\ a = 3 => ResponseOf(payload) = Message(prediction, prediction.got[2] # 0,
                         [kind |-> "Prediction", session |-> prediction.got[1], request |-> prediction.got[2],
                          revision |-> prediction.got[3], candidates |-> prediction.got[4]])
             /\ a = 7 => ResponseOf(payload) = Message(error, error.got[1] \in 1..9,
                         [kind |-> "Error", code |-> error.got[1], session |-> error.got[2],
                          request |-> error.got[3], revision |-> error.got[4], message |-> error.got[5]])
<1> DEFINE payload == Put(Cell(1, a), t)
           type == Read(Reader(payload), 1)
           kind == Read(Fresh(type), 1)
           body == Fresh(kind)
           ids == Read(Read(body, 16), 16)
           flag == ReadFlag(body)
           answered == ReadFlag(Read(body, 16))
           header == Read(Read(ReadFlag(answered), 4), 4)
           described == ReadFlag(Fresh(header))
           status == ReadOption(header, described, ReadSession(Fresh(described)))
           prediction == ReadAllCandidates(ReadHeader(Fresh(type)))
           error == ReadUtf(ReadHeader(Read(Fresh(type), 1)), 1, MaxUtf8)
           is(n) == type.ok /\ type.got[1] = n /\ kind.ok /\ kind.got[1] = 1
           third == type.ok /\ type.got[1] = 3
           seventh == type.ok /\ type.got[1] = 7
           m1 == Message(ids, TRUE, [kind |-> "OpenSession", session |-> ids.got[1], epoch |-> ids.got[2]])
           m3 == Message(prediction, prediction.got[2] # 0,
                         [kind |-> "Prediction", session |-> prediction.got[1], request |-> prediction.got[2],
                          revision |-> prediction.got[3], candidates |-> prediction.got[4]])
           m4 == Message(answered, answered.got[1] # Zero,
                         [kind |-> "CloseSession", session |-> answered.got[1], closed |-> answered.got[2]])
           m5 == Message(status, TRUE,
                         [kind |-> "Status", epoch |-> status.got[1], stopping |-> status.got[2],
                          loaded |-> status.got[3], sessions |-> status.got[4], limit |-> status.got[5],
                          about |-> status.got[6]])
           m6 == Message(flag, TRUE, [kind |-> "Shutdown", accepted |-> flag.got[1]])
           m7 == Message(error, error.got[1] \in 1..9,
                         [kind |-> "Error", code |-> error.got[1], session |-> error.got[2],
                          request |-> error.got[3], revision |-> error.got[4], message |-> error.got[5]])
           m8 == Message(answered, TRUE, [kind |-> "RecordCommit", event |-> answered.got[1], stored |-> answered.got[2]])
           m9 == Message(answered, answered.got[1] # Zero,
                         [kind |-> "DiscardCommit", event |-> answered.got[1], discarded |-> answered.got[2]])
           after == Fresh(type)
<1>1. type.ok /\ type.got[1] = a /\ after = ReaderAt(t, <<>>)
  <2>1. a \in Nat
    OBVIOUS
  <2> QED BY <2>1, FirstRead
<1>2. ResponseOf(payload) =
        CASE third -> m3 [] seventh -> m7 [] is(1) -> m1 [] is(4) -> m4 [] is(5) -> m5 [] is(6) -> m6 [] is(8) -> m8
          [] is(9) -> m9 [] OTHER -> Undecodable
  BY Zenon DEF ResponseOf
<1>3. /\ (third <=> a = 3) /\ (seventh <=> a = 7) /\ ~is(1) /\ ~is(4) /\ ~is(5) /\ ~is(6) /\ ~is(8) /\ ~is(9)
  <2> HIDE DEF type
  <2> QED BY <1>1
<1> HIDE DEF m1, m3, m4, m5, m6, m7, m8, m9, is, third, seventh, payload
<1>4. (a = 3 => ResponseOf(payload) = m3) /\ (a = 7 => ResponseOf(payload) = m7)
  BY <1>2, <1>3
<1>5. after = ReaderAt(t, <<>>)
  BY <1>1
<1> HIDE DEF type, after
<1> QED BY <1>4, <1>5 DEF m3, m7, prediction, error, payload, after

LEMMA OpenedAnswer ==
  ASSUME NEW v \in Ids, NEW e \in Ids
  PROVE  LET s == <<<<1, 1>>, <<1, 1>>, <<16, v>>, <<16, e>>>>
         IN  s \in Fields /\ ResponseOf(s) = [kind |-> "OpenSession", session |-> v, epoch |-> e]
<1> DEFINE s == <<<<1, 1>>, <<1, 1>>, <<16, v>>, <<16, e>>>>
           x == Cell(1, 1)
           c == Cell(16, v)
           d == Cell(16, e)
           q == Put(d, <<>>)
           t == Put(c, q)
<1>1. x \in Field
  <2>1. 1 \in Nat /\ 1 \in {1, 4, 8}
    OBVIOUS
  <2> QED BY <2>1, NumberRead, EmptyFields
<1>2. d \in Field /\ q \in Fields /\ \A got : Read(ReaderAt(q, got), 16) = ReaderAt(<<>>, Push(got, e))
  BY EmptyFields, IdRead
<1>3. s = <<x, x, c, d>>
  BY DEF Cell
<1> HIDE DEF x, q
<1>4. c \in Field /\ t \in Fields /\ Read(ReaderAt(t, <<>>), 16) = ReaderAt(q, Push(<<>>, v))
  BY <1>2, IdRead
<1> HIDE DEF c, d
<1>5. <<x, x, c, d>> \in Fields /\ <<x, x, c, d>> = Put(x, Put(x, t))
  BY <1>1, <1>2, <1>4, PutFour DEF q
<1> HIDE DEF t
<1> DEFINE ids == Read(Read(ReaderAt(t, <<>>), 16), 16)
<1>6. ids = ReaderAt(<<>>, <<v, e>>)
  <2>1. ids = ReaderAt(<<>>, Push(Push(<<>>, v), e))
    BY <1>2, <1>4, Zenon
  <2> HIDE DEF ids
  <2> QED BY <2>1, Pushed
<1> HIDE DEF ids
<1>7. ids.got[1] = v /\ ids.got[2] = e
  BY <1>6 DEF ReaderAt
<1>8. ResponseOf(Put(x, Put(x, t))) = Message(ids, TRUE, [kind |-> "OpenSession", session |-> ids.got[1], epoch |-> ids.got[2]])
  BY <1>4, ResponseBranches DEF ids, x
<1>9. ResponseOf(Put(x, Put(x, t))) = [kind |-> "OpenSession", session |-> v, epoch |-> e]
  BY <1>6, <1>7, <1>8, MessageRead
<1> QED BY <1>3, <1>5, <1>9, Zenon DEF s

LEMMA FlagAnswer ==
  ASSUME NEW a \in {4, 8, 9}, NEW v \in Ids, a # 8 => v # Zero, NEW b \in BOOLEAN
  PROVE  LET s == <<<<1, a>>, <<1, 1>>, <<16, v>>, Flag(b)>>
         IN  /\ s \in Fields
             /\ a = 4 => ResponseOf(s) = [kind |-> "CloseSession", session |-> v, closed |-> b]
             /\ a = 8 => ResponseOf(s) = [kind |-> "RecordCommit", event |-> v, stored |-> b]
             /\ a = 9 => ResponseOf(s) = [kind |-> "DiscardCommit", event |-> v, discarded |-> b]
<1> DEFINE s == <<<<1, a>>, <<1, 1>>, <<16, v>>, Flag(b)>>
           x == Cell(1, a)
           y == Cell(1, 1)
           c == Cell(16, v)
           d == Flag(b)
           q == Put(d, <<>>)
           t == Put(c, q)
<1>1. x \in Field /\ y \in Field
  <2>1. a \in Nat /\ 1 \in Nat /\ 1 \in {1, 4, 8}
    OBVIOUS
  <2> QED BY <2>1, NumberRead, EmptyFields
<1>2. d \in Field
  BY FlagCell
<1>3. q \in Fields /\ \A got : ReadFlag(ReaderAt(q, got)) = ReaderAt(<<>>, Push(got, b))
  BY <1>2, EmptyFields, FlagFields, PutFields
<1>4. s = <<x, y, c, d>>
  BY DEF Cell
<1> HIDE DEF x, y, q, d
<1>5. c \in Field /\ t \in Fields /\ Read(ReaderAt(t, <<>>), 16) = ReaderAt(q, Push(<<>>, v))
  BY <1>3, IdRead
<1> HIDE DEF c
<1>6. <<x, y, c, d>> \in Fields /\ <<x, y, c, d>> = Put(x, Put(y, t))
  BY <1>1, <1>2, <1>5, PutFour DEF q
<1> HIDE DEF t
<1> DEFINE answered == ReadFlag(Read(ReaderAt(t, <<>>), 16))
<1>7. answered = ReaderAt(<<>>, <<v, b>>)
  <2>1. answered = ReaderAt(<<>>, Push(Push(<<>>, v), b))
    BY <1>3, <1>5, Zenon
  <2> HIDE DEF answered
  <2> QED BY <2>1, Pushed
<1> HIDE DEF answered
<1>8. answered.got[1] = v /\ answered.got[2] = b
  BY <1>7 DEF ReaderAt
<1>9. a \in {1, 4, 5, 6, 8, 9}
  OBVIOUS
<1>10. /\ a = 4 => ResponseOf(Put(x, Put(y, t))) =
             Message(answered, answered.got[1] # Zero, [kind |-> "CloseSession", session |-> answered.got[1], closed |-> answered.got[2]])
       /\ a = 8 => ResponseOf(Put(x, Put(y, t))) =
             Message(answered, TRUE, [kind |-> "RecordCommit", event |-> answered.got[1], stored |-> answered.got[2]])
       /\ a = 9 => ResponseOf(Put(x, Put(y, t))) =
             Message(answered, answered.got[1] # Zero, [kind |-> "DiscardCommit", event |-> answered.got[1], discarded |-> answered.got[2]])
  <2> HIDE DEF s
  <2>1. t \in Fields
    BY <1>5
  <2>2. a = 4 => ResponseOf(Put(x, Put(y, t))) =
          Message(answered, answered.got[1] # Zero, [kind |-> "CloseSession", session |-> answered.got[1], closed |-> answered.got[2]])
    BY <1>9, <2>1, ResponseBranches DEF answered, x, y
  <2>3. a = 8 => ResponseOf(Put(x, Put(y, t))) =
          Message(answered, TRUE, [kind |-> "RecordCommit", event |-> answered.got[1], stored |-> answered.got[2]])
    BY <1>9, <2>1, ResponseBranches DEF answered, x, y
  <2>4. a = 9 => ResponseOf(Put(x, Put(y, t))) =
          Message(answered, answered.got[1] # Zero, [kind |-> "DiscardCommit", event |-> answered.got[1], discarded |-> answered.got[2]])
    BY <1>9, <2>1, ResponseBranches DEF answered, x, y
  <2> QED BY <2>2, <2>3, <2>4, Zenon
<1>11. \A m : Message(answered, TRUE, m) = m /\ (a # 8 => Message(answered, answered.got[1] # Zero, m) = m)
  BY <1>7, <1>8, MessageRead
<1>12. /\ a = 4 => ResponseOf(Put(x, Put(y, t))) = [kind |-> "CloseSession", session |-> v, closed |-> b]
       /\ a = 8 => ResponseOf(Put(x, Put(y, t))) = [kind |-> "RecordCommit", event |-> v, stored |-> b]
       /\ a = 9 => ResponseOf(Put(x, Put(y, t))) = [kind |-> "DiscardCommit", event |-> v, discarded |-> b]
  <2>1. /\ Message(answered, TRUE, [kind |-> "RecordCommit", event |-> v, stored |-> b]) = [kind |-> "RecordCommit", event |-> v, stored |-> b]
        /\ a # 8 => Message(answered, answered.got[1] # Zero, [kind |-> "CloseSession", session |-> v, closed |-> b]) =
                      [kind |-> "CloseSession", session |-> v, closed |-> b]
        /\ a # 8 => Message(answered, answered.got[1] # Zero, [kind |-> "DiscardCommit", event |-> v, discarded |-> b]) =
                      [kind |-> "DiscardCommit", event |-> v, discarded |-> b]
    BY <1>11, Zenon
  <2>2. (a = 4 => a # 8) /\ (a = 9 => a # 8)
    OBVIOUS
  <2>3. a = 4 => ResponseOf(Put(x, Put(y, t))) = [kind |-> "CloseSession", session |-> v, closed |-> b]
    BY <1>8, <1>10, <2>1, <2>2, Zenon
  <2>4. a = 8 => ResponseOf(Put(x, Put(y, t))) = [kind |-> "RecordCommit", event |-> v, stored |-> b]
    BY <1>8, <1>10, <2>1, Zenon
  <2>5. a = 9 => ResponseOf(Put(x, Put(y, t))) = [kind |-> "DiscardCommit", event |-> v, discarded |-> b]
    BY <1>8, <1>10, <2>1, <2>2, Zenon
  <2> QED BY <2>3, <2>4, <2>5, Zenon
<1>13. s = Put(x, Put(y, t)) /\ s \in Fields
  BY <1>4, <1>6, Zenon
<1> QED BY <1>12, <1>13, Zenon DEF s

LEMMA ShutdownAnswer ==
  ASSUME NEW b \in BOOLEAN
  PROVE  LET s == <<<<1, 6>>, <<1, 1>>, Flag(b)>>
         IN  s \in Fields /\ ResponseOf(s) = [kind |-> "Shutdown", accepted |-> b]
<1> DEFINE s == <<<<1, 6>>, <<1, 1>>, Flag(b)>>
           x == Cell(1, 6)
           y == Cell(1, 1)
           d == Flag(b)
           t == Put(d, <<>>)
           flag == ReadFlag(ReaderAt(t, <<>>))
<1>1. x \in Field /\ y \in Field
  <2>1. 6 \in Nat /\ 1 \in Nat /\ 1 \in {1, 4, 8}
    OBVIOUS
  <2> QED BY <2>1, NumberRead, EmptyFields
<1>2. d \in Field
  BY FlagCell
<1>3. t \in Fields /\ flag = ReaderAt(<<>>, Push(<<>>, b))
  BY <1>2, EmptyFields, FlagFields, PutFields
<1>4. s = <<x, y, d>>
  BY DEF Cell
<1> HIDE DEF x, y, d
<1>5. <<x, y, d>> \in Fields /\ <<x, y, d>> = Put(x, Put(y, t))
  BY <1>1, <1>2, PutThree
<1> HIDE DEF t, flag
<1>6. flag = ReaderAt(<<>>, <<b>>)
  BY <1>3, Pushed
<1>7. flag.got[1] = b
  BY <1>6 DEF ReaderAt
<1>8. ResponseOf(Put(x, Put(y, t))) = Message(flag, TRUE, [kind |-> "Shutdown", accepted |-> flag.got[1]])
  BY <1>3, ResponseBranches DEF flag, x, y
<1>9. ResponseOf(Put(x, Put(y, t))) = [kind |-> "Shutdown", accepted |-> b]
  BY <1>6, <1>7, <1>8, MessageRead
<1> QED BY <1>4, <1>5, <1>9, Zenon DEF s, d

LEMMA FlagRead ==
  ASSUME NEW b \in BOOLEAN, NEW t \in Fields, NEW got
  PROVE  /\ ReadFlag(ReaderAt(Put(Flag(b), t), got)) = ReaderAt(t, Push(got, b))
         /\ Flag(b) \in Field /\ Put(Flag(b), t) \in Fields
BY FlagFields, FlagCell, PutFields

\* The state of a session, as Status describes it.
Sessions == [session : Ids, active : BOOLEAN, closing : BOOLEAN, loaded : BOOLEAN, last : Nat]

LEMMA SessionRead ==
  ASSUME NEW s \in Sessions, NEW u \in Fields, NEW got
  PROVE  /\ SessionFields(s) \in Fields
         /\ ReadSession(ReaderAt(SessionFields(s) \o u, got)) = ReaderAt(u, Push(got, s))
<1> DEFINE v == s.session
           b1 == s.active
           b2 == s.closing
           b3 == s.loaded
           n == s.last
           a == Cell(16, v)
           b == Flag(b1)
           c == Flag(b2)
           d == Flag(b3)
           e == Cell(8, n)
           t4 == Put(e, u)
           t3 == Put(d, t4)
           t2 == Put(c, t3)
           t1 == Put(b, t2)
<1>1. /\ v \in Ids /\ b1 \in BOOLEAN /\ b2 \in BOOLEAN /\ b3 \in BOOLEAN /\ n \in Nat
      /\ s = [session |-> v, active |-> b1, closing |-> b2, loaded |-> b3, last |-> n]
  BY DEF Sessions
<1>2. SessionFields(s) = <<a, b, c, d, e>>
  BY DEF SessionFields, Cell
<1> HIDE DEF v, b1, b2, b3, n
<1>3. e \in Field /\ t4 \in Fields /\ \A g : Read(ReaderAt(t4, g), 8) = ReaderAt(u, Push(g, n))
  BY <1>1, NumberRead
<1> HIDE DEF e, t4
<1>4. d \in Field /\ t3 \in Fields /\ \A g : ReadFlag(ReaderAt(t3, g)) = ReaderAt(t4, Push(g, b3))
  BY <1>1, <1>3, FlagRead
<1> HIDE DEF d, t3
<1>5. c \in Field /\ t2 \in Fields /\ \A g : ReadFlag(ReaderAt(t2, g)) = ReaderAt(t3, Push(g, b2))
  BY <1>1, <1>4, FlagRead
<1> HIDE DEF c, t2
<1>6. b \in Field /\ t1 \in Fields /\ \A g : ReadFlag(ReaderAt(t1, g)) = ReaderAt(t2, Push(g, b1))
  BY <1>1, <1>5, FlagRead
<1> HIDE DEF b, t1
<1>7. a \in Field /\ \A g : Read(ReaderAt(Put(a, t1), g), 16) = ReaderAt(t1, Push(g, v))
  BY <1>1, <1>6, IdRead
<1> HIDE DEF a
<1> DEFINE all == <<a, b, c, d, e>>
<1> HIDE DEF all
<1>8. all \in Fields /\ all \o u = Put(a, t1)
  <2>1. a \in Field /\ b \in Field /\ c \in Field /\ d \in Field /\ e \in Field /\ all = <<a, b, c, d, e>>
    BY <1>3, <1>4, <1>5, <1>6, <1>7 DEF all
  <2>2. all \in Fields /\ \A w \in Fields : all \o w = Put(a, Put(b, Put(c, Put(d, Put(e, w)))))
    <3>1. InFrontFive(a, b, c, d, e)
      BY <2>1, PutFive
    <3> QED BY <2>1, <3>1 DEF InFrontFive
  <2>3. all \o u = Put(a, Put(b, Put(c, Put(d, Put(e, u)))))
    BY <2>2
  <2> QED BY <2>2, <2>3, Zenon DEF t1, t2, t3, t4
<1> DEFINE r == ReaderAt(Put(a, t1), got)
           r1 == Read(Fresh(r), 16)
           q == Read(ReadFlag(ReadFlag(ReadFlag(r1))), 8)
<1>9. Fresh(r) = ReaderAt(Put(a, t1), <<>>)
  BY FreshReader
<1>10. r1 = ReaderAt(t1, Push(<<>>, v))
  BY <1>7, <1>9, Zenon
<1>11. q = ReaderAt(u, Push(Push(Push(Push(Push(<<>>, v), b1), b2), b3), n))
  <2>1. ReadFlag(r1) = ReaderAt(t2, Push(Push(<<>>, v), b1))
    BY <1>6, <1>10, Zenon
  <2>2. ReadFlag(ReadFlag(r1)) = ReaderAt(t3, Push(Push(Push(<<>>, v), b1), b2))
    BY <1>5, <2>1, Zenon
  <2>3. ReadFlag(ReadFlag(ReadFlag(r1))) = ReaderAt(t4, Push(Push(Push(Push(<<>>, v), b1), b2), b3))
    BY <1>4, <2>2, Zenon
  <2> QED BY <1>3, <2>3, Zenon
<1>12. q = ReaderAt(u, <<v, b1, b2, b3, n>>)
  <2> HIDE DEF q
  <2> QED BY <1>11, Pushed
<1> HIDE DEF q
<1>13. [session |-> q.got[1], active |-> q.got[2], closing |-> q.got[3], loaded |-> q.got[4], last |-> q.got[5]] = s
  <2>1. q.got[1] = v /\ q.got[2] = b1 /\ q.got[3] = b2 /\ q.got[4] = b3 /\ q.got[5] = n
    BY <1>12 DEF ReaderAt
  <2> QED BY <1>1, <2>1, Zenon
<1>14. Within(r, q, s) = ReaderAt(u, Push(got, s))
  BY <1>12 DEF Within, ReaderAt, Push
<1>15. ReadSession(r) = Within(r, q, s)
  BY <1>13, Zenon DEF ReadSession, q
<1> QED BY <1>2, <1>8, <1>14, <1>15, Zenon DEF all

\* A sequence of one sequence is that sequence.
LEMMA FlattenOne ==
  /\ FlattenSeq(<<>>) = <<>>
  /\ \A s \in Fields : FlattenSeq(<<s>>) = s
<1>1. ASSUME NEW items \in Seq(Fields), NEW g \in FieldsFrom(items, <<>>)
      PROVE  FlattenSeq(items) = g[0]
  BY EmptyFields, FlattenedSuffixes
<1>2. FlattenSeq(<<>>) = <<>>
  <2> DEFINE items == <<>>
  <2>1. items \in Seq(Fields) /\ Len(items) = 0
    OBVIOUS
  <2> HIDE DEF items
  <2>2. PICK g : g \in FieldsFrom(items, <<>>)
    BY <2>1, EmptyFields, SuffixesExist
  <2>3. FlattenSeq(items) = g[0] /\ g[0] = <<>>
    BY <1>1, <2>1, <2>2 DEF FieldsFrom
  <2> QED BY <2>3 DEF items
<1>3. ASSUME NEW s \in Fields PROVE FlattenSeq(<<s>>) = s
  <2> DEFINE items == <<s>>
  <2>1. items \in Seq(Fields) /\ Len(items) = 1 /\ items[1] = s
    OBVIOUS
  <2> HIDE DEF items
  <2>2. PICK g : g \in FieldsFrom(items, <<>>)
    BY <2>1, EmptyFields, SuffixesExist
  <2>3. FlattenSeq(items) = g[0]
    BY <1>1, <2>1, <2>2
  <2>4. g[1] = <<>> /\ g[1 - 1] = items[1] \o g[1]
    BY <2>1, <2>2 DEF FieldsFrom
  <2>5. g[0] = s
    BY <2>1, <2>4, EmptyFields
  <2> QED BY <2>3, <2>5 DEF items
<1> QED BY <1>2, <1>3

\* The fields of a session, or none, as Status has them.
LEMMA DescribedFields ==
  ASSUME NEW about, about = {} \/ \E v \in Sessions : about = {v}
  PROVE  LET rest == FlattenSeq(SetToSeq({SessionFields(v) : v \in about}))
         IN  /\ rest \in Fields
             /\ about = {} => rest = <<>>
             /\ \A v : about = {v} => rest = SessionFields(v)
<1> DEFINE rest == FlattenSeq(SetToSeq({SessionFields(v) : v \in about}))
<1>1. about = {} => rest \in Fields /\ rest = <<>>
  <2> SUFFICES ASSUME about = {} PROVE rest \in Fields /\ rest = <<>>
    OBVIOUS
  <2>1. {SessionFields(v) : v \in about} = {}
    OBVIOUS
  <2> QED BY <2>1, SmallSetToSeq, FlattenOne, EmptyFields
<1>2. ASSUME NEW v \in Sessions, about = {v} PROVE rest \in Fields /\ rest = SessionFields(v)
  <2> DEFINE f == SessionFields(v)
  <2>1. {SessionFields(w) : w \in about} = {f}
    BY <1>2
  <2>2. f \in Fields
    BY EmptyFields, SessionRead
  <2> HIDE DEF f
  <2>3. SetToSeq({f}) = <<f>> /\ FlattenSeq(<<f>>) = f
    BY <2>2, SmallSetToSeq, FlattenOne
  <2>4. rest = f
    BY <2>1, <2>3, Zenon
  <2> QED BY <2>2, <2>4 DEF f
<1> HIDE DEF rest
<1>3. /\ rest \in Fields
      /\ about = {} => rest = <<>>
      /\ \A v : about = {v} => rest = SessionFields(v)
  <2>1. CASE about = {}
    <3>1. \A v : about # {v}
      BY <2>1
    <3>2. rest \in Fields /\ rest = <<>>
      BY <1>1, <2>1
    <3> QED BY <2>1, <3>1, <3>2, Zenon
  <2>2. CASE about # {}
    <3>1. PICK v \in Sessions : about = {v}
      BY <2>2
    <3>2. \A w : about = {w} => w = v
      BY <3>1
    <3>3. rest \in Fields /\ rest = SessionFields(v)
      BY <1>2, <3>1
    <3> QED BY <2>2, <3>2, <3>3, Zenon
  <2> QED BY <2>1, <2>2
<1> QED BY <1>3 DEF rest

LEMMA StatusAnswer ==
  ASSUME NEW epoch \in Ids, NEW stopping \in BOOLEAN, NEW loaded \in BOOLEAN, NEW sessions \in Nat, NEW limit \in Nat,
         NEW about, about = {} \/ \E v \in Sessions : about = {v}
  PROVE  LET s == <<<<1, 5>>, <<1, 1>>, <<16, epoch>>, Flag(stopping), Flag(loaded),
                    <<4, sessions>>, <<4, limit>>, Flag(about # {})>>
                    \o FlattenSeq(SetToSeq({SessionFields(v) : v \in about}))
         IN  /\ s \in Fields
             /\ ResponseOf(s) = [kind |-> "Status", epoch |-> epoch, stopping |-> stopping, loaded |-> loaded,
                                 sessions |-> sessions, limit |-> limit, about |-> about]
<1> DEFINE rest == FlattenSeq(SetToSeq({SessionFields(v) : v \in about}))
           head == <<<<1, 5>>, <<1, 1>>, <<16, epoch>>, Flag(stopping), Flag(loaded),
                     <<4, sessions>>, <<4, limit>>, Flag(about # {})>>
           some == about # {}
           a == Cell(1, 5)
           b == Cell(1, 1)
           c == Cell(16, epoch)
           d == Flag(stopping)
           e == Flag(loaded)
           f == Cell(4, sessions)
           g == Cell(4, limit)
           h == Flag(some)
           t6 == Put(h, rest)
           t5 == Put(g, t6)
           t4 == Put(f, t5)
           t3 == Put(e, t4)
           t2 == Put(d, t3)
           t1 == Put(c, t2)
<1>1. /\ rest \in Fields
      /\ about = {} => rest = <<>>
      /\ \A v : about = {v} => rest = SessionFields(v)
  BY DescribedFields
<1>2. head = <<a, b, c, d, e, f, g, h>>
  BY DEF Cell
<1> HIDE DEF rest, head, some
<1>3. a \in Field /\ b \in Field
  <2>1. 5 \in Nat /\ 1 \in Nat /\ 1 \in {1, 4, 8}
    OBVIOUS
  <2> QED BY <2>1, NumberRead, EmptyFields
<1> HIDE DEF a, b
<1>4. h \in Field /\ t6 \in Fields /\ \A k : ReadFlag(ReaderAt(t6, k)) = ReaderAt(rest, Push(k, some))
  <2>1. some \in BOOLEAN
    BY DEF some
  <2> QED BY <1>1, <2>1, FlagRead
<1> HIDE DEF h, t6
<1>5. g \in Field /\ t5 \in Fields /\ \A k : Read(ReaderAt(t5, k), 4) = ReaderAt(t6, Push(k, limit))
  BY <1>4, NumberRead
<1> HIDE DEF g, t5
<1>6. f \in Field /\ t4 \in Fields /\ \A k : Read(ReaderAt(t4, k), 4) = ReaderAt(t5, Push(k, sessions))
  BY <1>5, NumberRead
<1> HIDE DEF f, t4
<1>7. e \in Field /\ t3 \in Fields /\ \A k : ReadFlag(ReaderAt(t3, k)) = ReaderAt(t4, Push(k, loaded))
  BY <1>6, FlagRead
<1> HIDE DEF e, t3
<1>8. d \in Field /\ t2 \in Fields /\ \A k : ReadFlag(ReaderAt(t2, k)) = ReaderAt(t3, Push(k, stopping))
  BY <1>7, FlagRead
<1> HIDE DEF d, t2
<1>9. c \in Field /\ t1 \in Fields /\ \A k : Read(ReaderAt(t1, k), 16) = ReaderAt(t2, Push(k, epoch))
  BY <1>8, IdRead
<1> HIDE DEF c, t1
<1>10. head \o rest \in Fields /\ head \o rest = Put(a, Put(b, t1))
  <2>1. InFrontEight(a, b, c, d, e, f, g, h)
    BY <1>3, <1>4, <1>5, <1>6, <1>7, <1>8, <1>9, PutEight
  <2>2. head \in Fields /\ \A w \in Fields : head \o w = Put(a, Put(b, Put(c, Put(d, Put(e, Put(f, Put(g, Put(h, w))))))))
    BY <1>2, <2>1, Zenon DEF InFrontEight
  <2>3. head \o rest = Put(a, Put(b, Put(c, Put(d, Put(e, Put(f, Put(g, Put(h, rest))))))))
    BY <1>1, <2>2
  <2>4. head \o rest \in Fields
    BY <1>1, <2>2, ConcatFields
  <2> QED BY <2>3, <2>4, Zenon DEF t1, t2, t3, t4, t5, t6
<1> DEFINE body == ReaderAt(t1, <<>>)
           answered == ReadFlag(Read(body, 16))
           header == Read(Read(ReadFlag(answered), 4), 4)
           described == ReadFlag(Fresh(header))
           status == ReadOption(header, described, ReadSession(Fresh(described)))
           got5 == <<epoch, stopping, loaded, sessions, limit>>
<1>11. header = ReaderAt(t6, got5)
  <2>1. Read(body, 16) = ReaderAt(t2, Push(<<>>, epoch))
    BY <1>9, Zenon
  <2>2. answered = ReaderAt(t3, Push(Push(<<>>, epoch), stopping))
    BY <1>8, <2>1, Zenon
  <2>3. ReadFlag(answered) = ReaderAt(t4, Push(Push(Push(<<>>, epoch), stopping), loaded))
    BY <1>7, <2>2, Zenon
  <2>4. Read(ReadFlag(answered), 4) = ReaderAt(t5, Push(Push(Push(Push(<<>>, epoch), stopping), loaded), sessions))
    BY <1>6, <2>3, Zenon
  <2>5. header = ReaderAt(t6, Push(Push(Push(Push(Push(<<>>, epoch), stopping), loaded), sessions), limit))
    BY <1>5, <2>4, Zenon
  <2> HIDE DEF header
  <2> QED BY <2>5, Pushed
<1> HIDE DEF header
<1>12. described = ReaderAt(rest, <<some>>)
  <2>1. described = ReaderAt(rest, Push(<<>>, some))
    BY <1>4, <1>11, FreshReader, Zenon
  <2> HIDE DEF described
  <2> QED BY <2>1, Pushed
<1> HIDE DEF described
<1>13. Fresh(described) = ReaderAt(rest, <<>>)
  BY <1>12, FreshReader
<1> DEFINE item == ReadSession(Fresh(described))
<1>14. status = ReaderAt(<<>>, Push(got5, about))
  <2>1. CASE about = {}
    <3>1. some = FALSE /\ rest = <<>>
      BY <1>1, <2>1 DEF some
    <3> HIDE DEF item, got5
    <3>2. ReadOption(ReaderAt(t6, got5), ReaderAt(rest, <<FALSE>>), item) = ReaderAt(rest, Push(got5, {}))
      BY DEF ReadOption, Within, ReaderAt, Push
    <3>3. described = ReaderAt(rest, <<FALSE>>)
      BY <1>12, <3>1
    <3> QED BY <1>11, <2>1, <3>1, <3>2, <3>3, Zenon DEF item
  <2>2. ASSUME NEW v \in Sessions, about = {v} PROVE status = ReaderAt(<<>>, Push(got5, about))
    <3>1. some = TRUE /\ rest = SessionFields(v)
      BY <1>1, <2>2 DEF some
    <3>2. item = ReaderAt(<<>>, <<v>>)
      <4>1. SessionFields(v) \o <<>> = SessionFields(v)
        BY EmptyFields, SessionRead
      <4>2. ReadSession(ReaderAt(SessionFields(v) \o <<>>, <<>>)) = ReaderAt(<<>>, Push(<<>>, v))
        BY EmptyFields, SessionRead
      <4>3. item = ReaderAt(<<>>, Push(<<>>, v))
        BY <1>13, <3>1, <4>1, <4>2, Zenon
      <4> HIDE DEF item
      <4> QED BY <4>3, Pushed
    <3> HIDE DEF item, got5
    <3>3. ReadOption(ReaderAt(t6, got5), ReaderAt(rest, <<TRUE>>), item) = ReaderAt(<<>>, Push(got5, {v}))
      BY <3>2 DEF ReadOption, Within, ReaderAt, Push
    <3>4. described = ReaderAt(rest, <<TRUE>>)
      BY <1>12, <3>1
    <3> QED BY <1>11, <2>2, <3>3, <3>4, Zenon DEF item
  <2> QED BY <2>1, <2>2
<1> HIDE DEF status
<1>15. status = ReaderAt(<<>>, <<epoch, stopping, loaded, sessions, limit, about>>)
  BY <1>14, Pushed
<1>16. /\ status.got[1] = epoch /\ status.got[2] = stopping /\ status.got[3] = loaded
       /\ status.got[4] = sessions /\ status.got[5] = limit /\ status.got[6] = about
  BY <1>15 DEF ReaderAt
<1> DEFINE m == [kind |-> "Status", epoch |-> status.got[1], stopping |-> status.got[2],
                 loaded |-> status.got[3], sessions |-> status.got[4], limit |-> status.got[5], about |-> status.got[6]]
<1>17. ResponseOf(Put(a, Put(b, t1))) = Message(status, TRUE, m)
  BY <1>9, ResponseBranches DEF status, described, header, a, b
<1>18. m = [kind |-> "Status", epoch |-> epoch, stopping |-> stopping, loaded |-> loaded,
            sessions |-> sessions, limit |-> limit, about |-> about]
  BY <1>16, Zenon
<1> HIDE DEF m
<1>19. Message(status, TRUE, m) = m
  BY <1>15, MessageRead, Zenon
<1> QED BY <1>10, <1>17, <1>18, <1>19, Zenon DEF head, rest

LEMMA PredictionResponse ==
  ASSUME NEW v \in Ids, NEW n \in Nat, n # 0, NEW w \in Nat,
         NEW candidates \in Seq(Seq(Nat)), Len(candidates) <= MaxRepeated,
         \A i \in DOMAIN candidates : SendableCandidate(candidates[i])
  PROVE  LET s == <<<<1, 3>>, <<16, v>>, <<8, n>>, <<8, w>>>>
                    \o ListFields([i \in DOMAIN candidates |-> CandidateFields(candidates[i])])
         IN  /\ s \in Fields
             /\ ResponseOf(s) = [kind |-> "Prediction", session |-> v, request |-> n, revision |-> w, candidates |-> candidates]
<1> DEFINE head == <<<<1, 3>>, <<16, v>>, <<8, n>>, <<8, w>>>>
           list == ListFields([i \in DOMAIN candidates |-> CandidateFields(candidates[i])])
           a == Cell(1, 3)
           b == Cell(16, v)
           c == Cell(8, n)
           d == Cell(8, w)
           t == Put(b, Put(c, Put(d, list)))
<1>1. /\ list \in Fields
      /\ \A got : ReadAllCandidates(ReaderAt(list \o <<>>, got)) = ReaderAt(<<>>, Push(got, candidates))
  BY EmptyFields, CandidateListsRead
<1> HIDE DEF list
<1>2. a \in Field
  <2>1. 3 \in Nat /\ 1 \in {1, 4, 8}
    OBVIOUS
  <2> QED BY <2>1, NumberRead, EmptyFields
<1>3. b \in Field /\ c \in Field /\ d \in Field /\ t \in Fields
  BY <1>1, HeaderRead
<1>4. head = <<a, b, c, d>>
  BY DEF Cell
<1>5. head \o list \in Fields /\ head \o list = Put(a, t)
  <2> HIDE DEF a, b, c, d, head
  <2>1. head \in Fields /\ \A u \in Fields : head \o u = Put(a, Put(b, Put(c, Put(d, u))))
    BY <1>2, <1>3, <1>4, PutFour
  <2>2. head \o list \in Fields
    BY <1>1, <2>1, ConcatFields
  <2>3. head \o list = Put(a, t)
    BY <1>1, <2>1
  <2> QED BY <2>2, <2>3
<1> DEFINE h == ReadHeader(ReaderAt(t, <<>>))
           prediction == ReadAllCandidates(h)
<1>6. h = ReaderAt(list, <<v, n, w>>)
  <2>1. h = ReaderAt(list, Push(Push(Push(<<>>, v), n), w))
    BY <1>1, HeaderRead
  <2> HIDE DEF h
  <2> QED BY <2>1, Pushed
<1> HIDE DEF h
<1>7. prediction = ReaderAt(<<>>, <<v, n, w, candidates>>)
  <2>1. list \o <<>> = list
    BY <1>1, EmptyFields
  <2>2. prediction = ReaderAt(<<>>, Push(<<v, n, w>>, candidates))
    BY <1>1, <1>6, <2>1, Zenon
  <2>3. Push(<<v, n, w>>, candidates) = <<v, n, w, candidates>>
    BY Pushed
  <2> QED BY <2>2, <2>3, Zenon
<1> HIDE DEF prediction, t
<1>8. prediction.got[1] = v /\ prediction.got[2] = n /\ prediction.got[3] = w /\ prediction.got[4] = candidates
  BY <1>7 DEF ReaderAt
<1> DEFINE m == [kind |-> "Prediction", session |-> prediction.got[1], request |-> prediction.got[2],
                 revision |-> prediction.got[3], candidates |-> prediction.got[4]]
<1>9. ResponseOf(Put(a, t)) = Message(prediction, prediction.got[2] # 0, m)
  BY <1>3, EarlyBranches DEF prediction, h
<1>10. m = [kind |-> "Prediction", session |-> v, request |-> n, revision |-> w, candidates |-> candidates]
  BY <1>8, Zenon
<1> HIDE DEF m
<1>11. Message(prediction, prediction.got[2] # 0, m) = m
  <2>1. (prediction.got[2] # 0) = TRUE
    BY <1>8
  <2> QED BY <1>7, <2>1, MessageRead
<1> QED BY <1>5, <1>9, <1>10, <1>11, Zenon DEF head, list

LEMMA ErrorResponse ==
  ASSUME NEW code \in 1..9, NEW v \in Ids, NEW n \in Nat, NEW w \in Nat,
         NEW message \in Texts, Sendable(message, MaxUtf8)
  PROVE  LET s == <<<<1, 7>>, <<1, code>>, <<16, v>>, <<8, n>>, <<8, w>>>> \o TextFields(message, 1)
         IN  /\ s \in Fields
             /\ ResponseOf(s) = [kind |-> "Error", code |-> code, session |-> v, request |-> n, revision |-> w, message |-> message]
<1> DEFINE head == <<<<1, 7>>, <<1, code>>, <<16, v>>, <<8, n>>, <<8, w>>>>
           text == TextFields(message, 1)
           a == Cell(1, 7)
           x == Cell(1, code)
           b == Cell(16, v)
           c == Cell(8, n)
           d == Cell(8, w)
           q == Put(b, Put(c, Put(d, text)))
           t == Put(x, q)
<1>1. text \in Fields /\ \A got : ReadUtf(ReaderAt(text \o <<>>, got), 1, MaxUtf8) = ReaderAt(<<>>, Push(got, message))
  <2>1. MaxUtf8 \in Nat /\ 1 \in {1, 2}
    BY DEF MaxUtf8
  <2> QED BY <2>1, EmptyFields, TextIsFields, TextRead
<1> HIDE DEF text
<1>2. b \in Field /\ c \in Field /\ d \in Field /\ q \in Fields
      /\ \A got : ReadHeader(ReaderAt(q, got)) = ReaderAt(text, Push(Push(Push(got, v), n), w))
  BY <1>1, HeaderRead
<1> HIDE DEF b, c, d, q
<1>3. a \in Field
  <2>1. 7 \in Nat /\ 1 \in {1, 4, 8}
    OBVIOUS
  <2> QED BY <2>1, NumberRead, EmptyFields
<1>4. x \in Field /\ t \in Fields /\ Read(ReaderAt(t, <<>>), 1) = ReaderAt(q, Push(<<>>, code))
  <2>1. code \in Nat /\ 1 \in {1, 4, 8}
    OBVIOUS
  <2> QED BY <1>2, <2>1, NumberRead
<1>5. head = <<a, x, b, c, d>>
  BY DEF Cell, b, c, d
<1> HIDE DEF a, x, t, head
<1>6. head \o text \in Fields /\ head \o text = Put(a, t)
  <2>1. InFrontFive(a, x, b, c, d)
    BY <1>2, <1>3, <1>4, PutFive
  <2>2. head \in Fields /\ \A u \in Fields : head \o u = Put(a, Put(x, Put(b, Put(c, Put(d, u)))))
    BY <1>5, <2>1, Zenon DEF InFrontFive
  <2>3. head \o text = Put(a, Put(x, Put(b, Put(c, Put(d, text)))))
    BY <1>1, <2>2
  <2>4. head \o text \in Fields
    BY <1>1, <2>2, ConcatFields
  <2> QED BY <2>3, <2>4, Zenon DEF t, q
<1> DEFINE r == Read(ReaderAt(t, <<>>), 1)
           h == ReadHeader(r)
           error == ReadUtf(h, 1, MaxUtf8)
<1>7. h = ReaderAt(text, <<code, v, n, w>>)
  <2>1. h = ReaderAt(text, Push(Push(Push(Push(<<>>, code), v), n), w))
    BY <1>2, <1>4, Zenon
  <2> HIDE DEF h
  <2> QED BY <2>1, Pushed
<1> HIDE DEF h
<1>8. error = ReaderAt(<<>>, <<code, v, n, w, message>>)
  <2>1. text \o <<>> = text
    BY <1>1, EmptyFields
  <2>2. error = ReaderAt(<<>>, Push(<<code, v, n, w>>, message))
    BY <1>1, <1>7, <2>1, Zenon
  <2> HIDE DEF error
  <2> QED BY <2>2, Pushed
<1> HIDE DEF error
<1>9. error.got[1] = code /\ error.got[2] = v /\ error.got[3] = n /\ error.got[4] = w /\ error.got[5] = message
  BY <1>8 DEF ReaderAt
<1> DEFINE m == [kind |-> "Error", code |-> error.got[1], session |-> error.got[2],
                 request |-> error.got[3], revision |-> error.got[4], message |-> error.got[5]]
<1>10. ResponseOf(Put(a, t)) = Message(error, error.got[1] \in 1..9, m)
  BY <1>4, EarlyBranches DEF error, h, a
<1>11. m = [kind |-> "Error", code |-> code, session |-> v, request |-> n, revision |-> w, message |-> message]
  BY <1>9, Zenon
<1> HIDE DEF m
<1>12. Message(error, error.got[1] \in 1..9, m) = m
  <2>1. (error.got[1] \in 1..9) = TRUE
    BY <1>9
  <2> QED BY <1>8, <2>1, MessageRead
<1> QED BY <1>6, <1>10, <1>11, <1>12, Zenon DEF head, text

-----------------------------------------------------------------------------
(* Every answer that the service can give *)

Replies ==
  [kind : {"OpenSession"}, session : Ids, epoch : Ids]
  \cup [kind : {"Prediction"}, session : Ids, request : Nat, revision : Nat, candidates : Seq(Seq(Nat))]
  \cup [kind : {"CloseSession"}, session : Ids, closed : BOOLEAN]
  \cup [kind : {"Status"}, epoch : Ids, stopping : BOOLEAN, loaded : BOOLEAN, sessions : Nat, limit : Nat,
        about : {{}} \cup {{v} : v \in Sessions}]
  \cup [kind : {"Shutdown"}, accepted : BOOLEAN]
  \cup [kind : {"RecordCommit"}, event : Ids, stored : BOOLEAN]
  \cup [kind : {"DiscardCommit"}, event : Ids, discarded : BOOLEAN]
  \cup [kind : {"Error"}, code : Nat, session : Ids, request : Nat, revision : Nat, message : Texts]

LEMMA AnswerParts ==
  ASSUME NEW m \in Replies
  PROVE  \/ /\ m.kind = "OpenSession" /\ m.session \in Ids /\ m.epoch \in Ids
            /\ m = [kind |-> "OpenSession", session |-> m.session, epoch |-> m.epoch]
         \/ /\ m.kind = "Prediction" /\ m.session \in Ids /\ m.request \in Nat /\ m.revision \in Nat /\ m.candidates \in Seq(Seq(Nat))
            /\ m = [kind |-> "Prediction", session |-> m.session, request |-> m.request, revision |-> m.revision,
                    candidates |-> m.candidates]
         \/ /\ m.kind = "CloseSession" /\ m.session \in Ids /\ m.closed \in BOOLEAN
            /\ m = [kind |-> "CloseSession", session |-> m.session, closed |-> m.closed]
         \/ /\ m.kind = "Status" /\ m.epoch \in Ids /\ m.stopping \in BOOLEAN /\ m.loaded \in BOOLEAN
            /\ m.sessions \in Nat /\ m.limit \in Nat /\ (m.about = {} \/ \E v \in Sessions : m.about = {v})
            /\ m = [kind |-> "Status", epoch |-> m.epoch, stopping |-> m.stopping, loaded |-> m.loaded,
                    sessions |-> m.sessions, limit |-> m.limit, about |-> m.about]
         \/ m.kind = "Shutdown" /\ m.accepted \in BOOLEAN /\ m = [kind |-> "Shutdown", accepted |-> m.accepted]
         \/ /\ m.kind = "RecordCommit" /\ m.event \in Ids /\ m.stored \in BOOLEAN
            /\ m = [kind |-> "RecordCommit", event |-> m.event, stored |-> m.stored]
         \/ /\ m.kind = "DiscardCommit" /\ m.event \in Ids /\ m.discarded \in BOOLEAN
            /\ m = [kind |-> "DiscardCommit", event |-> m.event, discarded |-> m.discarded]
         \/ /\ m.kind = "Error" /\ m.code \in Nat /\ m.session \in Ids /\ m.request \in Nat /\ m.revision \in Nat /\ m.message \in Texts
            /\ m = [kind |-> "Error", code |-> m.code, session |-> m.session, request |-> m.request, revision |-> m.revision,
                    message |-> m.message]
<1>1. CASE m \in [kind : {"OpenSession"}, session : Ids, epoch : Ids]
  BY <1>1
<1>2. CASE m \in [kind : {"Prediction"}, session : Ids, request : Nat, revision : Nat, candidates : Seq(Seq(Nat))]
  BY <1>2
<1>3. CASE m \in [kind : {"CloseSession"}, session : Ids, closed : BOOLEAN]
  BY <1>3
<1>4. CASE m \in [kind : {"Status"}, epoch : Ids, stopping : BOOLEAN, loaded : BOOLEAN, sessions : Nat, limit : Nat,
                  about : {{}} \cup {{v} : v \in Sessions}]
  BY <1>4
<1>5. CASE m \in [kind : {"Shutdown"}, accepted : BOOLEAN]
  BY <1>5
<1>6. CASE m \in [kind : {"RecordCommit"}, event : Ids, stored : BOOLEAN]
  BY <1>6
<1>7. CASE m \in [kind : {"DiscardCommit"}, event : Ids, discarded : BOOLEAN]
  BY <1>7
<1>8. CASE m \in [kind : {"Error"}, code : Nat, session : Ids, request : Nat, revision : Nat, message : Texts]
  BY <1>8
<1> QED BY <1>1, <1>2, <1>3, <1>4, <1>5, <1>6, <1>7, <1>8 DEF Replies

\* Whatever answer encode() of the service does not refuse, decode() of the engine reads
\* as that answer.
THEOREM ResponseUnderstood ==
  ASSUME NEW m \in Replies, SendableResponse(m)
  PROVE  ResponseFields(m) \in Fields /\ ResponseOf(ResponseFields(m)) = m
<1>1. CASE /\ m.kind = "OpenSession" /\ m.session \in Ids /\ m.epoch \in Ids
           /\ m = [kind |-> "OpenSession", session |-> m.session, epoch |-> m.epoch]
  <2> DEFINE v == m.session
             e == m.epoch
             s == <<<<1, 1>>, <<1, 1>>, <<16, v>>, <<16, e>>>>
  <2>1. v \in Ids /\ e \in Ids /\ m = [kind |-> "OpenSession", session |-> v, epoch |-> e]
    BY <1>1
  <2>2. ResponseFields(m) = s
    BY <1>1 DEF ResponseFields
  <2> HIDE DEF v, e
  <2>3. s \in Fields /\ ResponseOf(s) = [kind |-> "OpenSession", session |-> v, epoch |-> e]
    BY <2>1, OpenedAnswer
  <2> QED BY <2>1, <2>2, <2>3, Zenon
<1>2. CASE /\ m.kind = "Prediction" /\ m.session \in Ids /\ m.request \in Nat /\ m.revision \in Nat /\ m.candidates \in Seq(Seq(Nat))
           /\ m = [kind |-> "Prediction", session |-> m.session, request |-> m.request, revision |-> m.revision,
                   candidates |-> m.candidates]
  <2> DEFINE v == m.session
             n == m.request
             w == m.revision
             candidates == m.candidates
             s == <<<<1, 3>>, <<16, v>>, <<8, n>>, <<8, w>>>>
                    \o ListFields([i \in DOMAIN candidates |-> CandidateFields(candidates[i])])
  <2>1. /\ v \in Ids /\ n \in Nat /\ w \in Nat /\ candidates \in Seq(Seq(Nat))
        /\ m = [kind |-> "Prediction", session |-> v, request |-> n, revision |-> w, candidates |-> candidates]
    BY <1>2
  <2>2. ResponseFields(m) = s
    BY <1>2 DEF ResponseFields
  <2>3. /\ n # 0 /\ Len(candidates) <= MaxRepeated
        /\ \A i \in DOMAIN candidates : /\ Len(candidates[i]) <= MaxRepeated
                                        /\ \A c \in Range(candidates[i]) : c # 0 /\ ValidScalar(c)
    BY <1>2 DEF SendableResponse
  <2> HIDE DEF v, n, w, candidates
  <2>4. \A i \in DOMAIN candidates : SendableCandidate(candidates[i])
    BY <2>3 DEF SendableCandidate, Range
  <2>5. s \in Fields
        /\ ResponseOf(s) = [kind |-> "Prediction", session |-> v, request |-> n, revision |-> w, candidates |-> candidates]
    BY <2>1, <2>3, <2>4, PredictionResponse
  <2> QED BY <2>1, <2>2, <2>5, Zenon
<1>3. CASE /\ m.kind = "CloseSession" /\ m.session \in Ids /\ m.closed \in BOOLEAN
           /\ m = [kind |-> "CloseSession", session |-> m.session, closed |-> m.closed]
  <2> DEFINE v == m.session
             b == m.closed
             s == <<<<1, 4>>, <<1, 1>>, <<16, v>>, Flag(b)>>
  <2>1. v \in Ids /\ b \in BOOLEAN /\ m = [kind |-> "CloseSession", session |-> v, closed |-> b]
    BY <1>3
  <2>2. ResponseFields(m) = s /\ v # Zero
    BY <1>3 DEF ResponseFields, SendableResponse
  <2> HIDE DEF v, b
  <2>3. s \in Fields /\ ResponseOf(s) = [kind |-> "CloseSession", session |-> v, closed |-> b]
    <3>1. 4 \in {4, 8, 9} /\ 4 = 4 /\ (4 # 8 => v # Zero)
      BY <2>2
    <3> QED BY <2>1, <3>1, FlagAnswer, Zenon
  <2> QED BY <2>1, <2>2, <2>3, Zenon
<1>4. CASE /\ m.kind = "Status" /\ m.epoch \in Ids /\ m.stopping \in BOOLEAN /\ m.loaded \in BOOLEAN
           /\ m.sessions \in Nat /\ m.limit \in Nat /\ (m.about = {} \/ \E v \in Sessions : m.about = {v})
           /\ m = [kind |-> "Status", epoch |-> m.epoch, stopping |-> m.stopping, loaded |-> m.loaded,
                   sessions |-> m.sessions, limit |-> m.limit, about |-> m.about]
  <2> DEFINE epoch == m.epoch
             stopping == m.stopping
             loaded == m.loaded
             sessions == m.sessions
             limit == m.limit
             about == m.about
             s == <<<<1, 5>>, <<1, 1>>, <<16, epoch>>, Flag(stopping), Flag(loaded),
                    <<4, sessions>>, <<4, limit>>, Flag(about # {})>>
                    \o FlattenSeq(SetToSeq({SessionFields(v) : v \in about}))
  <2>1. /\ epoch \in Ids /\ stopping \in BOOLEAN /\ loaded \in BOOLEAN /\ sessions \in Nat /\ limit \in Nat
        /\ about = {} \/ \E v \in Sessions : about = {v}
        /\ m = [kind |-> "Status", epoch |-> epoch, stopping |-> stopping, loaded |-> loaded,
                sessions |-> sessions, limit |-> limit, about |-> about]
    BY <1>4
  <2>2. ResponseFields(m) = s
    BY <1>4 DEF ResponseFields
  <2> HIDE DEF epoch, stopping, loaded, sessions, limit, about
  <2>3. s \in Fields
        /\ ResponseOf(s) = [kind |-> "Status", epoch |-> epoch, stopping |-> stopping, loaded |-> loaded,
                            sessions |-> sessions, limit |-> limit, about |-> about]
    BY <2>1, StatusAnswer
  <2> QED BY <2>1, <2>2, <2>3, Zenon
<1>5. CASE m.kind = "Shutdown" /\ m.accepted \in BOOLEAN /\ m = [kind |-> "Shutdown", accepted |-> m.accepted]
  <2> DEFINE b == m.accepted
             s == <<<<1, 6>>, <<1, 1>>, Flag(b)>>
  <2>1. b \in BOOLEAN /\ m = [kind |-> "Shutdown", accepted |-> b]
    BY <1>5
  <2>2. ResponseFields(m) = s
    BY <1>5 DEF ResponseFields
  <2> HIDE DEF b
  <2>3. s \in Fields /\ ResponseOf(s) = [kind |-> "Shutdown", accepted |-> b]
    BY <2>1, ShutdownAnswer
  <2> QED BY <2>1, <2>2, <2>3, Zenon
<1>6. CASE /\ m.kind = "RecordCommit" /\ m.event \in Ids /\ m.stored \in BOOLEAN
           /\ m = [kind |-> "RecordCommit", event |-> m.event, stored |-> m.stored]
  <2> DEFINE v == m.event
             b == m.stored
             s == <<<<1, 8>>, <<1, 1>>, <<16, v>>, Flag(b)>>
  <2>1. v \in Ids /\ b \in BOOLEAN /\ m = [kind |-> "RecordCommit", event |-> v, stored |-> b]
    BY <1>6
  <2>2. ResponseFields(m) = s
    BY <1>6 DEF ResponseFields
  <2> HIDE DEF v, b
  <2>3. s \in Fields /\ ResponseOf(s) = [kind |-> "RecordCommit", event |-> v, stored |-> b]
    <3>1. 8 \in {4, 8, 9} /\ 8 = 8 /\ (8 # 8 => v # Zero)
      OBVIOUS
    <3> QED BY <2>1, <3>1, FlagAnswer, Zenon
  <2> QED BY <2>1, <2>2, <2>3, Zenon
<1>7. CASE /\ m.kind = "DiscardCommit" /\ m.event \in Ids /\ m.discarded \in BOOLEAN
           /\ m = [kind |-> "DiscardCommit", event |-> m.event, discarded |-> m.discarded]
  <2> DEFINE v == m.event
             b == m.discarded
             s == <<<<1, 9>>, <<1, 1>>, <<16, v>>, Flag(b)>>
  <2>1. v \in Ids /\ b \in BOOLEAN /\ m = [kind |-> "DiscardCommit", event |-> v, discarded |-> b]
    BY <1>7
  <2>2. ResponseFields(m) = s /\ v # Zero
    BY <1>7 DEF ResponseFields, SendableResponse
  <2> HIDE DEF v, b
  <2>3. s \in Fields /\ ResponseOf(s) = [kind |-> "DiscardCommit", event |-> v, discarded |-> b]
    <3>1. 9 \in {4, 8, 9} /\ 9 = 9 /\ (9 # 8 => v # Zero)
      BY <2>2
    <3> QED BY <2>1, <3>1, FlagAnswer, Zenon
  <2> QED BY <2>1, <2>2, <2>3, Zenon
<1>8. CASE /\ m.kind = "Error" /\ m.code \in Nat /\ m.session \in Ids /\ m.request \in Nat /\ m.revision \in Nat /\ m.message \in Texts
           /\ m = [kind |-> "Error", code |-> m.code, session |-> m.session, request |-> m.request, revision |-> m.revision,
                   message |-> m.message]
  <2> DEFINE code == m.code
             v == m.session
             n == m.request
             w == m.revision
             message == m.message
             s == <<<<1, 7>>, <<1, code>>, <<16, v>>, <<8, n>>, <<8, w>>>> \o TextFields(message, 1)
  <2>1. /\ v \in Ids /\ n \in Nat /\ w \in Nat /\ message \in Texts
        /\ m = [kind |-> "Error", code |-> code, session |-> v, request |-> n, revision |-> w, message |-> message]
    BY <1>8
  <2>2. ResponseFields(m) = s
    BY <1>8 DEF ResponseFields
  <2>3. code \in 1..9 /\ Sendable(message, MaxUtf8)
    BY <1>8 DEF SendableResponse
  <2> HIDE DEF code, v, n, w, message
  <2>4. s \in Fields
        /\ ResponseOf(s) = [kind |-> "Error", code |-> code, session |-> v, request |-> n, revision |-> w, message |-> message]
    BY <2>1, <2>3, ErrorResponse
  <2> QED BY <2>1, <2>2, <2>4, Zenon
<1> QED BY <1>1, <1>2, <1>3, <1>4, <1>5, <1>6, <1>7, <1>8, AnswerParts

LEMMA ErrorsAreAnswers ==
  ASSUME NEW codes, codes \subseteq 1..9, NEW session \in Ids, NEW number \in Nat, NEW revision \in Nat,
         NEW a \in ErrorsWith(codes, session, number, revision)
  PROVE  a \in Replies /\ a.kind = "Error"
<1>1. PICK c \in codes, t \in ErrorTexts :
        a = [kind |-> "Error", code |-> c, session |-> session, request |-> number, revision |-> revision, message |-> t]
  BY DEF ErrorsWith
<1>2. c \in Nat /\ t \in Texts
  BY WireAssumption
<1>3. a \in [kind : {"Error"}, code : Nat, session : Ids, request : Nat, revision : Nat, message : Texts]
  BY <1>1, <1>2
<1> QED BY <1>1, <1>3 DEF Replies

\* What the service answers is an answer to the request.
LEMMA AnswersToRequests ==
  ASSUME NEW m \in AllRequests, NEW a \in AnswersTo(m)
  PROVE  a \in Replies /\ (request = m => Correlates(a))
<1> DEFINE Done == a \in Replies /\ (request = m => Correlates(a))
<1>1. ASSUME NEW codes, codes \subseteq 1..9, NEW session \in Ids, NEW number \in Nat, NEW revision \in Nat,
             a \in ErrorsWith(codes, session, number, revision)
      PROVE  Done
  BY <1>1, ErrorsAreAnswers DEF Correlates
<1>2. Zero \in Ids /\ 0 \in Nat
  BY WireAssumption
<1>3. CASE m.kind = "OpenSession"
  <2>1. a \in [kind : {"OpenSession"}, session : Ids \ {Zero}, epoch : Ids \ {Zero}] \cup ErrorsWith({7, 9}, Zero, 0, 0)
    BY <1>3 DEF AnswersTo
  <2>2. CASE a \in [kind : {"OpenSession"}, session : Ids \ {Zero}, epoch : Ids \ {Zero}]
    <3>1. a.kind = "OpenSession" /\ a \in [kind : {"OpenSession"}, session : Ids, epoch : Ids]
      BY <2>2
    <3> QED BY <1>3, <3>1 DEF Replies, Correlates
  <2>3. {7, 9} \subseteq 1..9
    OBVIOUS
  <2> HIDE DEF Done
  <2> QED BY <1>1, <1>2, <2>1, <2>2, <2>3 DEF Done
<1>4. CASE m.kind = "Predict"
  <2>1. /\ m.session \in Ids /\ m.request \in Nat /\ m.revision \in Nat
    BY <1>4, RequestParts
  <2>2. a \in {[kind |-> "Prediction", session |-> m.session, request |-> m.request, revision |-> m.revision, candidates |-> c]
                 : c \in CandidateLists} \cup ErrorsWith({1, 3, 4, 5, 6, 7, 8, 9}, m.session, m.request, m.revision)
    BY <1>4 DEF AnswersTo
  <2>3. ASSUME NEW c \in CandidateLists,
               a = [kind |-> "Prediction", session |-> m.session, request |-> m.request, revision |-> m.revision, candidates |-> c]
        PROVE  Done
    <3>1. a \in [kind : {"Prediction"}, session : Ids, request : Nat, revision : Nat, candidates : Seq(Seq(Nat))]
      BY <2>1, <2>3, WireAssumption
    <3>2. a.kind = "Prediction" /\ a.session = m.session /\ a.request = m.request /\ a.revision = m.revision
      BY <2>3
    <3> QED BY <1>4, <3>1, <3>2 DEF Replies, Correlates
  <2>4. {1, 3, 4, 5, 6, 7, 8, 9} \subseteq 1..9
    OBVIOUS
  <2> HIDE DEF Done
  <2> QED BY <1>1, <2>1, <2>2, <2>3, <2>4 DEF Done
<1>5. CASE m.kind = "CloseSession"
  <2>1. m.session \in Ids
    BY <1>5, RequestParts
  <2>2. a \in {[kind |-> "CloseSession", session |-> m.session, closed |-> TRUE]} \cup ErrorsWith({1, 4, 9}, m.session, 0, 0)
    BY <1>5 DEF AnswersTo
  <2>3. CASE a = [kind |-> "CloseSession", session |-> m.session, closed |-> TRUE]
    <3>1. a \in [kind : {"CloseSession"}, session : Ids, closed : BOOLEAN]
      BY <2>1, <2>3
    <3>2. a.kind = "CloseSession" /\ a.session = m.session
      BY <2>3
    <3> QED BY <1>5, <3>1, <3>2 DEF Replies, Correlates
  <2>4. {1, 4, 9} \subseteq 1..9
    OBVIOUS
  <2> HIDE DEF Done
  <2> QED BY <1>1, <1>2, <2>1, <2>2, <2>3, <2>4 DEF Done
<1>6. CASE m.kind = "Status"
  <2>1. m.about = {} \/ \E s \in Ids : m.about = {s}
    BY <1>6, RequestParts
  <2> DEFINE described == IF m.about = {} THEN {{}} ELSE UNION {{{t} : t \in SessionStates(s)} : s \in m.about}
  <2>2. a \in [kind : {"Status"}, epoch : Ids \ {Zero}, stopping : BOOLEAN, loaded : BOOLEAN, sessions : {0, 1}, limit : {8},
               about : described] \cup UNION {ErrorsWith({1, 4}, s, 0, 0) : s \in m.about}
    BY <1>6 DEF AnswersTo
  <2>3. described \subseteq {{}} \cup {{v} : v \in Sessions}
    <3>1. ASSUME NEW s \in Ids, NEW t \in SessionStates(s) PROVE t \in Sessions
      BY DEF SessionStates, Sessions
    <3>2. CASE m.about = {}
      BY <3>2
    <3>3. CASE \E s \in Ids : m.about = {s}
      BY <3>1, <3>3
    <3> QED BY <2>1, <3>2, <3>3
  <2> HIDE DEF described
  <2>4. CASE a \in [kind : {"Status"}, epoch : Ids \ {Zero}, stopping : BOOLEAN, loaded : BOOLEAN, sessions : {0, 1}, limit : {8},
                    about : described]
    <3>1. a \in [kind : {"Status"}, epoch : Ids, stopping : BOOLEAN, loaded : BOOLEAN, sessions : Nat, limit : Nat,
                 about : {{}} \cup {{v} : v \in Sessions}]
      BY <2>3, <2>4
    <3>2. a.kind = "Status"
      BY <2>4
    <3> QED BY <1>6, <3>1, <3>2 DEF Replies, Correlates
  <2>5. ASSUME NEW s \in m.about, a \in ErrorsWith({1, 4}, s, 0, 0) PROVE Done
    <3>1. s \in Ids /\ {1, 4} \subseteq 1..9
      BY <2>1
    <3> HIDE DEF Done
    <3> QED BY <1>1, <1>2, <2>5, <3>1
  <2> HIDE DEF Done
  <2> QED BY <2>2, <2>4, <2>5 DEF Done
<1>7. CASE m.kind = "Shutdown"
  <2>1. a = [kind |-> "Shutdown", accepted |-> TRUE]
    BY <1>7 DEF AnswersTo
  <2>2. a \in [kind : {"Shutdown"}, accepted : BOOLEAN] /\ a.kind = "Shutdown"
    BY <2>1
  <2> QED BY <1>7, <2>2 DEF Replies, Correlates
<1>8. CASE m.kind = "RecordCommit"
  <2>1. m.event \in Ids
    BY <1>8, RequestParts
  <2>2. a \in [kind : {"RecordCommit"}, event : {m.event}, stored : BOOLEAN] \cup ErrorsWith({2, 9}, Zero, 0, 0)
    BY <1>8 DEF AnswersTo
  <2>3. CASE a \in [kind : {"RecordCommit"}, event : {m.event}, stored : BOOLEAN]
    <3>1. a \in [kind : {"RecordCommit"}, event : Ids, stored : BOOLEAN] /\ a.kind = "RecordCommit" /\ a.event = m.event
      BY <2>1, <2>3
    <3> QED BY <1>8, <3>1 DEF Replies, Correlates
  <2>4. {2, 9} \subseteq 1..9
    OBVIOUS
  <2> HIDE DEF Done
  <2> QED BY <1>1, <1>2, <2>2, <2>3, <2>4 DEF Done
<1>9. CASE m.kind = "DiscardCommit"
  <2>1. m.event \in Ids
    BY <1>9, RequestParts
  <2>2. a \in [kind : {"DiscardCommit"}, event : {m.event}, discarded : BOOLEAN] \cup ErrorsWith({2, 9}, Zero, 0, 0)
    BY <1>9 DEF AnswersTo
  <2>3. CASE a \in [kind : {"DiscardCommit"}, event : {m.event}, discarded : BOOLEAN]
    <3>1. a \in [kind : {"DiscardCommit"}, event : Ids, discarded : BOOLEAN] /\ a.kind = "DiscardCommit" /\ a.event = m.event
      BY <2>1, <2>3
    <3> QED BY <1>9, <3>1 DEF Replies, Correlates
  <2>4. {2, 9} \subseteq 1..9
    OBVIOUS
  <2> HIDE DEF Done
  <2> QED BY <1>1, <1>2, <2>2, <2>3, <2>4 DEF Done
<1> HIDE DEF Done
<1>10. m.kind \in {"OpenSession", "Shutdown", "Predict", "CloseSession", "Status", "RecordCommit", "DiscardCommit"}
  BY RequestParts
<1> QED BY <1>3, <1>4, <1>5, <1>6, <1>7, <1>8, <1>9, <1>10 DEF Done

-----------------------------------------------------------------------------
(* Frames *)

\* A part from the front of a sequence of fields has fewer bytes.
LEMMA FrontBytes ==
  ASSUME NEW f \in Fields, NEW n \in 0..Len(f)
  PROVE  /\ SubSeq(f, 1, n) \in Fields
         /\ Bytes(SubSeq(f, 1, n)) \in Nat /\ Bytes(f) \in Nat
         /\ Bytes(SubSeq(f, 1, n)) <= Bytes(f)
         /\ n < Len(f) => Bytes(SubSeq(f, 1, n)) < Bytes(f)
<1> DEFINE front == SubSeq(f, 1, n)
           rest == SubSeq(f, n + 1, Len(f))
<1>1. f \in Seq(Field)
  BY DEF Fields
<1>2. front \in Fields /\ rest \in Fields /\ Len(rest) = Len(f) - n
  BY <1>1, SubSeqProperties DEF Fields
<1>3. f = front \o rest
  <2>1. 1 \in 1..Len(f) + 1 /\ n \in 1 - 1 .. Len(f) /\ Len(f) \in n..Len(f)
    BY <1>1
  <2>2. SubSeq(f, 1, n) \o SubSeq(f, n + 1, Len(f)) = SubSeq(f, 1, Len(f))
    BY <1>1, <2>1, ConcatAdjacentSubSeq
  <2>3. SubSeq(f, 1, Len(f)) = f
    BY <1>1, SubSeqFull
  <2> QED BY <2>2, <2>3
<1> HIDE DEF front, rest
<1>4. Bytes(f) = Bytes(front) + Bytes(rest) /\ Bytes(front) \in Nat /\ Bytes(rest) \in Nat
  BY <1>2, <1>3, BytesConcat, BytesNat
<1>5. ASSUME n < Len(f) PROVE Bytes(rest) > 0
  <2>1. rest # <<>>
    BY <1>1, <1>2, <1>5
  <2>2. rest[1] \in Field /\ Tail(rest) \in Fields /\ rest = Put(rest[1], Tail(rest))
    BY <1>2, <2>1, FirstField
  <2> DEFINE x == rest[1]
             t == Tail(rest)
  <2> HIDE DEF x, t
  <2>3. Bytes(Put(x, t)) = x[1] + Bytes(t) /\ Bytes(t) \in Nat /\ x[1] \in Nat \ {0}
    BY <2>2, PutFields, BytesNat, FieldWidth DEF x, t
  <2>4. Bytes(rest) = Bytes(Put(x, t))
    BY <2>2 DEF x, t
  <2> QED BY <2>3, <2>4
<1>6. Bytes(front) <= Bytes(f) /\ (n < Len(f) => Bytes(front) < Bytes(f)) /\ Bytes(f) \in Nat
  BY <1>4, <1>5
<1> QED BY <1>2, <1>4, <1>6 DEF front

\* No field is wider than the bytes of all.
LEMMA WidthInBytes ==
  ASSUME NEW f \in Fields, NEW i \in 1..Len(f)
  PROVE  f[i][1] \in 1..Bytes(f)
<1> DEFINE front == SubSeq(f, 1, i)
           less == SubSeq(f, 1, i - 1)
<1>1. f \in Seq(Field) /\ f[i] \in Field
  BY DEF Fields
<1>2. front = Append(less, f[i])
  BY <1>1, SubSeqRecursiveSecond
<1>3. /\ front \in Fields /\ Bytes(front) <= Bytes(f) /\ Bytes(front) \in Nat /\ Bytes(f) \in Nat
      /\ less \in Fields /\ Bytes(less) \in Nat
  <2>1. i \in 0..Len(f) /\ i - 1 \in 0..Len(f)
    BY <1>1
  <2> QED BY <2>1, FrontBytes
<1> DEFINE x == f[i]
<1> HIDE DEF front, less, x
<1>4. Bytes(Append(less, x)) = Bytes(less) + x[1] /\ x[1] \in Nat \ {0}
  BY <1>1, <1>3, BytesAppend, FieldWidth DEF x
<1>5. x[1] \in 1..Bytes(f)
  <2>1. Bytes(front) = Bytes(less) + x[1] /\ x[1] \in Nat \ {0}
    BY <1>2, <1>4 DEF x
  <2> QED BY <1>3, <2>1
<1> QED BY <1>5 DEF x

LEMMA FrameParts ==
  ASSUME NEW f \in Fields
  PROVE  /\ Frame(f) \in Fields /\ Len(Frame(f)) = Len(f) + 1
         /\ Frame(f)[1] = <<4, Bytes(f)>> /\ Tail(Frame(f)) = f
         /\ \A i \in 0..Len(f) : SubSeq(Frame(f), 2, i + 1) = SubSeq(f, 1, i)
         /\ \A i \in 1..Len(f) : Frame(f)[i + 1] = f[i]
<1> DEFINE x == <<4, Bytes(f)>>
           s == <<x>> \o f
<1>1. f \in Seq(Field) /\ x \in Field
  <2>1. Bytes(f) \in Values /\ 4 \in Nat \ {0}
    BY BytesNat DEF Values
  <2> QED BY <2>1 DEF Fields, Field
<1> HIDE DEF x
<1>2. s \in Seq(Field) /\ Len(s) = Len(f) + 1 /\ s[1] = x /\ \A i \in 1..Len(f) : s[i + 1] = f[i]
  BY <1>1
<1>3. s = Frame(f)
  BY DEF Frame, x
<1> HIDE DEF s
<1>4. s # <<>>
  BY <1>1, <1>2
<1>5. Tail(s) \in Seq(Field) /\ Len(Tail(s)) = Len(f) /\ \A i \in 1..Len(f) : Tail(s)[i] = f[i]
  BY <1>1, <1>2, <1>4, HeadTailProperties
<1>6. Tail(s) = f
  BY <1>1, <1>5, SeqEqual
<1>7. ASSUME NEW i \in 0..Len(f) PROVE SubSeq(s, 2, i + 1) = SubSeq(f, 1, i)
  <2> DEFINE p == SubSeq(s, 2, i + 1)
             q == SubSeq(f, 1, i)
  <2>1. p \in Seq(Field) /\ Len(p) = i /\ \A j \in 1..i : p[j] = s[j + 1]
    BY <1>1, <1>2, SubSeqProperties
  <2>2. q \in Seq(Field) /\ Len(q) = i /\ \A j \in 1..i : q[j] = f[j]
    BY <1>1, SubSeqProperties
  <2>3. \A j \in 1..i : s[j + 1] = f[j]
    BY <1>1, <1>2
  <2> HIDE DEF p, q
  <2>4. p = q
    BY <2>1, <2>2, <2>3, SeqEqual
  <2> QED BY <2>4 DEF p, q
<1> QED BY <1>2, <1>3, <1>6, <1>7 DEF Fields, x

\* What is on the way is a part from the front of a frame.
PartOf(stream, f) == \E n \in 0..Len(Frame(f)) : stream = SubSeq(Frame(f), 1, n)

LEMMA WholeFrame ==
  ASSUME NEW f \in Fields
  PROVE  /\ PartOf(Frame(f), f) /\ PartOf(<<>>, f)
         /\ Payload(Frame(f)) = f /\ Unread(Frame(f)) = <<>>
<1> DEFINE s == Frame(f)
<1>1. /\ s \in Seq(Field) /\ Len(f) \in Nat /\ Len(s) = Len(f) + 1 /\ s[1] = <<4, Bytes(f)>> /\ s[1][2] = Bytes(f)
      /\ \A i \in 0..Len(f) : SubSeq(s, 2, i + 1) = SubSeq(f, 1, i)
  BY FrameParts DEF Fields
<1> HIDE DEF s
<1>2. SubSeq(s, 1, Len(s)) = s /\ SubSeq(s, 1, 0) = <<>>
  BY <1>1
<1>3. PartOf(s, f) /\ PartOf(<<>>, f)
  BY <1>1, <1>2 DEF PartOf, s
<1>4. SubSeq(f, 1, Len(f)) = f
  BY DEF Fields
<1> DEFINE Ends(n) == /\ Bytes(SubSeq(s, 2, n + 1)) <= s[1][2]
                      /\ n < Len(s) - 1 => Bytes(SubSeq(s, 2, n + 2)) > s[1][2]
<1>5. Ends(Len(f))
  <2>1. SubSeq(s, 2, Len(f) + 1) = f
    <3>1. Len(f) \in 0..Len(f)
      BY <1>1
    <3> QED BY <1>1, <1>4, <3>1
  <2>2. Bytes(f) \in Nat /\ ~(Len(f) < Len(s) - 1)
    BY <1>1, BytesNat
  <2>3. Bytes(SubSeq(s, 2, Len(f) + 1)) <= s[1][2]
    <3> DEFINE b == Bytes(SubSeq(s, 2, Len(f) + 1))
               c == s[1][2]
    <3>1. b = c /\ c \in Nat
      BY <1>1, <2>1, <2>2
    <3> HIDE DEF b, c
    <3>2. b <= c
      BY <3>1
    <3> QED BY <3>2 DEF b, c
  <2> QED BY <2>2, <2>3
<1>6. ASSUME NEW n \in 0..Len(f), n # Len(f) PROVE ~Ends(n)
  <2>1. n + 1 \in 0..Len(f) /\ n < Len(s) - 1 /\ (n + 1) + 1 = n + 2
    BY <1>1, <1>6
  <2>2. SubSeq(s, 2, n + 2) = SubSeq(f, 1, n + 1)
    BY <1>1, <2>1
  <2>3. Bytes(SubSeq(f, 1, n + 1)) <= Bytes(f) /\ Bytes(SubSeq(f, 1, n + 1)) \in Nat /\ Bytes(f) \in Nat
    BY <2>1, FrontBytes
  <2>4. n + 1 <= Len(f) /\ n + 1 \in Nat
    BY <1>1, <2>1
  <2>5. Bytes(SubSeq(s, 2, n + 2)) <= s[1][2]
    BY <1>1, <2>2, <2>3
  <2>6. ~(Bytes(SubSeq(s, 2, n + 2)) > s[1][2])
    <3> DEFINE b == Bytes(SubSeq(s, 2, n + 2))
               c == s[1][2]
    <3>1. b \in Nat /\ c \in Nat /\ b <= c
      BY <1>1, <2>2, <2>3, <2>5
    <3> HIDE DEF b, c
    <3>2. ~(b > c)
      BY <3>1
    <3> QED BY <3>2 DEF b, c
  <2> QED BY <2>1, <2>6
<1> HIDE DEF Ends
<1>7. FieldsIn(s) = Len(f)
  <2>1. FieldsIn(s) = CHOOSE n \in 0..(Len(s) - 1) : Ends(n)
    BY DEF FieldsIn, Ends
  <2>2. Len(s) - 1 = Len(f) /\ Len(f) \in 0..Len(f)
    BY <1>1
  <2> QED BY <1>5, <1>6, <2>1, <2>2
<1>8. Payload(s) = f
  <2>1. Len(f) \in 0..Len(f)
    BY <1>1
  <2> QED BY <1>1, <1>4, <1>7, <2>1 DEF Payload
<1>9. Unread(s) = <<>>
  BY <1>1, <1>7 DEF Unread
<1> QED BY <1>3, <1>8, <1>9 DEF s

\* Of a frame that is cut off anywhere, recv_frame() and Connection::run() read nothing:
\* what counts as a whole frame is one.
THEOREM OnlyWhole ==
  ASSUME NEW f \in Fields, NEW stream, PartOf(stream, f), FrameIsIn(stream)
  PROVE  stream = Frame(f)
<1> DEFINE s == Frame(f)
<1>1. /\ s \in Seq(Field) /\ Len(f) \in Nat /\ Len(s) = Len(f) + 1 /\ s[1] = <<4, Bytes(f)>> /\ s[1][2] = Bytes(f)
      /\ \A i \in 0..Len(f) : SubSeq(s, 2, i + 1) = SubSeq(f, 1, i)
  BY FrameParts DEF Fields
<1>2. PICK n \in 0..Len(s) : stream = SubSeq(s, 1, n)
  BY DEF PartOf
<1> HIDE DEF s
<1>3. n # 0
  <2>1. SubSeq(s, 1, 0) = <<>>
    BY <1>1
  <2> QED BY <1>2, <2>1 DEF FrameIsIn
<1>4. n - 1 \in 0..Len(f) /\ (n - 1) + 1 = n
  BY <1>1, <1>3
<1>5. stream[1] = s[1] /\ Tail(stream) = SubSeq(s, 2, n)
  BY <1>1, <1>2, <1>3
<1>6. Tail(stream) = SubSeq(f, 1, n - 1)
  BY <1>1, <1>4, <1>5
<1>7. Bytes(SubSeq(f, 1, n - 1)) >= Bytes(f)
  BY <1>1, <1>5, <1>6 DEF FrameIsIn
<1>8. n - 1 = Len(f)
  <2>1. /\ Bytes(SubSeq(f, 1, n - 1)) \in Nat /\ Bytes(f) \in Nat
        /\ n - 1 < Len(f) => Bytes(SubSeq(f, 1, n - 1)) < Bytes(f)
    BY <1>4, FrontBytes
  <2> QED BY <1>1, <1>4, <1>7, <2>1
<1>9. n = Len(s)
  BY <1>1, <1>8
<1>10. SubSeq(s, 1, Len(s)) = s
  BY <1>1
<1> QED BY <1>2, <1>9, <1>10 DEF s

\* What is left of a part is a part.
LEMMA CutAgain ==
  ASSUME NEW f \in Fields, NEW stream, PartOf(stream, f), NEW k \in 0..Len(stream)
  PROVE  PartOf(SubSeq(stream, 1, k), f)
<1> DEFINE s == Frame(f)
<1>1. s \in Seq(Field)
  BY FrameParts DEF Fields
<1>2. PICK n \in 0..Len(s) : stream = SubSeq(s, 1, n)
  BY DEF PartOf
<1> HIDE DEF s
<1>3. Len(stream) = n /\ k \in 0..n /\ k \in 0..Len(s)
  BY <1>1, <1>2
<1>4. SubSeq(SubSeq(s, 1, n), 1, k) = SubSeq(s, 1, k)
  <2> DEFINE p == SubSeq(s, 1, n)
             q == SubSeq(p, 1, k)
             r == SubSeq(s, 1, k)
  <2>1. p \in Seq(Field) /\ Len(p) = n /\ \A j \in 1..n : p[j] = s[j]
    BY <1>1, SubSeqProperties
  <2> HIDE DEF p
  <2>2. q \in Seq(Field) /\ Len(q) = k /\ \A j \in 1..k : q[j] = p[j]
    BY <1>3, <2>1, SubSeqProperties
  <2>3. r \in Seq(Field) /\ Len(r) = k /\ \A j \in 1..k : r[j] = s[j]
    BY <1>1, <1>3, SubSeqProperties
  <2>4. \A j \in 1..k : p[j] = s[j]
    BY <1>3, <2>1
  <2> HIDE DEF q, r
  <2>5. q = r
    BY <2>2, <2>3, <2>4, SeqEqual
  <2> QED BY <2>5 DEF p, q, r
<1>5. SubSeq(stream, 1, k) = SubSeq(s, 1, k)
  BY <1>2, <1>4
<1> QED BY <1>3, <1>5 DEF PartOf, s

-----------------------------------------------------------------------------
(* The exchange *)

Stages ==
  /\ stage \in {"idle", "asked", "over"} /\ connection \in {"open", "broken", "closed"}
  /\ request \in Requests \cup {Nothing}

NothingYet ==
  stage = "idle" => /\ toService = <<>> /\ toEngine = <<>> /\ connection = "open"
                    /\ dispatched = Nothing /\ answer = Nothing /\ given = Nothing

RequestOnTheWay ==
  toService # <<>> => /\ request \in Requests /\ SendableRequest(request)
                      /\ PartOf(toService, RequestFields(request))

AnswerToRequest ==
  answer # Nothing => request \in Requests /\ dispatched = request /\ answer \in AnswersTo(request)

AnswerOnTheWay ==
  toEngine # <<>> => /\ answer # Nothing /\ SendableResponse(answer)
                     /\ PartOf(toEngine, ResponseFields(answer))

ClosedForCause ==
  connection = "closed" => \/ ~SendableRequest(request)
                           \/ answer # Nothing /\ ~SendableResponse(answer)

WireInv ==
  /\ Stages /\ NothingYet /\ RequestOnTheWay /\ AnswerToRequest /\ AnswerOnTheWay /\ ClosedForCause
  /\ FramesAreUnderstood

LEMMA NoRequestIsNothing ==
  ASSUME NEW m \in AllRequests
  PROVE  m \notin {Nothing, Undecodable}
<1>1. m.kind \in {"OpenSession", "Shutdown", "Predict", "CloseSession", "Status", "RecordCommit", "DiscardCommit"}
  BY RequestParts
<1>2. Nothing.kind = "none" /\ Undecodable.kind = "undecodable"
  BY DEF Nothing, Undecodable
<1> QED BY <1>1, <1>2

LEMMA NoAnswerIsNothing ==
  ASSUME NEW a \in Replies
  PROVE  a \notin {Nothing, Undecodable, Failure}
<1>1. a.kind \in {"OpenSession", "Prediction", "CloseSession", "Status", "Shutdown", "RecordCommit", "DiscardCommit", "Error"}
  BY AnswerParts
<1>2. Nothing.kind = "none" /\ Undecodable.kind = "undecodable" /\ Failure.kind = "failure"
  BY DEF Nothing, Undecodable, Failure
<1> QED BY <1>1, <1>2

\* What the invariant says of a request, and of an answer that has been sent.
LEMMA AnswerKnown ==
  ASSUME WireInv, answer # Nothing
  PROVE  /\ request \in AllRequests /\ answer \in Replies /\ Correlates(answer)
         /\ answer # Undecodable /\ answer # Failure
<1>1. request \in Requests /\ answer \in AnswersTo(request)
  BY DEF WireInv, AnswerToRequest
<1>2. request \in AllRequests
  BY <1>1, WireAssumption
<1>3. answer \in Replies /\ Correlates(answer)
  BY <1>1, <1>2, AnswersToRequests
<1> QED BY <1>2, <1>3, NoAnswerIsNothing

\* A whole frame is read as what was sent.
LEMMA RequestArrives ==
  ASSUME WireInv, FrameIsIn(toService)
  PROVE  /\ request \in Requests /\ RequestOf(Payload(toService)) = request
         /\ Unread(toService) = <<>>
<1>1. toService # <<>>
  BY DEF FrameIsIn
<1>2. request \in Requests /\ SendableRequest(request) /\ PartOf(toService, RequestFields(request))
  BY <1>1 DEF WireInv, RequestOnTheWay
<1>3. request \in AllRequests
  BY <1>2, WireAssumption
<1>4. RequestFields(request) \in Fields /\ RequestOf(RequestFields(request)) = request
  BY <1>2, <1>3, RequestUnderstood
<1>5. toService = Frame(RequestFields(request))
  BY <1>2, <1>4, OnlyWhole
<1>6. Payload(toService) = RequestFields(request) /\ Unread(toService) = <<>>
  BY <1>4, <1>5, WholeFrame
<1> QED BY <1>2, <1>4, <1>6

LEMMA AnswerArrives ==
  ASSUME WireInv, FrameIsIn(toEngine)
  PROVE  /\ answer # Nothing /\ ResponseOf(Payload(toEngine)) = answer
         /\ Unread(toEngine) = <<>>
<1>1. toEngine # <<>>
  BY DEF FrameIsIn
<1>2. answer # Nothing /\ SendableResponse(answer) /\ PartOf(toEngine, ResponseFields(answer))
  BY <1>1 DEF WireInv, AnswerOnTheWay
<1>3. answer \in Replies
  BY <1>2, AnswerKnown
<1>4. ResponseFields(answer) \in Fields /\ ResponseOf(ResponseFields(answer)) = answer
  BY <1>2, <1>3, ResponseUnderstood
<1>5. toEngine = Frame(ResponseFields(answer))
  BY <1>2, <1>4, OnlyWhole
<1>6. Payload(toEngine) = ResponseFields(answer) /\ Unread(toEngine) = <<>>
  BY <1>4, <1>5, WholeFrame
<1> QED BY <1>2, <1>4, <1>6

LEMMA WireInvInit == WireInit => WireInv
<1>1. Nothing # Failure
  BY DEF Nothing, Failure
<1> QED BY <1>1 DEF WireInit, WireInv, Stages, NothingYet, RequestOnTheWay, AnswerToRequest, AnswerOnTheWay, ClosedForCause,
       FramesAreUnderstood

LEMMA AskKeeps ==
  ASSUME WireInv, NEW m \in Requests, Ask(m)
  PROVE  WireInv'
<1>1. /\ request' = m /\ toEngine' = <<>> /\ dispatched' = Nothing /\ answer' = Nothing
      /\ toService = <<>> /\ connection = "open" /\ given = Nothing
  BY DEF WireInv, NothingYet, Ask
<1>2. m \in AllRequests
  BY WireAssumption
<1>3. CASE SendableRequest(m)
  <2>1. stage' = "asked" /\ toService' = Frame(RequestFields(m)) /\ connection' = "open" /\ given' = Nothing
    BY <1>1, <1>3 DEF Ask
  <2>2. PartOf(toService', RequestFields(m))
    <3>1. RequestFields(m) \in Fields
      BY <1>2, <1>3, RequestUnderstood
    <3> QED BY <2>1, <3>1, WholeFrame
  <2>3. Nothing # Failure
    BY DEF Nothing, Failure
  <2> QED BY <1>1, <1>3, <2>1, <2>2, <2>3 DEF WireInv, Stages, NothingYet, RequestOnTheWay, AnswerToRequest, AnswerOnTheWay,
         ClosedForCause, FramesAreUnderstood
<1>4. CASE ~SendableRequest(m)
  <2>1. stage' = "over" /\ toService' = <<>> /\ connection' = "closed" /\ given' = Failure
    BY <1>1, <1>4 DEF Ask
  <2> QED BY <1>1, <1>4, <2>1 DEF WireInv, Stages, NothingYet, RequestOnTheWay, AnswerToRequest, AnswerOnTheWay,
         ClosedForCause, FramesAreUnderstood
<1> QED BY <1>3, <1>4

LEMMA BreakKeeps ==
  ASSUME WireInv, Break
  PROVE  WireInv'
<1>1. /\ stage = "asked" /\ connection' = "broken"
      /\ UNCHANGED <<stage, request, dispatched, answer, given>>
  BY DEF Break
<1>2. RequestOnTheWay'
  <2>1. PICK n \in 0..Len(toService) : toService' = SubSeq(toService, 1, n)
    BY DEF Break
  <2>2. CASE toService = <<>>
    <3>1. SubSeq(<<>>, 1, n) = <<>>
      BY <2>2
    <3> QED BY <2>1, <2>2, <3>1 DEF RequestOnTheWay
  <2>3. CASE toService # <<>>
    <3>1. request \in Requests /\ SendableRequest(request) /\ PartOf(toService, RequestFields(request))
      BY <2>3 DEF WireInv, RequestOnTheWay
    <3>2. RequestFields(request) \in Fields
      BY <3>1, WireAssumption, RequestUnderstood
    <3>3. PartOf(toService', RequestFields(request))
      BY <2>1, <3>1, <3>2, CutAgain
    <3> QED BY <1>1, <3>1, <3>3 DEF RequestOnTheWay
  <2> QED BY <2>2, <2>3
<1>3. AnswerOnTheWay'
  <2>1. PICK n \in 0..Len(toEngine) : toEngine' = SubSeq(toEngine, 1, n)
    BY DEF Break
  <2>2. CASE toEngine = <<>>
    <3>1. SubSeq(<<>>, 1, n) = <<>>
      BY <2>2
    <3> QED BY <2>1, <2>2, <3>1 DEF AnswerOnTheWay
  <2>3. CASE toEngine # <<>>
    <3>1. answer # Nothing /\ SendableResponse(answer) /\ PartOf(toEngine, ResponseFields(answer))
      BY <2>3 DEF WireInv, AnswerOnTheWay
    <3>2. ResponseFields(answer) \in Fields
      BY <3>1, AnswerKnown, ResponseUnderstood
    <3>3. PartOf(toEngine', ResponseFields(answer))
      BY <2>1, <3>1, <3>2, CutAgain
    <3> QED BY <1>1, <3>1, <3>3 DEF AnswerOnTheWay
  <2> QED BY <2>2, <2>3
<1>4. Stages' /\ NothingYet' /\ AnswerToRequest' /\ ClosedForCause' /\ FramesAreUnderstood'
  BY <1>1 DEF WireInv, Stages, NothingYet, AnswerToRequest, ClosedForCause, FramesAreUnderstood
<1> QED BY <1>2, <1>3, <1>4 DEF WireInv

LEMMA DispatchKeeps ==
  ASSUME WireInv, Dispatch
  PROVE  WireInv'
<1>1. /\ dispatched = Nothing /\ FrameIsIn(toService) /\ toService # <<>>
      /\ UNCHANGED <<stage, request, toEngine, connection, answer, given>>
  BY DEF Dispatch, FrameIsIn
<1>2. dispatched' = request /\ toService' = <<>> /\ request \in Requests
  BY <1>1, RequestArrives DEF Dispatch
<1>3. stage # "idle"
  BY <1>1 DEF WireInv, NothingYet
<1> QED BY <1>1, <1>2, <1>3 DEF WireInv, Stages, NothingYet, RequestOnTheWay, AnswerToRequest, AnswerOnTheWay,
       ClosedForCause, FramesAreUnderstood

LEMMA SendAnswerKeeps ==
  ASSUME WireInv, SendAnswer
  PROVE  WireInv'
<1>1. PICK a \in AnswersTo(dispatched) :
        /\ answer' = a
        /\ IF connection = "open" /\ SendableResponse(a)
           THEN toEngine' = Frame(ResponseFields(a)) /\ UNCHANGED connection
           ELSE /\ connection' = IF connection = "open" THEN "closed" ELSE connection
                /\ UNCHANGED toEngine
  BY DEF SendAnswer
<1>2. /\ dispatched # Nothing /\ answer = Nothing /\ UNCHANGED <<stage, request, toService, dispatched, given>>
  BY DEF SendAnswer
<1>3. dispatched = request /\ request \in Requests /\ toEngine = <<>> /\ stage # "idle"
  BY <1>2 DEF WireInv, FramesAreUnderstood, Stages, AnswerOnTheWay, NothingYet
<1>4. a \in Replies /\ a # Nothing
  <2>1. request \in AllRequests
    BY <1>3, WireAssumption
  <2> QED BY <1>3, <2>1, AnswersToRequests, NoAnswerIsNothing
<1>5. AnswerToRequest' /\ Stages' /\ NothingYet' /\ RequestOnTheWay'
  BY <1>1, <1>2, <1>3 DEF WireInv, AnswerToRequest, Stages, NothingYet, RequestOnTheWay
<1>6. AnswerOnTheWay'
  <2>1. CASE connection = "open" /\ SendableResponse(a)
    <3>1. ResponseFields(a) \in Fields
      BY <1>4, <2>1, ResponseUnderstood
    <3>2. PartOf(toEngine', ResponseFields(a))
      BY <1>1, <2>1, <3>1, WholeFrame
    <3> QED BY <1>1, <1>4, <2>1, <3>2 DEF AnswerOnTheWay
  <2>2. CASE ~(connection = "open" /\ SendableResponse(a))
    BY <1>1, <1>3, <2>2 DEF AnswerOnTheWay
  <2> QED BY <2>1, <2>2
<1>7. ClosedForCause' /\ FramesAreUnderstood'
  BY <1>1, <1>2, <1>4 DEF WireInv, ClosedForCause, FramesAreUnderstood
<1> QED BY <1>5, <1>6, <1>7 DEF WireInv

LEMMA ReceiveKeeps ==
  ASSUME WireInv, Receive
  PROVE  WireInv'
<1>1. FrameIsIn(toEngine) /\ stage' = "over" /\ UNCHANGED <<request, toService, dispatched, answer>>
  BY DEF Receive
<1>2. answer # Nothing /\ ResponseOf(Payload(toEngine)) = answer /\ Unread(toEngine) = <<>>
  BY <1>1, AnswerArrives
<1>3. Correlates(answer) /\ answer # Undecodable /\ answer # Failure
  BY <1>2, AnswerKnown
<1>4. given' = answer /\ connection' = connection /\ toEngine' = <<>>
  BY <1>2, <1>3 DEF Receive
<1> QED BY <1>1, <1>2, <1>3, <1>4 DEF WireInv, Stages, NothingYet, RequestOnTheWay, AnswerToRequest, AnswerOnTheWay,
       ClosedForCause, FramesAreUnderstood

LEMMA ReceiveFailsKeeps ==
  ASSUME WireInv, ReceiveFails
  PROVE  WireInv'
<1>1. /\ connection # "open" /\ given' = Failure /\ stage' = "over"
      /\ UNCHANGED <<request, toService, toEngine, connection, dispatched, answer>>
  BY DEF ReceiveFails
<1>2. connection = "broken" \/ ~SendableRequest(request) \/ (answer # Nothing /\ ~SendableResponse(answer))
  BY <1>1 DEF WireInv, Stages, ClosedForCause
<1> QED BY <1>1, <1>2 DEF WireInv, Stages, NothingYet, RequestOnTheWay, AnswerToRequest, AnswerOnTheWay,
       ClosedForCause, FramesAreUnderstood

LEMMA WireInvInductive == WireInv /\ [WireNext]_wireVars => WireInv'
<1> SUFFICES ASSUME WireInv, [WireNext]_wireVars PROVE WireInv'
  OBVIOUS
<1>1. CASE \E m \in Requests : Ask(m)
  BY <1>1, AskKeeps
<1>2. CASE Break
  BY <1>2, BreakKeeps
<1>3. CASE Dispatch
  BY <1>3, DispatchKeeps
<1>4. CASE SendAnswer
  BY <1>4, SendAnswerKeeps
<1>5. CASE Receive
  BY <1>5, ReceiveKeeps
<1>6. CASE ReceiveFails
  BY <1>6, ReceiveFailsKeeps
<1>7. CASE UNCHANGED wireVars
  BY <1>7 DEF wireVars, WireInv, Stages, NothingYet, RequestOnTheWay, AnswerToRequest, AnswerOnTheWay,
       ClosedForCause, FramesAreUnderstood
<1> QED BY <1>1, <1>2, <1>3, <1>4, <1>5, <1>6, <1>7 DEF WireNext

\* The inductive invariant: what is on the way is a part of the frame of the request, or
\* of an answer to it, and a connection that was not broken is closed for a reason.
THEOREM WireFollowed == WireSpec => []WireInv
<1>1. WireInit => WireInv
  BY WireInvInit
<1>2. WireInv /\ [WireNext]_wireVars => WireInv'
  BY WireInvInductive
<1> QED BY <1>1, <1>2, PTL DEF WireSpec

\* FramesAreUnderstood: the service acts on what the engine asked and the engine is given
\* what the service answered, for every request, answer and text, though the two programs
\* encode and decode with code of their own; a request fails only where the connection
\* breaks or where the one that has to send refuses to.
THEOREM FramesAlwaysUnderstood == WireSpec => []FramesAreUnderstood
<1>1. WireInv => FramesAreUnderstood
  BY DEF WireInv
<1> QED BY <1>1, WireFollowed, PTL

LEMMA WidthsInPart ==
  ASSUME NEW f \in Fields, Bytes(f) <= MaxFrame, NEW stream, PartOf(stream, f)
  PROVE  \A field \in Range(stream) : field[1] \in 1..MaxFrame
<1> DEFINE s == Frame(f)
<1>1. s \in Seq(Field) /\ Len(s) = Len(f) + 1 /\ Len(f) \in Nat /\ s[1] = <<4, Bytes(f)>> /\ \A i \in 1..Len(f) : s[i + 1] = f[i]
  BY FrameParts DEF Fields
<1>2. PICK n \in 0..Len(s) : stream = SubSeq(s, 1, n)
  BY DEF PartOf
<1> HIDE DEF s
<1>3. Len(stream) = n /\ DOMAIN stream = 1..n /\ \A j \in 1..n : stream[j] = s[j]
  BY <1>1, <1>2
<1>4. MaxFrame \in Nat /\ 4 <= MaxFrame /\ Bytes(f) \in Nat
  BY BytesNat DEF MaxFrame
<1>5. ASSUME NEW j \in 1..n PROVE s[j][1] \in 1..MaxFrame
  <2>1. CASE j = 1
    <3>1. s[j][1] = 4
      BY <1>1, <2>1
    <3> QED BY <1>4, <3>1
  <2>2. CASE j # 1
    <3>1. j - 1 \in 1..Len(f) /\ (j - 1) + 1 = j
      BY <1>1, <1>2, <2>2
    <3>2. s[j] = f[j - 1]
      BY <1>1, <3>1
    <3>3. f[j - 1][1] \in 1..Bytes(f)
      BY <3>1, WidthInBytes
    <3>4. 1..Bytes(f) \subseteq 1..MaxFrame
      BY <1>4
    <3> QED BY <3>2, <3>3, <3>4
  <2> QED BY <2>1, <2>2
<1> QED BY <1>3, <1>5 DEF Range

\* WireTypeOK: the worker is in one of its states, and no field on the socket is wider
\* than the largest frame.
THEOREM WireTypes == WireSpec => []WireTypeOK
<1>1. WireInv => WireTypeOK
  <2> SUFFICES ASSUME WireInv PROVE WireTypeOK
    OBVIOUS
  <2>1. \A field \in Range(<<>>) : field[1] \in 1..MaxFrame
    BY DEF Range
  <2>2. \A field \in Range(toService) : field[1] \in 1..MaxFrame
    <3>1. CASE toService # <<>>
      <4>1. request \in Requests /\ SendableRequest(request) /\ PartOf(toService, RequestFields(request))
        BY <3>1 DEF WireInv, RequestOnTheWay
      <4>2. RequestFields(request) \in Fields
        BY <4>1, WireAssumption, RequestUnderstood
      <4>3. Bytes(RequestFields(request)) <= MaxFrame
        BY <4>1 DEF SendableRequest
      <4> QED BY <4>1, <4>2, <4>3, WidthsInPart
    <3> QED BY <2>1, <3>1
  <2>3. \A field \in Range(toEngine) : field[1] \in 1..MaxFrame
    <3>1. CASE toEngine # <<>>
      <4>1. answer # Nothing /\ SendableResponse(answer) /\ PartOf(toEngine, ResponseFields(answer))
        BY <3>1 DEF WireInv, AnswerOnTheWay
      <4>2. ResponseFields(answer) \in Fields
        BY <4>1, AnswerKnown, ResponseUnderstood
      <4>3. Bytes(ResponseFields(answer)) <= MaxFrame
        BY <4>1 DEF SendableResponse
      <4> QED BY <4>1, <4>2, <4>3, WidthsInPart
    <3> QED BY <2>1, <3>1
  <2> QED BY <2>2, <2>3 DEF WireInv, Stages, WireTypeOK
<1> QED BY <1>1, WireFollowed, PTL
=============================================================================
