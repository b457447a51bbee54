-------------------------- MODULE ContextFree_proofs --------------------------
(***************************************************************************)
(* What the proofs about grammars, and others, rest on: induction and      *)
(* recursion over the naturals, stated about sets and functions (the       *)
(* theorems of the library take an operator); and the words of bodies and  *)
(* heads, which DerivedWords has all of, and what they begin with.         *)
(***************************************************************************)
EXTENDS ContextFree, FiniteSetTheorems, WellFoundedInduction, SequenceTheorems, TLAPS

-----------------------------------------------------------------------------
(* Induction and recursion. The sets of the proofs are sets of numbers     *)
(* that have a property.                                                   *)

Less == {p \in Nat \X Nat : p[1] < p[2]}

\* There is no endless way down the naturals.
LEMMA LessWellFounded == IsWellFoundedOn(Less, Nat)
BY NatLessThanWellFounded DEF OpToRel, Less

\* A set that has 0, and after every number the next one, has all of them.
LEMMA InductionOnNat ==
  ASSUME NEW T, 0 \in T, \A n \in Nat : n \in T => n + 1 \in T
  PROVE  Nat \subseteq T
<1> DEFINE U == {n \in Nat : n \notin T}
<1> SUFFICES ASSUME U # {} PROVE FALSE
  OBVIOUS
<1>1. PICK x \in U : \A y \in U : ~ (<<y, x>> \in Less)
  <2> HIDE DEF U
  <2>1. U \subseteq Nat
    BY DEF U
  <2> QED BY <2>1, LessWellFounded, WFMin
<1>2. x \in Nat /\ x # 0
  OBVIOUS
<1>3. x - 1 \in U
  BY <1>2
<1>4. <<x - 1, x>> \in Less
  BY <1>2 DEF Less
<1> QED BY <1>1, <1>3, <1>4

\* A first value in S, and what comes after the n-th value is in S when that is.
StaysIn(S, base, F) == base \in S /\ \A n \in Nat, x \in S : F[<<n, x>>] \in S

\* The values one after the other.
Iterates(f, S, base, F) ==
  f \in [Nat -> S] /\ f[0] = base /\ \A n \in Nat : f[n + 1] = F[<<n, f[n]>>]

\* There is a function with a given first value and a given way from each value to the next.
LEMMA RecursionOnNat ==
  ASSUME NEW S, NEW base, NEW F, StaysIn(S, base, F)
  PROVE  \E f : Iterates(f, S, base, F)
<1> USE DEF StaysIn
<1> DEFINE Begun(n, g) == g \in [0 .. n -> S] /\ g[0] = base /\ \A i \in 0 .. n - 1 : g[i + 1] = F[<<i, g[i]>>]
           T == {n \in Nat : \E g : Begun(n, g)}
           g(n) == CHOOSE h : Begun(n, h)
           f == [n \in Nat |-> g(n)[n]]
<1>1. Nat \subseteq T
  <2>1. 0 \in T
    <3> Begun(0, [i \in 0 .. 0 |-> base])
      OBVIOUS
    <3> QED OBVIOUS
  <2>2. ASSUME NEW n \in Nat, n \in T PROVE n + 1 \in T
    <3>1. PICK h : Begun(n, h)
      BY <2>2
    <3> DEFINE k == [i \in 0 .. n + 1 |-> IF i = n + 1 THEN F[<<n, h[n]>>] ELSE h[i]]
    <3>2. h[n] \in S
      BY <3>1
    <3>3. k \in [0 .. n + 1 -> S]
      BY <3>1, <3>2
    <3>4. k[0] = base
      BY <3>1
    <3>5. ASSUME NEW i \in 0 .. (n + 1) - 1 PROVE k[i + 1] = F[<<i, k[i]>>]
      <4>1. CASE i = n
        <5>1. k[n + 1] = F[<<n, h[n]>>]
          OBVIOUS
        <5>2. k[n] = h[n]
          OBVIOUS
        <5> QED BY <5>1, <5>2, <4>1
      <4>2. CASE i # n
        <5>1. i \in 0 .. n - 1 /\ i + 1 \in 0 .. n + 1 /\ i \in 0 .. n + 1 /\ i + 1 # n + 1
          BY <4>2
        <5>2. k[i + 1] = h[i + 1] /\ k[i] = h[i]
          BY <5>1, <4>2
        <5> QED BY <5>1, <5>2, <3>1
      <4> QED BY <4>1, <4>2
    <3>6. Begun(n + 1, k)
      BY <3>3, <3>4, <3>5
    <3> HIDE DEF Begun, k
    <3> QED BY <3>6
  <2> HIDE DEF T
  <2> QED BY <2>1, <2>2, InductionOnNat
<1>2. ASSUME NEW n \in Nat PROVE Begun(n, g(n))
  <2>1. \E h : Begun(n, h)
    BY <1>1
  <2> HIDE DEF Begun
  <2> QED BY <2>1
<1>3. ASSUME NEW n \in Nat PROVE f[n + 1] = F[<<n, f[n]>>]
  <2> DEFINE a == g(n)
             b == g(n + 1)
             E == {i \in Nat : i <= n => a[i] = b[i]}
  <2>1. Begun(n, a) /\ Begun(n + 1, b)
    <3> n + 1 \in Nat
      OBVIOUS
    <3> HIDE DEF Begun, g
    <3> QED BY <1>2
  <2>6. f[n] = a[n] /\ f[n + 1] = b[n + 1]
    OBVIOUS
  <2> HIDE DEF a, b, f, g
  <2>2. 0 \in E
    BY <2>1
  <2>3. ASSUME NEW i \in Nat, i \in E PROVE i + 1 \in E
    <3> SUFFICES ASSUME i + 1 <= n PROVE a[i + 1] = b[i + 1]
      OBVIOUS
    <3> i \in 0 .. n - 1 /\ i \in 0 .. (n + 1) - 1 /\ a[i] = b[i]
      BY <2>3
    <3> QED BY <2>1
  <2>4. n \in E
    <3> HIDE DEF E
    <3> QED BY <2>2, <2>3, InductionOnNat
  <2>5. b[n + 1] = F[<<n, b[n]>>]
    BY <2>1
  <2> QED BY <2>4, <2>5, <2>6
<1>4. f \in [Nat -> S]
  <2> ASSUME NEW n \in Nat PROVE g(n)[n] \in S
    <3> Begun(n, g(n))
      BY <1>2
    <3> HIDE DEF g
    <3> QED OBVIOUS
  <2> QED OBVIOUS
<1>5. f[0] = base
  <2> Begun(0, g(0))
    BY <1>2
  <2> QED OBVIOUS
<1> HIDE DEF f
<1>6. Iterates(f, S, base, F)
  BY <1>3, <1>4, <1>5 DEF Iterates
<1> QED BY <1>6

\* There is one function like that only.
LEMMA RecursionUnique ==
  ASSUME NEW S, NEW base, NEW F, NEW f, NEW g, Iterates(f, S, base, F), Iterates(g, S, base, F)
  PROVE  f = g
<1> USE DEF Iterates
<1> DEFINE T == {n \in Nat : f[n] = g[n]}
<1>1. 0 \in T
  OBVIOUS
<1>3. ASSUME NEW n \in Nat, n \in T PROVE n + 1 \in T
  <2>1. f[n] = g[n]
    BY <1>3
  <2>2. f[n + 1] = F[<<n, f[n]>>] /\ g[n + 1] = F[<<n, g[n]>>]
    OBVIOUS
  <2> QED BY <2>1, <2>2
<1>2. Nat \subseteq T
  <2> HIDE DEF T
  <2> QED BY <1>1, <1>3, InductionOnNat
<1> QED BY <1>2

\* A finite set of naturals that is not empty has a greatest one.
LEMMA FiniteSetHasGreatest ==
  ASSUME NEW S \in SUBSET Nat, IsFiniteSet(S), S # {}
  PROVE  \E m \in S : \A n \in S : n <= m
<1> DEFINE T == {k \in Nat : \A R \in SUBSET Nat : IsFiniteSet(R) /\ Cardinality(R) = k + 1 => \E m \in R : \A n \in R : n <= m}
<1>1. 0 \in T
  <2> SUFFICES ASSUME NEW R \in SUBSET Nat, IsFiniteSet(R), Cardinality(R) = 1
               PROVE  \E m \in R : \A n \in R : n <= m
    OBVIOUS
  <2> PICK m : R = {m}
    BY FS_Singleton
  <2> QED OBVIOUS
<1>2. ASSUME NEW k \in Nat, k \in T PROVE k + 1 \in T
  <2> SUFFICES ASSUME NEW R \in SUBSET Nat, IsFiniteSet(R), Cardinality(R) = (k + 1) + 1
               PROVE  \E m \in R : \A n \in R : n <= m
    OBVIOUS
  <2>1. R # {}
    BY FS_EmptySet
  <2>2. PICK x \in R : TRUE
    BY <2>1
  <2>3. IsFiniteSet(R \ {x}) /\ Cardinality(R \ {x}) = k + 1
    BY <2>2, FS_RemoveElement
  <2>4. PICK m \in R \ {x} : \A n \in R \ {x} : n <= m
    BY <1>2, <2>3
  <2>5. CASE x <= m
    BY <2>4, <2>5
  <2>6. CASE m < x
    BY <2>4, <2>6
  <2> QED BY <2>5, <2>6
<1>3. Nat \subseteq T
  <2> HIDE DEF T
  <2> QED BY <1>1, <1>2, InductionOnNat
<1>4. Cardinality(S) \in Nat \ {0}
  BY FS_CardinalityType, FS_EmptySet
<1>5. Cardinality(S) - 1 \in T
  BY <1>3, <1>4
<1> QED BY <1>4, <1>5

\* A set that grows in a finite set, and does not grow on when it has not grown once, has
\* stopped when as many numbers have gone by as there are elements.
LEMMA ChainStops ==
  ASSUME NEW U, IsFiniteSet(U), NEW c \in [Nat -> SUBSET U], \A h \in Nat : c[h] \subseteq c[h + 1],
         \A h \in Nat : c[h + 1] = c[h] => c[(h + 1) + 1] = c[h + 1]
  PROVE  Cardinality(U) \in Nat /\ \A h \in Nat : c[h] \subseteq c[Cardinality(U)]
<1> DEFINE N == Cardinality(U)
           Stops(j) == c[j + 1] = c[j]
           Grown(h) == h <= Cardinality(c[h]) \/ \E j \in Nat : j < h /\ Stops(j)
<1>1. N \in Nat
  BY FS_CardinalityType
<1>2. \A h \in Nat : IsFiniteSet(c[h]) /\ Cardinality(c[h]) \in Nat /\ Cardinality(c[h]) <= N
  <2> SUFFICES ASSUME NEW h \in Nat PROVE IsFiniteSet(c[h]) /\ Cardinality(c[h]) \in Nat /\ Cardinality(c[h]) <= N
    OBVIOUS
  <2>1. c[h] \in SUBSET U
    OBVIOUS
  <2> QED BY <2>1, FS_Subset, FS_CardinalityType
<1> HIDE DEF N
<1>3. \A h \in Nat : Grown(h)
  <2> DEFINE T == {h \in Nat : Grown(h)}
  <2>1. 0 \in T
    BY <1>2
  <2>2. ASSUME NEW h \in Nat, h \in T PROVE h + 1 \in T
    <3>1. CASE Stops(h)
      <4>1. h < h + 1
        OBVIOUS
      <4> QED BY <3>1, <4>1
    <3>2. CASE \E j \in Nat : j < h /\ Stops(j)
      <4>1. PICK j \in Nat : j < h /\ Stops(j)
        BY <3>2
      <4>2. j < h + 1
        BY <4>1
      <4> QED BY <4>1, <4>2
    <3>3. CASE ~ Stops(h) /\ h <= Cardinality(c[h])
      <4>1. c[h] \in SUBSET c[h + 1] /\ c[h] # c[h + 1] /\ h + 1 \in Nat
        BY <3>3
      <4>2. IsFiniteSet(c[h + 1]) /\ Cardinality(c[h + 1]) \in Nat /\ Cardinality(c[h]) \in Nat
        BY <1>2, <4>1
      <4>3. Cardinality(c[h]) <= Cardinality(c[h + 1]) /\ Cardinality(c[h]) # Cardinality(c[h + 1])
        BY <4>1, <4>2, FS_Subset
      <4>4. h + 1 <= Cardinality(c[h + 1])
        BY <3>3, <4>2, <4>3
      <4> QED BY <4>4
    <3> HIDE DEF Stops
    <3> QED BY <2>2, <3>1, <3>2, <3>3
  <2>3. Nat \subseteq T
    <3> HIDE DEF T
    <3> QED BY <2>1, <2>2, InductionOnNat
  <2> QED BY <2>3
<1>4. PICK j \in Nat : j <= N /\ Stops(j)
  <2>1. Grown(N + 1)
    BY <1>1, <1>3
  <2>2. Cardinality(c[N + 1]) \in Nat /\ Cardinality(c[N + 1]) <= N
    BY <1>1, <1>2
  <2>3. ~ (N + 1 <= Cardinality(c[N + 1]))
    BY <1>1, <2>2
  <2>4. PICK j \in Nat : j < N + 1 /\ Stops(j)
    BY <2>1, <2>3
  <2>5. j <= N
    BY <1>1, <2>4
  <2> QED BY <2>4, <2>5
<1>5. \A k \in Nat : c[j + k] = c[j] /\ c[(j + k) + 1] = c[j + k]
  <2> DEFINE T == {k \in Nat : c[j + k] = c[j] /\ c[(j + k) + 1] = c[j + k]}
  <2>1. 0 \in T
    BY <1>4
  <2>2. ASSUME NEW k \in Nat, k \in T PROVE k + 1 \in T
    <3>1. j + k \in Nat /\ j + (k + 1) = (j + k) + 1
      OBVIOUS
    <3>2. c[((j + k) + 1) + 1] = c[(j + k) + 1]
      BY <2>2, <3>1
    <3> QED BY <2>2, <3>1, <3>2
  <2>3. Nat \subseteq T
    <3> HIDE DEF T
    <3> QED BY <2>1, <2>2, InductionOnNat
  <2> QED BY <2>3
<1>6. \A h \in Nat, k \in Nat : c[h] \subseteq c[h + k]
  <2> SUFFICES ASSUME NEW h \in Nat PROVE \A k \in Nat : c[h] \subseteq c[h + k]
    OBVIOUS
  <2> DEFINE T == {k \in Nat : c[h] \subseteq c[h + k]}
  <2>1. 0 \in T
    OBVIOUS
  <2>2. ASSUME NEW k \in Nat, k \in T PROVE k + 1 \in T
    <3>1. h + k \in Nat /\ h + (k + 1) = (h + k) + 1
      OBVIOUS
    <3>2. c[h + k] \subseteq c[(h + k) + 1]
      BY <3>1
    <3> QED BY <2>2, <3>1, <3>2
  <2>3. Nat \subseteq T
    <3> HIDE DEF T
    <3> QED BY <2>1, <2>2, InductionOnNat
  <2> QED BY <2>3
<1>7. ASSUME NEW h \in Nat PROVE c[h] \subseteq c[N]
  <2>1. N - j \in Nat /\ j + (N - j) = N
    BY <1>1, <1>4
  <2>2. c[N] = c[j]
    <3>1. c[j + (N - j)] = c[j]
      BY <1>5, <2>1
    <3> QED BY <2>1, <3>1
  <2>3. CASE h <= j
    <3>1. j - h \in Nat /\ h + (j - h) = j
      BY <2>3
    <3>2. c[h] \subseteq c[h + (j - h)]
      BY <1>6, <3>1
    <3> QED BY <2>2, <3>1, <3>2
  <2>4. CASE ~ (h <= j)
    <3>1. h - j \in Nat /\ j + (h - j) = h
      BY <2>4
    <3>2. c[j + (h - j)] = c[j]
      BY <1>5, <3>1
    <3> QED BY <2>2, <3>1, <3>2
  <2> QED BY <2>3, <2>4
<1> QED BY <1>1, <1>7 DEF N

-----------------------------------------------------------------------------
(* Sequences, from the front on.                                           *)

\* A set of sequences that has the empty one, and with each those with one more in front, has
\* all of them.
LEMMA FromTheFront ==
  ASSUME NEW S, NEW T, <<>> \in T, \A x \in S, f \in Seq(S) : f \in T => <<x>> \o f \in T
  PROVE  Seq(S) \subseteq T
<1> DEFINE U == {n \in Nat : \A f \in Seq(S) : Len(f) = n => f \in T}
<1>1. 0 \in U
  <2> SUFFICES ASSUME NEW f \in Seq(S), Len(f) = 0 PROVE f \in T
    OBVIOUS
  <2>1. f = <<>>
    BY EmptySeq
  <2> QED BY <2>1
<1>2. ASSUME NEW n \in Nat, n \in U PROVE n + 1 \in U
  <2> SUFFICES ASSUME NEW f \in Seq(S), Len(f) = n + 1 PROVE f \in T
    OBVIOUS
  <2>1. f # <<>>
    BY EmptySeq
  <2>2. Head(f) \in S /\ Tail(f) \in Seq(S) /\ f = <<Head(f)>> \o Tail(f) /\ Len(Tail(f)) = n
    BY <2>1, HeadTailProperties
  <2>3. Tail(f) \in T
    BY <1>2, <2>2
  <2> QED BY <2>2, <2>3
<1>3. Nat \subseteq U
  <2> HIDE DEF U
  <2> QED BY <1>1, <1>2, InductionOnNat
<1> SUFFICES ASSUME NEW f \in Seq(S) PROVE f \in T
  OBVIOUS
<1>4. Len(f) \in Nat
  OBVIOUS
<1> QED BY <1>3, <1>4

\* A function on the first numbers is a sequence, and one that goes on like another after a
\* first is both together.
LEMMA IsSequence ==
  ASSUME NEW S, NEW n \in Nat, NEW f \in [1 .. n -> S]
  PROVE  f \in Seq(S) /\ Len(f) = n
OBVIOUS

LEMMA IsBoth ==
  ASSUME NEW S, NEW a \in Seq(S), NEW b \in Seq(S), NEW c \in Seq(S), Len(c) = Len(a) + Len(b),
         \A i \in 1 .. Len(c) : c[i] = IF i <= Len(a) THEN a[i] ELSE b[i - Len(a)]
  PROVE  c = a \o b
<1> DEFINE d == a \o b
<1>1. d \in Seq(S) /\ Len(d) = Len(a) + Len(b)
      /\ \A i \in 1 .. Len(a) + Len(b) : d[i] = IF i <= Len(a) THEN a[i] ELSE b[i - Len(a)]
  BY ConcatProperties
<1> HIDE DEF d
<1>2. c = d
  BY <1>1, SeqEqual
<1> QED BY <1>2 DEF d

\* Two sequences with the same elements are the same, and one is both its parts together.
LEMMA SameSequence ==
  ASSUME NEW S, NEW U, NEW a \in Seq(S), NEW b \in Seq(U), Len(a) = Len(b), \A i \in 1 .. Len(a) : a[i] = b[i]
  PROVE  a = b
<1>1. a \in [1 .. Len(a) -> S] /\ b \in [1 .. Len(a) -> U]
  OBVIOUS
<1> QED BY <1>1

LEMMA OnlyOne ==
  ASSUME NEW S, NEW q \in Seq(S), Len(q) = 1
  PROVE  q[1] \in S /\ q = <<q[1]>>
<1>1. q[1] \in S
  OBVIOUS
<1> DEFINE r == <<q[1]>>
<1>2. r \in Seq(S) /\ Len(r) = 1 /\ r[1] = q[1]
  BY <1>1
<1> HIDE DEF r
<1>3. q = r
  BY <1>2, SameSequence
<1> QED BY <1>1, <1>3 DEF r

LEMMA CutInTwo ==
  ASSUME NEW S, NEW q \in Seq(S), NEW k \in 0 .. Len(q)
  PROVE  /\ SubSeq(q, 1, k) \in Seq(S) /\ Len(SubSeq(q, 1, k)) = k
         /\ \A i \in 1 .. k : SubSeq(q, 1, k)[i] = q[i]
         /\ SubSeq(q, k + 1, Len(q)) \in Seq(S) /\ Len(SubSeq(q, k + 1, Len(q))) = Len(q) - k
         /\ \A i \in 1 .. Len(q) - k : SubSeq(q, k + 1, Len(q))[i] = q[k + i]
         /\ q = SubSeq(q, 1, k) \o SubSeq(q, k + 1, Len(q))
<1> DEFINE a == SubSeq(q, 1, k)
           b == SubSeq(q, k + 1, Len(q))
<1>1. Len(q) \in Nat /\ k \in Nat /\ k <= Len(q)
  OBVIOUS
<1>2. a \in Seq(S) /\ Len(a) = k /\ \A i \in 1 .. k : a[i] = q[i]
  OBVIOUS
<1>3. b \in Seq(S) /\ Len(b) = Len(q) - k /\ \A i \in 1 .. Len(q) - k : b[i] = q[k + i]
  OBVIOUS
<1> HIDE DEF a, b
<1>4. ASSUME NEW i \in 1 .. Len(q) PROVE q[i] = IF i <= Len(a) THEN a[i] ELSE b[i - Len(a)]
  <2>1. CASE i <= k
    BY <1>2, <2>1
  <2>2. CASE ~ (i <= k)
    <3>1. i - k \in 1 .. Len(q) - k /\ k + (i - k) = i
      BY <1>1, <2>2
    <3>2. b[i - k] = q[k + (i - k)]
      BY <1>3, <3>1
    <3> QED BY <1>2, <2>2, <3>1, <3>2
  <2> QED BY <2>1, <2>2
<1>5. Len(q) = Len(a) + Len(b)
  BY <1>1, <1>2, <1>3
<1>6. q = a \o b
  BY <1>2, <1>3, <1>4, <1>5, IsBoth
<1> QED BY <1>2, <1>3, <1>6 DEF a, b

\* A sequence up to some place is the sequence up to the one before, and its element there.
LEMMA OneMore ==
  ASSUME NEW S, NEW q \in Seq(S), NEW k \in 1 .. Len(q)
  PROVE  /\ k - 1 \in 0 .. Len(q) /\ q[k] \in S /\ SubSeq(q, 1, k - 1) \in Seq(S)
         /\ SubSeq(q, 1, k) = SubSeq(q, 1, k - 1) \o <<q[k]>>
<1> DEFINE a == SubSeq(q, 1, k - 1)
           b == <<q[k]>>
           c == SubSeq(q, 1, k)
<1>1. k - 1 \in 0 .. Len(q) /\ k \in 0 .. Len(q) /\ Len(q) \in Nat /\ q[k] \in S
  OBVIOUS
<1>2. a \in Seq(S) /\ Len(a) = k - 1 /\ \A i \in 1 .. k - 1 : a[i] = q[i]
  BY <1>1, CutInTwo
<1>3. c \in Seq(S) /\ Len(c) = k /\ \A i \in 1 .. k : c[i] = q[i]
  BY <1>1, CutInTwo
<1>4. b \in Seq(S) /\ Len(b) = 1 /\ b[1] = q[k]
  BY <1>1
<1> HIDE DEF a, b, c
<1>5. ASSUME NEW i \in 1 .. Len(c) PROVE c[i] = IF i <= Len(a) THEN a[i] ELSE b[i - Len(a)]
  <2>1. CASE i = k
    <3>1. i - Len(a) = 1 /\ ~ (i <= Len(a)) /\ i \in 1 .. k
      BY <1>1, <1>2, <2>1
    <3> QED BY <1>3, <1>4, <2>1, <3>1
  <2>2. CASE i # k
    <3>1. i \in 1 .. k - 1 /\ i \in 1 .. k /\ i <= Len(a)
      BY <1>1, <1>2, <1>3, <2>2
    <3> QED BY <1>2, <1>3, <3>1
  <2> QED BY <2>1, <2>2
<1>6. Len(c) = Len(a) + Len(b)
  BY <1>1, <1>2, <1>3, <1>4
<1>7. c = a \o b
  BY <1>2, <1>3, <1>4, <1>5, <1>6, IsBoth
<1> QED BY <1>1, <1>2, <1>7 DEF a, b, c

\* The first part of two sequences together.
LEMMA FirstPart ==
  ASSUME NEW S, NEW a \in Seq(S), NEW b \in Seq(S), NEW c, c = a \o b
  PROVE  SubSeq(c, 1, Len(c) - Len(b)) = a
<1> DEFINE d == SubSeq(c, 1, Len(c) - Len(b))
<1>1. c \in Seq(S) /\ Len(c) = Len(a) + Len(b) /\ \A i \in 1 .. Len(a) : c[i] = a[i]
  BY ConcatProperties
<1>2. Len(c) - Len(b) = Len(a) /\ Len(a) \in 0 .. Len(c)
  BY <1>1
<1>3. d \in Seq(S) /\ Len(d) = Len(a) /\ \A i \in 1 .. Len(a) : d[i] = c[i]
  BY <1>1, <1>2, CutInTwo
<1> HIDE DEF d
<1>4. d = a
  BY <1>1, <1>3, SameSequence
<1> QED BY <1>4 DEF d

-----------------------------------------------------------------------------
(* The words of bodies.                                                    *)

\* Words for each of some nonterminals.
WordsOfHeads(L) == DOMAIN L \subseteq NonTerminal /\ \A A \in DOMAIN L : L[A] \subseteq Seq(Terminal)

\* One symbol more in front of what has the words W.
InFront(n, L, X, W) == Short(n, {u \o v : u \in SymbolWords(L, X), v \in W})

\* steps has the words of the last symbols of a body.
IsBehind(steps, n, L, body) ==
  /\ steps \in [Nat -> SUBSET Seq(Terminal)]
  /\ steps[0] = {<<>>}
  /\ \A k \in Nat : steps[k + 1] = InFront(n, L, body[Len(body) - k], steps[k])

\* The words of a symbol are words.
LEMMA SymbolWordsTyped ==
  ASSUME NEW L, WordsOfHeads(L), NEW X
  PROVE  SymbolWords(L, X) \subseteq Seq(Terminal)
<1>1. CASE X \in Terminal
  <2>1. SymbolWords(L, X) = {<<X>>}
    BY <1>1 DEF SymbolWords
  <2>2. <<X>> \in Seq(Terminal)
    BY <1>1
  <2> QED BY <2>1, <2>2
<1>2. CASE X \notin Terminal /\ X \in DOMAIN L
  <2>1. SymbolWords(L, X) = L[X]
    BY <1>2 DEF SymbolWords
  <2> QED BY <1>2, <2>1 DEF WordsOfHeads
<1>3. CASE X \notin Terminal /\ X \notin DOMAIN L
  BY <1>3 DEF SymbolWords
<1> QED BY <1>1, <1>2, <1>3

\* Words with one symbol more in front are words.
LEMMA InFrontTyped ==
  ASSUME NEW L, WordsOfHeads(L), NEW X, NEW n, NEW W \in SUBSET Seq(Terminal)
  PROVE  InFront(n, L, X, W) \in SUBSET Seq(Terminal)
<1>1. ASSUME NEW u \in SymbolWords(L, X), NEW v \in W PROVE u \o v \in Seq(Terminal)
  <2>1. u \in Seq(Terminal) /\ v \in Seq(Terminal)
    BY SymbolWordsTyped
  <2> QED BY <2>1, ConcatProperties
<1>2. ASSUME NEW w \in InFront(n, L, X, W) PROVE w \in Seq(Terminal)
  <2>1. PICK u \in SymbolWords(L, X), v \in W : w = u \o v
    BY <1>2 DEF InFront, Short
  <2> QED BY <1>1, <2>1
<1> QED BY <1>2

\* The words of a body are those of its last symbols, one symbol after the other.
LEMMA BodyWordsUnfolds ==
  ASSUME NEW L, WordsOfHeads(L), NEW n, NEW S, NEW body \in Seq(S)
  PROVE  \E steps : IsBehind(steps, n, L, body) /\ BodyWords(n, L, body) = steps[Len(body)]
<1> DEFINE none == {<<>>}
           W == SUBSET Seq(Terminal)
           F == [x \in Nat \X W |-> InFront(n, L, body[Len(body) - x[1]], x[2])]
           Is(f) == f = [k \in Nat |-> IF k = 0 THEN none ELSE InFront(n, L, body[Len(body) - k + 1], f[k - 1])]
           words == CHOOSE f : Is(f)
<1>1. BodyWords(n, L, body) = words[Len(body)]
  BY DEF BodyWords, InFront
<1>2. PICK f : Iterates(f, W, none, F)
  <2>1. StaysIn(W, none, F)
    <3>1. none \in W
      OBVIOUS
    <3>2. ASSUME NEW k \in Nat, NEW x \in W PROVE F[<<k, x>>] \in W
      <4>1. F[<<k, x>>] = InFront(n, L, body[Len(body) - k], x)
        OBVIOUS
      <4> QED BY <4>1, InFrontTyped
    <3> HIDE DEF none, W, F
    <3> QED BY <3>1, <3>2 DEF StaysIn
  <2> HIDE DEF none, W, F
  <2> QED BY <2>1, RecursionOnNat
<1>3. f \in [Nat -> W] /\ f[0] = none /\ \A k \in Nat : f[k + 1] = InFront(n, L, body[Len(body) - k], f[k])
  <2>1. f \in [Nat -> W] /\ f[0] = none /\ \A k \in Nat : f[k + 1] = F[<<k, f[k]>>]
    BY <1>2 DEF Iterates
  <2>2. ASSUME NEW k \in Nat PROVE F[<<k, f[k]>>] = InFront(n, L, body[Len(body) - k], f[k])
    <3>1. f[k] \in W
      BY <2>1
    <3> HIDE DEF W
    <3> QED BY <3>1
  <2> QED BY <2>1, <2>2
<1>4. Is(f)
  <2>1. ASSUME NEW k \in Nat, k # 0 PROVE f[k] = InFront(n, L, body[Len(body) - k + 1], f[k - 1])
    <3>1. k - 1 \in Nat /\ (k - 1) + 1 = k /\ Len(body) - (k - 1) = Len(body) - k + 1
      BY <2>1
    <3>2. f[(k - 1) + 1] = InFront(n, L, body[Len(body) - (k - 1)], f[k - 1])
      BY <3>1, <1>3
    <3> QED BY <3>1, <3>2
  <2> HIDE DEF none, W
  <2> QED BY <1>3, <2>1
<1>5. Is(words)
  <2> HIDE DEF Is
  <2> QED BY <1>4
<1>6. IsBehind(words, n, L, body)
  <2> DEFINE T == {k \in Nat : words[k] = f[k]}
  <2>1. /\ words = [k \in Nat |-> words[k]] /\ words[0] = none
        /\ \A k \in Nat : words[k + 1] = InFront(n, L, body[Len(body) - k], words[k])
    <3> HIDE DEF words, none
    <3>1. words[0] = none
      BY <1>5
    <3>2. ASSUME NEW k \in Nat PROVE words[k + 1] = InFront(n, L, body[Len(body) - k], words[k])
      <4>1. k + 1 \in Nat /\ k + 1 # 0 /\ (k + 1) - 1 = k /\ Len(body) - (k + 1) + 1 = Len(body) - k
        OBVIOUS
      <4>2. words[k + 1] = InFront(n, L, body[Len(body) - (k + 1) + 1], words[(k + 1) - 1])
        BY <1>5, <4>1
      <4> QED BY <4>1, <4>2
    <3> QED BY <1>5, <3>1, <3>2
  <2> HIDE DEF words, none, W
  <2>2. 0 \in T
    BY <2>1, <1>3
  <2>3. ASSUME NEW k \in Nat, k \in T PROVE k + 1 \in T
    <3>1. words[k] = f[k]
      BY <2>3
    <3>2. words[k + 1] = InFront(n, L, body[Len(body) - k], words[k])
      BY <2>1
    <3>3. f[k + 1] = InFront(n, L, body[Len(body) - k], f[k])
      BY <1>3
    <3>4. words[k + 1] = f[k + 1]
      BY <3>1, <3>2, <3>3
    <3> QED BY <3>4
  <2>4. Nat \subseteq T
    <3> HIDE DEF T
    <3> QED BY <2>2, <2>3, InductionOnNat
  <2>5. words = f
    BY <2>1, <2>4, <1>3
  <2> QED BY <2>5, <1>3 DEF IsBehind, W, none
<1> HIDE DEF words
<1> QED BY <1>1, <1>6

\* The empty body has the empty word.
LEMMA BodyOfNothing ==
  ASSUME NEW L, WordsOfHeads(L), NEW n
  PROVE  BodyWords(n, L, <<>>) = {<<>>}
<1> DEFINE body == <<>>
<1>1. body \in Seq(Terminal) /\ Len(body) = 0
  OBVIOUS
<1> HIDE DEF body
<1>2. PICK steps : IsBehind(steps, n, L, body) /\ BodyWords(n, L, body) = steps[Len(body)]
  BY <1>1, BodyWordsUnfolds
<1>3. BodyWords(n, L, body) = {<<>>}
  BY <1>1, <1>2 DEF IsBehind
<1> QED BY <1>3 DEF body

\* The words of a body are made of those of its first symbol and those of the rest.
LEMMA BodyOfFirst ==
  ASSUME NEW L, WordsOfHeads(L), NEW n, NEW S, NEW X \in S, NEW f \in Seq(S)
  PROVE  BodyWords(n, L, <<X>> \o f) = InFront(n, L, X, BodyWords(n, L, f))
<1> DEFINE g == <<X>> \o f
<1>1. g \in Seq(S) /\ Len(g) = Len(f) + 1 /\ g[1] = X /\ (\A i \in 1 .. Len(f) : g[i + 1] = f[i]) /\ Len(f) \in Nat
  OBVIOUS
<1> HIDE DEF g
<1>2. PICK a : IsBehind(a, n, L, f) /\ BodyWords(n, L, f) = a[Len(f)]
  BY BodyWordsUnfolds
<1>3. PICK b : IsBehind(b, n, L, g) /\ BodyWords(n, L, g) = b[Len(g)]
  BY <1>1, BodyWordsUnfolds
<1> DEFINE T == {k \in Nat : k <= Len(f) => a[k] = b[k]}
<1>4. 0 \in T
  BY <1>2, <1>3 DEF IsBehind
<1>5. ASSUME NEW k \in Nat, k \in T PROVE k + 1 \in T
  <2> SUFFICES ASSUME k + 1 <= Len(f) PROVE a[k + 1] = b[k + 1]
    OBVIOUS
  <2>1. Len(f) - k \in 1 .. Len(f) /\ Len(g) - k = (Len(f) - k) + 1 /\ k <= Len(f)
    BY <1>1
  <2>2. g[Len(g) - k] = f[Len(f) - k]
    BY <1>1, <2>1
  <2>3. a[k] = b[k]
    BY <1>5, <2>1
  <2>4. a[k + 1] = InFront(n, L, f[Len(f) - k], a[k])
    BY <1>2 DEF IsBehind
  <2>5. b[k + 1] = InFront(n, L, g[Len(g) - k], b[k])
    BY <1>3 DEF IsBehind
  <2> QED BY <2>2, <2>3, <2>4, <2>5
<1>6. a[Len(f)] = b[Len(f)]
  <2>1. Nat \subseteq T
    <3> HIDE DEF T
    <3> QED BY <1>4, <1>5, InductionOnNat
  <2> QED BY <1>1, <2>1
<1>7. b[Len(f) + 1] = InFront(n, L, g[Len(g) - Len(f)], b[Len(f)])
  BY <1>1, <1>3 DEF IsBehind
<1>8. Len(g) - Len(f) = 1
  BY <1>1
<1>9. BodyWords(n, L, g) = InFront(n, L, X, BodyWords(n, L, f))
  BY <1>1, <1>2, <1>3, <1>6, <1>7, <1>8
<1> QED BY <1>9 DEF g

\* The words of a body are words, and as short as they are asked for.
LEMMA BodyWordsTyped ==
  ASSUME NEW L, WordsOfHeads(L), NEW n \in Nat, NEW S, NEW f \in Seq(S)
  PROVE  /\ BodyWords(n, L, f) \in SUBSET Seq(Terminal)
         /\ \A w \in BodyWords(n, L, f) : Len(w) <= n
<1> DEFINE T == {g \in Seq(S) : /\ BodyWords(n, L, g) \in SUBSET Seq(Terminal)
                               /\ \A w \in BodyWords(n, L, g) : Len(w) <= n}
           none == <<>>
<1>1. none \in T
  <2>1. BodyWords(n, L, none) = {none}
    BY BodyOfNothing
  <2>2. none \in Seq(S) /\ none \in Seq(Terminal) /\ Len(none) = 0
    OBVIOUS
  <2> HIDE DEF none
  <2>3. ASSUME NEW w \in BodyWords(n, L, none) PROVE w \in Seq(Terminal) /\ Len(w) <= n
    <3>1. w = none
      BY <2>1
    <3> QED BY <2>2, <3>1
  <2> QED BY <2>2, <2>3
<1>2. ASSUME NEW X \in S, NEW g \in Seq(S), g \in T PROVE <<X>> \o g \in T
  <2> DEFINE h == <<X>> \o g
             W == BodyWords(n, L, g)
  <2>1. h \in Seq(S) /\ BodyWords(n, L, h) = InFront(n, L, X, W)
    BY BodyOfFirst
  <2>2. W \in SUBSET Seq(Terminal)
    BY <1>2
  <2> HIDE DEF h, W
  <2>3. InFront(n, L, X, W) \in SUBSET Seq(Terminal)
    BY <2>2, InFrontTyped
  <2>4. \A w \in InFront(n, L, X, W) : Len(w) <= n
    BY DEF InFront, Short
  <2>5. h \in T
    BY <2>1, <2>3, <2>4
  <2> QED BY <2>5 DEF h
<1>3. Seq(S) \subseteq T
  <2> HIDE DEF T
  <2> QED BY <1>1, <1>2, FromTheFront
<1> QED BY <1>3

\* A word of a body that begins with X is one of X and one of the rest.
LEMMA BodyTakenApart ==
  ASSUME NEW L, WordsOfHeads(L), NEW n, NEW S, NEW X \in S, NEW f \in Seq(S), NEW w \in BodyWords(n, L, <<X>> \o f)
  PROVE  \E u \in SymbolWords(L, X), v \in BodyWords(n, L, f) : w = u \o v /\ Len(w) <= n
<1>1. w \in InFront(n, L, X, BodyWords(n, L, f))
  BY BodyOfFirst
<1> QED BY <1>1 DEF InFront, Short

\* A word of the first symbol and one of the rest make a word of the body, if it is short.
LEMMA BodyPutTogether ==
  ASSUME NEW L, WordsOfHeads(L), NEW n, NEW S, NEW X \in S, NEW f \in Seq(S),
         NEW u \in SymbolWords(L, X), NEW v \in BodyWords(n, L, f), Len(u \o v) <= n
  PROVE  u \o v \in BodyWords(n, L, <<X>> \o f)
<1>1. u \o v \in InFront(n, L, X, BodyWords(n, L, f))
  BY DEF InFront, Short
<1> QED BY <1>1, BodyOfFirst

\* L has words that K has not, and w is one or contains one.
Newer(K, L, w) == \E B \in DOMAIN L : \E x \in L[B] \ K[B] : Len(x) < Len(w) \/ x = w

\* The parts of a word are no longer than it, and one as long as it is the word.
LEMMA PartsAreShorter ==
  ASSUME NEW u \in Seq(Terminal), NEW v \in Seq(Terminal)
  PROVE  /\ Len(u) < Len(u \o v) \/ u = u \o v
         /\ Len(v) < Len(u \o v) \/ v = u \o v
         /\ Len(u) <= Len(u \o v) /\ Len(v) <= Len(u \o v)
<1>1. Len(u \o v) = Len(u) + Len(v) /\ Len(u) \in Nat /\ Len(v) \in Nat
  OBVIOUS
<1>2. CASE Len(u) = 0
  <2>1. u \o v = v
    BY <1>2, ConcatEmptySeq, EmptySeq
  <2>2. Len(v) = 0 => v = <<>> /\ u = <<>>
    BY <1>2, EmptySeq
  <2> QED BY <1>1, <1>2, <2>1, <2>2
<1>3. CASE Len(v) = 0
  <2>1. u \o v = u
    BY <1>3, ConcatEmptySeq, EmptySeq
  <2>2. Len(u) = 0 => v = <<>> /\ u = <<>>
    BY <1>3, EmptySeq
  <2> QED BY <1>1, <1>3, <2>1, <2>2
<1>4. CASE Len(u) # 0 /\ Len(v) # 0
  BY <1>1, <1>4
<1> QED BY <1>2, <1>3, <1>4

\* A word of a body that is new has in it a new word of a head.
LEMMA NewWordsComeFromNew ==
  ASSUME NEW K, NEW L, WordsOfHeads(K), WordsOfHeads(L), DOMAIN K = DOMAIN L, NEW n \in Nat, NEW S,
         NEW body \in Seq(S), NEW w \in BodyWords(n, L, body), w \notin BodyWords(n, K, body)
  PROVE  Newer(K, L, w)
<1> DEFINE T == {f \in Seq(S) : \A x \in BodyWords(n, L, f) : x \notin BodyWords(n, K, f) => Newer(K, L, x)}
           none == <<>>
<1>1. none \in T
  <2>1. BodyWords(n, L, none) = BodyWords(n, K, none)
    <3>1. BodyWords(n, L, none) = {none}
      BY BodyOfNothing
    <3>2. BodyWords(n, K, none) = {none}
      BY BodyOfNothing
    <3> QED BY <3>1, <3>2
  <2>2. none \in Seq(S)
    OBVIOUS
  <2> HIDE DEF none
  <2> QED BY <2>1, <2>2
<1>2. ASSUME NEW X \in S, NEW f \in Seq(S), f \in T PROVE <<X>> \o f \in T
  <2> SUFFICES ASSUME NEW x \in BodyWords(n, L, <<X>> \o f), x \notin BodyWords(n, K, <<X>> \o f) PROVE Newer(K, L, x)
    <3>1. <<X>> \o f \in Seq(S)
      OBVIOUS
    <3> QED BY <3>1
  <2>1. PICK u \in SymbolWords(L, X), v \in BodyWords(n, L, f) : x = u \o v /\ Len(x) <= n
    BY BodyTakenApart
  <2>2. ~ (u \in SymbolWords(K, X) /\ v \in BodyWords(n, K, f))
    BY <2>1, BodyPutTogether
  <2>3. u \in Seq(Terminal) /\ v \in Seq(Terminal)
    BY SymbolWordsTyped, BodyWordsTyped
  <2>4. /\ Len(u) < Len(x) \/ u = x
        /\ Len(v) < Len(x) \/ v = x
        /\ Len(u) <= Len(x) /\ Len(v) <= Len(x) /\ Len(u) \in Nat /\ Len(v) \in Nat /\ Len(x) \in Nat
    BY <2>1, <2>3, PartsAreShorter
  <2>5. CASE u \notin SymbolWords(K, X)
    <3>1. X \notin Terminal /\ X \in DOMAIN L /\ u \in L[X] /\ u \notin K[X]
      BY <2>5 DEF SymbolWords
    <3> QED BY <2>4, <3>1 DEF Newer
  <2>6. CASE v \notin BodyWords(n, K, f)
    <3>1. Newer(K, L, v)
      BY <1>2, <2>6
    <3>2. PICK B \in DOMAIN L : \E y \in L[B] \ K[B] : Len(y) < Len(v) \/ y = v
      BY <3>1 DEF Newer
    <3>3. PICK y \in L[B] \ K[B] : Len(y) < Len(v) \/ y = v
      BY <3>2
    <3>4. Len(y) \in Nat
      <4> y \in Seq(Terminal)
        BY DEF WordsOfHeads
      <4> QED OBVIOUS
    <3>5. Len(y) < Len(x) \/ y = x
      BY <2>4, <3>3, <3>4
    <3> QED BY <3>5 DEF Newer
  <2> QED BY <2>2, <2>5, <2>6
<1>3. Seq(S) \subseteq T
  <2> HIDE DEF T
  <2> QED BY <1>1, <1>2, FromTheFront
<1> QED BY <1>3

\* More words of heads make more words of bodies.
LEMMA BodyWordsMonotonic ==
  ASSUME NEW K, NEW L, WordsOfHeads(K), WordsOfHeads(L), DOMAIN K = DOMAIN L, \A A \in DOMAIN K : K[A] \subseteq L[A],
         NEW n \in Nat, NEW S, NEW body \in Seq(S)
  PROVE  BodyWords(n, K, body) \subseteq BodyWords(n, L, body)
<1> SUFFICES ASSUME NEW w \in BodyWords(n, K, body), w \notin BodyWords(n, L, body) PROVE FALSE
  OBVIOUS
<1>1. Newer(L, K, w)
  BY NewWordsComeFromNew
<1> QED BY <1>1 DEF Newer

-----------------------------------------------------------------------------
(* The words of heads.                                                     *)

\* Productions over the symbols.
Typed(productions) == \A p \in productions : p.head \in NonTerminal /\ p.body \in Seq(GrammarSymbol)

\* The words of trees one higher.
Higher(n, g, L) == [A \in Heads(g.productions) |-> UNION {BodyWords(n, L, body) : body \in Bodies(g.productions, A)}]

\* steps has the words by the height of their trees.
IsByHeight(steps, g, n) ==
  /\ \A h \in Nat : WordsOfHeads(steps[h]) /\ DOMAIN steps[h] = Heads(g.productions)
  /\ \A A \in Heads(g.productions) : steps[0][A] = {}
  /\ \A h \in Nat : steps[h + 1] = Higher(n, g, steps[h])

\* The words of trees one higher are words of the heads.
LEMMA HigherTyped ==
  ASSUME NEW g, Typed(g.productions), NEW n \in Nat, NEW L, WordsOfHeads(L)
  PROVE  /\ Higher(n, g, L) \in [Heads(g.productions) -> SUBSET Seq(Terminal)]
         /\ WordsOfHeads(Higher(n, g, L))
<1> DEFINE H == Heads(g.productions)
           U(A) == UNION {BodyWords(n, L, body) : body \in Bodies(g.productions, A)}
<1>1. ASSUME NEW A \in H PROVE U(A) \in SUBSET Seq(Terminal)
  <2>1. ASSUME NEW body \in Bodies(g.productions, A) PROVE BodyWords(n, L, body) \in SUBSET Seq(Terminal)
    <3>1. body \in Seq(GrammarSymbol)
      BY DEF Bodies, Typed
    <3> QED BY <3>1, BodyWordsTyped
  <2> QED BY <2>1
<1>2. Higher(n, g, L) = [A \in H |-> U(A)]
  BY DEF Higher
<1>3. H \subseteq NonTerminal
  BY DEF Heads, Typed
<1> HIDE DEF H, U
<1>4. Higher(n, g, L) \in [H -> SUBSET Seq(Terminal)]
  BY <1>1, <1>2
<1> QED BY <1>3, <1>4 DEF H, WordsOfHeads

\* WordsByHeight goes up one height at a time.
LEMMA WordsByHeightUnfold ==
  ASSUME NEW g, Typed(g.productions), NEW n \in Nat
  PROVE  IsByHeight(WordsByHeight(g, n), g, n)
<1> DEFINE H == Heads(g.productions)
           none == [A \in H |-> {}]
           S == [H -> SUBSET Seq(Terminal)]
           F == [x \in Nat \X S |-> Higher(n, g, x[2])]
           Is(f) == f = [h \in Nat |-> IF h = 0 THEN none ELSE Higher(n, g, f[h - 1])]
           words == CHOOSE f : Is(f)
<1>1. WordsByHeight(g, n) = words
  BY DEF WordsByHeight, Higher
<1>0. H \subseteq NonTerminal /\ \A L \in S : WordsOfHeads(L) /\ DOMAIN L = H
  BY DEF Heads, Typed, WordsOfHeads
<1>2. PICK f : Iterates(f, S, none, F)
  <2>1. StaysIn(S, none, F)
    <3>1. none \in S
      OBVIOUS
    <3>2. ASSUME NEW k \in Nat, NEW x \in S PROVE F[<<k, x>>] \in S
      <4>1. F[<<k, x>>] = Higher(n, g, x)
        OBVIOUS
      <4>2. WordsOfHeads(x)
        BY <1>0
      <4> HIDE DEF F
      <4> QED BY <4>1, <4>2, HigherTyped
    <3> HIDE DEF none, S, F
    <3> QED BY <3>1, <3>2 DEF StaysIn
  <2> HIDE DEF none, S, F
  <2> QED BY <2>1, RecursionOnNat
<1>3. f \in [Nat -> S] /\ f[0] = none /\ \A k \in Nat : f[k + 1] = Higher(n, g, f[k])
  <2>1. f \in [Nat -> S] /\ f[0] = none /\ \A k \in Nat : f[k + 1] = F[<<k, f[k]>>]
    BY <1>2 DEF Iterates
  <2>2. ASSUME NEW k \in Nat PROVE F[<<k, f[k]>>] = Higher(n, g, f[k])
    <3>1. f[k] \in S
      BY <2>1
    <3> HIDE DEF S
    <3> QED BY <3>1
  <2> QED BY <2>1, <2>2
<1>4. Is(f)
  <2>1. ASSUME NEW k \in Nat, k # 0 PROVE f[k] = Higher(n, g, f[k - 1])
    <3>1. k - 1 \in Nat /\ (k - 1) + 1 = k
      BY <2>1
    <3>2. f[(k - 1) + 1] = Higher(n, g, f[k - 1])
      BY <3>1, <1>3
    <3> QED BY <3>1, <3>2
  <2> HIDE DEF none, S
  <2> QED BY <1>3, <2>1
<1>5. Is(words)
  <2> HIDE DEF Is
  <2> QED BY <1>4
<1>6. words = f
  <2> DEFINE T == {k \in Nat : words[k] = f[k]}
  <2>1. /\ words = [k \in Nat |-> words[k]] /\ words[0] = none
        /\ \A k \in Nat : words[k + 1] = Higher(n, g, words[k])
    <3> HIDE DEF words, none
    <3>1. words[0] = none
      BY <1>5
    <3>2. ASSUME NEW k \in Nat PROVE words[k + 1] = Higher(n, g, words[k])
      <4>1. k + 1 \in Nat /\ k + 1 # 0 /\ (k + 1) - 1 = k
        OBVIOUS
      <4>2. words[k + 1] = Higher(n, g, words[(k + 1) - 1])
        BY <1>5, <4>1
      <4> QED BY <4>1, <4>2
    <3> QED BY <1>5, <3>1, <3>2
  <2> HIDE DEF words, none, S
  <2>2. 0 \in T
    BY <2>1, <1>3
  <2>3. ASSUME NEW k \in Nat, k \in T PROVE k + 1 \in T
    <3>1. words[k] = f[k]
      BY <2>3
    <3>2. words[k + 1] = Higher(n, g, words[k])
      BY <2>1
    <3>3. f[k + 1] = Higher(n, g, f[k])
      BY <1>3
    <3>4. words[k + 1] = f[k + 1]
      BY <3>1, <3>2, <3>3
    <3> QED BY <3>4
  <2>4. Nat \subseteq T
    <3> HIDE DEF T
    <3> QED BY <2>2, <2>3, InductionOnNat
  <2> QED BY <2>1, <2>4, <1>3
<1>7. /\ \A h \in Nat : f[h] \in S
      /\ \A A \in H : none[A] = {}
  BY <1>3
<1> HIDE DEF words, S, none, H
<1>8. /\ \A h \in Nat : WordsOfHeads(f[h]) /\ DOMAIN f[h] = H
      /\ \A A \in H : f[0][A] = {}
      /\ \A h \in Nat : f[h + 1] = Higher(n, g, f[h])
  BY <1>0, <1>3, <1>7
<1> QED BY <1>1, <1>6, <1>8 DEF IsByHeight, H

\* No word is lost when trees may be higher.
LEMMA HigherHasMore ==
  ASSUME NEW g, Typed(g.productions), NEW n \in Nat
  PROVE  \A h \in Nat : \A A \in Heads(g.productions) : WordsByHeight(g, n)[h][A] \subseteq WordsByHeight(g, n)[h + 1][A]
<1> DEFINE H == Heads(g.productions)
           steps == WordsByHeight(g, n)
           T == {h \in Nat : \A A \in H : steps[h][A] \subseteq steps[h + 1][A]}
<1>0. IsByHeight(steps, g, n)
  BY WordsByHeightUnfold
<1> HIDE DEF steps
<1>1. 0 \in T
  BY <1>0 DEF IsByHeight
<1>2. ASSUME NEW h \in Nat, h \in T PROVE h + 1 \in T
  <2> SUFFICES ASSUME NEW A \in H, NEW w \in steps[h + 1][A] PROVE w \in steps[(h + 1) + 1][A]
    OBVIOUS
  <2>1. steps[h + 1] = Higher(n, g, steps[h]) /\ steps[(h + 1) + 1] = Higher(n, g, steps[h + 1])
    <3>1. h \in Nat /\ h + 1 \in Nat
      OBVIOUS
    <3> QED BY <3>1, <1>0 DEF IsByHeight
  <2>2. PICK body \in Bodies(g.productions, A) : w \in BodyWords(n, steps[h], body)
    BY <2>1 DEF Higher
  <2>3. body \in Seq(GrammarSymbol)
    BY DEF Bodies, Typed
  <2>4. /\ WordsOfHeads(steps[h]) /\ DOMAIN steps[h] = H /\ WordsOfHeads(steps[h + 1]) /\ DOMAIN steps[h + 1] = H
        /\ \A B \in DOMAIN steps[h] : steps[h][B] \subseteq steps[h + 1][B]
    <3>1. h \in Nat /\ h + 1 \in Nat
      OBVIOUS
    <3>2. \A B \in H : steps[h][B] \subseteq steps[h + 1][B]
      BY <1>2
    <3> QED BY <3>1, <3>2, <1>0 DEF IsByHeight
  <2>5. w \in BodyWords(n, steps[h + 1], body)
    BY <2>2, <2>3, <2>4, BodyWordsMonotonic
  <2>6. steps[(h + 1) + 1][A] = UNION {BodyWords(n, steps[h + 1], b) : b \in Bodies(g.productions, A)}
    BY <2>1 DEF Higher
  <2> QED BY <2>5, <2>6
<1>3. Nat \subseteq T
  <2> HIDE DEF T
  <2> QED BY <1>1, <1>2, InductionOnNat
<1> QED BY <1>3 DEF steps

\* w is new among the words of A at the height h.
New(steps, h, A, w) == w \in steps[h + 1][A] /\ w \notin steps[h][A]

\* Pairs of a head and a length, one for each height up to h; those with the length of w have w.
Path(Z, steps, h, heads, w) ==
  /\ Z \subseteq heads \X (0 .. Len(w)) /\ IsFiniteSet(Z) /\ Cardinality(Z) = h + 1
  /\ \A z \in Z : z[2] = Len(w) => w \in steps[h + 1][z[1]]

\* A word that is new at a height has below it a new one for each height, of another head
\* or of another length.
LEMMA NewAtEveryHeight ==
  ASSUME NEW g, Typed(g.productions), NEW n \in Nat
  PROVE  \A h \in Nat : \A A \in Heads(g.productions) : \A w :
           New(WordsByHeight(g, n), h, A, w) => \E Z : Path(Z, WordsByHeight(g, n), h, Heads(g.productions), w)
<1> DEFINE H == Heads(g.productions)
           steps == WordsByHeight(g, n)
           T == {h \in Nat : \A A \in H : \A w \in Seq(Terminal) : New(steps, h, A, w) => \E Z : Path(Z, steps, h, H, w)}
<1>0. IsByHeight(steps, g, n) /\ \A h \in Nat : \A A \in H : steps[h][A] \subseteq steps[h + 1][A]
  BY WordsByHeightUnfold, HigherHasMore
<1> HIDE DEF steps
<1>a. ASSUME NEW h \in Nat, NEW A \in H PROVE steps[h][A] \subseteq Seq(Terminal)
  BY <1>0 DEF IsByHeight, WordsOfHeads
<1>1. 0 \in T
  <2> SUFFICES ASSUME NEW A \in H, NEW w \in Seq(Terminal), New(steps, 0, A, w) PROVE \E Z : Path(Z, steps, 0, H, w)
    OBVIOUS
  <2> DEFINE Z == {<<A, Len(w)>>}
  <2>1. IsFiniteSet(Z) /\ Cardinality(Z) = 1
    BY FS_Singleton
  <2>2. Z \subseteq H \X (0 .. Len(w))
    OBVIOUS
  <2>3. \A z \in Z : w \in steps[0 + 1][z[1]]
    BY DEF New
  <2>4. Path(Z, steps, 0, H, w)
    <3> HIDE DEF Z
    <3> QED BY <2>1, <2>2, <2>3 DEF Path
  <2> QED BY <2>4
<1>2. ASSUME NEW h \in Nat, h \in T PROVE h + 1 \in T
  <2> SUFFICES ASSUME NEW A \in H, NEW w \in Seq(Terminal), New(steps, h + 1, A, w) PROVE \E Z : Path(Z, steps, h + 1, H, w)
    OBVIOUS
  <2>1. steps[h + 1] = Higher(n, g, steps[h]) /\ steps[(h + 1) + 1] = Higher(n, g, steps[h + 1])
    <3>1. h \in Nat /\ h + 1 \in Nat
      OBVIOUS
    <3> QED BY <3>1, <1>0 DEF IsByHeight
  <2>2. PICK body \in Bodies(g.productions, A) : w \in BodyWords(n, steps[h + 1], body)
    BY <2>1 DEF Higher, New
  <2>3. body \in Seq(GrammarSymbol)
    BY DEF Bodies, Typed
  <2>4. WordsOfHeads(steps[h]) /\ DOMAIN steps[h] = H /\ WordsOfHeads(steps[h + 1]) /\ DOMAIN steps[h + 1] = H
    <3>1. h \in Nat /\ h + 1 \in Nat
      OBVIOUS
    <3> QED BY <3>1, <1>0 DEF IsByHeight
  <2>5. w \notin BodyWords(n, steps[h], body)
    BY <2>1, <2>2 DEF New, Higher
  <2>6. Newer(steps[h], steps[h + 1], w)
    BY <2>2, <2>3, <2>4, <2>5, NewWordsComeFromNew
  <2>7. PICK B \in H : \E x \in steps[h + 1][B] \ steps[h][B] : Len(x) < Len(w) \/ x = w
    BY <2>4, <2>6 DEF Newer
  <2>8. PICK x \in steps[h + 1][B] \ steps[h][B] : Len(x) < Len(w) \/ x = w
    BY <2>7
  <2>9. New(steps, h, B, x) /\ x \in Seq(Terminal)
    <3>1. h + 1 \in Nat
      OBVIOUS
    <3> QED BY <3>1, <2>8, <1>a DEF New
  <2>10. PICK Y : Path(Y, steps, h, H, x)
    BY <1>2, <2>9
  <2> DEFINE z == <<A, Len(w)>>
             Z == Y \cup {z}
  <2>11. Len(w) \in Nat /\ Len(x) \in Nat /\ Len(x) <= Len(w)
    BY <2>8, <2>9
  <2>12. z \notin Y
    <3> SUFFICES ASSUME z \in Y PROVE FALSE
      OBVIOUS
    <3>1. z[1] = A /\ z[2] = Len(w) /\ z[2] \in 0 .. Len(x)
      BY <2>10 DEF Path
    <3>2. x = w
      BY <2>8, <2>11, <3>1
    <3>3. w \in steps[h + 1][A]
      BY <2>10, <3>1, <3>2 DEF Path
    <3> QED BY <3>3 DEF New
  <2>13. IsFiniteSet(Z) /\ Cardinality(Z) = (h + 1) + 1
    BY <2>10, <2>12, FS_AddElement DEF Path
  <2>14. Z \subseteq H \X (0 .. Len(w))
    <3>1. Y \subseteq H \X (0 .. Len(x)) /\ 0 .. Len(x) \subseteq 0 .. Len(w)
      BY <2>10, <2>11 DEF Path
    <3>2. z \in H \X (0 .. Len(w))
      BY <2>11
    <3> HIDE DEF z
    <3> QED BY <3>1, <3>2
  <2>15. ASSUME NEW y \in Z, y[2] = Len(w) PROVE w \in steps[(h + 1) + 1][y[1]]
    <3>1. CASE y = z
      BY <3>1 DEF New
    <3>2. CASE y \in Y
      <4>1. y[2] \in 0 .. Len(x) /\ y[1] \in H
        BY <2>10, <3>2 DEF Path
      <4>2. x = w
        BY <2>8, <2>11, <2>15, <4>1
      <4>3. w \in steps[h + 1][y[1]]
        BY <2>10, <2>15, <3>2, <4>2 DEF Path
      <4>4. h + 1 \in Nat
        OBVIOUS
      <4> QED BY <1>0, <4>1, <4>3, <4>4
    <3> QED BY <3>1, <3>2
  <2>16. Path(Z, steps, h + 1, H, w)
    <3> HIDE DEF Z
    <3> QED BY <2>13, <2>14, <2>15 DEF Path
  <2> QED BY <2>16
<1>3. Nat \subseteq T
  <2> HIDE DEF T
  <2> QED BY <1>1, <1>2, InductionOnNat
<1> SUFFICES ASSUME NEW h \in Nat, NEW A \in H, NEW w, New(steps, h, A, w) PROVE \E Z : Path(Z, steps, h, H, w)
  BY DEF steps
<1>4. w \in Seq(Terminal)
  <2>1. h + 1 \in Nat
    OBVIOUS
  <2> QED BY <2>1, <1>a DEF New
<1> QED BY <1>3, <1>4

\* From the height of DerivedWords on no word is new.
LEMMA NothingNew ==
  ASSUME NEW g, Typed(g.productions), IsFiniteSet(Heads(g.productions)), NEW n \in Nat, NEW A \in Heads(g.productions)
  PROVE  Higher(n, g, DerivedWords(g, n))[A] \subseteq DerivedWords(g, n)[A]
<1> DEFINE H == Heads(g.productions)
           steps == WordsByHeight(g, n)
           k == (n + 1) * Cardinality(H)
<1>0. IsByHeight(steps, g, n) /\ DerivedWords(g, n) = steps[k]
  BY WordsByHeightUnfold DEF DerivedWords
<1>1. Cardinality(H) \in Nat /\ k \in Nat
  BY FS_CardinalityType
<1>2. IsFiniteSet(H \X (0 .. n)) /\ Cardinality(H \X (0 .. n)) = k
  <2>1. IsFiniteSet(0 .. n) /\ Cardinality(0 .. n) = n + 1
    BY FS_Interval
  <2>2. Cardinality(H \X (0 .. n)) = Cardinality(H) * (n + 1) /\ IsFiniteSet(H \X (0 .. n))
    BY <2>1, FS_Product
  <2>3. Cardinality(H) * (n + 1) = (n + 1) * Cardinality(H)
    BY <1>1
  <2> QED BY <2>2, <2>3
<1> HIDE DEF k
<1> SUFFICES ASSUME NEW w \in Higher(n, g, steps[k])[A], w \notin steps[k][A] PROVE FALSE
  BY <1>0
<1>3. steps[k + 1] = Higher(n, g, steps[k])
  BY <1>0, <1>1 DEF IsByHeight
<1>4. New(steps, k, A, w)
  BY <1>3 DEF New
<1>5. PICK Z : Path(Z, steps, k, H, w)
  BY <1>1, <1>4, NewAtEveryHeight
<1>6. Len(w) <= n /\ Len(w) \in Nat
  <2>1. PICK body \in Bodies(g.productions, A) : w \in BodyWords(n, steps[k], body)
    BY DEF Higher
  <2>2. body \in Seq(GrammarSymbol) /\ WordsOfHeads(steps[k])
    BY <1>0, <1>1 DEF Bodies, Typed, IsByHeight
  <2>3. w \in Seq(Terminal) /\ Len(w) <= n
    BY <2>1, <2>2, BodyWordsTyped
  <2> QED BY <2>3
<1>7. Z \subseteq H \X (0 .. n)
  <2>1. 0 .. Len(w) \subseteq 0 .. n
    BY <1>6
  <2> QED BY <1>5, <2>1 DEF Path
<1>8. Cardinality(Z) <= k
  BY <1>2, <1>7, FS_Subset
<1> QED BY <1>1, <1>5, <1>8 DEF Path

-----------------------------------------------------------------------------
(* What the constructor leaves.                                            *)

\* A set of productions that each come from one of as many others are those.
LEMMA EachItsOwn ==
  ASSUME NEW P, IsFiniteSet(P), NEW D \in SUBSET P, NEW f, \A p \in P : \E o \in D : f[o] = p
  PROVE  D = P
<1> DEFINE E == {o \in D : f[o] \in P}
           h == [o \in E |-> f[o]]
<1>1. h \in Surjection(E, P)
  BY DEF Surjection
<1>2. E \in SUBSET P
  OBVIOUS
<1> HIDE DEF E, h
<1>3. IsFiniteSet(E) /\ Cardinality(E) <= Cardinality(P) /\ (Cardinality(P) = Cardinality(E) => P = E)
  BY <1>2, FS_Subset
<1>4. Cardinality(P) <= Cardinality(E)
  BY <1>1, <1>3, FS_Surjection
<1>5. Cardinality(P) \in Nat /\ Cardinality(E) \in Nat
  BY <1>3, FS_CardinalityType
<1>6. P = E
  BY <1>3, <1>4, <1>5
<1> QED BY <1>6 DEF E

\* The constructor has left no production that is of no use.
LEMMA NothingUseless ==
  ASSUME NEW g, IsGrammar(g), NEW p \in g.productions
  PROVE  p.head \in Reachable(g.start, g.productions) /\ NonTerminalsOf(p.body) \subseteq InUse(g.productions)
<1> DEFINE P == g.productions
           reachable == Reachable(g.start, P)
           reached == {q \in P : q.head \in reachable}
           inUse == InUse(reached)
           used == {q \in reached : NonTerminalsOf(q.body) \subseteq inUse}
           empty == (Heads(used) \ NonEmpty(used)) \ {g.start}
           without(q) == [q EXCEPT !.body = SelectSeq(@, LAMBDA X : X \notin empty)]
           kept == {u \in used : u.head \notin empty}
<1>1. P = {q \in {without(o) : o \in kept} : q.body # <<q.head>>}
  BY DEF IsGrammar, EliminateUselessSymbols
<1> HIDE DEF without
<1>0. PICK f : f = [o \in kept |-> without(o)]
  OBVIOUS
<1>2. \A q \in P : \E o \in kept : f[o] = q
  <2> SUFFICES ASSUME NEW q \in P PROVE \E o \in kept : f[o] = q
    OBVIOUS
  <2>1. PICK o \in kept : q = without(o)
    BY <1>1
  <2> QED BY <1>0, <2>1
<1>3. kept \in SUBSET P /\ kept \subseteq used
  OBVIOUS
<1>4. IsFiniteSet(P)
  BY DEF IsGrammar
<1>5. kept = P
  <2>1. kept \in SUBSET P
    BY <1>3
  <2> HIDE DEF kept, P, used, empty, reached, inUse, reachable
  <2> QED BY <1>2, <2>1, <1>4, EachItsOwn
<1>6. used = P
  <2> HIDE DEF kept
  <2> QED BY <1>3, <1>5
<1>7. reached = P
  BY <1>6
<1>8. p \in used /\ inUse = InUse(P)
  BY <1>6, <1>7
<1> QED BY <1>8

\* InUse is the smallest set of heads that is closed under the productions.
LEMMA InUseIsSmallest ==
  ASSUME NEW P
  PROVE  /\ InUse(P) \subseteq Heads(P)
         /\ \A p \in P : NonTerminalsOf(p.body) \subseteq InUse(P) => p.head \in InUse(P)
         /\ \A W \in SUBSET Heads(P) :
              (\A p \in P : NonTerminalsOf(p.body) \subseteq W => p.head \in W) => InUse(P) \subseteq W
<1> DEFINE C(V) == \A p \in P : NonTerminalsOf(p.body) \subseteq V => p.head \in V
           Is(V) == C(V) /\ \A W \in SUBSET Heads(P) : C(W) => V \subseteq W
           M == {A \in Heads(P) : \A W \in SUBSET Heads(P) : C(W) => A \in W}
<1>1. ASSUME NEW p \in P, NonTerminalsOf(p.body) \subseteq M PROVE p.head \in M
  <2>1. p.head \in Heads(P)
    BY DEF Heads
  <2>2. ASSUME NEW W \in SUBSET Heads(P), C(W) PROVE p.head \in W
    <3>1. M \subseteq W
      BY <2>2
    <3> QED BY <1>1, <2>2, <3>1
  <2> QED BY <2>1, <2>2
<1>2. M \in SUBSET Heads(P) /\ Is(M)
  <2>1. C(M)
    <3> HIDE DEF M
    <3> QED BY <1>1
  <2> QED BY <2>1
<1>3. InUse(P) = CHOOSE V \in SUBSET Heads(P) : Is(V)
  BY DEF InUse, Smallest
<1>4. InUse(P) \in SUBSET Heads(P) /\ Is(InUse(P))
  <2> HIDE DEF Is, M
  <2> QED BY <1>2, <1>3
<1> QED BY <1>4

-----------------------------------------------------------------------------
(* All the words that are derived, of whatever length.                     *)

\* Longer words, and more words of heads, make more words of bodies.
LEMMA LongerBodies ==
  ASSUME NEW K, NEW L, WordsOfHeads(K), WordsOfHeads(L), DOMAIN K = DOMAIN L, \A A \in DOMAIN K : K[A] \subseteq L[A],
         NEW n \in Nat, NEW m \in Nat, n <= m, NEW S, NEW body \in Seq(S)
  PROVE  BodyWords(n, K, body) \subseteq BodyWords(m, L, body)
<1> DEFINE T == {f \in Seq(S) : BodyWords(n, K, f) \subseteq BodyWords(m, L, f)}
           none == <<>>
<1>1. none \in T
  <2>1. BodyWords(n, K, none) = {none}
    BY BodyOfNothing
  <2>2. BodyWords(m, L, none) = {none}
    BY BodyOfNothing
  <2>3. none \in Seq(S)
    OBVIOUS
  <2> HIDE DEF none
  <2> QED BY <2>1, <2>2, <2>3
<1>2. ASSUME NEW X \in S, NEW f \in Seq(S), f \in T PROVE <<X>> \o f \in T
  <2>1. <<X>> \o f \in Seq(S)
    OBVIOUS
  <2>2. ASSUME NEW x \in BodyWords(n, K, <<X>> \o f) PROVE x \in BodyWords(m, L, <<X>> \o f)
    <3>1. PICK u \in SymbolWords(K, X), v \in BodyWords(n, K, f) : x = u \o v /\ Len(x) <= n
      BY BodyTakenApart
    <3>2. u \in SymbolWords(L, X)
      BY DEF SymbolWords
    <3>3. v \in BodyWords(m, L, f)
      BY <1>2
    <3>4. u \in Seq(Terminal) /\ v \in Seq(Terminal)
      BY SymbolWordsTyped, BodyWordsTyped
    <3>5. Len(u \o v) <= m
      <4>1. u \o v \in Seq(Terminal)
        BY <3>4, ConcatProperties
      <4>2. Len(u \o v) \in Nat
        BY <4>1
      <4> QED BY <3>1, <4>2
    <3> QED BY <3>1, <3>2, <3>3, <3>5, BodyPutTogether
  <2> QED BY <2>1, <2>2
<1>3. Seq(S) \subseteq T
  <2> HIDE DEF T
  <2> QED BY <1>1, <1>2, FromTheFront
<1> QED BY <1>3

\* The words of all heights are among those that are collected.
LEMMA HeightsAreDerived ==
  ASSUME NEW g, Typed(g.productions), IsFiniteSet(Heads(g.productions)), NEW n \in Nat
  PROVE  /\ WordsOfHeads(DerivedWords(g, n)) /\ DOMAIN DerivedWords(g, n) = Heads(g.productions)
         /\ \A h \in Nat : \A A \in Heads(g.productions) : WordsByHeight(g, n)[h][A] \subseteq DerivedWords(g, n)[A]
<1> DEFINE H == Heads(g.productions)
           steps == WordsByHeight(g, n)
           L == DerivedWords(g, n)
           k == (n + 1) * Cardinality(H)
           T == {h \in Nat : \A A \in H : steps[h][A] \subseteq L[A]}
<1>0. IsByHeight(steps, g, n) /\ L = steps[k]
  BY WordsByHeightUnfold DEF DerivedWords
<1>1. k \in Nat
  BY FS_CardinalityType
<1>2. WordsOfHeads(L) /\ DOMAIN L = H
  BY <1>0, <1>1 DEF IsByHeight
<1>3. \A A \in H : Higher(n, g, L)[A] \subseteq L[A]
  BY NothingNew
<1> HIDE DEF L, steps, k
<1>4. 0 \in T
  BY <1>0 DEF IsByHeight
<1>5. ASSUME NEW h \in Nat, h \in T PROVE h + 1 \in T
  <2> SUFFICES ASSUME NEW A \in H, NEW w \in steps[h + 1][A] PROVE w \in L[A]
    OBVIOUS
  <2>1. steps[h + 1] = Higher(n, g, steps[h]) /\ WordsOfHeads(steps[h]) /\ DOMAIN steps[h] = H
    BY <1>0 DEF IsByHeight
  <2>2. PICK body \in Bodies(g.productions, A) : w \in BodyWords(n, steps[h], body)
    BY <2>1 DEF Higher
  <2>3. body \in Seq(GrammarSymbol)
    BY DEF Bodies, Typed
  <2>4. \A B \in DOMAIN steps[h] : steps[h][B] \subseteq L[B]
    BY <1>5, <2>1
  <2>5. w \in BodyWords(n, L, body)
    BY <1>2, <2>1, <2>2, <2>3, <2>4, BodyWordsMonotonic
  <2>6. w \in Higher(n, g, L)[A]
    BY <2>5 DEF Higher
  <2> QED BY <1>3, <2>6
<1>6. Nat \subseteq T
  <2> HIDE DEF T
  <2> QED BY <1>4, <1>5, InductionOnNat
<1> QED BY <1>2, <1>6 DEF L, steps, H

\* No word is lost when words may be longer.
LEMMA LongerWords ==
  ASSUME NEW g, Typed(g.productions), IsFiniteSet(Heads(g.productions)), NEW n \in Nat, NEW m \in Nat, n <= m
  PROVE  \A A \in Heads(g.productions) : DerivedWords(g, n)[A] \subseteq DerivedWords(g, m)[A]
<1> DEFINE H == Heads(g.productions)
           a == WordsByHeight(g, n)
           L == DerivedWords(g, m)
           k == (n + 1) * Cardinality(H)
           T == {h \in Nat : \A A \in H : a[h][A] \subseteq L[A]}
<1>0. IsByHeight(a, g, n) /\ DerivedWords(g, n) = a[k]
  BY WordsByHeightUnfold DEF DerivedWords
<1>1. k \in Nat
  BY FS_CardinalityType
<1>2. WordsOfHeads(L) /\ DOMAIN L = H
  BY HeightsAreDerived
<1>3. \A A \in H : Higher(m, g, L)[A] \subseteq L[A]
  BY NothingNew
<1> HIDE DEF L, a, k
<1>4. 0 \in T
  BY <1>0 DEF IsByHeight
<1>5. ASSUME NEW h \in Nat, h \in T PROVE h + 1 \in T
  <2> SUFFICES ASSUME NEW A \in H, NEW w \in a[h + 1][A] PROVE w \in L[A]
    OBVIOUS
  <2>1. a[h + 1] = Higher(n, g, a[h]) /\ WordsOfHeads(a[h]) /\ DOMAIN a[h] = H
    BY <1>0 DEF IsByHeight
  <2>2. PICK body \in Bodies(g.productions, A) : w \in BodyWords(n, a[h], body)
    BY <2>1 DEF Higher
  <2>3. body \in Seq(GrammarSymbol)
    BY DEF Bodies, Typed
  <2>4. \A B \in DOMAIN a[h] : a[h][B] \subseteq L[B]
    BY <1>5, <2>1
  <2>5. w \in BodyWords(m, L, body)
    BY <1>2, <2>1, <2>2, <2>3, <2>4, LongerBodies
  <2>6. w \in Higher(m, g, L)[A]
    BY <2>5 DEF Higher
  <2> QED BY <1>3, <2>6
<1>6. Nat \subseteq T
  <2> HIDE DEF T
  <2> QED BY <1>4, <1>5, InductionOnNat
<1>7. k \in T
  BY <1>1, <1>6
<1> QED BY <1>0, <1>7 DEF L, H

\* All the words of the heads, and of a sequence of symbols.
AllWords(g) == [A \in Heads(g.productions) |-> UNION {DerivedWords(g, n)[A] : n \in Nat}]
Yields(g, f) == UNION {BodyWords(n, AllWords(g), f) : n \in Nat}

\* They are words.
LEMMA AllWordsTyped ==
  ASSUME NEW g, Typed(g.productions), IsFiniteSet(Heads(g.productions))
  PROVE  WordsOfHeads(AllWords(g)) /\ DOMAIN AllWords(g) = Heads(g.productions)
<1> DEFINE H == Heads(g.productions)
           L(A) == UNION {DerivedWords(g, n)[A] : n \in Nat}
<1>1. ASSUME NEW A \in H PROVE L(A) \subseteq Seq(Terminal)
  <2>1. ASSUME NEW n \in Nat PROVE DerivedWords(g, n)[A] \subseteq Seq(Terminal)
    BY HeightsAreDerived DEF WordsOfHeads
  <2> QED BY <2>1
<1>2. H \subseteq NonTerminal
  BY DEF Heads, Typed
<1>3. AllWords(g) = [A \in H |-> L(A)]
  BY DEF AllWords
<1> HIDE DEF L, H
<1>4. DOMAIN AllWords(g) = H /\ \A A \in H : AllWords(g)[A] = L(A)
  BY <1>3
<1> QED BY <1>1, <1>2, <1>4 DEF WordsOfHeads, H

\* w is a word of X and one of f behind it.
Apart(g, X, f, w) == \E u \in SymbolWords(AllWords(g), X), v \in Yields(g, f) : w = u \o v

\* A word of a sequence that begins with X is one of X and one of the rest.
LEMMA YieldTakenApart ==
  ASSUME NEW g, Typed(g.productions), IsFiniteSet(Heads(g.productions)), NEW S, NEW X \in S, NEW f \in Seq(S),
         NEW w \in Yields(g, <<X>> \o f)
  PROVE  Apart(g, X, f, w)
<1> DEFINE L == AllWords(g)
           Has(n) == \E u \in SymbolWords(L, X), v \in BodyWords(n, L, f) : w = u \o v /\ Len(w) <= n
<1>0. WordsOfHeads(L)
  BY AllWordsTyped
<1>a. \A h : Yields(g, h) = UNION {BodyWords(n, L, h) : n \in Nat}
  BY DEF Yields
<1> HIDE DEF L
<1>1. PICK n \in Nat : w \in BodyWords(n, L, <<X>> \o f)
  BY <1>a
<1>2. Has(n)
  BY <1>0, <1>1, BodyTakenApart
<1>3. PICK u \in SymbolWords(L, X), v \in BodyWords(n, L, f) : w = u \o v /\ Len(w) <= n
  BY <1>2
<1>4. v \in Yields(g, f) /\ w = u \o v
  BY <1>a, <1>3
<1> QED BY <1>4 DEF L, Apart

\* A word of X and one of the rest make a word of the sequence.
LEMMA YieldPutTogether ==
  ASSUME NEW g, Typed(g.productions), IsFiniteSet(Heads(g.productions)), NEW S, NEW X \in S, NEW f \in Seq(S),
         NEW u \in SymbolWords(AllWords(g), X), NEW v \in Yields(g, f)
  PROVE  u \o v \in Yields(g, <<X>> \o f)
<1> DEFINE L == AllWords(g)
<1>0. WordsOfHeads(L)
  BY AllWordsTyped
<1>a. \A h : Yields(g, h) = UNION {BodyWords(n, L, h) : n \in Nat}
  BY DEF Yields
<1>b. u \in SymbolWords(L, X)
  OBVIOUS
<1> HIDE DEF L
<1>1. PICK n \in Nat : v \in BodyWords(n, L, f)
  BY <1>a
<1>2. u \in Seq(Terminal) /\ v \in Seq(Terminal)
  BY <1>0, <1>1, <1>b, SymbolWordsTyped, BodyWordsTyped
<1>3. PICK m : m = n + Len(u \o v)
  OBVIOUS
<1>4. m \in Nat /\ n <= m /\ Len(u \o v) <= m
  <2>1. u \o v \in Seq(Terminal)
    BY <1>2, ConcatProperties
  <2>2. Len(u \o v) \in Nat
    BY <2>1
  <2> QED BY <1>3, <2>2
<1>5. v \in BodyWords(m, L, f)
  <2>1. BodyWords(n, L, f) \subseteq BodyWords(m, L, f)
    BY <1>0, <1>4, LongerBodies
  <2> QED BY <1>1, <2>1
<1>6. u \o v \in BodyWords(m, L, <<X>> \o f)
  BY <1>0, <1>4, <1>5, <1>b, BodyPutTogether
<1> QED BY <1>a, <1>4, <1>6

\* Three words, one behind the other.
LEMMA ThreeWords ==
  ASSUME NEW x \in Seq(Terminal), NEW y \in Seq(Terminal), NEW z \in Seq(Terminal)
  PROVE  x \o (y \o z) = (x \o y) \o z
BY ConcatAssociative

\* Nothing has the empty word, and what has words has them over the terminals.
LEMMA YieldsTyped ==
  ASSUME NEW g, Typed(g.productions), IsFiniteSet(Heads(g.productions))
  PROVE  /\ Yields(g, <<>>) = {<<>>}
         /\ \A S : \A f \in Seq(S) : Yields(g, f) \in SUBSET Seq(Terminal)
<1> DEFINE L == AllWords(g)
<1>0. WordsOfHeads(L)
  BY AllWordsTyped
<1>a. \A h : Yields(g, h) = UNION {BodyWords(n, L, h) : n \in Nat}
  BY DEF Yields
<1> HIDE DEF L
<1>1. Yields(g, <<>>) = {<<>>}
  <2> DEFINE none == <<>>
  <2>1. \A n \in Nat : BodyWords(n, L, none) = {none}
    BY <1>0, BodyOfNothing
  <2> HIDE DEF none
  <2>2. Yields(g, none) = {none}
    <3>1. \A w \in Yields(g, none) : w = none
      BY <1>a, <2>1
    <3>2. none \in Yields(g, none)
      <4>1. 0 \in Nat /\ none \in BodyWords(0, L, none)
        BY <2>1
      <4> QED BY <1>a, <4>1
    <3> QED BY <3>1, <3>2
  <2> QED BY <2>2 DEF none
<1>2. ASSUME NEW S, NEW f \in Seq(S) PROVE Yields(g, f) \in SUBSET Seq(Terminal)
  <2>1. \A n \in Nat : BodyWords(n, L, f) \in SUBSET Seq(Terminal)
    BY <1>0, BodyWordsTyped
  <2> QED BY <1>a, <2>1
<1> QED BY <1>1, <1>2

\* w is a word of e and one of f behind it.
Both(g, e, f, w) == \E u \in Yields(g, e), v \in Yields(g, f) : w = u \o v

\* The words of two sequences, one behind the other.
LEMMA YieldsOfBoth ==
  ASSUME NEW g, Typed(g.productions), IsFiniteSet(Heads(g.productions)), NEW S, NEW e \in Seq(S), NEW f \in Seq(S)
  PROVE  /\ \A w \in Yields(g, e \o f) : Both(g, e, f, w)
         /\ \A u \in Yields(g, e), v \in Yields(g, f) : u \o v \in Yields(g, e \o f)
<1> DEFINE Right(d) == /\ \A w \in Yields(g, d \o f) : Both(g, d, f, w)
                       /\ \A u \in Yields(g, d), v \in Yields(g, f) : u \o v \in Yields(g, d \o f)
           T == {d \in Seq(S) : Right(d)}
           none == <<>>
<1>1. none \in T
  <2>1. none \in Seq(S) /\ none \o f = f
    OBVIOUS
  <2>2. Yields(g, none) = {none}
    BY YieldsTyped
  <2>3. Yields(g, f) \in SUBSET Seq(Terminal)
    BY YieldsTyped
  <2>4. \A v \in Yields(g, f) : none \o v = v
    BY <2>3
  <2> HIDE DEF none
  <2>5. Right(none)
    BY <2>1, <2>2, <2>4 DEF Both
  <2> QED BY <2>1, <2>5
<1>2. ASSUME NEW X \in S, NEW d \in Seq(S), d \in T PROVE <<X>> \o d \in T
  <2>1. <<X>> \in Seq(S) /\ <<X>> \o d \in Seq(S) /\ d \o f \in Seq(S)
    BY ConcatProperties
  <2>2. (<<X>> \o d) \o f = <<X>> \o (d \o f)
    BY <2>1, ConcatAssociative
  <2>3. ASSUME NEW w \in Yields(g, (<<X>> \o d) \o f)
        PROVE  Both(g, <<X>> \o d, f, w)
    <3>0. w \in Yields(g, <<X>> \o (d \o f))
      BY <2>2
    <3>0a. Apart(g, X, d \o f, w)
      BY <2>1, <3>0, YieldTakenApart
    <3>1. PICK x \in SymbolWords(AllWords(g), X), y \in Yields(g, d \o f) : w = x \o y
      BY <3>0a DEF Apart
    <3>2. PICK u \in Yields(g, d), v \in Yields(g, f) : y = u \o v
      BY <1>2 DEF Both
    <3>3. x \o u \in Yields(g, <<X>> \o d)
      BY YieldPutTogether
    <3>4. x \in Seq(Terminal) /\ u \in Seq(Terminal) /\ v \in Seq(Terminal)
      <4>1. WordsOfHeads(AllWords(g))
        BY AllWordsTyped
      <4>2. x \in Seq(Terminal)
        BY <4>1, SymbolWordsTyped
      <4> QED BY <4>2, YieldsTyped
    <3>5. x \o (u \o v) = (x \o u) \o v
      BY <3>4, ThreeWords
    <3> QED BY <3>1, <3>2, <3>3, <3>5 DEF Both
  <2>4. ASSUME NEW z \in Yields(g, <<X>> \o d), NEW v \in Yields(g, f) PROVE z \o v \in Yields(g, (<<X>> \o d) \o f)
    <3>0a. Apart(g, X, d, z)
      BY YieldTakenApart
    <3>1. PICK x \in SymbolWords(AllWords(g), X), u \in Yields(g, d) : z = x \o u
      BY <3>0a DEF Apart
    <3>2. u \o v \in Yields(g, d \o f)
      BY <1>2
    <3>3. x \o (u \o v) \in Yields(g, <<X>> \o (d \o f))
      BY <2>1, <3>2, YieldPutTogether
    <3>4. x \in Seq(Terminal) /\ u \in Seq(Terminal) /\ v \in Seq(Terminal)
      <4>1. WordsOfHeads(AllWords(g))
        BY AllWordsTyped
      <4>2. x \in Seq(Terminal)
        BY <4>1, SymbolWordsTyped
      <4> QED BY <4>2, YieldsTyped
    <3>5. x \o (u \o v) = (x \o u) \o v
      BY <3>4, ThreeWords
    <3> QED BY <2>2, <3>1, <3>3, <3>5
  <2>5. Right(<<X>> \o d)
    BY <2>3, <2>4
  <2> QED BY <2>1, <2>5
<1>3. Seq(S) \subseteq T
  <2> HIDE DEF T
  <2> QED BY <1>1, <1>2, FromTheFront
<1>4. Right(e)
  BY <1>3
<1> QED BY <1>4

\* A word of a sequence is one already when the words of the heads are not too long.
LEMMA YieldsOfShort ==
  ASSUME NEW g, Typed(g.productions), IsFiniteSet(Heads(g.productions)), NEW S, NEW f \in Seq(S), NEW w \in Yields(g, f)
  PROVE  \E m \in Nat : w \in BodyWords(m, DerivedWords(g, m), f)
<1> DEFINE Has(d, x) == \E m \in Nat : x \in BodyWords(m, DerivedWords(g, m), d)
           T == {d \in Seq(S) : \A x \in Yields(g, d) : Has(d, x)}
           none == <<>>
<1>0. ASSUME NEW n \in Nat PROVE WordsOfHeads(DerivedWords(g, n)) /\ DOMAIN DerivedWords(g, n) = Heads(g.productions)
  BY HeightsAreDerived
<1>1. none \in T
  <2>1. none \in Seq(S)
    OBVIOUS
  <2>2. Yields(g, none) = {none}
    BY YieldsTyped
  <2>3. BodyWords(0, DerivedWords(g, 0), none) = {none}
    BY <1>0, BodyOfNothing
  <2>4. Has(none, none)
    BY <2>3
  <2> HIDE DEF none, Has
  <2> QED BY <2>1, <2>2, <2>4
<1>2. ASSUME NEW X \in S, NEW d \in Seq(S), d \in T PROVE <<X>> \o d \in T
  <2>1. <<X>> \o d \in Seq(S)
    OBVIOUS
  <2>2. ASSUME NEW x \in Yields(g, <<X>> \o d) PROVE Has(<<X>> \o d, x)
    <3>0a. Apart(g, X, d, x)
      BY YieldTakenApart
    <3>1. PICK u \in SymbolWords(AllWords(g), X), v \in Yields(g, d) : x = u \o v
      BY <3>0a DEF Apart
    <3>2. PICK m \in Nat : v \in BodyWords(m, DerivedWords(g, m), d)
      BY <1>2
    <3>3. PICK k \in Nat : u \in SymbolWords(DerivedWords(g, k), X)
      <4>1. CASE X \in Terminal
        <5>1. u \in SymbolWords(DerivedWords(g, 0), X)
          BY <4>1 DEF SymbolWords
        <5> QED BY <5>1
      <4>2. CASE X \notin Terminal
        <5>1. X \in DOMAIN AllWords(g) /\ u \in AllWords(g)[X]
          BY <4>2 DEF SymbolWords
        <5>2. X \in Heads(g.productions)
          BY <5>1, AllWordsTyped
        <5>3. PICK k \in Nat : u \in DerivedWords(g, k)[X]
          BY <5>1, <5>2 DEF AllWords
        <5>4. u \in SymbolWords(DerivedWords(g, k), X)
          BY <1>0, <4>2, <5>2, <5>3 DEF SymbolWords
        <5> QED BY <5>4
      <4> QED BY <4>1, <4>2
    <3>4. u \in Seq(Terminal) /\ v \in Seq(Terminal)
      BY <1>0, <3>2, <3>3, SymbolWordsTyped, BodyWordsTyped
    <3>5. Len(u \o v) \in Nat
      <4>1. u \o v \in Seq(Terminal)
        BY <3>4, ConcatProperties
      <4> QED BY <4>1
    <3>6. PICK n : n = (m + k) + Len(u \o v)
      OBVIOUS
    <3>7. n \in Nat /\ m <= n /\ k <= n /\ Len(u \o v) <= n
      BY <3>5, <3>6
    <3> DEFINE K == DerivedWords(g, n)
    <3>8. WordsOfHeads(K) /\ DOMAIN K = Heads(g.productions)
      BY <1>0, <3>7
    <3>9. v \in BodyWords(n, K, d)
      <4>1. \A A \in Heads(g.productions) : DerivedWords(g, m)[A] \subseteq K[A]
        BY <3>7, LongerWords
      <4>2. WordsOfHeads(DerivedWords(g, m)) /\ DOMAIN DerivedWords(g, m) = Heads(g.productions)
        BY <1>0
      <4> HIDE DEF K
      <4>3. BodyWords(m, DerivedWords(g, m), d) \subseteq BodyWords(n, K, d)
        BY <3>7, <3>8, <4>1, <4>2, LongerBodies
      <4> QED BY <3>2, <4>3
    <3>10. u \in SymbolWords(K, X)
      <4>1. \A A \in Heads(g.productions) : DerivedWords(g, k)[A] \subseteq K[A]
        BY <3>7, LongerWords
      <4>2. DOMAIN DerivedWords(g, k) = Heads(g.productions)
        BY <1>0
      <4> HIDE DEF K
      <4> QED BY <3>3, <3>8, <4>1, <4>2 DEF SymbolWords
    <3>11. u \o v \in BodyWords(n, K, <<X>> \o d)
      <4> HIDE DEF K
      <4> QED BY <3>7, <3>8, <3>9, <3>10, BodyPutTogether
    <3> QED BY <3>1, <3>7, <3>11
  <2> HIDE DEF Has
  <2> QED BY <2>1, <2>2
<1>3. Seq(S) \subseteq T
  <2> HIDE DEF T
  <2> QED BY <1>1, <1>2, FromTheFront
<1> QED BY <1>3

\* What a body has a head has.
LEMMA YieldsOfBody ==
  ASSUME NEW g, Typed(g.productions), IsFiniteSet(Heads(g.productions)), NEW p \in g.productions
  PROVE  Yields(g, p.body) \subseteq AllWords(g)[p.head]
<1> SUFFICES ASSUME NEW w \in Yields(g, p.body) PROVE w \in AllWords(g)[p.head]
  OBVIOUS
<1>1. p.head \in Heads(g.productions) /\ p.body \in Bodies(g.productions, p.head) /\ p.body \in Seq(GrammarSymbol)
  BY DEF Heads, Bodies, Typed
<1>2. PICK m \in Nat : w \in BodyWords(m, DerivedWords(g, m), p.body)
  BY <1>1, YieldsOfShort
<1>3. w \in Higher(m, g, DerivedWords(g, m))[p.head]
  BY <1>1, <1>2 DEF Higher
<1>4. w \in DerivedWords(g, m)[p.head]
  BY <1>1, <1>3, NothingNew
<1> QED BY <1>1, <1>4 DEF AllWords

\* Heads in use have words, and so have sequences of them and of terminals.
LEMMA InUseHaveWords ==
  ASSUME NEW g, Typed(g.productions), IsFiniteSet(Heads(g.productions)), Terminal \cap NonTerminal = {},
         NEW f \in Seq(GrammarSymbol), NonTerminalsOf(f) \subseteq InUse(g.productions)
  PROVE  Yields(g, f) # {}
<1> DEFINE H == Heads(g.productions)
           W == {A \in H : AllWords(g)[A] # {}}
           S == Terminal \cup W
           T == {d \in Seq(S) : Yields(g, d) # {}}
           none == <<>>
<1>0. W \in SUBSET H /\ DOMAIN AllWords(g) = H /\ H \subseteq NonTerminal
  BY AllWordsTyped DEF Heads, Typed
<1>1. none \in T
  BY YieldsTyped
<1>2. ASSUME NEW X \in S, NEW d \in Seq(S), d \in T PROVE <<X>> \o d \in T
  <2>1. <<X>> \o d \in Seq(S)
    OBVIOUS
  <2>2. SymbolWords(AllWords(g), X) # {}
    BY <1>0 DEF SymbolWords
  <2>3. PICK u \in SymbolWords(AllWords(g), X), v \in Yields(g, d) : TRUE
    BY <1>2, <2>2
  <2>4. u \o v \in Yields(g, <<X>> \o d)
    BY YieldPutTogether
  <2> QED BY <2>1, <2>4
<1>3. Seq(S) \subseteq T
  <2> HIDE DEF T
  <2> QED BY <1>1, <1>2, FromTheFront
<1>4. ASSUME NEW d \in Seq(GrammarSymbol), NonTerminalsOf(d) \subseteq W PROVE Yields(g, d) # {}
  <2>1. \A i \in DOMAIN d : d[i] \in S
    BY <1>4 DEF NonTerminalsOf, SymbolsOf, GrammarSymbol
  <2>2. d \in Seq(S)
    <3> HIDE DEF S
    <3>1. Len(d) \in Nat /\ DOMAIN d = 1 .. Len(d) /\ d = [i \in 1 .. Len(d) |-> d[i]]
      OBVIOUS
    <3>2. d \in [1 .. Len(d) -> S]
      BY <2>1, <3>1
    <3> QED BY <3>1, <3>2
  <2> QED BY <1>3, <2>2
<1>5. InUse(g.productions) \subseteq W
  <2>1. ASSUME NEW p \in g.productions, NonTerminalsOf(p.body) \subseteq W PROVE p.head \in W
    <3>1. p.body \in Seq(GrammarSymbol) /\ p.head \in H
      BY DEF Typed, Heads
    <3>2. Yields(g, p.body) # {}
      BY <1>4, <2>1, <3>1
    <3>3. Yields(g, p.body) \subseteq AllWords(g)[p.head]
      BY YieldsOfBody
    <3> QED BY <3>1, <3>2, <3>3
  <2> HIDE DEF W
  <2> QED BY <1>0, <2>1, InUseIsSmallest
<1> QED BY <1>4, <1>5

\* The words of a head alone.
LEMMA YieldsOfHead ==
  ASSUME NEW g, Typed(g.productions), IsFiniteSet(Heads(g.productions)), Terminal \cap NonTerminal = {},
         NEW A \in Heads(g.productions)
  PROVE  Yields(g, <<A>>) = AllWords(g)[A]
<1> DEFINE L == AllWords(g)
           none == <<>>
<1>1. WordsOfHeads(L) /\ DOMAIN L = Heads(g.productions)
  BY AllWordsTyped
<1>2. A \in NonTerminal /\ A \notin Terminal
  BY DEF Heads, Typed
<1>3. SymbolWords(L, A) = L[A]
  BY <1>1, <1>2 DEF SymbolWords
<1>4. none \in Seq(NonTerminal) /\ <<A>> \o none = <<A>> /\ Yields(g, none) = {none}
  <2>1. <<A>> \in Seq(NonTerminal)
    BY <1>2
  <2>2. <<A>> \o none = <<A>>
    BY <2>1, ConcatEmptySeq
  <2> QED BY <2>2, YieldsTyped
<1>5. \A w \in L[A] : w \o none = w
  <2>1. L[A] \subseteq Seq(Terminal)
    BY <1>1 DEF WordsOfHeads
  <2> QED BY <2>1, ConcatEmptySeq
<1> HIDE DEF none
<1>6. ASSUME NEW w \in Yields(g, <<A>>) PROVE w \in L[A]
  <2>1. Apart(g, A, none, w)
    BY <1>2, <1>4, YieldTakenApart
  <2>2. PICK u \in SymbolWords(L, A), v \in Yields(g, none) : w = u \o v
    BY <2>1 DEF Apart
  <2>3. u \in L[A] /\ v = none
    BY <1>3, <1>4, <2>2
  <2> QED BY <1>5, <2>2, <2>3
<1>7. ASSUME NEW w \in L[A] PROVE w \in Yields(g, <<A>>)
  <2>1. w \o none \in Yields(g, <<A>> \o none)
    BY <1>2, <1>3, <1>4, YieldPutTogether
  <2> QED BY <1>4, <1>5, <2>1
<1> QED BY <1>6, <1>7

-----------------------------------------------------------------------------
(* What words begin with.                                                  *)

\* w is u and something behind it.
IsBeginning(u, w) == \E v \in Seq(Terminal) : w = u \o v

\* The elements of two sequences together.
HasParts(c, a, b) ==
  /\ Len(c) = Len(a) + Len(b) /\ Len(a) \in Nat /\ Len(b) \in Nat
  /\ \A i \in 1 .. Len(a) : c[i] = a[i]
  /\ \A i \in Len(a) + 1 .. Len(a) + Len(b) : c[i] = b[i - Len(a)]

LEMMA TwoParts ==
  ASSUME NEW S, NEW a \in Seq(S), NEW b \in Seq(S), NEW c, c = a \o b
  PROVE  c \in Seq(S) /\ HasParts(c, a, b)
<1>1. /\ c \in Seq(S) /\ Len(c) = Len(a) + Len(b)
      /\ \A i \in 1 .. Len(a) + Len(b) : c[i] = IF i <= Len(a) THEN a[i] ELSE b[i - Len(a)]
  BY ConcatProperties
<1>2. Len(a) \in Nat /\ Len(b) \in Nat
  OBVIOUS
<1>3. ASSUME NEW i \in 1 .. Len(a) PROVE c[i] = a[i]
  <2>1. i \in 1 .. Len(a) + Len(b) /\ i <= Len(a)
    BY <1>2
  <2> QED BY <1>1, <2>1
<1>4. ASSUME NEW i \in Len(a) + 1 .. Len(a) + Len(b) PROVE c[i] = b[i - Len(a)]
  <2>1. i \in 1 .. Len(a) + Len(b) /\ ~ (i <= Len(a))
    BY <1>2
  <2> QED BY <1>1, <2>1
<1> QED BY <1>1, <1>2, <1>3, <1>4 DEF HasParts

\* Where u ends in x \o y: in x, or in y.
EndsIn(u, v, x) == \E z \in Seq(Terminal) : x = u \o z
EndsBehind(u, v, x, y) == \E z \in Seq(Terminal) : u = x \o z /\ y = z \o v

LEMMA EndsSomewhere ==
  ASSUME NEW u \in Seq(Terminal), NEW v \in Seq(Terminal), NEW x \in Seq(Terminal), NEW y \in Seq(Terminal),
         u \o v = x \o y
  PROVE  EndsIn(u, v, x) \/ EndsBehind(u, v, x, y)
<1> DEFINE w == u \o v
<1>0. w = u \o v /\ w = x \o y
  OBVIOUS
<1> HIDE DEF w
<1>a. HasParts(w, u, v)
  BY <1>0, TwoParts
<1>b. HasParts(w, x, y)
  BY <1>0, TwoParts
<1>1. /\ Len(w) = Len(u) + Len(v) /\ \A i \in 1 .. Len(u) : w[i] = u[i]
      /\ \A i \in Len(u) + 1 .. Len(u) + Len(v) : w[i] = v[i - Len(u)]
  BY <1>a DEF HasParts
<1>3. /\ Len(w) = Len(x) + Len(y) /\ \A i \in 1 .. Len(x) : w[i] = x[i]
      /\ \A i \in Len(x) + 1 .. Len(x) + Len(y) : w[i] = y[i - Len(x)]
  BY <1>b DEF HasParts
<1>4. Len(u) \in Nat /\ Len(v) \in Nat /\ Len(x) \in Nat /\ Len(y) \in Nat
  OBVIOUS
<1>5. CASE Len(u) <= Len(x)
  <2> DEFINE a == SubSeq(x, 1, Len(u))
             z == SubSeq(x, Len(u) + 1, Len(x))
  <2>1. Len(u) \in 0 .. Len(x)
    BY <1>4, <1>5
  <2>2. a \in Seq(Terminal) /\ Len(a) = Len(u) /\ (\A i \in 1 .. Len(u) : a[i] = x[i]) /\ z \in Seq(Terminal) /\ x = a \o z
    BY <2>1, CutInTwo
  <2> HIDE DEF a, z
  <2>3. ASSUME NEW i \in 1 .. Len(a) PROVE a[i] = u[i]
    <3>1. i \in 1 .. Len(u) /\ i \in 1 .. Len(x)
      BY <1>4, <1>5, <2>2
    <3> QED BY <1>1, <1>3, <2>2, <3>1
  <2>4. a = u
    BY <2>2, <2>3, SameSequence
  <2> QED BY <2>2, <2>4 DEF EndsIn
<1>6. CASE ~ (Len(u) <= Len(x))
  <2> DEFINE a == SubSeq(u, 1, Len(x))
             z == SubSeq(u, Len(x) + 1, Len(u))
  <2>1. Len(x) \in 0 .. Len(u)
    BY <1>4, <1>6
  <2>2. /\ a \in Seq(Terminal) /\ Len(a) = Len(x) /\ (\A i \in 1 .. Len(x) : a[i] = u[i])
        /\ z \in Seq(Terminal) /\ Len(z) = Len(u) - Len(x) /\ (\A i \in 1 .. Len(u) - Len(x) : z[i] = u[Len(x) + i])
        /\ u = a \o z
    BY <2>1, CutInTwo
  <2> HIDE DEF a, z
  <2>3. ASSUME NEW i \in 1 .. Len(a) PROVE a[i] = x[i]
    <3>1. i \in 1 .. Len(u) /\ i \in 1 .. Len(x)
      BY <1>4, <1>6, <2>2
    <3> QED BY <1>1, <1>3, <2>2, <3>1
  <2>4. a = x
    BY <2>2, <2>3, SameSequence
  <2>5. Len(y) = Len(z) + Len(v)
    BY <1>1, <1>3, <1>4, <2>2
  <2>6. ASSUME NEW i \in 1 .. Len(y) PROVE y[i] = IF i <= Len(z) THEN z[i] ELSE v[i - Len(z)]
    <3>1. Len(x) + i \in Len(x) + 1 .. Len(x) + Len(y) /\ (Len(x) + i) - Len(x) = i
      BY <1>4
    <3>2. w[Len(x) + i] = y[i]
      <4>1. w[Len(x) + i] = y[(Len(x) + i) - Len(x)]
        BY <1>3, <3>1
      <4> QED BY <3>1, <4>1
    <3>3. CASE i <= Len(z)
      <4>1. Len(x) + i \in 1 .. Len(u) /\ i \in 1 .. Len(u) - Len(x)
        BY <1>4, <1>6, <2>2, <3>3
      <4> QED BY <1>1, <2>2, <3>2, <3>3, <4>1
    <3>4. CASE ~ (i <= Len(z))
      <4>1. Len(x) + i \in Len(u) + 1 .. Len(u) + Len(v) /\ (Len(x) + i) - Len(u) = i - Len(z)
        BY <1>4, <1>6, <2>2, <2>5, <3>4
      <4>2. w[Len(x) + i] = v[(Len(x) + i) - Len(u)]
        BY <1>1, <4>1
      <4> QED BY <3>2, <3>4, <4>1, <4>2
    <3> QED BY <3>3, <3>4
  <2>7. y = z \o v
    BY <2>2, <2>5, <2>6, IsBoth
  <2> QED BY <2>2, <2>4, <2>7 DEF EndsBehind
<1> QED BY <1>5, <1>6

\* Words with others behind them.
Together(U, V) == {u \o v : u \in U, v \in V}

LEMMA InTogether ==
  ASSUME NEW U, NEW V, NEW w
  PROVE  w \in Together(U, V) <=> \E u \in U, v \in V : w = u \o v
BY DEF Together

\* What a body may begin with before its i-th symbol ends, and all that it may begin with.
UpTo(n, L, B, f, i) == Together(BodyWords(n, L, SubSeq(f, 1, i - 1)), SymbolWords(B, f[i]))

LEMMA BeginningsAre ==
  ASSUME NEW n, NEW L, NEW B, NEW f
  PROVE  BodyBeginnings(n, L, B, f) = {<<>>} \cup UNION {Short(n, UpTo(n, L, B, f, i)) : i \in DOMAIN f}
BY DEF BodyBeginnings, UpTo, Together

\* u is made of words of some symbols of f, from the first on, and of a beginning of the next.
BeginsIn(n, L, B, f, u) ==
  \E e \in Seq(GrammarSymbol), t \in Seq(GrammarSymbol), X \in GrammarSymbol :
    f = e \o (<<X>> \o t) /\ \E a \in BodyWords(n, L, e), b \in SymbolWords(B, X) : u = a \o b

\* BodyBeginnings has all those, if they are short.
LEMMA BeginningsCollected ==
  ASSUME NEW n \in Nat, NEW L, NEW B, NEW f \in Seq(GrammarSymbol), NEW u, BeginsIn(n, L, B, f, u), Len(u) <= n
  PROVE  u \in BodyBeginnings(n, L, B, f)
<1>1. PICK e \in Seq(GrammarSymbol), t \in Seq(GrammarSymbol), X \in GrammarSymbol :
        f = e \o (<<X>> \o t) /\ \E a \in BodyWords(n, L, e), b \in SymbolWords(B, X) : u = a \o b
  BY DEF BeginsIn
<1>2. PICK a \in BodyWords(n, L, e), b \in SymbolWords(B, X) : u = a \o b
  BY <1>1
<1> DEFINE r == <<X>> \o t
           k == Len(e) + 1
<1>3. r \in Seq(GrammarSymbol) /\ Len(r) = 1 + Len(t) /\ r[1] = X /\ Len(t) \in Nat
  BY ConcatProperties
<1>4. f = e \o r
  BY <1>1
<1> HIDE DEF r
<1>5. /\ Len(f) = Len(e) + Len(r) /\ \A i \in 1 .. Len(e) : f[i] = e[i]
      /\ \A i \in Len(e) + 1 .. Len(e) + Len(r) : f[i] = r[i - Len(e)]
  <2>1. HasParts(f, e, r)
    BY <1>3, <1>4, TwoParts
  <2> QED BY <2>1 DEF HasParts
<1>6. k \in DOMAIN f /\ f[k] = X
  <2>1. Len(e) \in Nat /\ k \in Len(e) + 1 .. Len(e) + Len(r) /\ k - Len(e) = 1 /\ k \in 1 .. Len(f)
    BY <1>3, <1>5
  <2>2. f[k] = r[k - Len(e)]
    BY <1>5, <2>1
  <2> QED BY <1>3, <2>1, <2>2
<1>7. SubSeq(f, 1, k - 1) = e
  <2> DEFINE d == SubSeq(f, 1, Len(e))
  <2>1. Len(e) \in 0 .. Len(f) /\ k - 1 = Len(e)
    BY <1>3, <1>5
  <2>2. d \in Seq(GrammarSymbol) /\ Len(d) = Len(e) /\ \A i \in 1 .. Len(e) : d[i] = f[i]
    BY <2>1, CutInTwo
  <2> HIDE DEF d
  <2>3. d = e
    BY <1>5, <2>2, SameSequence
  <2> QED BY <2>1, <2>3 DEF d
<1> HIDE DEF k
<1>8. u \in UpTo(n, L, B, f, k)
  BY <1>2, <1>6, <1>7, InTogether DEF UpTo
<1>9. u \in Short(n, UpTo(n, L, B, f, k))
  BY <1>8 DEF Short
<1> QED BY <1>6, <1>9, BeginningsAre

\* What is in front, and the first part of what is behind it, together.
Regrouped(y, p, a, b) ==
  /\ y = (p \o a) \o b /\ p \o a \in Seq(Terminal)
  /\ Len(p \o a) <= Len(y) /\ Len(p \o a) \in Nat /\ Len(y) \in Nat

LEMMA FrontTogether ==
  ASSUME NEW p \in Seq(Terminal), NEW a \in Seq(Terminal), NEW b \in Seq(Terminal), NEW z, z = a \o b, NEW y, y = p \o z
  PROVE  Regrouped(y, p, a, b)
<1> DEFINE c == p \o a
<1>1. c \in Seq(Terminal)
  BY ConcatProperties
<1>2. p \o (a \o b) = c \o b
  BY ThreeWords
<1>3. y = p \o (a \o b)
  OBVIOUS
<1>4. y = c \o b
  BY <1>2, <1>3
<1> HIDE DEF c
<1>5. Len(y) = Len(c) + Len(b) /\ Len(c) \in Nat /\ Len(b) \in Nat
  BY <1>1, <1>4, TwoParts DEF HasParts
<1> QED BY <1>1, <1>4, <1>5 DEF c, Regrouped

\* L has the short words of K, and B what short ones the words of K begin with.
HasShort(K, L, n) == \A A \in DOMAIN K : \A w \in K[A] : Len(w) <= n => w \in L[A]
HasBeginnings(K, B, n) ==
  \A A \in DOMAIN K : \A w \in K[A] : \A u \in Seq(Terminal) : IsBeginning(u, w) /\ Len(u) <= n => u \in B[A]

\* What a word of a body begins with is made like that.
LEMMA BodyBegins ==
  ASSUME NEW n \in Nat, NEW m \in Nat, NEW K, NEW L, NEW B, WordsOfHeads(K), WordsOfHeads(L), WordsOfHeads(B),
         DOMAIN K = DOMAIN L, DOMAIN B = DOMAIN K, DOMAIN K \cap Terminal = {},
         HasShort(K, L, n), HasBeginnings(K, B, n),
         NEW f \in Seq(GrammarSymbol), NEW w \in BodyWords(m, K, f), NEW u \in Seq(Terminal), IsBeginning(u, w), Len(u) <= n
  PROVE  u = <<>> \/ BeginsIn(n, L, B, f, u)
<1> DEFINE Good(d) == \A x \in BodyWords(m, K, d) : \A y \in Seq(Terminal) :
                        IsBeginning(y, x) /\ Len(y) <= n => y = <<>> \/ BeginsIn(n, L, B, d, y)
           S == {d \in Seq(GrammarSymbol) : Good(d)}
           none == <<>>
<1>1. none \in S
  <2> SUFFICES ASSUME NEW x \in BodyWords(m, K, none), NEW y \in Seq(Terminal), IsBeginning(y, x) PROVE y = none
    <3>1. none \in Seq(GrammarSymbol)
      OBVIOUS
    <3> QED BY <3>1
  <2>1. x = none
    BY BodyOfNothing
  <2>2. PICK v \in Seq(Terminal) : none = y \o v
    BY <2>1 DEF IsBeginning
  <2>3. y \o v = <<>>
    BY <2>2
  <2>4. y = <<>>
    BY <2>3, ConcatEqualIffEmpty
  <2> QED BY <2>4
<1>2. ASSUME NEW X \in GrammarSymbol, NEW d \in Seq(GrammarSymbol), d \in S PROVE <<X>> \o d \in S
  <2>0. <<X>> \o d \in Seq(GrammarSymbol) /\ <<>> \in Seq(GrammarSymbol) /\ <<>> \o (<<X>> \o d) = <<X>> \o d
    BY ConcatEmptySeq
  <2> SUFFICES ASSUME NEW x \in BodyWords(m, K, <<X>> \o d), NEW y \in Seq(Terminal), IsBeginning(y, x), Len(y) <= n, y # <<>>
               PROVE  BeginsIn(n, L, B, <<X>> \o d, y)
    BY <2>0
  <2>1. PICK p \in SymbolWords(K, X), q \in BodyWords(m, K, d) : x = p \o q /\ Len(x) <= m
    BY BodyTakenApart
  <2>2. p \in Seq(Terminal) /\ q \in Seq(Terminal)
    BY SymbolWordsTyped, BodyWordsTyped
  <2>3. PICK v \in Seq(Terminal) : x = y \o v
    BY DEF IsBeginning
  <2>4. EndsIn(y, v, p) \/ EndsBehind(y, v, p, q)
    BY <2>1, <2>2, <2>3, EndsSomewhere
  <2>5. ASSUME NEW z \in Seq(Terminal), p = y \o z PROVE y \in SymbolWords(B, X)
    <3>1. CASE X \in Terminal
      <4>1. p = <<X>>
        BY <2>1, <3>1 DEF SymbolWords
      <4>2. Len(p) = Len(y) + Len(z) /\ Len(y) \in Nat /\ Len(z) \in Nat
        BY <2>5, TwoParts DEF HasParts
      <4>6. Len(p) = 1
        BY <4>1
      <4>7. Len(y) # 0
        BY EmptySeq
      <4>3. Len(z) = 0
        BY <4>2, <4>6, <4>7
      <4>4. z = <<>>
        BY <4>3, EmptySeq
      <4>5. p = y
        BY <2>5, <4>4, ConcatEmptySeq
      <4> QED BY <3>1, <4>1, <4>5 DEF SymbolWords
    <3>2. CASE X \notin Terminal
      <4>1. X \in DOMAIN K /\ p \in K[X]
        BY <2>1, <3>2 DEF SymbolWords
      <4>2. IsBeginning(y, p)
        BY <2>5 DEF IsBeginning
      <4>3. y \in B[X]
        BY <4>1, <4>2 DEF HasBeginnings
      <4> QED BY <3>2, <4>1, <4>3 DEF SymbolWords
    <3> QED BY <3>1, <3>2
  <2>6. <<>> \in BodyWords(n, L, <<>>) /\ <<>> \o y = y
    BY BodyOfNothing, ConcatEmptySeq
  <2>7. ASSUME y \in SymbolWords(B, X) PROVE BeginsIn(n, L, B, <<X>> \o d, y)
    <3> DEFINE h == <<X>> \o d
               none2 == <<>>
    <3>1. none2 \in Seq(GrammarSymbol) /\ h = none2 \o (<<X>> \o d) /\ none2 \in BodyWords(n, L, none2) /\ y = none2 \o y
      BY <2>0, <2>6
    <3> HIDE DEF h, none2
    <3>2. \E a \in BodyWords(n, L, none2), b \in SymbolWords(B, X) : y = a \o b
      BY <2>7, <3>1
    <3>3. BeginsIn(n, L, B, h, y)
      BY <3>1, <3>2 DEF BeginsIn
    <3> QED BY <3>3 DEF h
  <2>8. CASE EndsIn(y, v, p)
    <3>1. PICK z \in Seq(Terminal) : p = y \o z
      BY <2>8 DEF EndsIn
    <3> QED BY <2>5, <2>7, <3>1
  <2>9. CASE EndsBehind(y, v, p, q)
    <3>1. PICK z \in Seq(Terminal) : y = p \o z /\ q = z \o v
      BY <2>9 DEF EndsBehind
    <3>2. CASE z = <<>>
      <4>1. p = y /\ y \o z = y
        BY <2>2, <3>1, <3>2, ConcatEmptySeq
      <4>2. p = y \o z
        BY <4>1
      <4> QED BY <2>5, <2>7, <4>2
    <3>3. CASE z # <<>>
      <4>1. Len(y) = Len(p) + Len(z) /\ Len(p) \in Nat /\ Len(z) \in Nat
        BY <2>2, <3>1, TwoParts DEF HasParts
      <4>8. Len(z) <= n /\ Len(p) <= n
        BY <4>1
      <4>2. IsBeginning(z, q) /\ Len(z) <= n
        BY <3>1, <4>8 DEF IsBeginning
      <4>3. Good(d)
        BY <1>2
      <4>4. BeginsIn(n, L, B, d, z)
        BY <3>3, <4>2, <4>3
      <4>5. PICK e \in Seq(GrammarSymbol), t \in Seq(GrammarSymbol), Y \in GrammarSymbol :
              d = e \o (<<Y>> \o t) /\ \E a \in BodyWords(n, L, e), b \in SymbolWords(B, Y) : z = a \o b
        BY <4>4 DEF BeginsIn
      <4>6. PICK a \in BodyWords(n, L, e), b \in SymbolWords(B, Y) : z = a \o b
        BY <4>5
      <4>7. a \in Seq(Terminal) /\ b \in Seq(Terminal)
        BY SymbolWordsTyped, BodyWordsTyped
      <4>9. p \in SymbolWords(L, X)
        BY <2>1, <4>8 DEF SymbolWords, HasShort
      <4> DEFINE h == <<X>> \o e
                 c == p \o a
                 r == <<Y>> \o t
      <4>10. y = c \o b /\ c \in Seq(Terminal) /\ Len(c) <= Len(y) /\ Len(c) \in Nat /\ Len(y) \in Nat
        <5>1. Regrouped(y, p, a, b)
          BY <2>2, <3>1, <4>6, <4>7, FrontTogether
        <5> QED BY <5>1 DEF Regrouped
      <4>12. Len(c) <= n
        <5> HIDE DEF c
        <5> QED BY <4>10
      <4>13. c \in BodyWords(n, L, h)
        BY <4>9, <4>12, BodyPutTogether
      <4>14. r \in Seq(GrammarSymbol) /\ h \in Seq(GrammarSymbol)
        BY ConcatProperties
      <4>15. <<X>> \o d = h \o r
        <5>1. <<X>> \in Seq(GrammarSymbol) /\ d = e \o r
          BY <4>5
        <5> HIDE DEF r
        <5>2. (<<X>> \o e) \o r = <<X>> \o (e \o r)
          BY <4>14, <5>1, ConcatAssociative
        <5> QED BY <5>1, <5>2
      <4> HIDE DEF h, c
      <4>16. \E a2 \in BodyWords(n, L, h), b2 \in SymbolWords(B, Y) : y = a2 \o b2
        BY <4>10, <4>13
      <4> QED BY <4>14, <4>15, <4>16 DEF BeginsIn
    <3> QED BY <3>2, <3>3
  <2> QED BY <2>4, <2>8, <2>9
<1>3. Seq(GrammarSymbol) \subseteq S
  <2> HIDE DEF S
  <2> QED BY <1>1, <1>2, FromTheFront
<1>4. Good(f)
  BY <1>3
<1> QED BY <1>4

\* A short word of a body is made of short words.
LEMMA ShortBodies ==
  ASSUME NEW K, NEW L, WordsOfHeads(K), WordsOfHeads(L), DOMAIN K = DOMAIN L, NEW n \in Nat, NEW m \in Nat,
         HasShort(K, L, n), NEW S, NEW f \in Seq(S), NEW w \in BodyWords(m, K, f), Len(w) <= n
  PROVE  w \in BodyWords(n, L, f)
<1> DEFINE Good(d) == \A x \in BodyWords(m, K, d) : Len(x) <= n => x \in BodyWords(n, L, d)
           T == {d \in Seq(S) : Good(d)}
           none == <<>>
<1>1. none \in T
  <2>1. BodyWords(m, K, none) = {none}
    BY BodyOfNothing
  <2>2. BodyWords(n, L, none) = {none}
    BY BodyOfNothing
  <2>3. none \in Seq(S)
    OBVIOUS
  <2> HIDE DEF none
  <2> QED BY <2>1, <2>2, <2>3
<1>2. ASSUME NEW X \in S, NEW d \in Seq(S), d \in T PROVE <<X>> \o d \in T
  <2>1. <<X>> \o d \in Seq(S)
    OBVIOUS
  <2>2. ASSUME NEW x \in BodyWords(m, K, <<X>> \o d), Len(x) <= n PROVE x \in BodyWords(n, L, <<X>> \o d)
    <3>1. PICK u \in SymbolWords(K, X), v \in BodyWords(m, K, d) : x = u \o v /\ Len(x) <= m
      BY BodyTakenApart
    <3>2. u \in Seq(Terminal) /\ v \in Seq(Terminal)
      BY SymbolWordsTyped, BodyWordsTyped
    <3>3. Len(x) = Len(u) + Len(v) /\ Len(u) \in Nat /\ Len(v) \in Nat
      BY <3>1, <3>2, TwoParts DEF HasParts
    <3>4. Len(u) <= n /\ Len(v) <= n
      BY <2>2, <3>3
    <3>5. u \in SymbolWords(L, X)
      BY <3>1, <3>4 DEF SymbolWords, HasShort
    <3>6. v \in BodyWords(n, L, d)
      <4>1. Good(d)
        BY <1>2
      <4> QED BY <3>4, <4>1
    <3>7. Len(u \o v) <= n
      BY <2>2, <3>1
    <3>8. u \o v \in BodyWords(n, L, <<X>> \o d)
      BY <3>5, <3>6, <3>7, BodyPutTogether
    <3> QED BY <3>1, <3>8
  <2> QED BY <2>1, <2>2
<1>3. Seq(S) \subseteq T
  <2> HIDE DEF T
  <2> QED BY <1>1, <1>2, FromTheFront
<1>4. Good(f)
  BY <1>3
<1> QED BY <1>4

\* A short word that is derived when words may be long is derived when they have to be short.
LEMMA ShortAreDerived ==
  ASSUME NEW g, Typed(g.productions), IsFiniteSet(Heads(g.productions)), NEW n \in Nat, NEW m \in Nat
  PROVE  \A h \in Nat : HasShort(WordsByHeight(g, m)[h], DerivedWords(g, n), n)
<1> DEFINE H == Heads(g.productions)
           steps == WordsByHeight(g, m)
           L == DerivedWords(g, n)
           T == {h \in Nat : HasShort(steps[h], L, n)}
<1>0. IsByHeight(steps, g, m)
  BY WordsByHeightUnfold
<1>1. WordsOfHeads(L) /\ DOMAIN L = H
  BY HeightsAreDerived
<1>2. \A A \in H : Higher(n, g, L)[A] \subseteq L[A]
  BY NothingNew
<1> HIDE DEF L, steps
<1>3. 0 \in T
  BY <1>0 DEF IsByHeight, HasShort
<1>4. ASSUME NEW h \in Nat, h \in T PROVE h + 1 \in T
  <2>0. /\ WordsOfHeads(steps[h]) /\ DOMAIN steps[h] = H /\ steps[h + 1] = Higher(m, g, steps[h])
        /\ HasShort(steps[h], L, n)
    BY <1>0, <1>4 DEF IsByHeight
  <2>1. ASSUME NEW A \in H, NEW w \in steps[h + 1][A], Len(w) <= n PROVE w \in L[A]
    <3>1. PICK body \in Bodies(g.productions, A) : w \in BodyWords(m, steps[h], body)
      BY <2>0 DEF Higher
    <3>2. body \in Seq(GrammarSymbol)
      BY DEF Bodies, Typed
    <3>3. w \in BodyWords(n, L, body)
      BY <1>1, <2>0, <2>1, <3>1, <3>2, ShortBodies
    <3>4. w \in Higher(n, g, L)[A]
      BY <3>3 DEF Higher
    <3> QED BY <1>2, <3>4
  <2>2. DOMAIN steps[h + 1] = H
    BY <2>0 DEF Higher
  <2>3. HasShort(steps[h + 1], L, n)
    BY <2>1, <2>2 DEF HasShort
  <2> QED BY <2>3
<1>5. Nat \subseteq T
  <2> HIDE DEF T
  <2> QED BY <1>3, <1>4, InductionOnNat
<1> QED BY <1>5 DEF L, steps

\* The beginnings of a body are words, and short.
LEMMA BodyBeginningsTyped ==
  ASSUME NEW n \in Nat, NEW L, NEW B, WordsOfHeads(L), WordsOfHeads(B), NEW f \in Seq(GrammarSymbol)
  PROVE  BodyBeginnings(n, L, B, f) \subseteq Seq(Terminal)
<1>1. ASSUME NEW i \in DOMAIN f, NEW w \in UpTo(n, L, B, f, i) PROVE w \in Seq(Terminal)
  <2>1. i - 1 \in 0 .. Len(f)
    OBVIOUS
  <2>2. SubSeq(f, 1, i - 1) \in Seq(GrammarSymbol)
    BY <2>1, CutInTwo
  <2>3. PICK u \in BodyWords(n, L, SubSeq(f, 1, i - 1)), v \in SymbolWords(B, f[i]) : w = u \o v
    BY <1>1, InTogether DEF UpTo
  <2>4. u \in Seq(Terminal) /\ v \in Seq(Terminal)
    BY <2>2, SymbolWordsTyped, BodyWordsTyped
  <2> QED BY <2>3, <2>4, ConcatProperties
<1>2. <<>> \in Seq(Terminal)
  OBVIOUS
<1>3. \A i \in DOMAIN f : Short(n, UpTo(n, L, B, f, i)) \subseteq Seq(Terminal)
  BY <1>1 DEF Short
<1> QED BY <1>2, <1>3, BeginningsAre

\* What trees one higher begin with.
HigherBegins(n, g, L, B) ==
  [A \in Heads(g.productions) |-> UNION {BodyBeginnings(n, L, B, body) : body \in Bodies(g.productions, A)}]

\* steps has the beginnings by the height of their trees.
IsBegun(steps, g, n) ==
  /\ \A h \in Nat : WordsOfHeads(steps[h]) /\ DOMAIN steps[h] = Heads(g.productions)
  /\ \A A \in Heads(g.productions) : steps[0][A] = {}
  /\ \A h \in Nat : steps[h + 1] = HigherBegins(n, g, DerivedWords(g, n), steps[h])

LEMMA HigherBeginsTyped ==
  ASSUME NEW g, Typed(g.productions), NEW n \in Nat, NEW L, NEW B, WordsOfHeads(L), WordsOfHeads(B)
  PROVE  HigherBegins(n, g, L, B) \in [Heads(g.productions) -> SUBSET Seq(Terminal)]
<1> DEFINE H == Heads(g.productions)
           U(A) == UNION {BodyBeginnings(n, L, B, body) : body \in Bodies(g.productions, A)}
<1>1. ASSUME NEW A \in H PROVE U(A) \in SUBSET Seq(Terminal)
  <2>1. ASSUME NEW body \in Bodies(g.productions, A) PROVE BodyBeginnings(n, L, B, body) \in SUBSET Seq(Terminal)
    <3>1. body \in Seq(GrammarSymbol)
      BY DEF Bodies, Typed
    <3> QED BY <3>1, BodyBeginningsTyped
  <2> QED BY <2>1
<1>2. HigherBegins(n, g, L, B) = [A \in H |-> U(A)]
  BY DEF HigherBegins
<1> HIDE DEF H, U
<1>3. HigherBegins(n, g, L, B) \in [H -> SUBSET Seq(Terminal)]
  BY <1>1, <1>2
<1> QED BY <1>3 DEF H

\* BeginningsByHeight goes up one height at a time.
LEMMA BeginningsUnfold ==
  ASSUME NEW g, Typed(g.productions), IsFiniteSet(Heads(g.productions)), NEW n \in Nat
  PROVE  IsBegun(BeginningsByHeight(g, n), g, n)
<1> DEFINE H == Heads(g.productions)
           L == DerivedWords(g, n)
           none == [A \in H |-> {}]
           S == [H -> SUBSET Seq(Terminal)]
           F == [x \in Nat \X S |-> HigherBegins(n, g, L, x[2])]
           Is(f) == f = [h \in Nat |-> IF h = 0 THEN none ELSE HigherBegins(n, g, L, f[h - 1])]
           words == CHOOSE f : Is(f)
<1>1. BeginningsByHeight(g, n) = words
  BY DEF BeginningsByHeight, HigherBegins
<1>0. H \subseteq NonTerminal /\ \A B \in S : WordsOfHeads(B) /\ DOMAIN B = H
  BY DEF Heads, Typed, WordsOfHeads
<1>9. WordsOfHeads(L)
  BY HeightsAreDerived
<1> HIDE DEF L
<1>2. PICK f : Iterates(f, S, none, F)
  <2>1. StaysIn(S, none, F)
    <3>1. none \in S
      OBVIOUS
    <3>2. ASSUME NEW k \in Nat, NEW x \in S PROVE F[<<k, x>>] \in S
      <4>1. F[<<k, x>>] = HigherBegins(n, g, L, x)
        OBVIOUS
      <4>2. WordsOfHeads(x)
        BY <1>0
      <4> HIDE DEF F
      <4> QED BY <1>9, <4>1, <4>2, HigherBeginsTyped
    <3> HIDE DEF none, S, F
    <3> QED BY <3>1, <3>2 DEF StaysIn
  <2> HIDE DEF none, S, F
  <2> QED BY <2>1, RecursionOnNat
<1>3. f \in [Nat -> S] /\ f[0] = none /\ \A k \in Nat : f[k + 1] = HigherBegins(n, g, L, f[k])
  <2>1. f \in [Nat -> S] /\ f[0] = none /\ \A k \in Nat : f[k + 1] = F[<<k, f[k]>>]
    BY <1>2 DEF Iterates
  <2>2. ASSUME NEW k \in Nat PROVE F[<<k, f[k]>>] = HigherBegins(n, g, L, f[k])
    <3>1. f[k] \in S
      BY <2>1
    <3> HIDE DEF S
    <3> QED BY <3>1
  <2> QED BY <2>1, <2>2
<1>4. Is(f)
  <2>1. ASSUME NEW k \in Nat, k # 0 PROVE f[k] = HigherBegins(n, g, L, f[k - 1])
    <3>1. k - 1 \in Nat /\ (k - 1) + 1 = k
      BY <2>1
    <3>2. f[(k - 1) + 1] = HigherBegins(n, g, L, f[k - 1])
      BY <3>1, <1>3
    <3> QED BY <3>1, <3>2
  <2> HIDE DEF none, S
  <2> QED BY <1>3, <2>1
<1>5. Is(words)
  <2> HIDE DEF Is
  <2> QED BY <1>4
<1>6. words = f
  <2> DEFINE T == {k \in Nat : words[k] = f[k]}
  <2>1. /\ words = [k \in Nat |-> words[k]] /\ words[0] = none
        /\ \A k \in Nat : words[k + 1] = HigherBegins(n, g, L, words[k])
    <3> HIDE DEF words, none
    <3>1. words[0] = none
      BY <1>5
    <3>2. ASSUME NEW k \in Nat PROVE words[k + 1] = HigherBegins(n, g, L, words[k])
      <4>1. k + 1 \in Nat /\ k + 1 # 0 /\ (k + 1) - 1 = k
        OBVIOUS
      <4>2. words[k + 1] = HigherBegins(n, g, L, words[(k + 1) - 1])
        BY <1>5, <4>1
      <4> QED BY <4>1, <4>2
    <3> QED BY <1>5, <3>1, <3>2
  <2> HIDE DEF words, none, S
  <2>2. 0 \in T
    BY <2>1, <1>3
  <2>3. ASSUME NEW k \in Nat, k \in T PROVE k + 1 \in T
    <3>1. words[k] = f[k]
      BY <2>3
    <3>2. words[k + 1] = HigherBegins(n, g, L, words[k])
      BY <2>1
    <3>3. f[k + 1] = HigherBegins(n, g, L, f[k])
      BY <1>3
    <3>4. words[k + 1] = f[k + 1]
      BY <3>1, <3>2, <3>3
    <3> QED BY <3>4
  <2>4. Nat \subseteq T
    <3> HIDE DEF T
    <3> QED BY <2>2, <2>3, InductionOnNat
  <2> QED BY <2>1, <2>4, <1>3
<1>7. /\ \A h \in Nat : f[h] \in S
      /\ \A A \in H : none[A] = {}
  BY <1>3
<1> HIDE DEF words, S, none, H
<1>8. /\ \A h \in Nat : WordsOfHeads(f[h]) /\ DOMAIN f[h] = H
      /\ \A A \in H : f[0][A] = {}
      /\ \A h \in Nat : f[h + 1] = HigherBegins(n, g, L, f[h])
  BY <1>0, <1>3, <1>7
<1> QED BY <1>1, <1>6, <1>8 DEF IsBegun, H, L

\* What the words of trees begin with is found at the height of the tree.
LEMMA HeightsBegin ==
  ASSUME NEW g, Typed(g.productions), IsFiniteSet(Heads(g.productions)), Terminal \cap NonTerminal = {},
         NEW n \in Nat, NEW m \in Nat
  PROVE  \A h \in Nat : HasBeginnings(WordsByHeight(g, m)[h], BeginningsByHeight(g, n)[h], n)
<1> DEFINE H == Heads(g.productions)
           words == WordsByHeight(g, m)
           begin == BeginningsByHeight(g, n)
           L == DerivedWords(g, n)
           T == {h \in Nat : HasBeginnings(words[h], begin[h], n)}
<1>0. IsByHeight(words, g, m) /\ IsBegun(begin, g, n)
  BY WordsByHeightUnfold, BeginningsUnfold
<1>1. WordsOfHeads(L) /\ DOMAIN L = H
  BY HeightsAreDerived
<1>2. \A h \in Nat : HasShort(words[h], L, n)
  BY ShortAreDerived
<1>9. \A h \in Nat : begin[h + 1] = HigherBegins(n, g, L, begin[h])
  BY <1>0 DEF IsBegun
<1> HIDE DEF L, words, begin
<1>3. 0 \in T
  BY <1>0 DEF IsByHeight, HasBeginnings
<1>4. ASSUME NEW h \in Nat, h \in T PROVE h + 1 \in T
  <2>0. /\ WordsOfHeads(words[h]) /\ DOMAIN words[h] = H /\ words[h + 1] = Higher(m, g, words[h])
        /\ WordsOfHeads(begin[h]) /\ DOMAIN begin[h] = H /\ begin[h + 1] = HigherBegins(n, g, L, begin[h])
        /\ HasShort(words[h], L, n) /\ HasBeginnings(words[h], begin[h], n)
    BY <1>0, <1>2, <1>4, <1>9 DEF IsByHeight, IsBegun
  <2>1. DOMAIN words[h] \cap Terminal = {}
    BY <2>0 DEF WordsOfHeads
  <2>2. ASSUME NEW A \in H, NEW w \in words[h + 1][A], NEW u \in Seq(Terminal), IsBeginning(u, w), Len(u) <= n
        PROVE  u \in begin[h + 1][A]
    <3>1. PICK body \in Bodies(g.productions, A) : w \in BodyWords(m, words[h], body)
      BY <2>0 DEF Higher
    <3>2. body \in Seq(GrammarSymbol)
      BY DEF Bodies, Typed
    <3>3. DOMAIN words[h] = DOMAIN L /\ DOMAIN begin[h] = DOMAIN words[h]
      BY <1>1, <2>0
    <3>4. u = <<>> \/ BeginsIn(n, L, begin[h], body, u)
      BY <1>1, <2>0, <2>1, <2>2, <3>1, <3>2, <3>3, BodyBegins
    <3>5. u \in BodyBeginnings(n, L, begin[h], body)
      <4>1. CASE u = <<>>
        BY <4>1 DEF BodyBeginnings
      <4>2. CASE BeginsIn(n, L, begin[h], body, u)
        BY <2>2, <3>2, <4>2, BeginningsCollected
      <4> QED BY <3>4, <4>1, <4>2
    <3>6. begin[h + 1][A] = UNION {BodyBeginnings(n, L, begin[h], b) : b \in Bodies(g.productions, A)}
      BY <2>0 DEF HigherBegins
    <3> QED BY <3>5, <3>6
  <2>3. DOMAIN words[h + 1] = H
    BY <2>0 DEF Higher
  <2>4. HasBeginnings(words[h + 1], begin[h + 1], n)
    BY <2>2, <2>3 DEF HasBeginnings
  <2> QED BY <2>4
<1>5. Nat \subseteq T
  <2> HIDE DEF T
  <2> QED BY <1>3, <1>4, InductionOnNat
<1> QED BY <1>5 DEF words, begin

\* t ends with b.
EndsWith(b, t) == \E a \in Seq(Terminal) : t = a \o b

LEMMA EndsFurther ==
  ASSUME NEW b \in Seq(Terminal), NEW t, NEW u, EndsWith(b, t), EndsWith(t, u)
  PROVE  EndsWith(b, u)
<1>1. PICK a \in Seq(Terminal) : t = a \o b
  BY DEF EndsWith
<1>2. PICK c \in Seq(Terminal) : u = c \o t
  BY DEF EndsWith
<1>3. Regrouped(u, c, a, b)
  BY <1>1, <1>2, FrontTogether
<1>4. u = (c \o a) \o b /\ c \o a \in Seq(Terminal)
  BY <1>3 DEF Regrouped
<1> QED BY <1>4 DEF EndsWith

\* Two ends of the same length are the same.
LEMMA SameEnds ==
  ASSUME NEW b \in Seq(Terminal), NEW d \in Seq(Terminal), NEW u, EndsWith(b, u), EndsWith(d, u), Len(b) = Len(d)
  PROVE  b = d
<1>1. PICK a \in Seq(Terminal) : u = a \o b
  BY DEF EndsWith
<1>2. PICK c \in Seq(Terminal) : u = c \o d
  BY DEF EndsWith
<1>3. HasParts(u, a, b) /\ HasParts(u, c, d)
  BY <1>1, <1>2, TwoParts
<1>4. Len(a) = Len(c) /\ Len(a) \in Nat /\ Len(b) \in Nat
  BY <1>3 DEF HasParts
<1>5. ASSUME NEW i \in 1 .. Len(b) PROVE b[i] = d[i]
  <2>1. Len(a) + i \in Len(a) + 1 .. Len(a) + Len(b) /\ (Len(a) + i) - Len(a) = i
    BY <1>4
  <2>2. u[Len(a) + i] = b[(Len(a) + i) - Len(a)]
    BY <1>3, <2>1 DEF HasParts
  <2>3. u[Len(a) + i] = d[(Len(a) + i) - Len(a)]
    BY <1>3, <1>4, <2>1 DEF HasParts
  <2> QED BY <2>1, <2>2, <2>3
<1> QED BY <1>5, SameSequence

\* A beginning of a body stays one when B still has the ends of it that K has.
LEMMA BeginningsFrom ==
  ASSUME NEW n \in Nat, NEW L, NEW K, NEW B, WordsOfHeads(L), WordsOfHeads(K), WordsOfHeads(B), DOMAIN K = DOMAIN B,
         NEW f \in Seq(GrammarSymbol), NEW t \in BodyBeginnings(n, L, K, f),
         \A X \in DOMAIN K : \A b \in K[X] : EndsWith(b, t) => b \in B[X]
  PROVE  t \in BodyBeginnings(n, L, B, f)
<1>1. CASE t = <<>>
  BY <1>1, BeginningsAre
<1>2. ASSUME NEW i \in DOMAIN f, t \in Short(n, UpTo(n, L, K, f, i)) PROVE t \in Short(n, UpTo(n, L, B, f, i))
  <2>1. i - 1 \in 0 .. Len(f)
    OBVIOUS
  <2>2. SubSeq(f, 1, i - 1) \in Seq(GrammarSymbol)
    BY <2>1, CutInTwo
  <2>3. t \in UpTo(n, L, K, f, i) /\ Len(t) <= n
    BY <1>2 DEF Short
  <2>4. PICK u \in BodyWords(n, L, SubSeq(f, 1, i - 1)), v \in SymbolWords(K, f[i]) : t = u \o v
    BY <2>3, InTogether DEF UpTo
  <2>5. u \in Seq(Terminal) /\ v \in Seq(Terminal)
    BY <2>2, SymbolWordsTyped, BodyWordsTyped
  <2>6. EndsWith(v, t)
    BY <2>4, <2>5 DEF EndsWith
  <2>7. v \in SymbolWords(B, f[i])
    BY <2>4, <2>6 DEF SymbolWords
  <2>8. t \in UpTo(n, L, B, f, i)
    BY <2>4, <2>7, InTogether DEF UpTo
  <2> QED BY <2>3, <2>8 DEF Short
<1>3. CASE t # <<>>
  <2>1. PICK i \in DOMAIN f : t \in Short(n, UpTo(n, L, K, f, i))
    BY <1>3, BeginningsAre
  <2> QED BY <1>2, <2>1, BeginningsAre
<1> QED BY <1>1, <1>3

\* Higher trees begin with no less.
LEMMA HigherBeginsMore ==
  ASSUME NEW g, Typed(g.productions), IsFiniteSet(Heads(g.productions)), NEW n \in Nat
  PROVE  \A h \in Nat : \A A \in Heads(g.productions) :
           BeginningsByHeight(g, n)[h][A] \subseteq BeginningsByHeight(g, n)[h + 1][A]
<1> DEFINE H == Heads(g.productions)
           begin == BeginningsByHeight(g, n)
           L == DerivedWords(g, n)
           T == {h \in Nat : \A A \in H : begin[h][A] \subseteq begin[h + 1][A]}
<1>0. IsBegun(begin, g, n)
  BY BeginningsUnfold
<1>1. WordsOfHeads(L)
  BY HeightsAreDerived
<1>9. \A h \in Nat : begin[h + 1] = HigherBegins(n, g, L, begin[h])
  BY <1>0 DEF IsBegun
<1> HIDE DEF L, begin
<1>2. 0 \in T
  BY <1>0 DEF IsBegun
<1>3. ASSUME NEW h \in Nat, h \in T PROVE h + 1 \in T
  <2> SUFFICES ASSUME NEW A \in H, NEW t \in begin[h + 1][A] PROVE t \in begin[(h + 1) + 1][A]
    OBVIOUS
  <2>0. h + 1 \in Nat
    OBVIOUS
  <2>1. /\ WordsOfHeads(begin[h]) /\ DOMAIN begin[h] = H /\ WordsOfHeads(begin[h + 1]) /\ DOMAIN begin[h + 1] = H
        /\ begin[h + 1] = HigherBegins(n, g, L, begin[h]) /\ begin[(h + 1) + 1] = HigherBegins(n, g, L, begin[h + 1])
    BY <1>0, <1>9, <2>0 DEF IsBegun
  <2>2. PICK body \in Bodies(g.productions, A) : t \in BodyBeginnings(n, L, begin[h], body)
    BY <2>1 DEF HigherBegins
  <2>3. body \in Seq(GrammarSymbol)
    BY DEF Bodies, Typed
  <2>4. \A X \in DOMAIN begin[h] : \A b \in begin[h][X] : EndsWith(b, t) => b \in begin[h + 1][X]
    BY <1>3, <2>1
  <2>5. DOMAIN begin[h] = DOMAIN begin[h + 1]
    BY <2>1
  <2>6. t \in BodyBeginnings(n, L, begin[h + 1], body)
    BY <1>1, <2>1, <2>2, <2>3, <2>4, <2>5, BeginningsFrom
  <2>7. begin[(h + 1) + 1][A] = UNION {BodyBeginnings(n, L, begin[h + 1], b) : b \in Bodies(g.productions, A)}
    BY <2>1 DEF HigherBegins
  <2> QED BY <2>6, <2>7
<1>4. Nat \subseteq T
  <2> HIDE DEF T
  <2> QED BY <1>2, <1>3, InductionOnNat
<1> QED BY <1>4 DEF begin

\* The heads that begin with an end of u, and how long that is.
EndsAt(begin, u, U, h) == {z \in U : \E b \in begin[h][z[1]] : Len(b) = z[2] /\ EndsWith(b, u)}

\* When no end of u is new at a height, none is at the next.
LEMMA FoundStops ==
  ASSUME NEW g, Typed(g.productions), IsFiniteSet(Heads(g.productions)), NEW n \in Nat, NEW u \in Seq(Terminal), Len(u) <= n,
         NEW U, U = Heads(g.productions) \X (0 .. n), NEW begin, begin = BeginningsByHeight(g, n), NEW h \in Nat,
         EndsAt(begin, u, U, h + 1) = EndsAt(begin, u, U, h)
  PROVE  EndsAt(begin, u, U, (h + 1) + 1) \subseteq EndsAt(begin, u, U, h + 1)
<1> DEFINE H == Heads(g.productions)
           L == DerivedWords(g, n)
<1>0. IsBegun(begin, g, n)
  BY BeginningsUnfold
<1>1. WordsOfHeads(L)
  BY HeightsAreDerived
<1>2. h + 1 \in Nat
  OBVIOUS
<1>3. /\ WordsOfHeads(begin[h]) /\ DOMAIN begin[h] = H /\ WordsOfHeads(begin[h + 1]) /\ DOMAIN begin[h + 1] = H
      /\ begin[h + 1] = HigherBegins(n, g, L, begin[h]) /\ begin[(h + 1) + 1] = HigherBegins(n, g, L, begin[h + 1])
  <2>1. \A j \in Nat : WordsOfHeads(begin[j]) /\ DOMAIN begin[j] = H
    BY <1>0 DEF IsBegun
  <2>2. \A j \in Nat : begin[j + 1] = HigherBegins(n, g, L, begin[j])
    BY <1>0 DEF IsBegun
  <2> HIDE DEF L
  <2> QED BY <1>2, <2>1, <2>2
<1>4. WordsOfHeads(begin[(h + 1) + 1]) /\ DOMAIN begin[(h + 1) + 1] = H
  <2>1. (h + 1) + 1 \in Nat
    BY <1>2
  <2>2. \A j \in Nat : WordsOfHeads(begin[j]) /\ DOMAIN begin[j] = H
    BY <1>0 DEF IsBegun
  <2> QED BY <2>1, <2>2
<1> HIDE DEF L
<1> SUFFICES ASSUME NEW z \in U, NEW t \in begin[(h + 1) + 1][z[1]], Len(t) = z[2], EndsWith(t, u)
             PROVE  t \in begin[h + 1][z[1]]
  BY DEF EndsAt
<1> DEFINE A == z[1]
<1>5. A \in H
  OBVIOUS
<1> HIDE DEF A
<1>6. t \in begin[(h + 1) + 1][A]
  BY DEF A
<1>7. PICK body \in Bodies(g.productions, A) : t \in BodyBeginnings(n, L, begin[h + 1], body)
  BY <1>3, <1>5, <1>6 DEF HigherBegins
<1>8. body \in Seq(GrammarSymbol)
  BY DEF Bodies, Typed
<1>9. ASSUME NEW X \in DOMAIN begin[h + 1], NEW b \in begin[h + 1][X], EndsWith(b, t) PROVE b \in begin[h][X]
  <2>1. X \in H /\ b \in Seq(Terminal)
    BY <1>3 DEF WordsOfHeads
  <2>2. t \in Seq(Terminal)
    BY <1>4, <1>5, <1>6 DEF WordsOfHeads
  <2>3. EndsWith(b, u)
    BY <1>9, <2>1, EndsFurther
  <2>4. Len(b) \in 0 .. n
    <3>1. PICK a \in Seq(Terminal) : u = a \o b
      BY <2>3 DEF EndsWith
    <3>2. Len(u) = Len(a) + Len(b) /\ Len(a) \in Nat /\ Len(b) \in Nat
      BY <2>1, <3>1, TwoParts DEF HasParts
    <3> QED BY <3>2
  <2> DEFINE y == <<X, Len(b)>>
  <2>5. y \in U /\ y[1] = X /\ y[2] = Len(b)
    BY <2>1, <2>4
  <2> HIDE DEF y
  <2>6. y \in EndsAt(begin, u, U, h + 1)
    BY <1>9, <2>3, <2>5 DEF EndsAt
  <2>7. y \in EndsAt(begin, u, U, h)
    BY <2>6
  <2>8. PICK d \in begin[h][X] : Len(d) = Len(b) /\ EndsWith(d, u)
    BY <2>5, <2>7 DEF EndsAt
  <2>9. d \in Seq(Terminal)
    BY <1>3, <2>1 DEF WordsOfHeads
  <2>10. d = b
    BY <2>1, <2>3, <2>8, <2>9, SameEnds
  <2> QED BY <2>8, <2>10
<1>10. DOMAIN begin[h + 1] = DOMAIN begin[h]
  BY <1>3
<1>11. t \in BodyBeginnings(n, L, begin[h], body)
  BY <1>1, <1>3, <1>7, <1>8, <1>9, <1>10, BeginningsFrom
<1>12. begin[h + 1][A] = UNION {BodyBeginnings(n, L, begin[h], b) : b \in Bodies(g.productions, A)}
  BY <1>3, <1>5 DEF HigherBegins
<1>13. t \in begin[h + 1][A]
  BY <1>11, <1>12
<1> QED BY <1>13 DEF A

\* Beginnings has the beginnings of all heights.
LEMMA BeginningsStop ==
  ASSUME NEW g, Typed(g.productions), IsFiniteSet(Heads(g.productions)), NEW n \in Nat, NEW h \in Nat,
         NEW A \in Heads(g.productions), NEW u \in BeginningsByHeight(g, n)[h][A], u \in Seq(Terminal), Len(u) <= n
  PROVE  u \in Beginnings(g, n)[A]
<1> DEFINE H == Heads(g.productions)
           begin == BeginningsByHeight(g, n)
           k == (n + 1) * Cardinality(H)
           U == H \X (0 .. n)
           c == [j \in Nat |-> EndsAt(begin, u, U, j)]
<1>0. IsBegun(begin, g, n) /\ Beginnings(g, n) = begin[k]
  BY BeginningsUnfold DEF Beginnings
<1>1. Cardinality(H) \in Nat /\ k \in Nat
  BY FS_CardinalityType
<1>2. IsFiniteSet(U) /\ Cardinality(U) = k
  <2>1. IsFiniteSet(0 .. n) /\ Cardinality(0 .. n) = n + 1
    BY FS_Interval
  <2>2. Cardinality(H \X (0 .. n)) = Cardinality(H) * (n + 1) /\ IsFiniteSet(H \X (0 .. n))
    BY <2>1, FS_Product
  <2>3. Cardinality(H) * (n + 1) = (n + 1) * Cardinality(H)
    BY <1>1
  <2> QED BY <2>2, <2>3
<1>3. \A j \in Nat : \A B \in H : begin[j][B] \subseteq begin[j + 1][B]
  BY HigherBeginsMore
<1>4. c \in [Nat -> SUBSET U] /\ \A j \in Nat : c[j] = EndsAt(begin, u, U, j)
  BY DEF EndsAt
<1>5. ASSUME NEW j \in Nat PROVE c[j] \subseteq c[j + 1]
  <2>1. \A z \in U : z[1] \in H
    OBVIOUS
  <2>2. j + 1 \in Nat
    OBVIOUS
  <2>3. c[j] = EndsAt(begin, u, U, j) /\ c[j + 1] = EndsAt(begin, u, U, j + 1)
    BY <1>4, <2>2
  <2> HIDE DEF begin, U, c
  <2>4. EndsAt(begin, u, U, j) \subseteq EndsAt(begin, u, U, j + 1)
    BY <1>3, <2>1 DEF EndsAt
  <2> QED BY <2>3, <2>4
<1>6. ASSUME NEW j \in Nat, c[j + 1] = c[j] PROVE c[(j + 1) + 1] = c[j + 1]
  <2>1. j + 1 \in Nat /\ (j + 1) + 1 \in Nat
    OBVIOUS
  <2>2. U = H \X (0 .. n) /\ begin = BeginningsByHeight(g, n)
    OBVIOUS
  <2>3. /\ c[j] = EndsAt(begin, u, U, j) /\ c[j + 1] = EndsAt(begin, u, U, j + 1)
        /\ c[(j + 1) + 1] = EndsAt(begin, u, U, (j + 1) + 1)
    BY <1>4, <2>1
  <2>4. c[j + 1] \subseteq c[(j + 1) + 1]
    BY <1>5, <2>1
  <2> HIDE DEF begin, U, c
  <2>5. EndsAt(begin, u, U, j + 1) = EndsAt(begin, u, U, j)
    BY <1>6, <2>3
  <2>6. EndsAt(begin, u, U, (j + 1) + 1) \subseteq EndsAt(begin, u, U, j + 1)
    BY <2>2, <2>5, FoundStops
  <2> QED BY <2>3, <2>4, <2>6
<1> HIDE DEF k, c, U, begin
<1>7. c[h] \subseteq c[k]
  BY <1>2, <1>4, <1>5, <1>6, ChainStops
<1> DEFINE y == <<A, Len(u)>>
<1>8. y \in U /\ y[1] = A /\ y[2] = Len(u)
  BY DEF U
<1>9. EndsWith(u, u)
  <2>1. <<>> \in Seq(Terminal) /\ u = <<>> \o u
    BY ConcatEmptySeq
  <2> QED BY <2>1 DEF EndsWith
<1> HIDE DEF y
<1>10. u \in begin[h][A]
  BY DEF begin
<1>11. y \in EndsAt(begin, u, U, h)
  BY <1>8, <1>9, <1>10 DEF EndsAt
<1>12. y \in EndsAt(begin, u, U, k)
  BY <1>1, <1>4, <1>7, <1>11
<1>13. PICK d \in begin[k][A] : Len(d) = Len(u) /\ EndsWith(d, u)
  BY <1>8, <1>12 DEF EndsAt
<1>14. d \in Seq(Terminal)
  BY <1>0, <1>1 DEF IsBegun, WordsOfHeads
<1>15. d = u
  BY <1>9, <1>13, <1>14, SameEnds
<1> QED BY <1>0, <1>13, <1>15

\* Beginnings has all short beginnings of all words.
LEMMA BeginningsAreAll ==
  ASSUME NEW g, Typed(g.productions), IsFiniteSet(Heads(g.productions)), Terminal \cap NonTerminal = {},
         NEW n \in Nat, NEW A \in Heads(g.productions), NEW u \in Seq(Terminal), Len(u) <= n,
         NEW w \in AllWords(g)[A], IsBeginning(u, w)
  PROVE  u \in Beginnings(g, n)[A]
<1> DEFINE H == Heads(g.productions)
<1>1. PICK m \in Nat : w \in DerivedWords(g, m)[A]
  BY DEF AllWords
<1> DEFINE k == (m + 1) * Cardinality(H)
<1>2. k \in Nat
  BY FS_CardinalityType
<1>3. w \in WordsByHeight(g, m)[k][A]
  BY <1>1 DEF DerivedWords
<1> HIDE DEF k
<1>4. HasBeginnings(WordsByHeight(g, m)[k], BeginningsByHeight(g, n)[k], n)
  BY <1>2, HeightsBegin
<1>5. DOMAIN WordsByHeight(g, m)[k] = H
  <2>1. IsByHeight(WordsByHeight(g, m), g, m)
    BY WordsByHeightUnfold
  <2> QED BY <1>2, <2>1 DEF IsByHeight
<1>6. u \in BeginningsByHeight(g, n)[k][A]
  BY <1>3, <1>4, <1>5 DEF HasBeginnings
<1> QED BY <1>2, <1>6, BeginningsStop

-----------------------------------------------------------------------------
(* What CFG::first and CFG::follow end with.                               *)

\* Every nonterminal of a body has productions.
NoneMissing(g, body) == NonTerminalsOf(body) \subseteq Heads(g.productions)
Whole(g) == Typed(g.productions) /\ \A p \in g.productions : NoneMissing(g, p.body)

\* A head with a body that derives epsilon derives epsilon.
LEMMA NullableHas ==
  ASSUME NEW g, NEW p \in g.productions, Nullable(g, p.body)
  PROVE  p.head \in NullableHeads(g.productions)
<1> DEFINE P == g.productions
           C(V) == \A q \in P : SymbolsOf(q.body) \subseteq V => q.head \in V
           Is(V) == C(V) /\ \A W \in SUBSET Heads(P) : C(W) => V \subseteq W
           M == {A \in Heads(P) : \A W \in SUBSET Heads(P) : C(W) => A \in W}
<1>1. ASSUME NEW q \in P, SymbolsOf(q.body) \subseteq M PROVE q.head \in M
  <2>1. q.head \in Heads(P)
    BY DEF Heads
  <2>2. ASSUME NEW W \in SUBSET Heads(P), C(W) PROVE q.head \in W
    <3>1. M \subseteq W
      BY <2>2
    <3> QED BY <1>1, <2>2, <3>1
  <2> QED BY <2>1, <2>2
<1>2. M \in SUBSET Heads(P) /\ Is(M)
  <2>1. C(M)
    <3> HIDE DEF M
    <3> QED BY <1>1
  <2> QED BY <2>1
<1>3. NullableHeads(P) = CHOOSE V \in SUBSET Heads(P) : Is(V)
  BY DEF NullableHeads, Smallest
<1>4. Is(NullableHeads(P))
  <2> HIDE DEF Is, M
  <2> QED BY <1>2, <1>3
<1> QED BY <1>4 DEF Nullable

\* Heads that begin what a body derives.
LeadsTo(g, body, V) ==
  /\ Leaders(g, body) \cap NonTerminal \subseteq V
  /\ \A p \in g.productions : p.head \in V => Leaders(g, p.body) \cap NonTerminal \subseteq V
LeastLed(g, body, V) ==
  /\ LeadsTo(g, body, V)
  /\ \A W \in SUBSET Heads(g.productions) : LeadsTo(g, body, W) => V \subseteq W
Ledby(g, body, V) == Leaders(g, body) \cup UNION {Leaders(g, p.body) : p \in {q \in g.productions : q.head \in V}}

LEMMA FirstFrom ==
  ASSUME NEW g, Whole(g), NEW body, NoneMissing(g, body)
  PROVE  \E V \in SUBSET Heads(g.productions) : LeastLed(g, body, V) /\ First(g, body) = Ledby(g, body, V) \cap Terminal
<1> DEFINE H == Heads(g.productions)
           M == {A \in H : \A W \in SUBSET H : LeadsTo(g, body, W) => A \in W}
           begins == CHOOSE V \in SUBSET H : LeastLed(g, body, V)
<1>0. ASSUME NEW f, NoneMissing(g, f) PROVE Leaders(g, f) \cap NonTerminal \subseteq H
  BY <1>0 DEF NoneMissing, Leaders, NonTerminalsOf, SymbolsOf
<1>1. LeadsTo(g, body, M)
  <2>1. ASSUME NEW X \in Leaders(g, body) \cap NonTerminal PROVE X \in M
    BY <1>0 DEF LeadsTo
  <2>2. ASSUME NEW p \in g.productions, p.head \in M, NEW X \in Leaders(g, p.body) \cap NonTerminal PROVE X \in M
    <3>1. X \in H
      BY <1>0 DEF Whole
    <3>2. ASSUME NEW W \in SUBSET H, LeadsTo(g, body, W) PROVE X \in W
      <4>1. p.head \in W
        BY <2>2, <3>2
      <4> QED BY <3>2, <4>1 DEF LeadsTo
    <3> QED BY <3>1, <3>2
  <2> HIDE DEF M
  <2> QED BY <2>1, <2>2 DEF LeadsTo
<1>2. M \in SUBSET H /\ LeastLed(g, body, M)
  BY <1>1 DEF LeastLed
<1>3. begins \in SUBSET H /\ LeastLed(g, body, begins)
  <2> HIDE DEF M
  <2> QED BY <1>2
<1>4. begins = Smallest(H, LAMBDA V : LeadsTo(g, body, V))
  BY DEF Smallest, LeastLed
<1>5. First(g, body) = Ledby(g, body, begins) \cap Terminal
  BY DEF First, Ledby, Smallest, LeastLed, LeadsTo
<1> HIDE DEF begins
<1> QED BY <1>3, <1>5

\* A terminal that begins a body is in its first set.
LEMMA FirstHasLeaders ==
  ASSUME NEW g, Whole(g), NEW body, NoneMissing(g, body), NEW a \in Terminal, a \in Leaders(g, body)
  PROVE  a \in First(g, body)
<1>1. PICK V \in SUBSET Heads(g.productions) : LeastLed(g, body, V) /\ First(g, body) = Ledby(g, body, V) \cap Terminal
  BY FirstFrom
<1> QED BY <1>1 DEF Ledby

\* What a body begins with, another begins with that has the same leaders and more.
LEMMA FirstGrows ==
  ASSUME NEW g, Whole(g), NEW e, NoneMissing(g, e), NEW f, NoneMissing(g, f), Leaders(g, e) \subseteq Leaders(g, f)
  PROVE  First(g, e) \subseteq First(g, f)
<1>1. PICK V \in SUBSET Heads(g.productions) : LeastLed(g, e, V) /\ First(g, e) = Ledby(g, e, V) \cap Terminal
  BY FirstFrom
<1>2. PICK W \in SUBSET Heads(g.productions) : LeastLed(g, f, W) /\ First(g, f) = Ledby(g, f, W) \cap Terminal
  BY FirstFrom
<1>3. LeadsTo(g, e, W)
  BY <1>2 DEF LeastLed, LeadsTo
<1>4. V \subseteq W
  BY <1>1, <1>3 DEF LeastLed
<1>5. Ledby(g, e, V) \subseteq Ledby(g, f, W)
  BY <1>4 DEF Ledby
<1> QED BY <1>1, <1>2, <1>5

\* And so does one with the head for a leader.
LEMMA FirstOfHead ==
  ASSUME NEW g, Whole(g), NEW p \in g.productions, NEW f, NoneMissing(g, f), p.head \in Leaders(g, f)
  PROVE  First(g, p.body) \subseteq First(g, f)
<1>0. NoneMissing(g, p.body) /\ p.head \in NonTerminal
  BY DEF Whole, Typed
<1>1. PICK V \in SUBSET Heads(g.productions) : LeastLed(g, p.body, V) /\ First(g, p.body) = Ledby(g, p.body, V) \cap Terminal
  BY <1>0, FirstFrom
<1>2. PICK W \in SUBSET Heads(g.productions) : LeastLed(g, f, W) /\ First(g, f) = Ledby(g, f, W) \cap Terminal
  BY FirstFrom
<1>3. p.head \in W
  BY <1>0, <1>2 DEF LeastLed, LeadsTo
<1>4. LeadsTo(g, p.body, W)
  BY <1>2, <1>3 DEF LeastLed, LeadsTo
<1>5. V \subseteq W
  BY <1>1, <1>4 DEF LeastLed
<1>6. Ledby(g, p.body, V) \subseteq Ledby(g, f, W)
  BY <1>3, <1>5 DEF Ledby
<1> QED BY <1>1, <1>2, <1>6

\* The leaders of the rest of a body: the symbol it begins with and, if that derives epsilon,
\* those of what is behind it.
LEMMA LeadersOfRest ==
  ASSUME NEW g, NEW S, NEW body \in Seq(S), NEW i \in 1 .. Len(body)
  PROVE  /\ body[i] \in Leaders(g, Rest(body, i - 1))
         /\ Nullable(g, Rest(body, i - 1)) <=> body[i] \in NullableHeads(g.productions) /\ Nullable(g, Rest(body, i))
         /\ body[i] \in NullableHeads(g.productions) => Leaders(g, Rest(body, i)) \subseteq Leaders(g, Rest(body, i - 1))
<1> DEFINE f == Rest(body, i - 1)
           e == Rest(body, i)
           N == NullableHeads(g.productions)
<1>1. /\ f \in Seq(S) /\ Len(f) = (Len(body) - i) + 1 /\ \A j \in 1 .. Len(f) : f[j] = body[(i - 1) + j]
      /\ e \in Seq(S) /\ Len(e) = Len(body) - i /\ \A j \in 1 .. Len(e) : e[j] = body[i + j]
  <2>1. i - 1 \in 0 .. Len(body) /\ i \in 0 .. Len(body) /\ (i - 1) + 1 = i /\ Len(body) \in Nat
    OBVIOUS
  <2>2. f = SubSeq(body, (i - 1) + 1, Len(body)) /\ e = SubSeq(body, i + 1, Len(body))
    BY DEF Rest
  <2> HIDE DEF f, e
  <2>3. f \in Seq(S) /\ Len(f) = Len(body) - (i - 1) /\ \A j \in 1 .. Len(body) - (i - 1) : f[j] = body[(i - 1) + j]
    BY <2>1, <2>2, CutInTwo
  <2>4. e \in Seq(S) /\ Len(e) = Len(body) - i /\ \A j \in 1 .. Len(body) - i : e[j] = body[i + j]
    BY <2>1, <2>2, CutInTwo
  <2>5. Len(body) - (i - 1) = (Len(body) - i) + 1 /\ Len(body) - i \in Nat
    BY <2>1
  <2> QED BY <2>3, <2>4, <2>5
<1> HIDE DEF f, e
<1>2. f[1] = body[i] /\ Len(f) = Len(e) + 1 /\ Len(e) \in Nat /\ \A j \in 1 .. Len(e) : f[j + 1] = e[j]
  <2>1. Len(body) - i \in Nat /\ (i - 1) + 1 = i
    OBVIOUS
  <2>2. f[1] = body[i]
    <3>1. 1 \in 1 .. Len(f)
      BY <1>1, <2>1
    <3> QED BY <1>1, <2>1, <3>1
  <2>3. ASSUME NEW j \in 1 .. Len(e) PROVE f[j + 1] = e[j]
    <3>1. j + 1 \in 1 .. Len(f) /\ (i - 1) + (j + 1) = i + j
      BY <1>1, <2>1
    <3>2. f[j + 1] = body[(i - 1) + (j + 1)] /\ e[j] = body[i + j]
      BY <1>1, <3>1
    <3> QED BY <3>1, <3>2
  <2> QED BY <1>1, <2>1, <2>2, <2>3
<1>3. DOMAIN f = 1 .. Len(f) /\ DOMAIN e = 1 .. Len(e)
  BY <1>1
<1>4. body[i] \in Leaders(g, f)
  <2>1. SubSeq(f, 1, 1 - 1) = <<>>
    BY <1>1
  <2>2. Nullable(g, <<>>)
    BY DEF Nullable, SymbolsOf
  <2>3. 1 \in DOMAIN f
    BY <1>2, <1>3
  <2> QED BY <1>2, <2>1, <2>2, <2>3 DEF Leaders
<1>5. Nullable(g, f) <=> body[i] \in N /\ Nullable(g, e)
  <2>1. SymbolsOf(f) = {body[i]} \cup SymbolsOf(e)
    <3>1. ASSUME NEW j \in DOMAIN f PROVE f[j] \in {body[i]} \cup SymbolsOf(e)
      <4>1. CASE j = 1
        BY <4>1, <1>2
      <4>2. CASE j # 1
        <5>1. j - 1 \in 1 .. Len(e) /\ (j - 1) + 1 = j
          BY <4>2, <1>2, <1>3
        <5>2. f[j] = e[j - 1]
          BY <5>1, <1>2
        <5> QED BY <5>1, <5>2, <1>3 DEF SymbolsOf
      <4> QED BY <4>1, <4>2
    <3>2. ASSUME NEW j \in DOMAIN e PROVE e[j] \in SymbolsOf(f)
      <4>1. j + 1 \in DOMAIN f /\ f[j + 1] = e[j]
        BY <1>2, <1>3
      <4> QED BY <4>1 DEF SymbolsOf
    <3>3. body[i] \in SymbolsOf(f)
      <4>1. 1 \in DOMAIN f
        BY <1>2, <1>3
      <4> QED BY <4>1, <1>2 DEF SymbolsOf
    <3> QED BY <3>1, <3>2, <3>3 DEF SymbolsOf
  <2> QED BY <2>1 DEF Nullable
<1>6. ASSUME body[i] \in N, NEW X \in Leaders(g, e) PROVE X \in Leaders(g, f)
  <2>1. PICK j \in DOMAIN e : Nullable(g, SubSeq(e, 1, j - 1)) /\ X = e[j]
    BY <1>6 DEF Leaders
  <2>2. j + 1 \in DOMAIN f /\ f[j + 1] = X /\ (j + 1) - 1 = j /\ j \in Nat /\ j \in 1 .. Len(e)
    BY <2>1, <1>2, <1>3
  <2>3. j \in 0 .. Len(f) /\ j - 1 \in 0 .. Len(e)
    BY <2>2, <1>2
  <2>4. Len(SubSeq(f, 1, j)) = j /\ SubSeq(f, 1, j) \in Seq(S) /\ \A k \in 1 .. j : SubSeq(f, 1, j)[k] = f[k]
    BY <1>1, <2>3, CutInTwo
  <2>5. /\ Len(SubSeq(e, 1, j - 1)) = j - 1 /\ SubSeq(e, 1, j - 1) \in Seq(S)
        /\ \A k \in 1 .. j - 1 : SubSeq(e, 1, j - 1)[k] = e[k]
    BY <1>1, <2>3, CutInTwo
  <2>6. \A k \in 1 .. j - 1 : e[k] \in N
    <3>1. DOMAIN SubSeq(e, 1, j - 1) = 1 .. j - 1
      BY <2>5
    <3> QED BY <2>1, <2>5, <3>1 DEF Nullable, SymbolsOf
  <2>7. ASSUME NEW k \in 1 .. j PROVE f[k] \in N
    <3>1. CASE k = 1
      BY <3>1, <1>2, <1>6
    <3>2. CASE k # 1
      <4>1. k - 1 \in 1 .. j - 1 /\ k - 1 \in 1 .. Len(e) /\ (k - 1) + 1 = k
        BY <3>2, <2>2
      <4>2. f[k] = e[k - 1]
        BY <4>1, <1>2
      <4> QED BY <4>1, <4>2, <2>6
    <3> QED BY <3>1, <3>2
  <2>8. Nullable(g, SubSeq(f, 1, j))
    <3>1. DOMAIN SubSeq(f, 1, j) = 1 .. j
      BY <2>4
    <3> QED BY <3>1, <2>4, <2>7 DEF Nullable, SymbolsOf
  <2> QED BY <2>2, <2>8 DEF Leaders
<1> QED BY <1>4, <1>5, <1>6 DEF e, f, N

\* Heads that what ends with A ends with.
EndsUp(g, A, V) ==
  /\ A \in V
  /\ \A p \in g.productions : \A i \in DOMAIN p.body : p.body[i] \in V /\ Nullable(g, Rest(p.body, i)) => p.head \in V
LeastEnding(g, A, V) == EndsUp(g, A, V) /\ \A W \in SUBSET Heads(g.productions) : EndsUp(g, A, W) => V \subseteq W
FollowedBy(g, V) ==
  (UNION {UNION {First(g, Rest(p.body, i)) : i \in {j \in DOMAIN p.body : p.body[j] \in V}} : p \in g.productions})
    \cup IF g.start \in V THEN {EndMarker} ELSE {}

LEMMA FollowFrom ==
  ASSUME NEW g, NEW A \in Heads(g.productions)
  PROVE  \E V \in SUBSET Heads(g.productions) : LeastEnding(g, A, V) /\ Follow(g, A) = FollowedBy(g, V)
<1> DEFINE H == Heads(g.productions)
           M == {B \in H : \A W \in SUBSET H : EndsUp(g, A, W) => B \in W}
           ends == CHOOSE V \in SUBSET H : LeastEnding(g, A, V)
<1>1. EndsUp(g, A, M)
  <2>1. A \in M
    BY DEF EndsUp
  <2>2. ASSUME NEW p \in g.productions, NEW i \in DOMAIN p.body, p.body[i] \in M, Nullable(g, Rest(p.body, i)) PROVE p.head \in M
    <3>1. p.head \in H
      BY DEF Heads
    <3>2. ASSUME NEW W \in SUBSET H, EndsUp(g, A, W) PROVE p.head \in W
      <4>1. p.body[i] \in W
        BY <2>2, <3>2
      <4> QED BY <2>2, <3>2, <4>1 DEF EndsUp
    <3> QED BY <3>1, <3>2
  <2> HIDE DEF M
  <2> QED BY <2>1, <2>2 DEF EndsUp
<1>2. M \in SUBSET H /\ LeastEnding(g, A, M)
  BY <1>1 DEF LeastEnding
<1>3. ends \in SUBSET H /\ LeastEnding(g, A, ends)
  <2> HIDE DEF M
  <2> QED BY <1>2
<1>4. Follow(g, A) = FollowedBy(g, ends)
  BY DEF Follow, FollowedBy, Smallest, LeastEnding, EndsUp
<1> HIDE DEF ends
<1> QED BY <1>3, <1>4

\* The end can follow the start symbol.
LEMMA EndFollowsStart ==
  ASSUME NEW g, g.start \in Heads(g.productions)
  PROVE  EndMarker \in Follow(g, g.start)
<1>1. PICK V \in SUBSET Heads(g.productions) : LeastEnding(g, g.start, V) /\ Follow(g, g.start) = FollowedBy(g, V)
  BY FollowFrom
<1> QED BY <1>1 DEF LeastEnding, EndsUp, FollowedBy

\* What can follow a head of a body: what the rest of the body begins with and, if that derives
\* epsilon, what can follow the head of the production.
LEMMA FollowHas ==
  ASSUME NEW g, NEW p \in g.productions, NEW i \in DOMAIN p.body, NEW B \in Heads(g.productions), p.body[i] = B
  PROVE  /\ First(g, Rest(p.body, i)) \subseteq Follow(g, B)
         /\ Nullable(g, Rest(p.body, i)) => Follow(g, p.head) \subseteq Follow(g, B)
<1>1. PICK V \in SUBSET Heads(g.productions) : LeastEnding(g, B, V) /\ Follow(g, B) = FollowedBy(g, V)
  BY FollowFrom
<1>2. First(g, Rest(p.body, i)) \subseteq Follow(g, B)
  <2>1. B \in V
    BY <1>1 DEF LeastEnding, EndsUp
  <2> QED BY <1>1, <2>1 DEF FollowedBy
<1>3. ASSUME Nullable(g, Rest(p.body, i)) PROVE Follow(g, p.head) \subseteq Follow(g, B)
  <2>0. p.head \in Heads(g.productions)
    BY DEF Heads
  <2>1. PICK W \in SUBSET Heads(g.productions) : LeastEnding(g, p.head, W) /\ Follow(g, p.head) = FollowedBy(g, W)
    BY <2>0, FollowFrom
  <2>2. EndsUp(g, p.head, V)
    BY <1>1, <1>3 DEF LeastEnding, EndsUp
  <2>3. W \subseteq V
    BY <2>1, <2>2 DEF LeastEnding
  <2>4. FollowedBy(g, W) \subseteq FollowedBy(g, V)
    BY <2>3 DEF FollowedBy
  <2> QED BY <1>1, <2>1, <2>4
<1> QED BY <1>2, <1>3
=============================================================================
