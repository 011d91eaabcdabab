--------------------------- MODULE SequenceLemmas ---------------------------
(***************************************************************************)
(* Facts about natural numbers and sequences that the proofs of several    *)
(* components need: induction in a form the provers can use, prefixes and  *)
(* suffixes of byte buffers, remainders.                                   *)
(***************************************************************************)
EXTENDS Integers, FiniteSetsExt, SequenceTheorems, FiniteSetTheorems, TLAPS

-----------------------------------------------------------------------------
(* Induction over the natural numbers, about a set instead of a predicate  *)

\* A set of naturals with 0 and every successor is the whole of Nat: were n
\* missing, the successor would be an injection of its elements up to n into
\* those elements without 0.
LEMMA SetInduction ==
  ASSUME NEW S, S \subseteq Nat, 0 \in S, \A n \in S : n + 1 \in S
  PROVE  S = Nat
<1>. SUFFICES ASSUME NEW n \in Nat, n \notin S PROVE FALSE
  OBVIOUS
<1>. DEFINE A == {k \in S : k <= n}
            B == A \ {0}
            succ == [k \in A |-> k + 1]
<1>1. IsFiniteSet(A)
  <2>1. A \in SUBSET Nat /\ \A s \in A : s <= n
    OBVIOUS
  <2>. QED BY <2>1, FS_BoundedSetOfNaturals
<1>2. IsFiniteSet(B) /\ Cardinality(B) = Cardinality(A) - 1
  BY <1>1, FS_RemoveElement, 0 \in A
<1>3. Cardinality(B) < Cardinality(A)
  BY <1>1, <1>2, FS_CardinalityType
<1>4. succ \in [A -> B]
  <2>1. ASSUME NEW k \in A PROVE k + 1 \in B
    <3>1. k \in Nat /\ k <= n /\ k + 1 \in S /\ k # n
      OBVIOUS
    <3>2. k + 1 <= n /\ k + 1 # 0
      BY <3>1
    <3>. QED BY <3>1, <3>2
  <2>. HIDE DEF A, B
  <2>. QED BY <2>1
<1>5. \E x, y \in A : x # y /\ succ[x] = succ[y]
  <2>. HIDE DEF A, B, succ
  <2>. QED BY <1>1, <1>2, <1>3, <1>4, FS_PigeonHole
<1>. QED BY <1>5

\* A set of naturals that is not empty has a least element.
LEMMA LeastNatural ==
  ASSUME NEW A, A \subseteq Nat, A # {}
  PROVE  \E d \in A : \A e \in A : d <= e
<1>. SUFFICES ASSUME \A d \in A : \E e \in A : ~(d <= e) PROVE FALSE
  OBVIOUS
<1>. DEFINE S == {n \in Nat : \A d \in A : ~(d <= n)}
<1>1. 0 \in S
  OBVIOUS
<1>2. ASSUME NEW n \in S PROVE n + 1 \in S
  <2>. SUFFICES ASSUME NEW d \in A, d <= n + 1 PROVE FALSE
    OBVIOUS
  <2>1. PICK e \in A : ~(d <= e)
    OBVIOUS
  <2>2. d \in Nat /\ e \in Nat /\ n \in Nat /\ ~(e <= n)
    BY <2>1
  <2>. QED BY <2>1, <2>2
<1>3. S = Nat
  <2>1. S \subseteq Nat
    OBVIOUS
  <2>. HIDE DEF S
  <2>. QED BY <1>1, <1>2, <2>1, SetInduction
<1>4. PICK a \in A : TRUE
  OBVIOUS
<1>5. a \in Nat /\ a \in S /\ a <= a
  BY <1>3
<1>. QED BY <1>5

\* g is defined by recursion: x at 0, then F of the argument and the value before.
Recursive(g, T, x, F) ==
  g \in [Nat -> T] /\ g[0] = x /\ \A i \in Nat : g[i + 1] = F[<<i + 1, g[i]>>]

\* A function defined by recursion over the natural numbers exists.
LEMMA Recursion ==
  ASSUME NEW T, NEW x, NEW F, x \in T, F \in [Nat \X T -> T]
  PROVE  \E g : Recursive(g, T, x, F)
<1>. DEFINE Upto(n, g) == /\ g \in [0 .. n -> T] /\ g[0] = x
                          /\ \A i \in Nat : i + 1 <= n => g[i + 1] = F[<<i + 1, g[i]>>]
            S == {n \in Nat : \E g : Upto(n, g)}
<1>1. 0 \in S
  <2>1. Upto(0, [k \in 0 .. 0 |-> x])
    OBVIOUS
  <2>. QED BY <2>1
<1>2. ASSUME NEW n \in S PROVE n + 1 \in S
  <2>1. n \in Nat /\ \E g : Upto(n, g)
    OBVIOUS
  <2>2. PICK g : Upto(n, g)
    BY <2>1
  <2>. DEFINE y == F[<<n + 1, g[n]>>]
              h == [k \in 0 .. n + 1 |-> IF k <= n THEN g[k] ELSE y]
  <2>3. y \in T
    BY <2>1, <2>2
  <2>. HIDE DEF y
  <2>4. h \in [0 .. n + 1 -> T] /\ h[0] = x
    BY <2>1, <2>2, <2>3
  <2>5. ASSUME NEW i \in Nat, i + 1 <= n + 1 PROVE h[i + 1] = F[<<i + 1, h[i]>>]
    <3>1. CASE i + 1 <= n
      <4>1. i \in 0 .. n + 1 /\ i + 1 \in 0 .. n + 1 /\ i <= n
        BY <2>1, <3>1
      <4>2. h[i + 1] = g[i + 1] /\ h[i] = g[i]
        BY <3>1, <4>1
      <4>. QED BY <2>2, <3>1, <4>2
    <3>2. CASE ~(i + 1 <= n)
      <4>1. i = n /\ i \in 0 .. n + 1 /\ i + 1 \in 0 .. n + 1
        BY <2>1, <2>5, <3>2
      <4>2. h[i + 1] = y /\ h[i] = g[i]
        BY <2>1, <3>2, <4>1
      <4>. QED BY <4>1, <4>2 DEF y
    <3>. QED BY <3>1, <3>2
  <2>6. Upto(n + 1, h)
    BY <2>4, <2>5
  <2>7. n + 1 \in Nat
    BY <2>1
  <2>. HIDE DEF Upto
  <2>. QED BY <2>6, <2>7
<1>3. S = Nat
  <2>1. S \subseteq Nat
    OBVIOUS
  <2>. HIDE DEF S
  <2>. QED BY <1>1, <1>2, <2>1, SetInduction
<1>4. ASSUME NEW n \in Nat, NEW m \in Nat, NEW g, NEW h, Upto(n, g), Upto(m, h)
      PROVE  \A k \in Nat : k <= n /\ k <= m => g[k] = h[k]
  <2>. DEFINE R == {k \in Nat : k <= n /\ k <= m => g[k] = h[k]}
  <2>1. 0 \in R
    BY <1>4
  <2>2. ASSUME NEW k \in R PROVE k + 1 \in R
    <3>. SUFFICES ASSUME k + 1 <= n, k + 1 <= m PROVE g[k + 1] = h[k + 1]
      OBVIOUS
    <3>1. k \in Nat /\ g[k] = h[k]
      OBVIOUS
    <3>. QED BY <1>4, <3>1
  <2>3. R = Nat
    <3>1. R \subseteq Nat
      OBVIOUS
    <3>. HIDE DEF R
    <3>. QED BY <2>1, <2>2, <3>1, SetInduction
  <2>. QED BY <2>3
<1>. DEFINE G(n) == CHOOSE g : Upto(n, g)
            f == [n \in Nat |-> G(n)[n]]
<1>5. ASSUME NEW n \in Nat PROVE Upto(n, G(n))
  <2>1. \E g : Upto(n, g)
    BY <1>3
  <2>. HIDE DEF Upto
  <2>. QED BY <2>1
<1>. HIDE DEF G
<1>6. f \in [Nat -> T]
  <2>1. ASSUME NEW n \in Nat PROVE G(n)[n] \in T
    BY <1>5
  <2>. QED BY <2>1
<1>7. f[0] = x
  BY <1>5
<1>8. ASSUME NEW i \in Nat PROVE f[i + 1] = F[<<i + 1, f[i]>>]
  <2>1. i + 1 \in Nat /\ Upto(i, G(i)) /\ Upto(i + 1, G(i + 1))
    BY <1>5
  <2>2. G(i + 1)[i] = G(i)[i]
    <3>. HIDE DEF Upto
    <3>. QED BY <1>4, <2>1
  <2>3. G(i + 1)[i + 1] = F[<<i + 1, G(i + 1)[i]>>]
    BY <2>1
  <2>. QED BY <2>1, <2>2, <2>3
<1>. HIDE DEF f
<1>9. Recursive(f, T, x, F)
  BY <1>6, <1>7, <1>8 DEF Recursive
<1>. QED BY <1>9

-----------------------------------------------------------------------------
(* Prefixes and suffixes                                                   *)

\* The first n elements.
LEMMA PrefixProperties ==
  ASSUME NEW T, NEW s \in Seq(T), NEW n \in 0 .. Len(s)
  PROVE  /\ SubSeq(s, 1, n) \in Seq(T) /\ Len(SubSeq(s, 1, n)) = n
         /\ \A i \in 1 .. n : SubSeq(s, 1, n)[i] = s[i]
<1>1. Len(s) \in Nat /\ 1 \in Int /\ n \in Int /\ n >= 0
  BY LenProperties
<1>2. \A i \in 1 .. n : s[i] \in T
  BY <1>1, ElementOfSeq
<1>3. /\ SubSeq(s, 1, n) \in Seq(T)
      /\ Len(SubSeq(s, 1, n)) = IF 1 <= n THEN n - 1 + 1 ELSE 0
      /\ \A i \in 1 .. n - 1 + 1 : SubSeq(s, 1, n)[i] = s[1 + i - 1]
  BY <1>1, <1>2, SubSeqProperties
<1>. QED BY <1>1, <1>3

\* What follows the first n elements.
LEMMA SuffixProperties ==
  ASSUME NEW T, NEW s \in Seq(T), NEW n \in Nat
  PROVE  /\ SubSeq(s, n + 1, Len(s)) \in Seq(T)
         /\ Len(SubSeq(s, n + 1, Len(s))) = IF n <= Len(s) THEN Len(s) - n ELSE 0
         /\ \A i \in 1 .. Len(s) - n : SubSeq(s, n + 1, Len(s))[i] = s[n + i]
<1>1. Len(s) \in Nat /\ n + 1 \in Int /\ Len(s) \in Int
  BY LenProperties
<1>2. \A i \in n + 1 .. Len(s) : s[i] \in T
  BY <1>1, ElementOfSeq
<1>3. /\ SubSeq(s, n + 1, Len(s)) \in Seq(T)
      /\ Len(SubSeq(s, n + 1, Len(s))) = IF n + 1 <= Len(s) THEN Len(s) - (n + 1) + 1 ELSE 0
      /\ \A i \in 1 .. Len(s) - (n + 1) + 1 : SubSeq(s, n + 1, Len(s))[i] = s[n + 1 + i - 1]
  BY <1>1, <1>2, SubSeqProperties
<1>. QED BY <1>1, <1>3

\* A sequence is its first n elements and the rest.
LEMMA PrefixSuffix ==
  ASSUME NEW T, NEW s \in Seq(T), NEW n \in 0 .. Len(s)
  PROVE  SubSeq(s, 1, n) \o SubSeq(s, n + 1, Len(s)) = s
<1>1. Len(s) \in Nat
  BY LenProperties
<1>2. 1 \in 1 .. Len(s) + 1 /\ n \in 1 - 1 .. Len(s) /\ Len(s) \in n .. Len(s)
  BY <1>1
<1>3. SubSeq(s, 1, n) \o SubSeq(s, n + 1, Len(s)) = SubSeq(s, 1, Len(s))
  BY <1>2, ConcatAdjacentSubSeq
<1>. QED BY <1>3, SubSeqFull

\* The prefix of a concatenation that is its first part.
LEMMA PrefixOfConcat ==
  ASSUME NEW T, NEW s \in Seq(T), NEW t \in Seq(T)
  PROVE  SubSeq(s \o t, 1, Len(s)) = s
<1>1. Len(s) \in Nat /\ Len(t) \in Nat
  BY LenProperties
<1>2. /\ s \o t \in Seq(T) /\ Len(s \o t) = Len(s) + Len(t)
      /\ \A i \in 1 .. Len(s) + Len(t) : (s \o t)[i] = IF i <= Len(s) THEN s[i] ELSE t[i - Len(s)]
  BY ConcatProperties
<1>. DEFINE u == s \o t
<1>. HIDE DEF u
<1>3. u \in Seq(T) /\ Len(s) \in 0 .. Len(u) /\ \A i \in 1 .. Len(s) : u[i] = s[i]
  BY <1>1, <1>2 DEF u
<1>4. /\ SubSeq(u, 1, Len(s)) \in Seq(T) /\ Len(SubSeq(u, 1, Len(s))) = Len(s)
      /\ \A i \in 1 .. Len(s) : SubSeq(u, 1, Len(s))[i] = u[i]
  BY <1>3, PrefixProperties
<1>5. SubSeq(u, 1, Len(s)) = s
  BY <1>3, <1>4, SeqEqual
<1>. QED BY <1>5 DEF u

\* Cutting a concatenation within its first part.
LEMMA CutConcat ==
  ASSUME NEW T, NEW s \in Seq(T), NEW t \in Seq(T), NEW n \in 0 .. Len(s)
  PROVE  /\ SubSeq(s \o t, 1, n) = SubSeq(s, 1, n)
         /\ SubSeq(s \o t, n + 1, Len(s \o t)) = SubSeq(s, n + 1, Len(s)) \o t
<1>0. Len(s) \in Nat /\ Len(t) \in Nat /\ n \in Nat
  BY LenProperties
<1>. DEFINE u == s \o t
<1>1. /\ u \in Seq(T) /\ Len(u) = Len(s) + Len(t)
      /\ \A i \in 1 .. Len(s) + Len(t) : u[i] = IF i <= Len(s) THEN s[i] ELSE t[i - Len(s)]
  BY ConcatProperties
<1>. HIDE DEF u
<1>2. SubSeq(u, 1, n) = SubSeq(s, 1, n)
  <2>1. n \in 0 .. Len(u)
    BY <1>0, <1>1
  <2>. DEFINE a == SubSeq(u, 1, n)
              b == SubSeq(s, 1, n)
  <2>2. a \in Seq(T) /\ Len(a) = n /\ \A i \in 1 .. n : a[i] = u[i]
    BY <1>1, <2>1, PrefixProperties
  <2>3. b \in Seq(T) /\ Len(b) = n /\ \A i \in 1 .. n : b[i] = s[i]
    BY PrefixProperties
  <2>4. \A i \in 1 .. n : u[i] = s[i]
    BY <1>0, <1>1
  <2>. HIDE DEF a, b
  <2>5. Len(a) = Len(b) /\ \A i \in 1 .. Len(a) : a[i] = b[i]
    BY <2>2, <2>3, <2>4
  <2>6. a = b
    BY <2>2, <2>3, <2>5, SeqEqual
  <2>. QED BY <2>6 DEF a, b
<1>3. SubSeq(u, n + 1, Len(u)) = SubSeq(s, n + 1, Len(s)) \o t
  <2>. DEFINE a == SubSeq(u, n + 1, Len(u))
              b == SubSeq(s, n + 1, Len(s))
              d == b \o t
  <2>1. /\ a \in Seq(T) /\ Len(a) = Len(s) + Len(t) - n
        /\ \A i \in 1 .. Len(s) + Len(t) - n : a[i] = u[n + i]
    <3>1. /\ a \in Seq(T) /\ Len(a) = IF n <= Len(u) THEN Len(u) - n ELSE 0
          /\ \A i \in 1 .. Len(u) - n : a[i] = u[n + i]
      BY <1>0, <1>1, SuffixProperties
    <3>. HIDE DEF a
    <3>. QED BY <1>0, <1>1, <3>1
  <2>2. /\ b \in Seq(T) /\ Len(b) = Len(s) - n
        /\ \A i \in 1 .. Len(s) - n : b[i] = s[n + i]
    <3>1. /\ b \in Seq(T) /\ Len(b) = IF n <= Len(s) THEN Len(s) - n ELSE 0
          /\ \A i \in 1 .. Len(s) - n : b[i] = s[n + i]
      BY <1>0, SuffixProperties
    <3>. HIDE DEF b
    <3>. QED BY <1>0, <3>1
  <2>. HIDE DEF a, b
  <2>3. /\ d \in Seq(T) /\ Len(d) = Len(b) + Len(t)
        /\ \A i \in 1 .. Len(b) + Len(t) : d[i] = IF i <= Len(b) THEN b[i] ELSE t[i - Len(b)]
    BY <2>2, ConcatProperties
  <2>. HIDE DEF d
  <2>4. Len(a) = Len(d) /\ Len(a) \in Nat
    BY <1>0, <2>1, <2>2, <2>3
  <2>5. ASSUME NEW i \in 1 .. Len(a) PROVE a[i] = d[i]
    <3>1. /\ i \in 1 .. Len(s) + Len(t) - n /\ i \in 1 .. Len(b) + Len(t)
          /\ n + i \in 1 .. Len(s) + Len(t) /\ n + i - Len(s) = i - Len(b)
          /\ i <= Len(b) <=> n + i <= Len(s)
          /\ i <= Len(b) => i \in 1 .. Len(s) - n
      BY <1>0, <2>1, <2>2
    <3>2. a[i] = u[n + i] /\ u[n + i] = IF n + i <= Len(s) THEN s[n + i] ELSE t[n + i - Len(s)]
      BY <1>1, <2>1, <3>1
    <3>3. d[i] = IF i <= Len(b) THEN b[i] ELSE t[i - Len(b)]
      BY <2>3, <3>1
    <3>. QED BY <2>2, <3>1, <3>2, <3>3
  <2>6. a = d
    BY <2>1, <2>3, <2>4, <2>5, SeqEqual
  <2>. QED BY <2>6 DEF a, b, d
<1>. QED BY <1>2, <1>3 DEF u

\* The lesser of two numbers.
LEMMA MinPair ==
  ASSUME NEW a \in Int, NEW b \in Int
  PROVE  Min({a, b}) = IF a <= b THEN a ELSE b
<1>1. \E x \in {a, b} : \A y \in {a, b} : x =< y
  OBVIOUS
<1>2. Min({a, b}) \in {a, b} /\ \A y \in {a, b} : Min({a, b}) =< y
  BY <1>1 DEF Min
<1>. QED BY <1>2

\* The greater of two numbers.
LEMMA MaxPair ==
  ASSUME NEW a \in Int, NEW b \in Int
  PROVE  Max({a, b}) = IF a >= b THEN a ELSE b
<1>1. \E x \in {a, b} : \A y \in {a, b} : x >= y
  OBVIOUS
<1>2. Max({a, b}) \in {a, b} /\ \A y \in {a, b} : Max({a, b}) >= y
  BY <1>1 DEF Max
<1>. QED BY <1>2

-----------------------------------------------------------------------------
(* Remainders, for counters and ring indices                               *)

\* Quotient and remainder of a natural number.
LEMMA DivMod ==
  ASSUME NEW M \in Nat \ {0}, NEW x \in Nat
  PROVE  /\ x \div M \in Nat /\ x % M \in 0 .. M - 1
         /\ (x \div M) * M \in Nat /\ x = (x \div M) * M + (x % M)
<1>1. x \div M \in Nat /\ x % M \in 0 .. M - 1
  OBVIOUS
<1>2. (x \div M) * M \in Nat
  BY <1>1
<1>3. x = (x \div M) * M + (x % M)
  OBVIOUS
<1>. QED BY <1>1, <1>2, <1>3

\* There is only one way to divide with a remainder.
LEMMA ModUnique ==
  ASSUME NEW M \in Nat \ {0}, NEW q \in Nat, NEW r \in 0 .. M - 1
  PROVE  (q * M + r) % M = r
<1>. DEFINE x == q * M + r
<1>1. x \in Nat
  OBVIOUS
<1>. DEFINE p == x \div M
            t == x % M
<1>2. p \in Nat /\ t \in 0 .. M - 1 /\ x = p * M + t
  <2>. HIDE DEF x
  <2>. QED BY <1>1, DivMod
<1>. HIDE DEF p, t
<1>3. q * M - p * M = t - r
  BY <1>2
<1>4. CASE q = p
  BY <1>2, <1>3, <1>4 DEF t
<1>5. CASE q < p
  <2>1. PICK k \in Nat : p = q + 1 + k
    BY <1>2, <1>5, p - q - 1 \in Nat, p = q + 1 + (p - q - 1)
  <2>2. p * M = q * M + M + k * M /\ k * M \in Nat
    BY <1>2, <2>1
  <2>. QED BY <1>2, <1>3, <2>2
<1>6. CASE p < q
  <2>1. PICK k \in Nat : q = p + 1 + k
    BY <1>2, <1>6, q - p - 1 \in Nat, q = p + 1 + (q - p - 1)
  <2>2. q * M = p * M + M + k * M /\ k * M \in Nat
    BY <1>2, <2>1
  <2>. QED BY <1>2, <1>3, <2>2
<1>. QED BY <1>4, <1>5, <1>6

\* Multiples of the modulus do not show.
LEMMA ModShift ==
  ASSUME NEW M \in Nat \ {0}, NEW q \in Nat, NEW x \in Nat
  PROVE  (q * M + x) % M = x % M
<1>1. PICK p \in Nat, r \in 0 .. M - 1 : x = p * M + r /\ r = x % M
  BY DivMod
<1>2. q * M + x = (q + p) * M + r /\ q + p \in Nat
  BY <1>1
<1>3. ((q + p) * M + r) % M = r
  BY <1>2, ModUnique
<1>. QED BY <1>1, <1>2, <1>3

\* A counter may be reduced before it is counted on.
LEMMA ModPlus ==
  ASSUME NEW M \in Nat \ {0}, NEW x \in Nat, NEW y \in Nat
  PROVE  ((x % M) + y) % M = (x + y) % M
<1>1. PICK q \in Nat, r \in 0 .. M - 1 : x = q * M + r /\ r = x % M
  BY DivMod
<1>2. x + y = q * M + (r + y) /\ r + y \in Nat
  BY <1>1
<1>3. (q * M + (r + y)) % M = (r + y) % M
  BY <1>2, ModShift
<1>. QED BY <1>1, <1>2, <1>3

\* The same for a number below zero.
LEMMA ModUniqueInt ==
  ASSUME NEW M \in Nat \ {0}, NEW q \in Int, NEW r \in 0 .. M - 1
  PROVE  (q * M + r) % M = r
<1>. DEFINE x == q * M + r
<1>1. x \in Int
  OBVIOUS
<1>. DEFINE p == x \div M
            t == x % M
<1>2. p \in Int /\ t \in 0 .. M - 1 /\ x = p * M + t
  BY <1>1
<1>. HIDE DEF p, t
<1>3. (p - q) * M = r - t
  BY <1>2
<1>. DEFINE d == p - q
<1>4. d \in Int /\ d * M = r - t
  BY <1>2, <1>3
<1>. HIDE DEF d
<1>5. r - t < M /\ r - t > - M
  BY <1>2
<1>6. CASE d >= 1
  <2>1. d * M >= M
    BY <1>4, <1>6
  <2>. QED BY <1>4, <1>5, <2>1, <1>2
<1>7. CASE d <= -1
  <2>1. d * M <= - M
    BY <1>4, <1>7
  <2>. QED BY <1>4, <1>5, <2>1, <1>2
<1>8. CASE d = 0
  BY <1>2, <1>4, <1>8 DEF t
<1>. QED BY <1>4, <1>6, <1>7, <1>8

\* Two numbers that agree modulo M differ by a multiple of it.
LEMMA ModDistinct ==
  ASSUME NEW M \in Nat \ {0}, NEW x \in Nat, NEW y \in Nat, x < y, y - x < M
  PROVE  x % M # y % M
<1>1. PICK q \in Nat, r \in 0 .. M - 1 : x = q * M + r /\ r = x % M
  BY DivMod
<1>. DEFINE d == y - x
<1>2. d \in Nat /\ 0 < d /\ d < M /\ y = q * M + (r + d)
  BY <1>1
<1>. HIDE DEF d
<1>3. CASE r + d < M
  <2>1. (q * M + (r + d)) % M = r + d
    BY <1>2, <1>3, ModUnique
  <2>. QED BY <1>1, <1>2, <2>1
<1>4. CASE r + d >= M
  <2>1. r + d - M \in 0 .. M - 1 /\ q + 1 \in Nat /\ y = (q + 1) * M + (r + d - M)
    BY <1>2, <1>4
  <2>2. ((q + 1) * M + (r + d - M)) % M = r + d - M
    BY <2>1, ModUnique
  <2>3. r + d - M # r
    BY <1>2
  <2>. QED BY <1>1, <2>1, <2>2, <2>3
<1>. QED BY <1>2, <1>3, <1>4

\* A counter that wraps at a multiple of M still shows its value modulo M.
LEMMA ModOfWrapped ==
  ASSUME NEW M \in Nat \ {0}, NEW W \in Nat \ {0}, NEW x \in Nat, NEW y \in Nat,
         \E m \in Nat : W = m * M
  PROVE  ((x % W) + y) % M = (x + y) % M
<1>1. PICK q \in Nat, r \in 0 .. W - 1 : x = q * W + r /\ r = x % W
  BY DivMod
<1>2. PICK m \in Nat : W = m * M
  OBVIOUS
<1>3. q * m \in Nat /\ q * W = (q * m) * M
  BY <1>2
<1>. DEFINE n == q * m
<1>. HIDE DEF n
<1>a. n \in Nat /\ q * W = n * M
  BY <1>3 DEF n
<1>4. n \in Nat /\ x + y = n * M + (r + y) /\ r + y \in Nat
  BY <1>1, <1>a
<1>5. (n * M + (r + y)) % M = (r + y) % M
  BY <1>4, ModShift
<1>. QED BY <1>1, <1>4, <1>5

\* The distance of two counters that wrap at W, when it is below W.
LEMMA WrappedDistance ==
  ASSUME NEW W \in Nat \ {0}, NEW x \in Nat, NEW y \in Nat, x <= y, y - x < W
  PROVE  ((y % W) - (x % W)) % W = y - x
<1>1. PICK q \in Nat, r \in 0 .. W - 1 : x = q * W + r /\ r = x % W
  BY DivMod
<1>2. PICK p \in Nat, t \in 0 .. W - 1 : y = p * W + t /\ t = y % W
  BY DivMod
<1>. DEFINE d == y - x
            e == q - p
<1>a. e \in Int /\ e * W = q * W - p * W /\ q * W \in Int /\ p * W \in Int
  BY <1>1, <1>2
<1>. HIDE DEF e
<1>3. d \in 0 .. W - 1
  OBVIOUS
<1>b. d = y - x /\ d \in Int
  OBVIOUS
<1>. HIDE DEF d
<1>c. e * W + d = t - r
  <2>. DEFINE A == e * W
              B == q * W
              C == p * W
  <2>1. A \in Int /\ B \in Int /\ C \in Int /\ A = B - C /\ x = B + r /\ y = C + t
    BY <1>1, <1>2, <1>a
  <2>. HIDE DEF A, B, C
  <2>2. A + d = t - r
    BY <1>b, <2>1
  <2>. QED BY <2>2 DEF A
<1>4. (e * W + d) % W = d
  BY <1>3, <1>a, ModUniqueInt
<1>. QED BY <1>1, <1>2, <1>b, <1>c, <1>4

=============================================================================
