-------------------------- MODULE ValidationProofs --------------------------
(***************************************************************************)
(* What becomes of the texts of a request, for texts of any length and any *)
(* limits.  Four parts: sums of numbers, by induction over least elements; *)
(* texts, whose lengths are sums; the rules of Validate, and what they     *)
(* have to do with the documented limits; the invariant of a request.      *)
(***************************************************************************)
EXTENDS Validation, SequenceTheorems, WellFoundedInduction, TLAPS

-----------------------------------------------------------------------------
(* Sums.                                                                   *)

\* A set of numbers has a least one, the library's theorem in the form used here.
LEMMA Least ==
    ASSUME NEW T \in SUBSET Nat, T # {}
    PROVE  \E m \in T : \A n \in T : m <= n
<1> DEFINE R == OpToRel(<, Nat)
<1>1. IsWellFoundedOn(R, Nat)
  BY NatLessThanWellFounded
<1>2. PICK m \in T : \A n \in T : ~ (<<n, m>> \in R)
  BY <1>1, WFMin
<1>3. \A i, j \in Nat : i < j => <<i, j>> \in R
  BY DEF OpToRel
<1>4. \A n \in T : ~ (n < m)
  BY <1>2, <1>3
<1> QED
  BY <1>4

\* Induction up to a bound, for a set instead of a predicate.
LEMMA Climbing ==
    ASSUME NEW n \in Nat, NEW T, 0 \in T, \A k \in 0 .. n : k \in T /\ k + 1 <= n => k + 1 \in T
    PROVE  \A k \in 0 .. n : k \in T
<1> SUFFICES ASSUME NEW j \in 0 .. n, j \notin T
             PROVE  FALSE
  OBVIOUS
<1> DEFINE Left == {k \in Nat : k <= n /\ k \notin T}
<1>1. Left \in SUBSET Nat /\ Left # {}
  BY DEF Left
<1> HIDE DEF Left
<1>2. PICK m \in Left : \A k \in Left : m <= k
  BY <1>1, Least
<1> USE DEF Left
<1>3. m \in Nat /\ m # 0 /\ m <= n /\ m \notin T
  BY <1>2
<1>4. m - 1 \in 0 .. n /\ m - 1 \in Nat /\ m - 1 <= n /\ (m - 1) + 1 = m /\ ~ (m <= m - 1)
  BY <1>3
<1>5. m - 1 \in T
  BY <1>2, <1>4
<1> QED
  BY <1>3, <1>4, <1>5

\* Sums is what its definition says.
LEMMA SumsUpTo ==
    ASSUME NEW f \in Seq(Nat)
    PROVE  /\ DOMAIN Sums(f) = 0 .. Len(f)
           /\ Sums(f)[0] = 0
           /\ \A k \in 1 .. Len(f) : Sums(f)[k] = Sums(f)[k-1] + f[k]
<1> DEFINE n == Len(f)
           Next1(u, i) == IF i = 0 THEN 0 ELSE u[i-1] + f[i]
           F == CHOOSE u : u = [i \in 0 .. n |-> Next1(u, i)]
<1>0. n \in Nat
  BY LenProperties
<1>1. Sums(f) = F
  BY DEF Sums
<1> HIDE DEF n
<1>2. \E u : u = [i \in 0 .. n |-> Next1(u, i)]
  <2> DEFINE Upto(k, u) == u = [i \in 0 .. k |-> Next1(u, i)]
             T == {k \in Nat : \E u : Upto(k, u)}
  <2>1. 0 \in T
    <3>1. 0 .. 0 = {0}
      OBVIOUS
    <3>2. Upto(0, [i \in 0 .. 0 |-> 0])
      BY <3>1
    <3> QED
      BY <3>2
  <2>2. \A k \in 0 .. n : k \in T /\ k + 1 <= n => k + 1 \in T
    <3> HIDE DEF Upto
    <3> SUFFICES ASSUME NEW k \in T, k + 1 <= n
                 PROVE  \E u : Upto(k + 1, u)
      OBVIOUS
    <3>1. PICK g : Upto(k, g)
      OBVIOUS
    <3> USE DEF Upto
    <3> DEFINE h == [i \in 0 .. k + 1 |-> Next1(g, i)]
    <3>2. \A i \in 0 .. k : h[i] = g[i]
      <4> TAKE i \in 0 .. k
      <4>1. g[i] = Next1(g, i)
        BY <3>1
      <4>2. i \in 0 .. k + 1
        OBVIOUS
      <4> QED
        BY <4>1, <4>2
    <3>3. \A i \in 0 .. k + 1 : Next1(h, i) = Next1(g, i)
      <4> TAKE i \in 0 .. k + 1
      <4>1. CASE i = 0
        BY <4>1
      <4>2. CASE i # 0
        <5>1. i - 1 \in 0 .. k
          BY <4>2
        <5>2. h[i-1] = g[i-1]
          BY <5>1, <3>2
        <5>3. Next1(h, i) = h[i-1] + f[i] /\ Next1(g, i) = g[i-1] + f[i]
          BY <4>2
        <5> QED
          BY <5>2, <5>3
      <4> QED
        BY <4>1, <4>2
    <3>4. Upto(k + 1, h)
      BY <3>3
    <3> QED
      BY <3>4
  <2> HIDE DEF T
  <2>3. n \in T
    <3>1. \A k \in 0 .. n : k \in T
      BY <1>0, <2>1, <2>2, Climbing
    <3> QED
      BY <1>0, <3>1
  <2> USE DEF T
  <2> HIDE DEF Upto
  <2>4. \E u : Upto(n, u)
    BY <2>3
  <2> QED
    BY <2>4 DEF Upto
<1>3. F = [i \in 0 .. n |-> Next1(F, i)]
  BY <1>2
<1> HIDE DEF F
<1>4. DOMAIN F = 0 .. n /\ \A k \in 0 .. n : F[k] = Next1(F, k)
  BY <1>3
<1>5. \A k \in 1 .. n : k \in 0 .. n /\ k # 0
  BY <1>0
<1> QED
  BY <1>0, <1>1, <1>4, <1>5 DEF n

LEMMA Distributes ==
    ASSUME NEW a \in Nat, NEW b \in Nat, NEW c \in Nat, NEW x \in Nat, NEW y \in Nat,
           a <= c * x, b <= c * y
    PROVE  a + b <= c * (x + y)
<1>1. c * (x + y) = c * x + c * y
  OBVIOUS
<1>2. c * x \in Nat /\ c * y \in Nat
  OBVIOUS
<1> QED
  BY <1>1, <1>2

LEMMA SumsType ==
    ASSUME NEW f \in Seq(Nat)
    PROVE  /\ \A k \in 0 .. Len(f) : Sums(f)[k] \in Nat
           /\ Total(f) \in Nat
<1> DEFINE T == {k \in Nat : Sums(f)[k] \in Nat}
<1>0. Len(f) \in Nat /\ \A k \in 1 .. Len(f) : f[k] \in Nat
  BY LenProperties, ElementOfSeq
<1>1. 0 \in T
  BY SumsUpTo
<1>2. \A k \in 0 .. Len(f) : k \in T /\ k + 1 <= Len(f) => k + 1 \in T
  <2> SUFFICES ASSUME NEW k \in T, k + 1 <= Len(f)
               PROVE  Sums(f)[k+1] \in Nat
    OBVIOUS
  <2>1. k + 1 \in 1 .. Len(f) /\ (k + 1) - 1 = k
    BY <1>0
  <2>2. Sums(f)[k+1] = Sums(f)[k] + f[k+1]
    BY <2>1, SumsUpTo
  <2> QED
    BY <1>0, <2>1, <2>2
<1> HIDE DEF T
<1>3. \A k \in 0 .. Len(f) : k \in T
  BY <1>0, <1>1, <1>2, Climbing
<1>4. Len(f) \in 0 .. Len(f)
  BY <1>0
<1> QED
  BY <1>3, <1>4 DEF T, Total

\* One step of the sum, with everything typed: for the inductions below.
LEMMA SumsStep ==
    ASSUME NEW f \in Seq(Nat), NEW k \in Nat, k + 1 <= Len(f)
    PROVE  /\ k \in 0 .. Len(f) /\ k + 1 \in 1 .. Len(f) /\ k + 1 \in 0 .. Len(f)
           /\ Sums(f)[k] \in Nat /\ f[k+1] \in Nat /\ Sums(f)[k+1] \in Nat
           /\ Sums(f)[k+1] = Sums(f)[k] + f[k+1]
<1>0. Len(f) \in Nat
  BY LenProperties
<1>1. k \in 0 .. Len(f) /\ k + 1 \in 1 .. Len(f) /\ (k + 1) - 1 = k /\ k + 1 \in 0 .. Len(f)
  BY <1>0
<1>2. Sums(f)[k] \in Nat /\ f[k+1] \in Nat /\ Sums(f)[k+1] \in Nat
  BY <1>1, SumsType, ElementOfSeq
<1>3. Sums(f)[k+1] = Sums(f)[(k+1)-1] + f[k+1]
  BY <1>1, SumsUpTo
<1> QED
  BY <1>1, <1>2, <1>3

\* Sums grow, and no element is more than the sum.
LEMMA SumsGrow ==
    ASSUME NEW f \in Seq(Nat), NEW j \in 0 .. Len(f)
    PROVE  \A k \in 0 .. Len(f) : j <= k => Sums(f)[j] <= Sums(f)[k]
<1> DEFINE T == {k \in Nat : j <= k => Sums(f)[j] <= Sums(f)[k]}
<1>0. Len(f) \in Nat /\ j \in Nat /\ Sums(f)[j] \in Nat
  BY LenProperties, SumsType
<1>1. 0 \in T
  <2>1. j <= 0 => j = 0
    BY <1>0
  <2> QED
    BY <1>0, <2>1
<1>2. \A k \in 0 .. Len(f) : k \in T /\ k + 1 <= Len(f) => k + 1 \in T
  <2> SUFFICES ASSUME NEW k \in T, k + 1 <= Len(f), j <= k + 1
               PROVE  Sums(f)[j] <= Sums(f)[k+1]
    OBVIOUS
  <2>1. /\ Sums(f)[k] \in Nat /\ f[k+1] \in Nat /\ Sums(f)[k+1] \in Nat
        /\ Sums(f)[k+1] = Sums(f)[k] + f[k+1]
    BY SumsStep
  <2>2. CASE j = k + 1
    BY <1>0, <2>2
  <2>3. CASE j # k + 1
    <3>1. j <= k
      BY <1>0, <2>3
    <3>2. Sums(f)[j] <= Sums(f)[k]
      BY <3>1
    <3> HIDE DEF T
    <3> QED
      BY <1>0, <2>1, <3>2
  <2> QED
    BY <2>2, <2>3
<1> HIDE DEF T
<1>3. \A k \in 0 .. Len(f) : k \in T
  BY <1>0, <1>1, <1>2, Climbing
<1> QED
  BY <1>3 DEF T

LEMMA ElementWithinTotal ==
    ASSUME NEW f \in Seq(Nat), NEW i \in 1 .. Len(f)
    PROVE  f[i] <= Total(f)
<1>0. Len(f) \in Nat /\ Len(f) \in 0 .. Len(f)
  BY LenProperties
<1>1. i - 1 \in Nat /\ (i - 1) + 1 = i /\ i \in 0 .. Len(f) /\ i <= Len(f)
  BY <1>0
<1>2. Sums(f)[i-1] \in Nat /\ f[i] \in Nat /\ Sums(f)[i] = Sums(f)[i-1] + f[i]
  <2>1. /\ Sums(f)[i-1] \in Nat /\ f[(i-1)+1] \in Nat
        /\ Sums(f)[(i-1)+1] = Sums(f)[i-1] + f[(i-1)+1]
    BY <1>1, SumsStep
  <2> QED
    BY <1>1, <2>1
<1>3. Sums(f)[i] <= Sums(f)[Len(f)]
  BY <1>0, <1>1, SumsGrow
<1>4. Sums(f)[Len(f)] \in Nat
  BY <1>0, SumsType
<1> QED
  BY <1>2, <1>3, <1>4 DEF Total

\* Where each element is at most c times its counterpart, so is the sum.
LEMMA TotalsCompare ==
    ASSUME NEW f \in Seq(Nat), NEW g \in Seq(Nat), NEW c \in Nat, Len(g) = Len(f),
           \A i \in 1 .. Len(f) : f[i] <= c * g[i]
    PROVE  Total(f) <= c * Total(g)
<1> DEFINE T == {k \in Nat : Sums(f)[k] <= c * Sums(g)[k]}
<1>0. Len(f) \in Nat /\ Len(f) \in 0 .. Len(f)
  BY LenProperties
<1>1. 0 \in T
  <2>1. Sums(f)[0] = 0 /\ Sums(g)[0] = 0
    BY SumsUpTo
  <2> QED
    BY <2>1
<1>2. \A k \in 0 .. Len(f) : k \in T /\ k + 1 <= Len(f) => k + 1 \in T
  <2> SUFFICES ASSUME NEW k \in T, k + 1 <= Len(f)
               PROVE  Sums(f)[k+1] <= c * Sums(g)[k+1]
    OBVIOUS
  <2>0. k \in Nat /\ Sums(f)[k] <= c * Sums(g)[k]
    OBVIOUS
  <2> HIDE DEF T
  <2>1. /\ Sums(f)[k] \in Nat /\ f[k+1] \in Nat /\ k + 1 \in 1 .. Len(f)
        /\ Sums(f)[k+1] = Sums(f)[k] + f[k+1]
    BY <2>0, SumsStep
  <2>2. /\ Sums(g)[k] \in Nat /\ g[k+1] \in Nat
        /\ Sums(g)[k+1] = Sums(g)[k] + g[k+1]
    BY <2>0, SumsStep
  <2>3. f[k+1] <= c * g[k+1]
    BY <2>1
  <2> QED
    BY <2>0, <2>1, <2>2, <2>3, Distributes
<1> HIDE DEF T
<1>3. \A k \in 0 .. Len(f) : k \in T
  BY <1>0, <1>1, <1>2, Climbing
<1>4. Len(f) \in T
  BY <1>0, <1>3
<1> QED
  BY <1>4 DEF T, Total

\* A sequence of zeros, but for the window from a to b, sums to the window's sum.
LEMMA TotalOfWindow ==
    ASSUME NEW f \in Seq(Nat), NEW g \in Seq(Nat), NEW a \in 1 .. Len(f), NEW b \in 1 .. Len(f),
           a <= b, Len(g) = b - a + 1,
           \A i \in 1 .. Len(g) : g[i] = f[a + i - 1],
           \A i \in 1 .. Len(f) : ~ (a <= i /\ i <= b) => f[i] = 0
    PROVE  Total(f) = Total(g)
<1> DEFINE Within(k) == IF k < a THEN 0 ELSE IF k <= b THEN k - a + 1 ELSE Len(g)
           T == {k \in Nat : Sums(f)[k] = Sums(g)[Within(k)]}
<1>0. Len(f) \in Nat /\ Len(f) \in 0 .. Len(f) /\ a \in Nat /\ b \in Nat /\ Len(g) \in Nat
      /\ 1 <= a
  BY LenProperties
<1>1. 0 \in T
  <2>1. Sums(f)[0] = 0 /\ Sums(g)[0] = 0
    BY SumsUpTo
  <2>2. Within(0) = 0
    BY <1>0
  <2> HIDE DEF Within
  <2> QED
    BY <2>1, <2>2
<1>2. \A k \in 0 .. Len(f) : k \in T /\ k + 1 <= Len(f) => k + 1 \in T
  <2> SUFFICES ASSUME NEW k \in T, k + 1 <= Len(f)
               PROVE  Sums(f)[k+1] = Sums(g)[Within(k+1)]
    OBVIOUS
  <2>0. k \in Nat /\ Sums(f)[k] = Sums(g)[Within(k)]
    OBVIOUS
  <2> HIDE DEF T
  <2>1. /\ Sums(f)[k] \in Nat /\ f[k+1] \in Nat /\ k + 1 \in 1 .. Len(f)
        /\ Sums(f)[k+1] = Sums(f)[k] + f[k+1]
    BY <2>0, SumsStep
  <2>2. CASE k + 1 < a \/ b < k + 1
    <3>1. f[k+1] = 0
      BY <1>0, <2>0, <2>1, <2>2
    <3>2. Within(k+1) = Within(k)
      <4>1. CASE k + 1 < a
        BY <1>0, <2>0, <4>1
      <4>2. CASE b < k + 1 /\ k = b
        BY <1>0, <2>0, <4>2
      <4>3. CASE b < k + 1 /\ k # b
        BY <1>0, <2>0, <4>3
      <4> QED
        BY <2>2, <4>1, <4>2, <4>3
    <3> HIDE DEF Within
    <3> QED
      BY <2>0, <2>1, <3>1, <3>2
  <2>3. CASE a <= k + 1 /\ k + 1 <= b
    <3> DEFINE m == k + 1 - a
    <3>1. m \in Nat /\ m + 1 <= Len(g) /\ a + (m + 1) - 1 = k + 1
      BY <1>0, <2>0, <2>3
    <3>2. Within(k+1) = m + 1
      BY <1>0, <2>0, <2>3
    <3>3. Within(k) = m
      BY <1>0, <2>0, <2>3
    <3> HIDE DEF m, Within
    <3>4. /\ Sums(g)[m+1] = Sums(g)[m] + g[m+1]
          /\ m + 1 \in 1 .. Len(g)
      BY <3>1, SumsStep
    <3>5. g[m+1] = f[k+1]
      <4>1. g[m+1] = f[a + (m + 1) - 1]
        BY <3>4
      <4> QED
        BY <3>1, <4>1
    <3> QED
      BY <2>0, <2>1, <3>2, <3>3, <3>4, <3>5
  <2> QED
    BY <1>0, <2>0, <2>2, <2>3
<1> HIDE DEF T
<1>3. \A k \in 0 .. Len(f) : k \in T
  BY <1>0, <1>1, <1>2, Climbing
<1>4. Len(f) \in T
  BY <1>0, <1>3
<1>5. Within(Len(f)) = Len(g)
  <2>1. CASE Len(f) = b
    BY <1>0, <2>1
  <2>2. CASE Len(f) # b
    BY <1>0, <2>2
  <2> QED
    BY <2>1, <2>2
<1> HIDE DEF Within
<1> QED
  BY <1>4, <1>5 DEF T, Total

LEMMA ConcatOfNumbers ==
    ASSUME NEW f \in Seq(Nat), NEW g \in Seq(Nat)
    PROVE  /\ f \o g \in Seq(Nat) /\ Len(f \o g) = Len(f) + Len(g)
           /\ \A i \in 1 .. Len(f) + Len(g) :
                (f \o g)[i] = IF i <= Len(f) THEN f[i] ELSE g[i - Len(f)]
BY ConcatProperties

\* The sum of two sequences one after the other.
LEMMA TotalOfConcat ==
    ASSUME NEW f \in Seq(Nat), NEW g \in Seq(Nat)
    PROVE  Total(f \o g) = Total(f) + Total(g)
<1> DEFINE h == f \o g
           Want(k) == IF k <= Len(f) THEN Sums(f)[k] ELSE Total(f) + Sums(g)[k - Len(f)]
           T == {k \in Nat : Sums(h)[k] = Want(k)}
<1>0. /\ Len(f) \in Nat /\ Len(f) \in 0 .. Len(f) /\ Len(g) \in Nat
      /\ h \in Seq(Nat) /\ Len(h) = Len(f) + Len(g) /\ Len(h) \in Nat
  BY LenProperties, ConcatProperties
<1>h. \A i \in 1 .. Len(f) + Len(g) : h[i] = IF i <= Len(f) THEN f[i] ELSE g[i - Len(f)]
  BY ConcatProperties
<1> HIDE DEF h
<1>1. 0 \in T
  <2>1. Sums(f)[0] = 0 /\ Sums(h)[0] = 0 /\ 0 <= Len(f)
    BY <1>0, SumsUpTo
  <2> QED
    BY <2>1
<1>2. \A k \in 0 .. Len(h) : k \in T /\ k + 1 <= Len(h) => k + 1 \in T
  <2> SUFFICES ASSUME NEW k \in T, k + 1 <= Len(h)
               PROVE  Sums(h)[k+1] = Want(k+1)
    OBVIOUS
  <2>0. k \in Nat /\ Sums(h)[k] = Want(k)
    OBVIOUS
  <2> HIDE DEF T
  <2>1. /\ Sums(h)[k] \in Nat /\ h[k+1] \in Nat /\ k + 1 \in 1 .. Len(h)
        /\ Sums(h)[k+1] = Sums(h)[k] + h[k+1]
    BY <1>0, <2>0, SumsStep
  <2>2. CASE k + 1 <= Len(f)
    <3>1. h[k+1] = f[k+1]
      BY <1>0, <1>h, <2>1, <2>2
    <3>2. Sums(f)[k+1] = Sums(f)[k] + f[k+1]
      BY <2>0, <2>2, SumsStep
    <3>3. Want(k+1) = Sums(f)[k+1] /\ Want(k) = Sums(f)[k]
      BY <1>0, <2>0, <2>2
    <3> HIDE DEF Want
    <3> QED
      BY <2>0, <2>1, <3>1, <3>2, <3>3
  <2>3. CASE ~ (k + 1 <= Len(f))
    <3> DEFINE m == k - Len(f)
    <3>1. m \in Nat /\ m + 1 <= Len(g) /\ (k + 1) - Len(f) = m + 1
      BY <1>0, <2>0, <2>3
    <3>2. h[k+1] = g[m+1]
      BY <1>0, <1>h, <2>1, <2>3, <3>1
    <3>3. Want(k+1) = Total(f) + Sums(g)[m+1]
      BY <2>3, <3>1
    <3>4. Want(k) = Total(f) + Sums(g)[m]
      <4>1. CASE k = Len(f)
        <5>1. Want(k) = Total(f) /\ m = 0
          BY <1>0, <4>1 DEF Total
        <5>2. Sums(g)[0] = 0 /\ Total(f) \in Nat
          BY SumsUpTo, SumsType
        <5> HIDE DEF Want, m
        <5> QED
          BY <5>1, <5>2
      <4>2. CASE k # Len(f)
        <5>1. ~ (k <= Len(f))
          BY <1>0, <2>0, <2>3, <4>2
        <5> QED
          BY <5>1
      <4> QED
        BY <4>1, <4>2
    <3> HIDE DEF Want, m
    <3>5. /\ Sums(g)[m+1] = Sums(g)[m] + g[m+1]
          /\ Sums(g)[m] \in Nat /\ g[m+1] \in Nat
      BY <3>1, SumsStep
    <3>6. Total(f) \in Nat
      BY SumsType
    <3> QED
      BY <2>0, <2>1, <3>2, <3>3, <3>4, <3>5, <3>6
  <2> QED
    BY <2>2, <2>3
<1> HIDE DEF T
<1>3. \A k \in 0 .. Len(h) : k \in T
  BY <1>0, <1>1, <1>2, Climbing
<1>4. Len(h) \in T /\ Len(h) = Len(f) + Len(g)
  BY <1>0, <1>3
<1>5. Want(Len(h)) = Total(f) + Total(g)
  <2>1. CASE Len(g) = 0
    <3>1. Want(Len(h)) = Total(f)
      BY <1>0, <2>1 DEF Total
    <3>2. Total(g) = 0 /\ Total(f) \in Nat
      BY <2>1, SumsUpTo, SumsType DEF Total
    <3> HIDE DEF Want
    <3> QED
      BY <3>1, <3>2
  <2>2. CASE Len(g) # 0
    <3>1. ~ (Len(h) <= Len(f)) /\ Len(h) - Len(f) = Len(g)
      BY <1>0, <2>2
    <3> QED
      BY <3>1 DEF Total
  <2> QED
    BY <2>1, <2>2
<1> HIDE DEF Want
<1> QED
  BY <1>4, <1>5 DEF T, Total, h

LEMMA TimesMore ==
    ASSUME NEW a \in Nat, NEW b \in Nat, NEW c \in Nat, NEW x \in Nat, a <= c * b
    PROVE  x * a <= c * (x * b)
<1>1. x * a <= x * (c * b)
  <2> DEFINE T == {k \in Nat : k * a <= k * (c * b)}
  <2>1. 0 \in T
    OBVIOUS
  <2>2. \A k \in 0 .. x : k \in T /\ k + 1 <= x => k + 1 \in T
    <3> SUFFICES ASSUME NEW k \in Nat, k * a <= k * (c * b)
                 PROVE  (k + 1) * a <= (k + 1) * (c * b)
      OBVIOUS
    <3>1. (k + 1) * a = k * a + a /\ (k + 1) * (c * b) = k * (c * b) + c * b
      OBVIOUS
    <3>2. c * b \in Nat /\ k * a \in Nat /\ k * (c * b) \in Nat
      OBVIOUS
    <3> QED
      BY <3>1, <3>2
  <2> HIDE DEF T
  <2>3. x \in T
    <3>1. \A k \in 0 .. x : k \in T
      BY <2>1, <2>2, Climbing
    <3> QED
      BY <3>1
  <2> QED
    BY <2>3 DEF T
<1>2. x * (c * b) = c * (x * b)
  OBVIOUS
<1> QED
  BY <1>1, <1>2

-----------------------------------------------------------------------------
(* Texts.                                                                  *)

LEMMA FunctionsAreSequences ==
    ASSUME NEW S, NEW n \in Nat, NEW f \in [1 .. n -> S]
    PROVE  f \in Seq(S) /\ Len(f) = n
OBVIOUS

Class == DOMAIN UTF8
Runs == [class : Class, count : Nat]

LEMMA Classes ==
    Class = {"plain", "space", "break", "control", "accented", "invalid", "mark", "wide"}
BY DEF Class, UTF8

LEMMA TextShape ==
    ASSUME NEW t \in Texts
    PROVE  /\ Len(t) \in Nat /\ DOMAIN t = 1 .. Len(t) /\ t \in Seq(Runs)
           /\ \A i \in 1 .. Len(t) :
                /\ t[i] = [class |-> t[i].class, count |-> t[i].count]
                /\ t[i].class \in Class /\ t[i].count \in Nat
<1>1. t \in Seq(Runs)
  BY DEF Texts, Runs, Class
<1>2. Len(t) \in Nat /\ DOMAIN t = 1 .. Len(t) /\ \A i \in 1 .. Len(t) : t[i] \in Runs
  BY <1>1, LenProperties, ElementOfSeq
<1> QED
  BY <1>1, <1>2 DEF Runs

LEMMA RunsMakeTexts ==
    ASSUME NEW n \in Nat, NEW t \in [1 .. n -> Runs]
    PROVE  t \in Texts /\ Len(t) = n
BY FunctionsAreSequences DEF Texts, Runs, Class

Bytes == [Class -> Nat]

LEMMA ByteTables ==
    /\ UTF8 \in Bytes /\ Ones \in Bytes /\ AsEscapes \in Bytes /\ AsIs \in Bytes
    /\ \A c \in Class : /\ AsIs[c] <= 1 * AsEscapes[c]
                        /\ AsEscapes[c] <= 12 * Ones[c]
                        /\ AsEscapes[c] <= 6 * UTF8[c]
                        /\ Ones[c] = 1
<1>1. UTF8 \in Bytes
  BY Classes DEF UTF8, Bytes
<1>2. Ones \in Bytes /\ \A c \in Class : Ones[c] = 1
  BY DEF Ones, Bytes, Class
<1>3. AsEscapes \in Bytes /\ \A c \in Class : AsEscapes[c] = IF c = "wide" THEN 12 ELSE 6
  BY DEF AsEscapes, Bytes, Class
<1>4. AsIs \in Bytes
  BY <1>1 DEF AsIs, Bytes
<1>5. \A c \in Class : /\ AsIs[c] <= 6 /\ AsEscapes[c] >= 6 /\ AsEscapes[c] <= 12
  <2>1. \A c \in Class :
          AsIs[c] = IF c = "break" THEN 2 ELSE IF c = "control" THEN 6 ELSE UTF8[c]
    BY <1>1 DEF AsIs, Bytes
  <2>2. \A c \in Class : UTF8[c] <= 4
    BY Classes DEF UTF8
  <2>3. \A c \in Class : AsIs[c] <= 6
    BY <1>1, <2>1, <2>2 DEF Bytes
  <2> QED
    BY <1>3, <2>3
<1>6. \A c \in Class : UTF8[c] >= 1 /\ UTF8["wide"] = 4
  BY Classes DEF UTF8
<1> QED
  BY <1>1, <1>2, <1>3, <1>4, <1>5, <1>6 DEF Bytes

Worth(t, bytes) == [i \in DOMAIN t |-> t[i].count * bytes[t[i].class]]

LEMMA WorthType ==
    ASSUME NEW t \in Texts, NEW bytes \in Bytes
    PROVE  /\ Worth(t, bytes) \in Seq(Nat) /\ Len(Worth(t, bytes)) = Len(t)
           /\ \A i \in 1 .. Len(t) : Worth(t, bytes)[i] = t[i].count * bytes[t[i].class]
           /\ Weight(t, bytes) = Total(Worth(t, bytes))
           /\ Weight(t, bytes) \in Nat
<1>1. \A i \in 1 .. Len(t) : t[i].count * bytes[t[i].class] \in Nat
  <2> TAKE i \in 1 .. Len(t)
  <2>1. t[i].count \in Nat /\ bytes[t[i].class] \in Nat
    BY TextShape DEF Bytes
  <2> QED
    BY <2>1
<1>2. Worth(t, bytes) \in [1 .. Len(t) -> Nat]
  BY <1>1, TextShape DEF Worth
<1>3. Worth(t, bytes) \in Seq(Nat) /\ Len(Worth(t, bytes)) = Len(t)
  BY <1>2, TextShape, FunctionsAreSequences
<1>4. \A i \in 1 .. Len(t) : Worth(t, bytes)[i] = t[i].count * bytes[t[i].class]
  BY TextShape DEF Worth
<1>5. Weight(t, bytes) = Total(Worth(t, bytes))
  BY DEF Weight, Worth
<1> QED
  BY <1>3, <1>4, <1>5, SumsType

LEMMA CountsType ==
    ASSUME NEW t \in Texts
    PROVE  /\ Counts(t) \in Seq(Nat) /\ Len(Counts(t)) = Len(t)
           /\ \A i \in 1 .. Len(t) : Counts(t)[i] = t[i].count
           /\ Length(t) = Weight(t, Ones) /\ Length(t) \in Nat
<1>1. Counts(t) \in [1 .. Len(t) -> Nat] /\ \A i \in 1 .. Len(t) : Counts(t)[i] = t[i].count
  BY TextShape DEF Counts
<1>2. Counts(t) \in Seq(Nat) /\ Len(Counts(t)) = Len(t)
  BY <1>1, TextShape, FunctionsAreSequences
<1>3. Worth(t, Ones) = Counts(t)
  <2>1. \A i \in 1 .. Len(t) : t[i].count * Ones[t[i].class] = t[i].count
    <3> TAKE i \in 1 .. Len(t)
    <3>1. Ones[t[i].class] = 1 /\ t[i].count \in Nat
      BY TextShape, ByteTables
    <3> QED
      BY <3>1
  <2> QED
    BY <2>1, TextShape DEF Worth, Counts
<1> QED
  BY <1>1, <1>2, <1>3, WorthType, ByteTables DEF Length

LEMMA WeightCompare ==
    ASSUME NEW t \in Texts, NEW few \in Bytes, NEW many \in Bytes, NEW c \in Nat,
           \A k \in Class : few[k] <= c * many[k]
    PROVE  Weight(t, few) <= c * Weight(t, many)
<1>1. \A i \in 1 .. Len(t) : Worth(t, few)[i] <= c * Worth(t, many)[i]
  <2> TAKE i \in 1 .. Len(t)
  <2>1. /\ t[i].count \in Nat /\ few[t[i].class] \in Nat /\ many[t[i].class] \in Nat
        /\ few[t[i].class] <= c * many[t[i].class]
    BY TextShape DEF Bytes
  <2>2. t[i].count * few[t[i].class] <= c * (t[i].count * many[t[i].class])
    BY <2>1, TimesMore
  <2> QED
    BY <2>2, WorthType
<1> QED
  BY <1>1, WorthType, TotalsCompare

LEMMA WeightOfConcat ==
    ASSUME NEW t \in Texts, NEW u \in Texts, NEW bytes \in Bytes
    PROVE  t \o u \in Texts /\ Weight(t \o u, bytes) = Weight(t, bytes) + Weight(u, bytes)
<1>1. /\ t \o u \in Seq(Runs) /\ Len(t \o u) = Len(t) + Len(u)
      /\ \A i \in 1 .. Len(t) + Len(u) :
            (t \o u)[i] = IF i <= Len(t) THEN t[i] ELSE u[i - Len(t)]
  BY TextShape, ConcatProperties
<1>2. t \o u \in Texts
  BY <1>1 DEF Texts, Runs, Class
<1> DEFINE f == Worth(t, bytes)
           g == Worth(u, bytes)
<1>3. /\ f \in Seq(Nat) /\ Len(f) = Len(t) /\ g \in Seq(Nat) /\ Len(g) = Len(u)
      /\ \A i \in 1 .. Len(t) : f[i] = t[i].count * bytes[t[i].class]
      /\ \A i \in 1 .. Len(u) : g[i] = u[i].count * bytes[u[i].class]
      /\ Len(t) \in Nat /\ Len(u) \in Nat
  BY WorthType, TextShape
<1>4. /\ Worth(t \o u, bytes) \in Seq(Nat) /\ Len(Worth(t \o u, bytes)) = Len(t) + Len(u)
      /\ \A i \in 1 .. Len(t) + Len(u) :
            Worth(t \o u, bytes)[i] = (t \o u)[i].count * bytes[(t \o u)[i].class]
  BY <1>1, <1>2, WorthType
<1> HIDE DEF f, g
<1>5. /\ f \o g \in Seq(Nat) /\ Len(f \o g) = Len(t) + Len(u)
      /\ \A i \in 1 .. Len(t) + Len(u) : (f \o g)[i] = IF i <= Len(t) THEN f[i] ELSE g[i - Len(t)]
  <2>1. /\ f \o g \in Seq(Nat) /\ Len(f \o g) = Len(f) + Len(g)
        /\ \A i \in 1 .. Len(f) + Len(g) :
              (f \o g)[i] = IF i <= Len(f) THEN f[i] ELSE g[i - Len(f)]
    BY <1>3, ConcatOfNumbers
  <2> QED
    BY <1>3, <2>1
<1>6. \A i \in 1 .. Len(t) + Len(u) : Worth(t \o u, bytes)[i] = (f \o g)[i]
  <2> TAKE i \in 1 .. Len(t) + Len(u)
  <2>1. CASE i <= Len(t)
    <3>1. i \in 1 .. Len(t)
      BY <1>3, <2>1
    <3> QED
      BY <1>1, <1>3, <1>4, <1>5, <2>1, <3>1
  <2>2. CASE ~ (i <= Len(t))
    <3>1. i - Len(t) \in 1 .. Len(u)
      BY <1>3, <2>2
    <3> QED
      BY <1>1, <1>3, <1>4, <1>5, <2>2, <3>1
  <2> QED
    BY <2>1, <2>2
<1>7. Worth(t \o u, bytes) = f \o g
  BY <1>4, <1>5, <1>6, SeqEqual
<1>8. Weight(t \o u, bytes) = Total(f) + Total(g)
  <2>1. Weight(t \o u, bytes) = Total(Worth(t \o u, bytes))
    BY <1>2, WorthType
  <2>2. Total(f \o g) = Total(f) + Total(g)
    BY <1>3, TotalOfConcat
  <2> QED
    BY <1>7, <2>1, <2>2
<1> QED
  BY <1>2, <1>8, WorthType DEF f, g

LEMMA TotalOfNothing ==
    ASSUME NEW f \in Seq(Nat), Len(f) = 0
    PROVE  Total(f) = 0
BY SumsUpTo DEF Total

LEMMA WeightOfEmptyRuns ==
    ASSUME NEW t \in Texts, NEW bytes \in Bytes, \A i \in 1 .. Len(t) : t[i].count = 0
    PROVE  Weight(t, bytes) = 0
<1> DEFINE f == Worth(t, bytes)
<1>1. /\ f \in Seq(Nat) /\ Len(f) = Len(t) /\ Weight(t, bytes) = Total(f)
      /\ \A i \in 1 .. Len(t) : f[i] = t[i].count * bytes[t[i].class]
  BY WorthType
<1> HIDE DEF f
<1>2. \A i \in 1 .. Len(f) : f[i] <= 0 * f[i]
  <2> TAKE i \in 1 .. Len(f)
  <2>1. t[i].count = 0 /\ bytes[t[i].class] \in Nat /\ f[i] = t[i].count * bytes[t[i].class]
    BY <1>1, TextShape DEF Bytes
  <2> QED
    BY <2>1
<1>3. Total(f) <= 0 * Total(f)
  BY <1>1, <1>2, TotalsCompare
<1>4. Total(f) \in Nat
  BY <1>1, SumsType
<1> QED
  BY <1>1, <1>3, <1>4

\* The least and the greatest of some places of a text.
LEMMA MinAndMax ==
    ASSUME NEW n \in Nat, NEW S \in SUBSET (1 .. n), S # {}
    PROVE  /\ Min(S) \in S /\ \A i \in S : Min(S) <= i
           /\ Max(S) \in S /\ \A i \in S : i <= Max(S)
<1>1. S \in SUBSET Nat
  OBVIOUS
<1>2. \E m \in S : \A i \in S : m <= i
  BY <1>1, Least
<1>3. \E m \in S : \A i \in S : m >= i
  <2> DEFINE D == {k \in Nat : n - k \in S}
  <2>1. D \in SUBSET Nat /\ D # {}
    <3>1. PICK i \in S : TRUE
      OBVIOUS
    <3>2. n - i \in Nat /\ n - (n - i) = i
      OBVIOUS
    <3>3. n - i \in D
      BY <3>1, <3>2
    <3> QED
      BY <3>3
  <2> HIDE DEF D
  <2>2. PICK m \in D : \A k \in D : m <= k
    BY <2>1, Least
  <2> USE DEF D
  <2>3. \A i \in S : n - i \in D
    <3> TAKE i \in S
    <3>1. n - i \in Nat /\ n - (n - i) = i
      OBVIOUS
    <3> QED
      BY <3>1
  <2>4. n - m \in S /\ m \in Nat
    BY <2>2
  <2> HIDE DEF D
  <2>5. \A i \in S : n - m >= i
    <3> TAKE i \in S
    <3>1. m <= n - i
      BY <2>2, <2>3
    <3> QED
      BY <2>4, <3>1
  <2> QED
    BY <2>4, <2>5
<1> QED
  BY <1>2, <1>3 DEF Min, Max

Solid(t) == {i \in DOMAIN t : t[i].class \notin {"space", "break"} /\ t[i].count > 0}
Inner(t) == {i \in DOMAIN t : \E j, k \in Solid(t) : j <= i /\ i <= k}
Inward(t) == [i \in DOMAIN t |-> [t[i] EXCEPT !.count = IF i \in Inner(t) THEN @ ELSE 0]]

LEMMA InwardType ==
    ASSUME NEW t \in Texts
    PROVE  /\ Inward(t) \in Texts /\ Len(Inward(t)) = Len(t)
           /\ \A i \in 1 .. Len(t) :
                /\ Inward(t)[i].class = t[i].class
                /\ Inward(t)[i].count = IF i \in Inner(t) THEN t[i].count ELSE 0
<1>1. \A i \in 1 .. Len(t) :
        /\ Inward(t)[i] = [t[i] EXCEPT !.count = IF i \in Inner(t) THEN t[i].count ELSE 0]
        /\ t[i] = [class |-> t[i].class, count |-> t[i].count]
        /\ t[i].class \in Class /\ t[i].count \in Nat
  BY TextShape DEF Inward
<1>2. \A i \in 1 .. Len(t) :
        /\ Inward(t)[i].class = t[i].class
        /\ Inward(t)[i].count = IF i \in Inner(t) THEN t[i].count ELSE 0
        /\ Inward(t)[i] \in Runs
  <2> TAKE i \in 1 .. Len(t)
  <2> DEFINE n == IF i \in Inner(t) THEN t[i].count ELSE 0
  <2>1. n \in Nat /\ t[i].class \in Class
    BY <1>1
  <2>2. Inward(t)[i] = [class |-> t[i].class, count |-> n]
    BY <1>1
  <2> QED
    BY <2>1, <2>2 DEF Runs
<1>3. DOMAIN Inward(t) = 1 .. Len(t) /\ Inward(t) \in [1 .. Len(t) -> Runs]
  BY <1>2, TextShape DEF Inward
<1> QED
  BY <1>2, <1>3, TextShape, RunsMakeTexts

LEMMA CountedIsInward ==
    ASSUME NEW t \in Texts, NEW bytes
    PROVE  Counted(t, bytes) = Weight(Inward(t), bytes)
<1> DEFINE blank(i) == t[i].class \in {"space", "break"} \/ t[i].count = 0
           inner == {i \in DOMAIN t : \E j, k \in DOMAIN t :
                        j <= i /\ i <= k /\ ~ blank(j) /\ ~ blank(k)}
<1>1. \A i \in DOMAIN t : ~ blank(i) <=> i \in Solid(t)
  <2> TAKE i \in DOMAIN t
  <2>1. t[i].count \in Nat
    BY TextShape
  <2>2. ~ (t[i].count = 0) <=> t[i].count > 0
    BY <2>1
  <2> QED
    BY <2>2 DEF Solid
<1>2. Solid(t) \subseteq DOMAIN t
  BY DEF Solid
<1> HIDE DEF blank
<1>3. inner = Inner(t)
  BY <1>1, <1>2 DEF Inner
<1>4. Counted(t, bytes) =
        Weight([i \in DOMAIN t |-> [t[i] EXCEPT !.count = IF i \in inner THEN @ ELSE 0]], bytes)
  BY DEF Counted, blank
<1> HIDE DEF inner
<1> QED
  BY <1>3, <1>4 DEF Inward

\* What TrimSpace leaves is what counts, in characters or in any kind of bytes.
LEMMA TrimmedIsCounted ==
    ASSUME NEW t \in Texts, NEW bytes \in Bytes
    PROVE  /\ TrimSpace(t) \in Texts
           /\ Weight(TrimSpace(t), bytes) = Counted(t, bytes)
<1>0. TrimSpace(t) = IF Solid(t) = {} THEN <<>> ELSE SubSeq(t, Min(Solid(t)), Max(Solid(t)))
  BY DEF TrimSpace, Solid
<1>1. CASE Solid(t) = {}
  <2>1. TrimSpace(t) = <<>>
    BY <1>0, <1>1
  <2>2. TrimSpace(t) \in Texts /\ Len(TrimSpace(t)) = 0
    BY <2>1, EmptySeq DEF Texts
  <2>3. Weight(TrimSpace(t), bytes) = 0
    BY <2>2, WorthType, TotalOfNothing
  <2>4. \A i \in 1 .. Len(t) : Inward(t)[i].count = 0
    BY <1>1, InwardType DEF Inner
  <2>5. Weight(Inward(t), bytes) = 0
    BY <2>4, InwardType, WeightOfEmptyRuns
  <2> QED
    BY <2>2, <2>3, <2>5, CountedIsInward
<1>2. CASE Solid(t) # {}
  <2> DEFINE a == Min(Solid(t))
             b == Max(Solid(t))
             u == SubSeq(t, a, b)
             f == Worth(Inward(t), bytes)
             g == Worth(u, bytes)
  <2>0. Len(t) \in Nat /\ Solid(t) \subseteq 1 .. Len(t)
    BY TextShape DEF Solid
  <2>1. /\ a \in 1 .. Len(t) /\ b \in 1 .. Len(t) /\ a <= b
        /\ \A i \in Solid(t) : a <= i /\ i <= b
        /\ a \in Solid(t) /\ b \in Solid(t)
    BY <1>2, <2>0, MinAndMax
  <2>2. TrimSpace(t) = u
    BY <1>0, <1>2
  <2> HIDE DEF a, b
  <2>3. /\ a \in Int /\ b \in Int /\ Len(u) = b - a + 1 /\ Len(u) \in Nat
        /\ u \in Texts
        /\ \A i \in 1 .. Len(u) : u[i] = t[a + i - 1]
    <3>1. a \in Int /\ b \in Int /\ b - a + 1 \in Nat
      BY <2>0, <2>1
    <3>2. \A i \in a .. b : t[i] \in Runs
      BY <2>0, <2>1, TextShape, ElementOfSeq
    <3>3. /\ u \in Seq(Runs) /\ Len(u) = IF a <= b THEN b - a + 1 ELSE 0
          /\ \A i \in 1 .. b - a + 1 : u[i] = t[a + i - 1]
      BY <3>1, <3>2, SubSeqProperties
    <3> QED
      BY <2>1, <3>1, <3>3 DEF Texts, Runs, Class
  <2> HIDE DEF u
  <2>4. \A i \in 1 .. Len(t) : i \in Inner(t) <=> a <= i /\ i <= b
    <3> TAKE i \in 1 .. Len(t)
    <3>1. i \in DOMAIN t
      BY TextShape
    <3>2. a <= i /\ i <= b => i \in Inner(t)
      <4>1. a \in Solid(t) /\ b \in Solid(t)
        BY <2>1
      <4> QED
        BY <3>1, <4>1 DEF Inner
    <3>3. i \in Inner(t) => a <= i /\ i <= b
      <4> SUFFICES ASSUME i \in Inner(t)
                   PROVE  a <= i /\ i <= b
        OBVIOUS
      <4>1. PICK j \in Solid(t), k \in Solid(t) : j <= i /\ i <= k
        BY DEF Inner
      <4>2. a <= j /\ k <= b /\ j \in 1 .. Len(t) /\ k \in 1 .. Len(t)
        BY <2>0, <2>1
      <4> QED
        BY <2>0, <2>1, <4>1, <4>2
    <3> QED
      BY <3>2, <3>3
  <2>5. /\ f \in Seq(Nat) /\ Len(f) = Len(t)
        /\ \A i \in 1 .. Len(t) : f[i] = IF a <= i /\ i <= b THEN t[i].count * bytes[t[i].class] ELSE 0
        /\ Weight(Inward(t), bytes) = Total(f)
    <3>1. /\ f \in Seq(Nat) /\ Len(f) = Len(t)
          /\ \A i \in 1 .. Len(t) : f[i] = Inward(t)[i].count * bytes[Inward(t)[i].class]
          /\ Weight(Inward(t), bytes) = Total(f)
      BY InwardType, WorthType
    <3> HIDE DEF f
    <3>2. ASSUME NEW i \in 1 .. Len(t)
          PROVE  f[i] = IF a <= i /\ i <= b THEN t[i].count * bytes[t[i].class] ELSE 0
      <4>1. CASE a <= i /\ i <= b
        BY <2>4, <3>1, <4>1, InwardType
      <4>2. CASE ~ (a <= i /\ i <= b)
        <5>1. Inward(t)[i].count = 0 /\ bytes[Inward(t)[i].class] \in Nat
          BY <2>4, <4>2, InwardType, TextShape DEF Bytes
        <5>2. f[i] = Inward(t)[i].count * bytes[Inward(t)[i].class]
          BY <3>1
        <5> QED
          BY <4>2, <5>1, <5>2
      <4> QED
        BY <4>1, <4>2
    <3> QED
      BY <3>1, <3>2
  <2>6. /\ g \in Seq(Nat) /\ Len(g) = Len(u)
        /\ \A i \in 1 .. Len(u) : g[i] = u[i].count * bytes[u[i].class]
        /\ Weight(u, bytes) = Total(g)
    BY <2>3, WorthType
  <2> HIDE DEF f, g
  <2>7. \A i \in 1 .. Len(g) : g[i] = f[a + i - 1]
    <3> TAKE i \in 1 .. Len(g)
    <3>1. i \in 1 .. Len(u)
      BY <2>6
    <3>2. a + i - 1 \in 1 .. Len(t) /\ a <= a + i - 1 /\ a + i - 1 <= b
      BY <2>0, <2>1, <2>3, <3>1
    <3>3. g[i] = u[i].count * bytes[u[i].class] /\ u[i] = t[a + i - 1]
      BY <2>3, <2>6, <3>1
    <3> QED
      BY <2>5, <3>2, <3>3
  <2>8. \A i \in 1 .. Len(f) : ~ (a <= i /\ i <= b) => f[i] = 0
    BY <2>5
  <2>9. a \in 1 .. Len(f) /\ b \in 1 .. Len(f) /\ Len(g) = b - a + 1
    BY <2>1, <2>3, <2>5, <2>6
  <2>10. Total(f) = Total(g)
    BY <2>1, <2>5, <2>6, <2>7, <2>8, <2>9, TotalOfWindow
  <2> QED
    BY <2>2, <2>3, <2>5, <2>6, <2>10, CountedIsInward
<1> QED
  BY <1>1, <1>2

LEMMA LessOfTwo ==
    ASSUME NEW x \in Nat, NEW y \in Nat
    PROVE  Min({x, y}) = IF x <= y THEN x ELSE y
BY DEF Min

\* A text is trimmed to nothing just when nothing in it counts.
LEMMA EmptyOrCounted ==
    ASSUME NEW t \in Texts, NEW bytes \in Bytes, \A c \in Class : bytes[c] >= 1
    PROVE  TrimSpace(t) = <<>> <=> Counted(t, bytes) = 0
<1>0. TrimSpace(t) = IF Solid(t) = {} THEN <<>> ELSE SubSeq(t, Min(Solid(t)), Max(Solid(t)))
  BY DEF TrimSpace, Solid
<1>1. ASSUME TrimSpace(t) = <<>>
      PROVE  Counted(t, bytes) = 0
  <2>1. Len(TrimSpace(t)) = 0
    BY <1>1, EmptySeq
  <2> QED
    BY <2>1, TrimmedIsCounted, WeightOfEmptyRuns
<1>2. ASSUME TrimSpace(t) # <<>>
      PROVE  Counted(t, bytes) # 0
  <2>1. PICK a \in Solid(t) : TRUE
    BY <1>0, <1>2
  <2>2. /\ a \in 1 .. Len(t) /\ t[a].count \in Nat /\ t[a].count > 0 /\ t[a].class \in Class
        /\ a \in Inner(t)
    <3>1. a \in 1 .. Len(t) /\ a \in DOMAIN t /\ t[a].count > 0
      BY TextShape DEF Solid
    <3>2. a <= a
      BY <3>1
    <3>3. a \in Inner(t)
      BY <3>1, <3>2 DEF Inner
    <3> QED
      BY <3>1, <3>3, TextShape
  <2>3. bytes[t[a].class] \in Nat /\ bytes[t[a].class] >= 1
    BY <2>2 DEF Bytes
  <2> DEFINE f == Worth(Inward(t), bytes)
  <2>4. /\ f \in Seq(Nat) /\ Len(f) = Len(t) /\ Weight(Inward(t), bytes) = Total(f)
        /\ \A i \in 1 .. Len(t) : f[i] = Inward(t)[i].count * bytes[Inward(t)[i].class]
    BY InwardType, WorthType
  <2> HIDE DEF f
  <2>5. f[a] = t[a].count * bytes[t[a].class]
    BY <2>2, <2>4, InwardType
  <2>6. t[a].count * bytes[t[a].class] > 0
    BY <2>2, <2>3
  <2>7. f[a] <= Total(f) /\ Total(f) \in Nat /\ f[a] \in Nat
    BY <2>2, <2>4, ElementWithinTotal, SumsType, ElementOfSeq
  <2> QED
    BY <2>4, <2>5, <2>6, <2>7, CountedIsInward
<1> QED
  BY <1>1, <1>2

LEMMA WithoutType ==
    ASSUME NEW t \in Texts, NEW classes
    PROVE  /\ Without(t, classes) \in Texts /\ Len(Without(t, classes)) = Len(t)
           /\ \A i \in 1 .. Len(t) :
                /\ Without(t, classes)[i].class = t[i].class
                /\ Without(t, classes)[i].count = IF t[i].class \in classes THEN 0 ELSE t[i].count
           /\ ~ Has(Without(t, classes), classes)
           /\ \A others : Has(Without(t, classes), others) => Has(t, others)
<1>1. \A i \in 1 .. Len(t) :
        /\ Without(t, classes)[i].class = t[i].class
        /\ Without(t, classes)[i].count = IF t[i].class \in classes THEN 0 ELSE t[i].count
        /\ Without(t, classes)[i] \in Runs
  <2> TAKE i \in 1 .. Len(t)
  <2>1. t[i].count \in Nat /\ t[i].class \in Class /\ t[i] \in Runs /\ i \in DOMAIN t
    BY TextShape, ElementOfSeq
  <2> QED
    BY <2>1 DEF Without, Run, Runs
<1>2. DOMAIN Without(t, classes) = 1 .. Len(t) /\ Without(t, classes) \in [1 .. Len(t) -> Runs]
  BY <1>1, TextShape DEF Without
<1>3. ~ Has(Without(t, classes), classes)
  <2> SUFFICES ASSUME NEW i \in 1 .. Len(t), t[i].class \in classes,
                      Without(t, classes)[i].count > 0
               PROVE  FALSE
    BY <1>1, <1>2 DEF Has
  <2> QED
    BY <1>1
<1>4. \A others : Has(Without(t, classes), others) => Has(t, others)
  <2> SUFFICES ASSUME NEW others, NEW i \in 1 .. Len(t), t[i].class \in others,
                      Without(t, classes)[i].count > 0
               PROVE  Has(t, others)
    BY <1>1, <1>2 DEF Has
  <2>1. t[i].count > 0 /\ i \in DOMAIN t
    BY <1>1, TextShape
  <2> QED
    BY <2>1 DEF Has
<1> QED
  BY <1>1, <1>2, <1>3, <1>4, TextShape, RunsMakeTexts

\* The first n characters of a text are n, unless there are fewer.
LEMMA PrefixType ==
    ASSUME NEW t \in Texts, NEW n \in Nat
    PROVE  /\ Prefix(t, n) \in Texts
           /\ Length(Prefix(t, n)) = IF Length(t) <= n THEN Length(t) ELSE n
           /\ \A classes : Has(Prefix(t, n), classes) => Has(t, classes)
<1> DEFINE before(i) == Sums(Counts(t))[i-1]
           takes(i) == IF n - before(i) < 0 THEN 0
                       ELSE IF t[i].count <= n - before(i) THEN t[i].count ELSE n - before(i)
<1>0. /\ Len(t) \in Nat /\ DOMAIN t = 1 .. Len(t)
      /\ Counts(t) \in Seq(Nat) /\ Len(Counts(t)) = Len(t)
      /\ \A i \in 1 .. Len(t) : Counts(t)[i] = t[i].count
      /\ Length(t) = Total(Counts(t))
  BY TextShape, CountsType DEF Length
<1>1. ASSUME NEW i \in 1 .. Len(t)
      PROVE  /\ i \in DOMAIN t /\ t[i].count \in Nat /\ t[i].class \in Class /\ before(i) \in Nat
             /\ takes(i) \in Nat /\ takes(i) <= t[i].count
             /\ Prefix(t, n)[i] = [class |-> t[i].class, count |-> takes(i)]
  <2>1. i \in DOMAIN t /\ t[i].count \in Nat /\ t[i].class \in Class
    BY <1>0, TextShape
  <2>2. i - 1 \in 0 .. Len(Counts(t))
    BY <1>0
  <2>3. before(i) \in Nat
    BY <1>0, <2>2, SumsType
  <2>4. Prefix(t, n)[i] = Run(t[i].class, IF n - before(i) < 0 THEN 0
                                          ELSE Min({t[i].count, n - before(i)}))
    BY <2>1 DEF Prefix
  <2> HIDE DEF before
  <2>5. takes(i) \in Nat /\ takes(i) <= t[i].count
    BY <2>1, <2>3
  <2>6. ~ (n - before(i) < 0) =>
          Min({t[i].count, n - before(i)}) =
            IF t[i].count <= n - before(i) THEN t[i].count ELSE n - before(i)
    BY <2>1, <2>3, LessOfTwo
  <2>7. takes(i) = IF n - before(i) < 0 THEN 0 ELSE Min({t[i].count, n - before(i)})
    BY <2>6
  <2> HIDE DEF takes
  <2> QED
    BY <2>1, <2>3, <2>4, <2>5, <2>7 DEF Run
<1>2. DOMAIN Prefix(t, n) = 1 .. Len(t)
  BY <1>0 DEF Prefix
<1> HIDE DEF takes
<1>3. \A i \in 1 .. Len(t) : Prefix(t, n)[i] \in Runs /\ Prefix(t, n)[i].class = t[i].class
                             /\ Prefix(t, n)[i].count = takes(i)
  <2> TAKE i \in 1 .. Len(t)
  <2>1. /\ t[i].class \in Class /\ takes(i) \in Nat
        /\ Prefix(t, n)[i] = [class |-> t[i].class, count |-> takes(i)]
    BY <1>1
  <2> QED
    BY <2>1 DEF Runs
<1>4. Prefix(t, n) \in [1 .. Len(t) -> Runs]
  <2>1. Prefix(t, n) = [i \in 1 .. Len(t) |-> Prefix(t, n)[i]]
    BY <1>0 DEF Prefix
  <2> QED
    BY <1>2, <1>3, <2>1
<1>5. Prefix(t, n) \in Texts /\ Len(Prefix(t, n)) = Len(t)
  BY <1>0, <1>4, RunsMakeTexts
<1> DEFINE f == Counts(t)
           g == Counts(Prefix(t, n))
           T == {k \in Nat : Sums(g)[k] = IF Sums(f)[k] <= n THEN Sums(f)[k] ELSE n}
<1>6. /\ g \in Seq(Nat) /\ Len(g) = Len(t)
      /\ \A i \in 1 .. Len(t) : g[i] = takes(i)
      /\ Length(Prefix(t, n)) = Total(g)
  BY <1>3, <1>5, CountsType DEF Length
<1>7. /\ f \in Seq(Nat) /\ Len(f) = Len(t)
      /\ \A i \in 1 .. Len(t) : f[i] = t[i].count
      /\ \A k \in Nat : before(k + 1) = Sums(f)[k]
  BY <1>0
<1> HIDE DEF f, g, before
<1>8. 0 \in T
  <2>1. Sums(g)[0] = 0 /\ Sums(f)[0] = 0
    BY <1>6, <1>7, SumsUpTo
  <2> QED
    BY <2>1
<1>9. \A k \in 0 .. Len(t) : k \in T /\ k + 1 <= Len(t) => k + 1 \in T
  <2> SUFFICES ASSUME NEW k \in T, k + 1 <= Len(t)
               PROVE  Sums(g)[k+1] = IF Sums(f)[k+1] <= n THEN Sums(f)[k+1] ELSE n
    OBVIOUS
  <2>0. k \in Nat /\ Sums(g)[k] = IF Sums(f)[k] <= n THEN Sums(f)[k] ELSE n
    OBVIOUS
  <2> HIDE DEF T
  <2>1. /\ Sums(g)[k] \in Nat /\ Sums(g)[k+1] = Sums(g)[k] + g[k+1]
        /\ Sums(f)[k] \in Nat /\ Sums(f)[k+1] = Sums(f)[k] + f[k+1]
        /\ k + 1 \in 1 .. Len(t) /\ f[k+1] \in Nat
    BY <1>6, <1>7, <2>0, SumsStep
  <2>2. g[k+1] = takes(k + 1) /\ f[k+1] = t[k+1].count /\ before(k + 1) = Sums(f)[k]
    BY <1>6, <1>7, <2>0, <2>1
  <2>3. g[k+1] = IF n - Sums(f)[k] < 0 THEN 0
                 ELSE IF f[k+1] <= n - Sums(f)[k] THEN f[k+1] ELSE n - Sums(f)[k]
    BY <2>2 DEF takes
  <2> QED
    BY <2>0, <2>1, <2>3
<1> HIDE DEF T
<1>10. Len(t) \in T
  <2>1. \A k \in 0 .. Len(t) : k \in T
    BY <1>0, <1>8, <1>9, Climbing
  <2> QED
    BY <1>0, <2>1
<1>11. Length(Prefix(t, n)) = IF Length(t) <= n THEN Length(t) ELSE n
  <2>1. Total(g) = Sums(g)[Len(t)] /\ Length(t) = Sums(f)[Len(t)]
    BY <1>0, <1>6, <1>7 DEF Total, f
  <2> QED
    BY <1>6, <1>10, <2>1 DEF T
<1>12. \A classes : Has(Prefix(t, n), classes) => Has(t, classes)
  <2> SUFFICES ASSUME NEW classes, NEW i \in 1 .. Len(t), t[i].class \in classes, takes(i) > 0
               PROVE  Has(t, classes)
    BY <1>2, <1>3 DEF Has
  <2>1. i \in DOMAIN t /\ t[i].count \in Nat /\ takes(i) \in Nat /\ takes(i) <= t[i].count
    BY <1>1
  <2>2. t[i].count > 0
    BY <2>1
  <2> QED
    BY <2>1, <2>2 DEF Has
<1> QED
  BY <1>5, <1>11, <1>12

\* What a line of the log gets: nothing that breaks it, no more than its measure, and
\* the mark just when something was cut.
LEMMA LoggableIsClean ==
    ASSUME NEW t \in Texts, NEW max \in Nat
    PROVE  /\ Loggable(t, max) \in Texts
           /\ ~ Has(Loggable(t, max), Unloggable)
           /\ Length(Loggable(t, max)) <= max + 1
           /\ IF Length(Without(t, Unloggable)) > max
              THEN Has(Loggable(t, max), {"mark"}) /\ Length(Loggable(t, max)) = max + 1
              ELSE Length(Loggable(t, max)) = Length(Without(t, Unloggable))
<1> DEFINE left == Without(t, Unloggable)
           cut == Prefix(left, max)
<1>1. /\ left \in Texts /\ ~ Has(left, Unloggable) /\ Length(left) \in Nat
      /\ Has(left, {"mark"}) => Has(t, {"mark"})
  BY WithoutType, CountsType
<1>2. Loggable(t, max) = IF Length(left) <= max THEN left ELSE Append(cut, Run("mark", 1))
  BY DEF Loggable, Cleaned
<1> HIDE DEF left
<1>3. CASE Length(left) <= max
  BY <1>1, <1>2, <1>3 DEF left
<1>4. CASE ~ (Length(left) <= max)
  <2>1. cut \in Texts /\ Length(cut) = max /\ \A classes : Has(cut, classes) => Has(left, classes)
    BY <1>1, <1>4, PrefixType
  <2> HIDE DEF cut
  <2> DEFINE u == << Run("mark", 1) >>
  <2>2. Append(cut, Run("mark", 1)) = cut \o u
    BY <2>1, AppendIsConcat DEF Texts
  <2>3. u \in Texts /\ Len(u) = 1 /\ u[1] = Run("mark", 1)
    BY Classes DEF Run, Texts, Class
  <2>4. Length(u) = 1
    <3> DEFINE f == Counts(u)
    <3>1. f \in Seq(Nat) /\ Len(f) = 1 /\ f[1] = 1 /\ Length(u) = Total(f)
      BY <2>3, CountsType DEF Run, Length
    <3> HIDE DEF f, u
    <3>2. Sums(f)[0+1] = Sums(f)[0] + f[0+1] /\ Sums(f)[0] = 0
      BY <3>1, SumsStep, SumsUpTo
    <3> QED
      BY <3>1, <3>2 DEF Total
  <2> HIDE DEF u
  <2>5. cut \o u \in Texts /\ Length(cut \o u) = max + 1
    BY <2>1, <2>3, <2>4, WeightOfConcat, CountsType, ByteTables
  <2>6. /\ Len(cut) \in Nat /\ DOMAIN (cut \o u) = 1 .. Len(cut) + 1 /\ DOMAIN cut = 1 .. Len(cut)
        /\ \A i \in 1 .. Len(cut) + 1 :
              (cut \o u)[i] = IF i <= Len(cut) THEN cut[i] ELSE Run("mark", 1)
    <3>1. /\ Len(cut \o u) = Len(cut) + Len(u)
          /\ \A i \in 1 .. Len(cut) + Len(u) :
                (cut \o u)[i] = IF i <= Len(cut) THEN cut[i] ELSE u[i - Len(cut)]
      BY <2>1, <2>3, ConcatProperties DEF Texts
    <3>2. Len(cut) \in Nat /\ DOMAIN cut = 1 .. Len(cut)
          /\ DOMAIN (cut \o u) = 1 .. Len(cut \o u)
      BY <2>1, <2>5, TextShape
    <3>3. ASSUME NEW i \in 1 .. Len(cut) + 1
          PROVE  (cut \o u)[i] = IF i <= Len(cut) THEN cut[i] ELSE Run("mark", 1)
      <4>1. CASE i <= Len(cut)
        BY <2>3, <3>1, <4>1
      <4>2. CASE ~ (i <= Len(cut))
        <5>1. i - Len(cut) = 1
          BY <3>2, <4>2
        <5> QED
          BY <2>3, <3>1, <4>2, <5>1
      <4> QED
        BY <4>1, <4>2
    <3> QED
      BY <2>3, <3>1, <3>2, <3>3
  <2>7. Has(cut \o u, {"mark"})
    <3>1. Len(cut) + 1 \in 1 .. Len(cut) + 1 /\ ~ (Len(cut) + 1 <= Len(cut))
      BY <2>6
    <3>2. (cut \o u)[Len(cut) + 1] = Run("mark", 1)
      BY <2>6, <3>1
    <3> QED
      BY <2>6, <3>1, <3>2 DEF Has, Run
  <2>8. ~ Has(cut \o u, Unloggable)
    <3> SUFFICES ASSUME NEW i \in 1 .. Len(cut) + 1,
                        (cut \o u)[i].class \in Unloggable, (cut \o u)[i].count > 0
                 PROVE  FALSE
      BY <2>6 DEF Has
    <3>1. CASE i <= Len(cut)
      <4>1. i \in DOMAIN cut /\ (cut \o u)[i] = cut[i]
        BY <2>6, <3>1
      <4>2. Has(cut, Unloggable)
        BY <4>1 DEF Has
      <4> QED
        BY <1>1, <2>1, <4>2
    <3>2. CASE ~ (i <= Len(cut))
      <4>1. (cut \o u)[i] = Run("mark", 1)
        BY <2>6, <3>2
      <4> QED
        BY <4>1 DEF Run, Unloggable
    <3> QED
      BY <3>1, <3>2
  <2>9. Loggable(t, max) = cut \o u
    BY <1>2, <1>4, <2>2
  <2>10. Length(left) > max
    BY <1>1, <1>4
  <2>11. max + 1 <= max + 1
    OBVIOUS
  <2> QED
    BY <2>5, <2>7, <2>8, <2>9, <2>10, <2>11 DEF left
<1> QED
  BY <1>3, <1>4

-----------------------------------------------------------------------------
(* What is measured of a request.                                          *)

LEMMA Requested ==
    ASSUME NEW r \in Requests
    PROVE  /\ r.path \in Texts /\ r.origin \in Texts /\ r.complaint \in Texts
           /\ r.name \in Texts /\ r.email \in Texts /\ r.message \in Texts /\ r.website \in Texts
           /\ r.readable \in BOOLEAN /\ r.escaped \in BOOLEAN
           /\ r.framing \in Nat /\ r.trailing \in Nat
           /\ r.parse = "bare" => ~ Has(TrimSpace(r.email), {"break"})
BY RequestsAssumption

LEMMA Limits ==
    /\ MaxNameLen \in Nat /\ MaxEmailLen \in Nat /\ MaxMessageLen \in Nat /\ MinMessageLen \in Nat
    /\ BodyLimit \in Nat /\ MaxLogged \in Nat
BY LimitsAssumption

\* A field, trimmed, is as long as what counts of it.
LEMMA Measured ==
    ASSUME NEW t \in Texts
    PROVE  /\ TrimSpace(t) \in Texts
           /\ Length(TrimSpace(t)) = Counted(t, Ones) /\ Counted(t, Ones) \in Nat
           /\ Weight(TrimSpace(t), UTF8) = Counted(t, UTF8) /\ Counted(t, UTF8) \in Nat
           /\ TrimSpace(t) = <<>> <=> Counted(t, Ones) = 0
           /\ TrimSpace(t) = <<>> <=> Counted(t, UTF8) = 0
<1>1. /\ Ones \in Bytes /\ UTF8 \in Bytes
      /\ \A c \in Class : Ones[c] >= 1 /\ UTF8[c] >= 1
  BY ByteTables, Classes DEF UTF8
<1>2. /\ TrimSpace(t) \in Texts
      /\ Weight(TrimSpace(t), Ones) = Counted(t, Ones)
      /\ Weight(TrimSpace(t), UTF8) = Counted(t, UTF8)
  BY <1>1, TrimmedIsCounted
<1>3. Length(TrimSpace(t)) = Weight(TrimSpace(t), Ones)
  BY <1>2, CountsType
<1>4. Counted(t, Ones) \in Nat /\ Counted(t, UTF8) \in Nat
  BY <1>1, <1>2, WorthType
<1> QED
  BY <1>1, <1>2, <1>3, <1>4, EmptyOrCounted

\* A field that is within its limit takes, in any encoding, so many bytes and what
\* is written around it.
LEMMA FieldFits ==
    ASSUME NEW t \in Texts, NEW bytes \in {AsIs, AsEscapes}
    PROVE  /\ Weight(t, bytes) \in Nat
           /\ Weight(t, bytes) <= 12 * Counted(t, Ones) + (Weight(t, AsEscapes) - Counted(t, AsEscapes))
           /\ Weight(t, bytes) <= 6 * Counted(t, UTF8) + (Weight(t, AsEscapes) - Counted(t, AsEscapes))
<1>0. /\ bytes \in Bytes /\ AsEscapes \in Bytes /\ Ones \in Bytes /\ UTF8 \in Bytes
      /\ \A c \in Class : bytes[c] <= 1 * AsEscapes[c]
      /\ \A c \in Class : AsEscapes[c] <= 12 * Ones[c] /\ AsEscapes[c] <= 6 * UTF8[c]
  <2>1. \A c \in Class : AsEscapes[c] <= 1 * AsEscapes[c]
    BY ByteTables DEF Bytes
  <2> QED
    BY <2>1, ByteTables
<1>1. Weight(t, bytes) <= 1 * Weight(t, AsEscapes)
  BY <1>0, WeightCompare
<1>2. Inward(t) \in Texts
  BY InwardType
<1>3. /\ Weight(Inward(t), AsEscapes) <= 12 * Weight(Inward(t), Ones)
      /\ Weight(Inward(t), AsEscapes) <= 6 * Weight(Inward(t), UTF8)
  BY <1>0, <1>2, WeightCompare
<1>4. /\ Counted(t, AsEscapes) <= 12 * Counted(t, Ones)
      /\ Counted(t, AsEscapes) <= 6 * Counted(t, UTF8)
      /\ Counted(t, AsEscapes) \in Nat /\ Counted(t, Ones) \in Nat /\ Counted(t, UTF8) \in Nat
  BY <1>0, <1>2, <1>3, WorthType, CountedIsInward
<1>5. Weight(t, bytes) \in Nat /\ Weight(t, AsEscapes) \in Nat
  BY <1>0, WorthType
<1> QED
  BY <1>1, <1>4, <1>5

\* The limit of the body is none for what is within those of the fields.
LEMMA BodyFitsWhatIsWithinLimits ==
    ASSUME posted \in Requests, WithinLimits,
           posted.framing + Around(posted) + posted.trailing <= Room
    PROVE  BodyFits
<1> DEFINE bytes == IF posted.escaped THEN AsEscapes ELSE AsIs
           around(t) == Weight(t, AsEscapes) - Counted(t, AsEscapes)
<1>0. bytes \in {AsIs, AsEscapes} /\ bytes \in Bytes /\ AsEscapes \in Bytes
  BY ByteTables
<1> HIDE DEF bytes
<1>1. /\ posted.name \in Texts /\ posted.email \in Texts
      /\ posted.message \in Texts /\ posted.website \in Texts
  BY Requested
<1>2. /\ Counted(posted.name, Ones) \in Nat /\ Counted(posted.name, Ones) <= MaxNameLen
      /\ Counted(posted.email, UTF8) \in Nat /\ Counted(posted.email, UTF8) <= MaxEmailLen
      /\ Counted(posted.message, Ones) \in Nat /\ Counted(posted.message, Ones) <= MaxMessageLen
      /\ Counted(posted.website, Ones) = 0
  BY <1>1, Measured, Limits DEF WithinLimits
<1>3. /\ Weight(posted.name, bytes) <= 12 * Counted(posted.name, Ones) + around(posted.name)
      /\ Weight(posted.email, bytes) <= 6 * Counted(posted.email, UTF8) + around(posted.email)
      /\ Weight(posted.message, bytes) <= 12 * Counted(posted.message, Ones) + around(posted.message)
      /\ Weight(posted.website, bytes) <= 12 * Counted(posted.website, Ones) + around(posted.website)
  BY <1>0, <1>1, FieldFits
<1>4. \A t \in Texts : Weight(t, bytes) \in Nat /\ around(t) \in Int
  <2> TAKE t \in Texts
  <2>1. Weight(t, bytes) \in Nat /\ Weight(t, AsEscapes) \in Nat
    BY <1>0, WorthType
  <2>2. Counted(t, AsEscapes) \in Nat
    BY <1>0, InwardType, CountedIsInward, WorthType
  <2> QED
    BY <2>1, <2>2
<1>5. Around(posted) = around(posted.name) + around(posted.email) + around(posted.message)
                       + around(posted.website)
  BY DEF Around
<1> HIDE DEF around
<1>6. JSONLength = posted.framing + (((Weight(posted.name, bytes) + Weight(posted.email, bytes))
                          + Weight(posted.message, bytes)) + Weight(posted.website, bytes))
  <2>1. JSONLength = posted.framing
          + Weight(posted.name \o posted.email \o posted.message \o posted.website, bytes)
    BY DEF JSONLength, bytes
  <2>2. /\ posted.name \o posted.email \in Texts
        /\ Weight(posted.name \o posted.email, bytes)
             = Weight(posted.name, bytes) + Weight(posted.email, bytes)
    BY <1>0, <1>1, WeightOfConcat
  <2>3. /\ (posted.name \o posted.email) \o posted.message \in Texts
        /\ Weight((posted.name \o posted.email) \o posted.message, bytes)
             = Weight(posted.name \o posted.email, bytes) + Weight(posted.message, bytes)
    BY <1>0, <1>1, <2>2, WeightOfConcat
  <2>4. Weight(((posted.name \o posted.email) \o posted.message) \o posted.website, bytes)
             = Weight((posted.name \o posted.email) \o posted.message, bytes)
               + Weight(posted.website, bytes)
    BY <1>0, <1>1, <2>3, WeightOfConcat
  <2> QED
    BY <2>1, <2>2, <2>3, <2>4
<1>7. /\ Weight(posted.name, bytes) \in Nat /\ Weight(posted.email, bytes) \in Nat
      /\ Weight(posted.message, bytes) \in Nat /\ Weight(posted.website, bytes) \in Nat
      /\ around(posted.name) \in Int /\ around(posted.email) \in Int
      /\ around(posted.message) \in Int /\ around(posted.website) \in Int
      /\ posted.framing \in Nat /\ posted.trailing \in Nat
  BY <1>1, <1>4, Requested
<1>8. JSONLength <= BodyLimit
  BY <1>2, <1>3, <1>5, <1>6, <1>7, Limits DEF Room
<1> QED
  BY <1>8 DEF BodyFits

-----------------------------------------------------------------------------
(* The rules.                                                              *)

LEMMA RulesAre ==
    /\ DOMAIN Rules = 1 .. 8
    /\ Rules[1] = Rule("name", "required", name = <<>>)
    /\ Rules[2] = Rule("name", "too long", Length(name) > MaxNameLen)
    /\ Rules[3] = Rule("email", "required", email = <<>>)
    /\ Rules[4] = Rule("email", "too long", EmailBytes > MaxEmailLen)
    /\ Rules[5] = Rule("message", "required", body = <<>>)
    /\ Rules[6] = Rule("message", "too short", Length(body) < MinMessageLen)
    /\ Rules[7] = Rule("message", "too long", Length(body) > MaxMessageLen)
    /\ Rules[8] = Rule("email", "not a valid address", posted.parse # "bare")
BY DEF Rules

LEMMA BrokenAre ==
    /\ Broken \subseteq 1 .. 8
    /\ 1 \in Broken <=> name = <<>>
    /\ 2 \in Broken <=> Length(name) > MaxNameLen
    /\ 3 \in Broken <=> email = <<>>
    /\ 4 \in Broken <=> EmailBytes > MaxEmailLen
    /\ 5 \in Broken <=> body = <<>>
    /\ 6 \in Broken <=> Length(body) < MinMessageLen
    /\ 7 \in Broken <=> Length(body) > MaxMessageLen
    /\ 8 \in Broken <=> posted.parse # "bare"
<1>1. \A i \in 1 .. 8 : i \in Broken <=> Rules[i].broken
  BY RulesAre DEF Broken
<1>2. Broken \subseteq 1 .. 8
  BY RulesAre DEF Broken
<1>3. /\ 1 \in 1 .. 8 /\ 2 \in 1 .. 8 /\ 3 \in 1 .. 8 /\ 4 \in 1 .. 8
      /\ 5 \in 1 .. 8 /\ 6 \in 1 .. 8 /\ 7 \in 1 .. 8 /\ 8 \in 1 .. 8
  OBVIOUS
<1>4. Rules[1].broken <=> name = <<>>
  BY DEF Rule, Rules
<1>5. Rules[2].broken <=> Length(name) > MaxNameLen
  BY DEF Rule, Rules
<1>6. Rules[3].broken <=> email = <<>>
  BY DEF Rule, Rules
<1>7. Rules[4].broken <=> EmailBytes > MaxEmailLen
  BY DEF Rule, Rules
<1>8. Rules[5].broken <=> body = <<>>
  BY DEF Rule, Rules
<1>9. Rules[6].broken <=> Length(body) < MinMessageLen
  BY DEF Rule, Rules
<1>10. Rules[7].broken <=> Length(body) > MaxMessageLen
  BY DEF Rule, Rules
<1>11. Rules[8].broken <=> posted.parse # "bare"
  BY DEF Rule, Rules
<1> QED
  BY <1>1, <1>2, <1>3, <1>4, <1>5, <1>6, <1>7, <1>8, <1>9, <1>10, <1>11, Zenon

LEMMA BrokenEnough ==
    ASSUME posted \in Requests
    PROVE  (Broken = {} /\ ~ IsSpam) <=> WithinLimits
<1>1. /\ posted.name \in Texts /\ posted.email \in Texts
      /\ posted.message \in Texts /\ posted.website \in Texts
  BY Requested
<1>2. /\ Length(name) = Counted(posted.name, Ones) /\ Counted(posted.name, Ones) \in Nat
      /\ name = <<>> <=> Counted(posted.name, Ones) = 0
      /\ Length(body) = Counted(posted.message, Ones) /\ Counted(posted.message, Ones) \in Nat
      /\ body = <<>> <=> Counted(posted.message, Ones) = 0
      /\ EmailBytes = Counted(posted.email, UTF8) /\ Counted(posted.email, UTF8) \in Nat
      /\ email = <<>> <=> Counted(posted.email, UTF8) = 0
      /\ IsSpam <=> Counted(posted.website, Ones) # 0
  BY <1>1, Measured DEF name, email, body, EmailBytes, IsSpam
<1>3. WithinLimits <=> /\ Counted(posted.name, Ones) # 0
                       /\ ~ (Counted(posted.name, Ones) > MaxNameLen)
                       /\ Counted(posted.message, Ones) # 0
                       /\ ~ (Counted(posted.message, Ones) < MinMessageLen)
                       /\ ~ (Counted(posted.message, Ones) > MaxMessageLen)
                       /\ Counted(posted.email, UTF8) # 0
                       /\ ~ (Counted(posted.email, UTF8) > MaxEmailLen)
                       /\ posted.parse = "bare"
                       /\ ~ IsSpam
  BY <1>2, Limits DEF WithinLimits
<1>4. Broken = {} <=> /\ 1 \notin Broken /\ 2 \notin Broken /\ 3 \notin Broken /\ 4 \notin Broken
                      /\ 5 \notin Broken /\ 6 \notin Broken /\ 7 \notin Broken /\ 8 \notin Broken
  <2>1. \A i \in 1 .. 8 : i = 1 \/ i = 2 \/ i = 3 \/ i = 4 \/ i = 5 \/ i = 6 \/ i = 7 \/ i = 8
    OBVIOUS
  <2>2. Broken \subseteq 1 .. 8
    BY BrokenAre
  <2> QED
    BY <2>1, <2>2
<1>5. Broken = {} <=> /\ ~ (name = <<>>) /\ ~ (Length(name) > MaxNameLen)
                      /\ ~ (email = <<>>) /\ ~ (EmailBytes > MaxEmailLen)
                      /\ ~ (body = <<>>) /\ ~ (Length(body) < MinMessageLen)
                      /\ ~ (Length(body) > MaxMessageLen) /\ posted.parse = "bare"
  BY <1>4, BrokenAre, Zenon
<1> QED
  BY <1>2, <1>3, <1>5

\* A rejection that is so of its field, with nothing wrong that comes before it.
OfWrongLength(field) == \E reason \in {"required", "too short", "too long"} : Fault(field, reason)

RejectedRightly(field, reason) ==
    /\ Fault(field, reason)
    /\ \A other \in Cleared(field, reason) : ~ OfWrongLength(other)

LEMMA RulesSay ==
    /\ Rules[1].field = "name" /\ Rules[1].reason = "required"
    /\ Rules[2].field = "name" /\ Rules[2].reason = "too long"
    /\ Rules[3].field = "email" /\ Rules[3].reason = "required"
    /\ Rules[4].field = "email" /\ Rules[4].reason = "too long"
    /\ Rules[5].field = "message" /\ Rules[5].reason = "required"
    /\ Rules[6].field = "message" /\ Rules[6].reason = "too short"
    /\ Rules[7].field = "message" /\ Rules[7].reason = "too long"
    /\ Rules[8].field = "email" /\ Rules[8].reason = "not a valid address"
BY DEF Rules, Rule

\* What the first broken rule says of its field is so.
LEMMA FirstRuleIsTrue ==
    ASSUME posted \in Requests, Broken # {}
    PROVE  RejectedRightly(Rules[FirstOf(Broken)].field, Rules[FirstOf(Broken)].reason)
<1> DEFINE k == FirstOf(Broken)
<1>1. k \in 1 .. 8 /\ k \in Broken /\ \A i \in 1 .. 8 : i < k => i \notin Broken
  <2>1. Broken \in SUBSET (1 .. 8)
    BY BrokenAre
  <2>2. k \in Broken /\ \A i \in Broken : k <= i
    BY <2>1, MinAndMax DEF FirstOf
  <2>3. \A i \in 1 .. 8 : i < k => i \notin Broken
    <3> SUFFICES ASSUME NEW i \in 1 .. 8, i < k, i \in Broken PROVE FALSE
      OBVIOUS
    <3>1. k <= i /\ k \in 1 .. 8
      BY <2>1, <2>2
    <3> HIDE DEF k
    <3> QED
      BY <3>1
  <2> QED
    BY <2>1, <2>2, <2>3
<1>2. /\ Length(name) = Counted(posted.name, Ones) /\ Counted(posted.name, Ones) \in Nat
      /\ name = <<>> <=> Counted(posted.name, Ones) = 0
      /\ Length(body) = Counted(posted.message, Ones) /\ Counted(posted.message, Ones) \in Nat
      /\ body = <<>> <=> Counted(posted.message, Ones) = 0
      /\ EmailBytes = Counted(posted.email, UTF8)
      /\ email = <<>> <=> Counted(posted.email, Ones) = 0
      /\ Counted(posted.email, Ones) \in Nat
  BY Requested, Measured DEF name, email, body, EmailBytes
<1>3. /\ TooLong("name") <=> Length(name) > MaxNameLen
      /\ TooLong("email") <=> EmailBytes > MaxEmailLen
      /\ TooLong("message") <=> Length(body) > MaxMessageLen
  BY <1>2 DEF TooLong
<1> HIDE DEF k
\* What the rules passed over have shown of the fields.
<1>4. k > 2 => ~ OfWrongLength("name")
  <2> SUFFICES ASSUME k > 2 PROVE ~ OfWrongLength("name")
    OBVIOUS
  <2>1. 1 \notin Broken /\ 2 \notin Broken
    BY <1>1
  <2>2. Counted(posted["name"], Ones) # 0 /\ ~ TooLong("name")
    BY <1>2, <1>3, <2>1, BrokenAre
  <2> QED
    BY <2>2 DEF OfWrongLength, Fault
<1>5. k > 4 => ~ OfWrongLength("email")
  <2> SUFFICES ASSUME k > 4 PROVE ~ OfWrongLength("email")
    OBVIOUS
  <2>1. 3 \notin Broken /\ 4 \notin Broken
    BY <1>1
  <2>2. Counted(posted["email"], Ones) # 0 /\ ~ TooLong("email")
    BY <1>2, <1>3, <2>1, BrokenAre
  <2> QED
    BY <2>2 DEF OfWrongLength, Fault
<1>6. k > 7 => ~ OfWrongLength("message")
  <2> SUFFICES ASSUME k > 7 PROVE ~ OfWrongLength("message")
    OBVIOUS
  <2>1. 5 \notin Broken /\ 6 \notin Broken /\ 7 \notin Broken
    BY <1>1
  <2>2. Counted(posted["message"], Ones) # 0 /\ ~ TooLong("message")
    BY <1>2, <1>3, <2>1, BrokenAre
  <2>3. Counted(posted["message"], Ones) \notin 1..(MinMessageLen - 1)
    BY <1>2, <2>1, BrokenAre, Limits
  <2> QED
    BY <2>2, <2>3 DEF OfWrongLength, Fault
<1>7. /\ \A reason \in {"required", "too long"} : Cleared("name", reason) = {}
      /\ \A reason \in {"required", "too long"} : Cleared("email", reason) = {"name"}
      /\ \A reason \in {"required", "too short", "too long"} :
           Cleared("message", reason) = {"name", "email"}
      /\ Cleared("email", "not a valid address") = {"name", "email", "message"}
  BY DEF Cleared, Before
<1>8. k \in {1, 2, 3, 4, 5, 6, 7, 8}
  BY <1>1
<1>11. CASE k = 1
  <2>1. Fault("name", "required")
    BY <1>1, <1>2, <1>11, BrokenAre DEF Fault
  <2> QED
    BY <1>11, <1>7, <2>1, RulesSay DEF k, RejectedRightly
<1>12. CASE k = 2
  <2>1. Fault("name", "too long")
    BY <1>1, <1>3, <1>12, BrokenAre DEF Fault
  <2> QED
    BY <1>12, <1>7, <2>1, RulesSay DEF k, RejectedRightly
<1>13. CASE k = 3
  <2>1. Fault("email", "required") /\ ~ OfWrongLength("name")
    BY <1>1, <1>2, <1>4, <1>13, BrokenAre DEF Fault
  <2> QED
    BY <1>13, <1>7, <2>1, RulesSay DEF k, RejectedRightly
<1>14. CASE k = 4
  <2>1. Fault("email", "too long") /\ ~ OfWrongLength("name")
    BY <1>1, <1>3, <1>4, <1>14, BrokenAre DEF Fault
  <2> QED
    BY <1>14, <1>7, <2>1, RulesSay DEF k, RejectedRightly
<1>15. CASE k = 5
  <2>1. Fault("message", "required") /\ ~ OfWrongLength("name") /\ ~ OfWrongLength("email")
    BY <1>1, <1>2, <1>4, <1>5, <1>15, BrokenAre DEF Fault
  <2> QED
    BY <1>15, <1>7, <2>1, RulesSay DEF k, RejectedRightly
<1>16. CASE k = 6
  <2>1. 5 \notin Broken
    BY <1>1, <1>16
  <2>2. Counted(posted["message"], Ones) \in 1..(MinMessageLen - 1)
    <3>1. Counted(posted.message, Ones) # 0
      BY <1>2, <2>1, BrokenAre
    <3>2. Counted(posted.message, Ones) < MinMessageLen
      BY <1>1, <1>2, <1>16, BrokenAre
    <3> QED
      BY <1>2, <3>1, <3>2, Limits
  <2>3. Fault("message", "too short")
    BY <2>2 DEF Fault
  <2>4. ~ OfWrongLength("name") /\ ~ OfWrongLength("email")
    BY <1>4, <1>5, <1>16
  <2> QED
    BY <1>16, <1>7, <2>3, <2>4, RulesSay DEF k, RejectedRightly
<1>17. CASE k = 7
  <2>1. Fault("message", "too long")
    BY <1>1, <1>3, <1>17, BrokenAre DEF Fault
  <2>2. ~ OfWrongLength("name") /\ ~ OfWrongLength("email")
    BY <1>4, <1>5, <1>17
  <2> QED
    BY <1>17, <1>7, <2>1, <2>2, RulesSay DEF k, RejectedRightly
<1>18. CASE k = 8
  <2>1. Fault("email", "not a valid address")
    BY <1>1, <1>18, BrokenAre DEF Fault
  <2>2. ~ OfWrongLength("name") /\ ~ OfWrongLength("email") /\ ~ OfWrongLength("message")
    BY <1>4, <1>5, <1>6, <1>18
  <2> QED
    BY <1>18, <1>7, <2>1, <2>2, RulesSay DEF k, RejectedRightly
<1> QED
  BY <1>8, <1>11, <1>12, <1>13, <1>14, <1>15, <1>16, <1>17, <1>18

-----------------------------------------------------------------------------
(* The headers.                                                            *)

\* What a character counts when some are passed over.
Passing(classes) == [c \in Class |-> IF c \in classes THEN 0 ELSE 1]

LEMMA WithoutPasses ==
    ASSUME NEW t \in Texts, NEW classes
    PROVE  Passing(classes) \in Bytes /\ Length(Without(t, classes)) = Weight(t, Passing(classes))
<1> DEFINE u == Without(t, classes)
<1>1. Passing(classes) \in Bytes
  BY DEF Passing, Bytes
<1>2. u \in Texts /\ Len(u) = Len(t)
  BY WithoutType
<1>3. \A i \in 1 .. Len(t) : u[i].count * Ones[u[i].class] = t[i].count * Passing(classes)[t[i].class]
  <2> TAKE i \in 1 .. Len(t)
  <2>1. /\ u[i].class = t[i].class /\ u[i].count = IF t[i].class \in classes THEN 0 ELSE t[i].count
    BY WithoutType
  <2>0. t[i].class \in Class /\ t[i].count \in Nat
    BY TextShape
  <2>2. Ones[t[i].class] = 1 /\ Passing(classes)[t[i].class] = IF t[i].class \in classes THEN 0 ELSE 1
    BY <2>0, ByteTables DEF Passing
  <2> HIDE DEF u
  <2> QED
    BY <2>0, <2>1, <2>2
<1> HIDE DEF u
<1>4. Worth(u, Ones) = Worth(t, Passing(classes))
  <2>1. /\ Worth(u, Ones) \in Seq(Nat) /\ Len(Worth(u, Ones)) = Len(t)
        /\ \A i \in 1 .. Len(t) : Worth(u, Ones)[i] = u[i].count * Ones[u[i].class]
    BY <1>2, WorthType, ByteTables
  <2>2. /\ Worth(t, Passing(classes)) \in Seq(Nat) /\ Len(Worth(t, Passing(classes))) = Len(t)
        /\ \A i \in 1 .. Len(t) :
              Worth(t, Passing(classes))[i] = t[i].count * Passing(classes)[t[i].class]
    BY <1>1, WorthType
  <2>3. \A i \in 1 .. Len(t) : Worth(u, Ones)[i] = Worth(t, Passing(classes))[i]
    BY <1>3, <2>1, <2>2
  <2> QED
    BY <2>1, <2>2, <2>3, SeqEqual
<1>5. Length(u) = Weight(u, Ones)
  BY <1>2, CountsType
<1>6. Weight(u, Ones) = Total(Worth(u, Ones)) /\ Weight(t, Passing(classes)) = Total(Worth(t, Passing(classes)))
  BY <1>1, <1>2, WorthType, ByteTables
<1> QED
  BY <1>1, <1>4, <1>5, <1>6 DEF u

\* Where a name begins and ends does not depend on the breaks in it.
LEMMA CountedWithoutBreaks ==
    ASSUME NEW t \in Texts
    PROVE  Counted(Without(t, {"break"}), Ones) = Counted(t, Passing({"break"}))
<1> DEFINE u == Without(t, {"break"})
<1>1. /\ u \in Texts /\ Len(u) = Len(t)
      /\ \A i \in 1 .. Len(t) : /\ u[i].class = t[i].class
                               /\ u[i].count = IF t[i].class = "break" THEN 0 ELSE t[i].count
  BY WithoutType
<1> HIDE DEF u
<1>2. DOMAIN u = 1 .. Len(t) /\ DOMAIN t = 1 .. Len(t)
  BY <1>1, TextShape
<1>3. Solid(u) = Solid(t)
  BY <1>1, <1>2 DEF Solid
<1>4. Inner(u) = Inner(t)
  BY <1>2, <1>3 DEF Inner
<1> DEFINE v == Inward(u)
           w == Without(Inward(t), {"break"})
<1>5. /\ Inward(t) \in Texts /\ Len(Inward(t)) = Len(t) /\ v \in Texts /\ Len(v) = Len(t)
      /\ w \in Texts /\ Len(w) = Len(t)
  BY <1>1, InwardType, WithoutType
<1>6. \A i \in 1 .. Len(t) : v[i].class = w[i].class /\ v[i].count = w[i].count
  <2> TAKE i \in 1 .. Len(t)
  <2>1. v[i].class = u[i].class /\ v[i].count = IF i \in Inner(u) THEN u[i].count ELSE 0
    BY <1>1, InwardType
  <2>2. /\ Inward(t)[i].class = t[i].class
        /\ Inward(t)[i].count = IF i \in Inner(t) THEN t[i].count ELSE 0
    BY InwardType
  <2>3. /\ w[i].class = Inward(t)[i].class
        /\ w[i].count = IF Inward(t)[i].class \in {"break"} THEN 0 ELSE Inward(t)[i].count
    BY <1>5, WithoutType
  <2> HIDE DEF v, w
  <2> QED
    BY <1>1, <1>4, <2>1, <2>2, <2>3
<1> HIDE DEF v, w
<1>7. \A i \in 1 .. Len(t) : v[i] = w[i]
  BY <1>5, <1>6, TextShape
<1>8. v = w
  BY <1>5, <1>7, SeqEqual DEF Texts
<1>9. Counted(u, Ones) = Weight(v, Ones)
  BY <1>1, CountedIsInward DEF v
<1>10. Weight(v, Ones) = Length(w)
  BY <1>5, <1>8, CountsType
<1>11. Length(w) = Weight(Inward(t), Passing({"break"}))
  BY <1>5, WithoutPasses DEF w
<1>12. Counted(t, Passing({"break"})) = Weight(Inward(t), Passing({"break"}))
  BY CountedIsInward
<1> QED
  BY <1>9, <1>10, <1>11, <1>12 DEF u

LEMMA SubjectIsWhole ==
    ASSUME NEW before \in Texts, NEW t \in Texts, NEW after \in Texts
    PROVE  LET subject == stripBreaks(before \o TrimSpace(t) \o after) IN
           /\ subject \in Texts /\ ~ Has(subject, {"break"})
           /\ sanitiseHeader(subject) \in Texts /\ ~ Has(sanitiseHeader(subject), {"break"})
           /\ Length(subject) >= Counted(Without(t, {"break"}), Ones)
           /\ Length(sanitiseHeader(subject)) >= Counted(Without(t, {"break"}), Ones)
<1> DEFINE one == TrimSpace(t)
           all == before \o one \o after
           subject == stripBreaks(all)
           P == Passing({"break"})
<1>1. P \in Bytes /\ one \in Texts /\ Weight(one, P) = Counted(t, P)
  BY WithoutPasses, TrimmedIsCounted
<1> HIDE DEF P, one
<1>2. /\ before \o one \in Texts /\ Weight(before \o one, P) = Weight(before, P) + Weight(one, P)
      /\ all \in Texts /\ Weight(all, P) = Weight(before \o one, P) + Weight(after, P)
  BY <1>1, WeightOfConcat
<1> HIDE DEF all
<1>3. Weight(before, P) \in Nat /\ Weight(one, P) \in Nat /\ Weight(after, P) \in Nat
  BY <1>1, WorthType
<1>4. Weight(all, P) >= Weight(one, P)
  BY <1>2, <1>3
<1>5. subject \in Texts /\ ~ Has(subject, {"break"}) /\ Length(subject) = Weight(all, P)
  BY <1>2, WithoutType, WithoutPasses DEF stripBreaks, P
<1>6. Weight(subject, P) = Length(subject)
  <2>1. Without(subject, {"break"}) = subject
    <3>1. Without(subject, {"break"}) \in Texts /\ Len(Without(subject, {"break"})) = Len(subject)
      BY <1>5, WithoutType
    <3>2. \A i \in 1 .. Len(subject) : Without(subject, {"break"})[i] = subject[i]
      <4> TAKE i \in 1 .. Len(subject)
      <4>1. /\ Without(subject, {"break"})[i].class = subject[i].class
            /\ Without(subject, {"break"})[i].count =
                  IF subject[i].class \in {"break"} THEN 0 ELSE subject[i].count
        BY <1>5, WithoutType
      <4>2. /\ i \in DOMAIN subject /\ subject[i].count \in Nat
            /\ subject[i] = [class |-> subject[i].class, count |-> subject[i].count]
            /\ Without(subject, {"break"})[i] =
                  [class |-> Without(subject, {"break"})[i].class,
                   count |-> Without(subject, {"break"})[i].count]
        BY <1>5, <3>1, TextShape
      <4>3. subject[i].class = "break" => ~ (subject[i].count > 0)
        BY <1>5, <4>2 DEF Has
      <4>4. subject[i].class = "break" => subject[i].count = 0
        BY <4>2, <4>3
      <4> HIDE DEF subject
      <4> QED
        BY <4>1, <4>2, <4>4
    <3> QED
      BY <1>5, <3>1, <3>2, SeqEqual DEF Texts
  <2> QED
    BY <1>5, <2>1, WithoutPasses DEF P
<1> HIDE DEF subject
<1>7. /\ sanitiseHeader(subject) \in Texts /\ ~ Has(sanitiseHeader(subject), {"break"})
      /\ Length(sanitiseHeader(subject)) = Weight(subject, P)
  BY <1>5, WithoutType, WithoutPasses DEF sanitiseHeader, P
<1>8. Counted(Without(t, {"break"}), Ones) = Weight(one, P)
  BY <1>1, CountedWithoutBreaks DEF P
<1>9. subject = stripBreaks(before \o TrimSpace(t) \o after)
  BY DEF subject, all, one
<1> QED
  BY <1>4, <1>5, <1>6, <1>7, <1>8, <1>9

-----------------------------------------------------------------------------
(* The invariant.  What a request was found to be is still true of it,     *)
(* since nothing writes to what was posted.                                *)

Typed ==
    /\ posted \in Requests /\ template \in Templates
    /\ stage \in {"received", "decoded", "accepted", "forbidden", "unreadable", "dropped",
                  "rejected", "failed", "sent"}
    /\ line \in Seq(Texts)

Readable == posted.origin = Site /\ posted.readable /\ BodyFits

Decided ==
    /\ stage = "forbidden" => posted.origin # Site
    /\ stage = "unreadable" => ~ (posted.readable /\ BodyFits)
    /\ stage \in {"decoded", "accepted", "dropped", "rejected", "failed", "sent"} => Readable
    /\ stage = "dropped" => IsSpam
    /\ stage \in {"accepted", "failed", "sent"} => ~ IsSpam /\ Broken = {}
    /\ stage = "rejected" =>
          /\ Broken # {}
          /\ LET rule == Rules[FirstOf(Broken)] IN
             rejection = [field |-> rule.field, reason |-> rule.reason]

Inv == Typed /\ Decided /\ NoHeaderIsBroken /\ LogLineIsClean

LEMMA InvInit == Init => Inv
<1> SUFFICES ASSUME Init PROVE Inv
  OBVIOUS
<1>1. Typed /\ Decided
  BY EmptySeq DEF Init, Typed, Decided
<1>2. stage = "received" /\ headers = [subject |-> <<>>, replyTo |-> <<>>] /\ line = <<>>
  BY DEF Init
<1>3. NoHeaderIsBroken
  BY <1>2 DEF NoHeaderIsBroken, Has
<1>4. LogLineIsClean
  BY <1>2 DEF LogLineIsClean, Ended
<1> QED
  BY <1>1, <1>3, <1>4 DEF Inv

LEMMA StillSo ==
    ASSUME UNCHANGED posted
    PROVE  /\ Readable' <=> Readable
           /\ BodyFits' <=> BodyFits
           /\ IsSpam' <=> IsSpam
           /\ Rules' = Rules /\ Broken' = Broken
<1>1. JSONLength' = JSONLength
  BY DEF JSONLength
<1>2. BodyFits' <=> BodyFits
  BY <1>1 DEF BodyFits
<1>3. Readable' <=> Readable
  BY <1>2 DEF Readable
<1>4. IsSpam' <=> IsSpam
  BY DEF IsSpam
<1>5. Rules' = Rules
  BY DEF Rules, name, email, body, EmailBytes
<1>6. Broken' = Broken
  BY <1>5 DEF Broken
<1> QED
  BY <1>2, <1>3, <1>4, <1>5, <1>6

\* The last line but one is the path, as the log shows it.
LEMMA EndsCleanly ==
    ASSUME posted \in Requests, UNCHANGED posted, NEW how, NEW texts \in Seq(Texts), Ends(how, texts)
    PROVE  line' \in Seq(Texts) /\ LogLineIsClean' /\ stage' = how
<1> DEFINE own == [i \in DOMAIN texts |-> Loggable(texts[i], MaxLogged)]
           path == Loggable(posted.path, MaxLogged)
           origin == Loggable(posted.origin, MaxLogged)
           access == << path, origin >>
           Clean(t) == /\ t \in Texts /\ ~ Has(t, Unloggable) /\ Length(t) <= MaxLogged + 1
<1>1. Clean(path) /\ Clean(origin)
  BY Requested, Limits, LoggableIsClean
<1>2. Len(texts) \in Nat /\ DOMAIN texts = 1 .. Len(texts)
      /\ \A i \in 1 .. Len(texts) : texts[i] \in Texts
  BY LenProperties, ElementOfSeq
<1>3. \A i \in 1 .. Len(texts) : Clean(Loggable(texts[i], MaxLogged))
  BY <1>2, Limits, LoggableIsClean
<1> HIDE DEF path, origin
<1>4. own \in Seq(Texts) /\ Len(own) = Len(texts) /\ \A i \in 1 .. Len(texts) : Clean(own[i])
  <2>1. own \in [1 .. Len(texts) -> Texts]
    BY <1>2, <1>3
  <2>2. own \in Seq(Texts) /\ Len(own) = Len(texts)
    BY <1>2, <2>1, FunctionsAreSequences
  <2> QED
    BY <1>2, <1>3, <2>2
<1>5. access \in Seq(Texts) /\ Len(access) = 2 /\ access[1] = path /\ access[2] = origin
  BY <1>1
<1>6. line' = own \o access /\ stage' = how
  BY DEF Ends, path, origin
<1> HIDE DEF own, access
<1>7. /\ own \o access \in Seq(Texts) /\ Len(own \o access) = Len(texts) + 2
      /\ \A i \in 1 .. Len(texts) + 2 :
            (own \o access)[i] = IF i <= Len(texts) THEN own[i] ELSE access[i - Len(texts)]
  <2>1. /\ own \o access \in Seq(Texts) /\ Len(own \o access) = Len(own) + Len(access)
        /\ \A i \in 1 .. Len(own) + Len(access) :
              (own \o access)[i] = IF i <= Len(own) THEN own[i] ELSE access[i - Len(own)]
    <3>1. own \in Seq(Texts) /\ access \in Seq(Texts)
      BY <1>4, <1>5
    <3> QED
      BY <3>1, ConcatProperties
  <2>2. Len(own) = Len(texts) /\ Len(access) = 2
    BY <1>4, <1>5
  <2> QED
    BY <2>1, <2>2
<1>8. \A i \in 1 .. Len(texts) + 2 : Clean((own \o access)[i])
  <2> TAKE i \in 1 .. Len(texts) + 2
  <2>1. CASE i <= Len(texts)
    <3>1. i \in 1 .. Len(texts)
      BY <1>2, <2>1
    <3> QED
      BY <1>4, <1>7, <2>1, <3>1
  <2>2. CASE ~ (i <= Len(texts))
    <3>1. i - Len(texts) = 1 \/ i - Len(texts) = 2
      BY <1>2, <2>2
    <3>2. access[i - Len(texts)] = path \/ access[i - Len(texts)] = origin
      BY <1>5, <3>1
    <3>3. (own \o access)[i] = access[i - Len(texts)]
      BY <1>7, <2>2
    <3> HIDE DEF Clean
    <3> QED
      BY <1>1, <3>2, <3>3
  <2> QED
    BY <2>1, <2>2
<1>9. DOMAIN (own \o access) = 1 .. Len(texts) + 2 /\ Len(own \o access) - 1 = Len(texts) + 1
  BY <1>2, <1>7, LenProperties
<1>10. (own \o access)[Len(own \o access) - 1] = path
  <2>1. Len(texts) + 1 \in 1 .. Len(texts) + 2 /\ ~ (Len(texts) + 1 <= Len(texts))
        /\ Len(texts) + 1 - Len(texts) = 1
    BY <1>2
  <2> QED
    BY <1>5, <1>7, <1>9, <2>1
<1>11. IF Length(Without(posted.path, Unloggable)) > MaxLogged
       THEN Has(path, {"mark"}) /\ Length(path) = MaxLogged + 1
       ELSE Length(path) = Length(Without(posted.path, Unloggable))
  BY Requested, Limits, LoggableIsClean DEF path
<1>12. line'[Len(line') - 1] = path
  BY <1>6, <1>10
<1>13. \A i \in DOMAIN line' :
         ~ Has(line'[i], {"break", "control", "invalid"}) /\ Length(line'[i]) <= MaxLogged + 1
  BY <1>6, <1>8, <1>9 DEF Unloggable
<1>14. LET logged == line'[Len(line') - 1]
           legible == Length(Without(posted'.path, {"break", "control", "invalid"})) IN
       IF legible > MaxLogged
       THEN Has(logged, {"mark"}) /\ Length(logged) = MaxLogged + 1
       ELSE Length(logged) = legible
  BY <1>11, <1>12 DEF Unloggable
<1>15. LogLineIsClean'
  BY <1>13, <1>14 DEF LogLineIsClean
<1> QED
  BY <1>6, <1>7, <1>15

\* A step that writes no headers and sends nothing.
LEMMA NoHeaderWritten ==
    ASSUME NoHeaderIsBroken, UNCHANGED headers, stage' # "sent"
    PROVE  NoHeaderIsBroken'
BY DEF NoHeaderIsBroken

LEMMA NothingLogged ==
    ASSUME LogLineIsClean, UNCHANGED <<posted, line>>, ~ Ended'
    PROVE  LogLineIsClean'
BY DEF LogLineIsClean

LEMMA TextsOf ==
    ASSUME posted \in Requests
    PROVE  /\ << posted.origin >> \in Seq(Texts) /\ << posted.origin, posted.complaint >> \in Seq(Texts)
           /\ << >> \in Seq(Texts) /\ << email >> \in Seq(Texts)
<1>1. posted.origin \in Texts /\ posted.complaint \in Texts /\ email \in Texts
  BY Requested, Measured DEF email
<1> QED
  BY <1>1

LEMMA InvNext == Inv /\ [Next]_vars => Inv'
<1> SUFFICES ASSUME Typed, Decided, NoHeaderIsBroken, LogLineIsClean, [Next]_vars
             PROVE  Typed' /\ Decided' /\ NoHeaderIsBroken' /\ LogLineIsClean'
  BY DEF Inv
<1>0. posted \in Requests /\ template \in Templates
  BY DEF Typed
<1>1. CASE Forbid
  <2>1. /\ posted.origin # Site /\ Ends("forbidden", << posted.origin >>)
        /\ UNCHANGED <<posted, template, headers>>
    BY <1>1 DEF Forbid
  <2>2. line' \in Seq(Texts) /\ LogLineIsClean' /\ stage' = "forbidden"
    BY <1>0, <2>1, TextsOf, EndsCleanly
  <2>3. Typed' /\ Decided'
    BY <1>0, <2>1, <2>2 DEF Typed, Decided
  <2> QED
    BY <2>1, <2>2, <2>3, NoHeaderWritten
<1>2. CASE Decode /\ posted.readable /\ BodyFits
  <2>1. /\ posted.origin = Site /\ stage' = "decoded" /\ UNCHANGED <<posted, template, headers, line>>
    BY <1>2 DEF Decode
  <2>2. Readable /\ ~ Ended'
    BY <1>2, <2>1 DEF Readable, Ended
  <2>3. Typed' /\ Decided'
    BY <1>0, <2>1, <2>2, StillSo DEF Typed, Decided
  <2> QED
    BY <2>1, <2>2, <2>3, NoHeaderWritten, NothingLogged
<1>3. CASE Decode /\ ~ (posted.readable /\ BodyFits)
  <2>1. /\ Ends("unreadable", << posted.origin, posted.complaint >>)
        /\ UNCHANGED <<posted, template, headers>>
    BY <1>3 DEF Decode
  <2>2. line' \in Seq(Texts) /\ LogLineIsClean' /\ stage' = "unreadable"
    BY <1>0, <2>1, TextsOf, EndsCleanly
  <2>3. Typed' /\ Decided'
    BY <1>0, <1>3, <2>1, <2>2, StillSo DEF Typed, Decided
  <2> QED
    BY <2>1, <2>2, <2>3, NoHeaderWritten
<1>4. CASE Spam
  <2>1. /\ stage = "decoded" /\ IsSpam /\ Ends("dropped", << posted.origin >>)
        /\ UNCHANGED <<posted, template, headers>>
    BY <1>4 DEF Spam
  <2>2. line' \in Seq(Texts) /\ LogLineIsClean' /\ stage' = "dropped"
    BY <1>0, <2>1, TextsOf, EndsCleanly
  <2>3. Typed' /\ Decided'
    BY <1>0, <2>1, <2>2, StillSo DEF Typed, Decided
  <2> QED
    BY <2>1, <2>2, <2>3, NoHeaderWritten
<1>5. CASE Reject
  <2>1. /\ stage = "decoded" /\ Broken # {} /\ Ends("rejected", << posted.origin >>)
        /\ rejection' = [field |-> Rules[FirstOf(Broken)].field,
                         reason |-> Rules[FirstOf(Broken)].reason]
        /\ UNCHANGED <<posted, template, headers>>
    BY <1>5 DEF Reject
  <2>2. line' \in Seq(Texts) /\ LogLineIsClean' /\ stage' = "rejected"
    BY <1>0, <2>1, TextsOf, EndsCleanly
  <2>3. Typed'
    BY <1>0, <2>1, <2>2 DEF Typed
  <2>4. Decided'
    BY <2>1, <2>2, StillSo DEF Decided
  <2> QED
    BY <2>1, <2>2, <2>3, <2>4, NoHeaderWritten
<1>6. CASE Accept
  <2>1. /\ stage = "decoded" /\ ~ IsSpam /\ Broken = {} /\ stage' = "accepted"
        /\ UNCHANGED <<posted, template, headers, line>>
    BY <1>6 DEF Accept
  <2>2. ~ Ended'
    BY <2>1 DEF Ended
  <2>3. Typed' /\ Decided'
    BY <1>0, <2>1, StillSo DEF Typed, Decided
  <2> QED
    BY <2>1, <2>2, <2>3, NoHeaderWritten, NothingLogged
<1>7. CASE NoSubject
  <2>1. /\ stage = "accepted" /\ Ends("failed", <<>>) /\ UNCHANGED <<posted, template, headers>>
    BY <1>7 DEF NoSubject
  <2>2. line' \in Seq(Texts) /\ LogLineIsClean' /\ stage' = "failed"
    BY <1>0, <2>1, TextsOf, EndsCleanly
  <2>3. Typed' /\ Decided'
    BY <1>0, <2>1, <2>2, StillSo DEF Typed, Decided
  <2> QED
    BY <2>1, <2>2, <2>3, NoHeaderWritten
<1>8. CASE Deliver
  <2> DEFINE subject == stripBreaks(template.before \o name \o template.after)
  <2>1. /\ stage = "accepted" /\ Ends("sent", << email >>) /\ UNCHANGED <<posted, template>>
        /\ headers' = IF provider = "smtp"
                      THEN [subject |-> sanitiseHeader(subject), replyTo |-> sanitiseHeader(email)]
                      ELSE [subject |-> subject, replyTo |-> email]
    BY <1>8 DEF Deliver
  <2>2. line' \in Seq(Texts) /\ LogLineIsClean' /\ stage' = "sent"
    BY <1>0, <2>1, TextsOf, EndsCleanly
  <2>3. Typed' /\ Decided'
    BY <1>0, <2>1, <2>2, StillSo DEF Typed, Decided
  <2>4. email \in Texts /\ ~ Has(email, {"break"}) /\ ~ Has(sanitiseHeader(email), {"break"})
    <3>1. posted.parse = "bare"
      BY <1>0, <2>1, BrokenEnough DEF Decided, WithinLimits
    <3> QED
      BY <1>0, <3>1, Requested, Measured, WithoutType DEF email, sanitiseHeader
  <2>5. /\ ~ Has(subject, {"break"}) /\ ~ Has(sanitiseHeader(subject), {"break"})
        /\ Length(subject) >= Counted(Without(posted.name, {"break"}), Ones)
        /\ Length(sanitiseHeader(subject)) >= Counted(Without(posted.name, {"break"}), Ones)
    <3>1. template.before \in Texts /\ template.after \in Texts /\ posted.name \in Texts
      BY <1>0, TemplatesAssumption, Requested
    <3> QED
      BY <3>1, SubjectIsWhole DEF name
  <2> HIDE DEF subject
  <2>6. /\ ~ Has(headers'.subject, {"break"}) /\ ~ Has(headers'.replyTo, {"break"})
        /\ Length(headers'.subject) >= Counted(Without(posted.name, {"break"}), Ones)
    BY <2>1, <2>4, <2>5
  <2>7. NoHeaderIsBroken'
    BY <2>1, <2>6 DEF NoHeaderIsBroken
  <2> QED
    BY <2>2, <2>3, <2>7
<1>9. CASE UNCHANGED vars
  <2>1. UNCHANGED <<posted, template, provider, stage, rejection, headers, line>>
    BY <1>9 DEF vars
  <2>2. Typed' /\ Decided'
    BY <2>1, StillSo DEF Typed, Decided
  <2>3. NoHeaderIsBroken' /\ LogLineIsClean'
    BY <2>1 DEF NoHeaderIsBroken, LogLineIsClean, Ended
  <2> QED
    BY <2>2, <2>3
<1> QED
  BY <1>1, <1>2, <1>3, <1>4, <1>5, <1>6, <1>7, <1>8, <1>9 DEF Next

\* Of a request on its way: where it has got to, what was found out about it, what
\* stands in its mail's headers and in the log (handler.go:97-227, contact.go:135-192).
THEOREM InvHolds == Spec => []Inv
  BY InvInit, InvNext, PTL DEF Spec

\* Every text that is logged, of any length and made of anything, stays one line of
\* bounded length, and says when it was cut (logsafe.go:33-80).
THEOREM LogLineIsCleanHolds == Spec => []LogLineIsClean
<1>1. Inv => LogLineIsClean
  BY DEF Inv
<1> QED
  BY <1>1, InvHolds, PTL

\* No field and no template starts a header of its own, with either provider, and
\* the sender's name arrives whole (handler.go:79-89, contact.go:181-192, smtp.go:140-142).
THEOREM NoHeaderIsBrokenHolds == Spec => []NoHeaderIsBroken
<1>1. Inv => NoHeaderIsBroken
  BY DEF Inv
<1> QED
  BY <1>1, InvHolds, PTL

\* A mail is sent for none but the submissions of the form's own site that keep the
\* limits on the fields, and for each of them that is padded by no more than Room,
\* whatever the limits are (contact.go:135-179, handler.go:152-170).
THEOREM SentExactlyWithinLimitsHolds == Spec => []SentExactlyWithinLimits
<1>1. Inv => SentExactlyWithinLimits
  <2> DEFINE deserved == posted.origin = Site /\ posted.readable /\ WithinLimits
             mailed == stage \in {"sent", "failed"}
  <2> SUFFICES ASSUME Typed, Decided, Ended
               PROVE  /\ mailed => deserved
                      /\ deserved /\ posted.framing + Around(posted) + posted.trailing <= Room => mailed
    BY DEF Inv, SentExactlyWithinLimits
  <2>1. posted \in Requests
        /\ stage \in {"forbidden", "unreadable", "dropped", "rejected", "failed", "sent"}
    BY DEF Typed, Ended
  <2>2. (Broken = {} /\ ~ IsSpam) <=> WithinLimits
    BY <2>1, BrokenEnough
  <2>3. WithinLimits /\ posted.framing + Around(posted) + posted.trailing <= Room => BodyFits
    BY <2>1, BodyFitsWhatIsWithinLimits
  <2> QED
    BY <2>1, <2>2, <2>3 DEF Decided, Readable
<1> QED
  BY <1>1, InvHolds, PTL

\* What a rejection says of a field is so; no field before it in the form is missing
\* or of a wrong length; and an address is called malformed only when no field is
\* (contact.go:144-172).
THEOREM RejectionIsTrueHolds == Spec => []RejectionIsTrue
<1>1. Inv => RejectionIsTrue
  <2> SUFFICES ASSUME Typed, Decided, stage = "rejected"
               PROVE  RejectedRightly(rejection.field, rejection.reason)
    BY DEF Inv, RejectionIsTrue, RejectedRightly, OfWrongLength
  <2> DEFINE rule == Rules[FirstOf(Broken)]
  <2>1. RejectedRightly(rule.field, rule.reason)
    BY FirstRuleIsTrue DEF Typed, Decided
  <2>2. rejection = [field |-> rule.field, reason |-> rule.reason]
    BY DEF Decided
  <2>3. rejection.field = rule.field /\ rejection.reason = rule.reason
    BY <2>2
  <2> QED
    BY <2>1, <2>3
<1> QED
  BY <1>1, InvHolds, PTL

=============================================================================
