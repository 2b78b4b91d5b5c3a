--------------------------- MODULE ClientIPProofs ---------------------------
(***************************************************************************)
(* The resolver, for all networks: any hosts, any list of trusted proxies, *)
(* whatever a client writes into the header and however many proxies the   *)
(* request passes.  The invariant relates the header to the route: behind  *)
(* the last proxy that does not append to what it was given, the end of    *)
(* the line is the end of the route, backwards.                            *)
(***************************************************************************)
EXTENDS ClientIP, SequenceTheorems, WellFoundedInduction, TLAPS

-----------------------------------------------------------------------------
(* The invariant.                                                          *)

Hop == Address \cup {Garbage}

Typed ==
    /\ phase \in {"reading", "refused", "idle", "travelling", "asked", "walking"}
    /\ route \in Seq(Address)
    /\ header \in Seq(Seq(Hop))
    /\ hops \in Seq(Hop)

\* Of the hosts after k, none has added a line of its own; so what they added is
\* the end of the one line there is: each the host before it.
OnlyAppended(k) == \A i \in k + 1 .. Len(route) : route[i].host \notin OwnLine

Written ==
    \A k \in 1 .. Len(route) - 1 :
        OnlyAppended(k) =>
            /\ Len(header) = 1
            /\ Len(header[1]) >= Len(route) - k
            /\ \A j \in 1 .. Len(route) - k :
                    header[1][Len(header[1]) + 1 - j] = route[Len(route) - j]

\* From is asked once a request has come, over a connection of its last host.
Asked ==
    /\ phase # "idle" => answer = None
    /\ phase \in {"travelling", "asked", "walking"} => Len(route) >= 1
    /\ phase \in {"asked", "walking"} => remote \in {Garbage, Unmap(route[Len(route)])}

\* From has passed over trusted hops only.
Walked ==
    phase = "walking" =>
        /\ HeaderCounts
        /\ Len(hops) <= Len(FirstLine)
        /\ \A i \in 1 .. Len(hops) : hops[i] = FirstLine[i]
        /\ \A i \in Len(hops) + 1 .. Len(FirstLine) :
                FirstLine[i] # Garbage /\ IsTrusted(FirstLine[i])

Inv == Typed /\ Written /\ Asked /\ Walked /\ HeldToTheRealSender

-----------------------------------------------------------------------------
(* Numbers and sequences.                                                  *)

\* A set of numbers has a least one, the library's theorem in the form used here.
LEMMA Least ==
    ASSUME NEW T \in SUBSET Nat, T # {}
    PROVE  \E m \in T : \A n \in T : m <= n
<1> DEFINE R == OpToRel(<, Nat)
<1>1. IsWellFoundedOn(R, Nat)
  BY NatLessThanWellFounded
<1>2. PICK m \in T : \A n \in T : ~ (<<n, m>> \in R)
  BY <1>1, WFMin
<1>3. \A i, j \in Nat : i < j => <<i, j>> \in R
  BY DEF OpToRel
<1>4. \A n \in T : ~ (n < m)
  BY <1>2, <1>3
<1> QED
  BY <1>4

\* Induction, for a set instead of a predicate.
LEMMA Climbing ==
    ASSUME NEW T \in SUBSET Nat, 0 \in T, \A n \in T : n + 1 \in T
    PROVE  T = Nat
<1> SUFFICES ASSUME T # Nat
             PROVE  FALSE
  OBVIOUS
<1>1. PICK m \in Nat \ T : \A n \in Nat \ T : m <= n
  BY Least
<1>2. m - 1 \in Nat /\ m - 1 < m
  BY <1>1
<1>3. m - 1 \in T
  BY <1>1, <1>2
<1>4. (m - 1) + 1 \in T
  BY <1>3
<1> QED
  BY <1>1, <1>4

LEMMA MoreThanOne ==
    ASSUME NEW k \in Nat \ {0}, k # 1
    PROVE  1 <= k - 1 /\ k - 1 - 1 + 1 = k - 1
OBVIOUS

LEMMA LastAndFront ==
    ASSUME NEW S, NEW s \in Seq(S), s # <<>>
    PROVE  /\ Len(s) \in Nat \ {0}
           /\ Last(s) = s[Len(s)] /\ Last(s) \in S
           /\ Front(s) \in Seq(S) /\ Len(Front(s)) = Len(s) - 1
           /\ \A i \in 1 .. Len(s) - 1 : Front(s)[i] = s[i]
<1>1. Len(s) \in Nat \ {0}
  BY EmptySeq
<1>2. Last(s) = s[Len(s)] /\ Front(s) = SubSeq(s, 1, Len(s) - 1)
  BY DEF Last, Front
<1>3. \A i \in 1 .. Len(s) - 1 : s[i] \in S
  BY <1>1, ElementOfSeq
<1>4. 1 \in Int /\ Len(s) - 1 \in Int /\ Len(s) \in 1 .. Len(s)
  BY <1>1
<1>5. /\ SubSeq(s, 1, Len(s) - 1) \in Seq(S)
      /\ Len(SubSeq(s, 1, Len(s) - 1)) = IF 1 <= Len(s) - 1 THEN Len(s) - 1 - 1 + 1 ELSE 0
      /\ \A i \in 1 .. Len(s) - 1 - 1 + 1 : SubSeq(s, 1, Len(s) - 1)[i] = s[1 + i - 1]
  BY <1>3, <1>4, SubSeqProperties
<1>6. s[Len(s)] \in S
  BY <1>4, ElementOfSeq
<1>7. Len(Front(s)) = Len(s) - 1
  <2>1. CASE Len(s) = 1
    BY <1>2, <1>5, <2>1
  <2>2. CASE Len(s) # 1
    <3>1. 1 <= Len(s) - 1 /\ Len(s) - 1 - 1 + 1 = Len(s) - 1
      BY <1>1, <2>2, MoreThanOne
    <3> QED
      BY <1>2, <1>5, <3>1
  <2> QED
    BY <2>1, <2>2
<1>8. \A i \in 1 .. Len(s) - 1 : Front(s)[i] = s[i]
  <2> TAKE i \in 1 .. Len(s) - 1
  <2>1. i \in 1 .. Len(s) - 1 - 1 + 1 /\ 1 + i - 1 = i
    BY <1>1
  <2> QED
    BY <1>2, <1>5, <2>1
<1> QED
  BY <1>1, <1>2, <1>5, <1>6, <1>7, <1>8

\* Lines folded into one are a line; folding a single one changes nothing.
LEMMA Flattening ==
    ASSUME NEW S, NEW ls \in Seq(Seq(S))
    PROVE  /\ FlattenSeq(ls) \in Seq(S)
           /\ Len(ls) = 1 => FlattenSeq(ls) = ls[1]
<1> DEFINE n == Len(ls)
           Step(f, i) == IF i = 1 THEN ls[i] ELSE f[i-1] \o ls[i]
           F == CHOOSE f : f = [i \in 1 .. n |-> IF i = 1 THEN ls[i] ELSE f[i-1] \o ls[i]]
<1>0. n \in Nat /\ \A i \in 1 .. n : ls[i] \in Seq(S)
  BY LenProperties, ElementOfSeq
<1>1. FlattenSeq(ls) = IF n = 0 THEN ls ELSE F[n]
  BY DEF FlattenSeq
<1> HIDE DEF n
<1>2. \E f : f = [i \in 1 .. n |-> Step(f, i)]
  <2> DEFINE Upto(k, f) == f = [i \in 1 .. k |-> Step(f, i)]
             T == {k \in Nat : k <= n => \E f : Upto(k, f)}
  <2>1. 0 \in T
    <3>1. 1 .. 0 = {}
      OBVIOUS
    <3>2. Upto(0, [i \in 1 .. 0 |-> ls[i]])
      BY <3>1
    <3> QED
      BY <3>2
  <2>2. ASSUME NEW k \in T PROVE k + 1 \in T
    <3> HIDE DEF Upto
    <3> SUFFICES ASSUME k + 1 <= n
                 PROVE  \E f : Upto(k + 1, f)
      OBVIOUS
    <3>0. k \in Nat /\ k <= n
      BY <1>0
    <3>1. PICK g : Upto(k, g)
      BY <3>0
    <3> USE DEF Upto
    <3> DEFINE h == [i \in 1 .. k + 1 |-> Step(g, i)]
    <3>2. \A i \in 1 .. k : h[i] = g[i]
      <4> TAKE i \in 1 .. k
      <4>1. g[i] = Step(g, i)
        BY <3>1
      <4>2. i \in 1 .. k + 1
        OBVIOUS
      <4> QED
        BY <4>1, <4>2
    <3>3. \A i \in 1 .. k + 1 : Step(h, i) = Step(g, i)
      <4> TAKE i \in 1 .. k + 1
      <4>1. CASE i = 1
        BY <4>1
      <4>2. CASE i # 1
        <5>1. i - 1 \in 1 .. k
          BY <4>2
        <5>2. h[i-1] = g[i-1]
          BY <5>1, <3>2
        <5>3. Step(h, i) = h[i-1] \o ls[i] /\ Step(g, i) = g[i-1] \o ls[i]
          BY <4>2
        <5> QED
          BY <5>2, <5>3
      <4> QED
        BY <4>1, <4>2
    <3>4. Upto(k + 1, h)
      BY <3>3
    <3> QED
      BY <3>4
  <2>3. T = Nat
    <3> HIDE DEF T
    <3>1. T \in SUBSET Nat
      BY DEF T
    <3> QED
      BY <2>1, <2>2, <3>1, Climbing
  <2>4. n \in T
    BY <1>0, <2>3
  <2> HIDE DEF Upto
  <2>5. \E f : Upto(n, f)
    BY <1>0, <2>4
  <2> QED
    BY <2>5 DEF Upto
<1>3. F = [i \in 1 .. n |-> Step(F, i)]
  BY <1>2
<1> HIDE DEF F
<1>4. \A k \in Nat : k + 1 <= n => F[k + 1] \in Seq(S)
  <2> DEFINE T == {k \in Nat : k + 1 <= n => F[k + 1] \in Seq(S)}
  <2>1. 0 \in T
    BY <1>0, <1>3
  <2>2. ASSUME NEW k \in T PROVE k + 1 \in T
    <3> SUFFICES ASSUME k + 1 + 1 <= n
                 PROVE  F[k + 1 + 1] \in Seq(S)
      OBVIOUS
    <3>1. F[k + 1] \in Seq(S)
      BY <1>0
    <3>2. /\ k + 1 + 1 \in 1 .. n /\ k + 1 + 1 # 1 /\ (k + 1 + 1) - 1 = k + 1
      BY <1>0
    <3>3. F[k + 1 + 1] = F[k + 1] \o ls[k + 1 + 1]
      BY <1>3, <3>2
    <3> QED
      BY <1>0, <3>1, <3>2, <3>3, ConcatProperties
  <2>3. T = Nat
    <3> HIDE DEF T
    <3>1. T \in SUBSET Nat
      BY DEF T
    <3> QED
      BY <2>1, <2>2, <3>1, Climbing
  <2> QED
    BY <2>3
<1>5. n # 0 => F[n] \in Seq(S)
  <2> SUFFICES ASSUME n # 0 PROVE F[n] \in Seq(S)
    OBVIOUS
  <2>1. n - 1 \in Nat /\ (n - 1) + 1 = n
    BY <1>0
  <2> QED
    BY <1>4, <2>1
<1>6. n = 1 => F[n] = ls[1]
  BY <1>3
<1>7. n = 0 => ls \in Seq(S)
  BY EmptySeq DEF n
<1> QED
  BY <1>1, <1>5, <1>6, <1>7 DEF n

-----------------------------------------------------------------------------
(* Addresses.                                                              *)

LEMMA Outside == Garbage \notin Address /\ Unknown \notin Address /\ None \notin Address
BY HopsAssumption

LEMMA Unmapping ==
    ASSUME NEW a \in Address
    PROVE  /\ Unmap(a) \in Address
           /\ Unmap(a).as # "mapped"
           /\ Unmap(Unmap(a)) = Unmap(a)
           /\ IsTrusted(Unmap(a)) <=> IsTrusted(a)
<1>1. PICK h \in V4 \cup V6 : a \in [host : {h}, as : Spellings(h)]
  BY DEF Address
<1>2. a = [host |-> h, as |-> a.as] /\ a.as \in Spellings(h)
  BY <1>1
<1>3. Unmap(a) \in Address /\ Unmap(a).as # "mapped"
  <2>1. CASE a.as = "mapped"
    <3>1. h \in V4
      BY <1>2, <2>1 DEF Spellings
    <3>2. Unmap(a) = [host |-> h, as |-> "v4"]
      BY <1>2, <2>1 DEF Unmap
    <3>3. "v4" \in Spellings(h)
      BY <3>1 DEF Spellings
    <3>4. Unmap(a) \in [host : {h}, as : Spellings(h)]
      BY <3>2, <3>3
    <3> QED
      BY <3>2, <3>4 DEF Address
  <2>2. CASE a.as # "mapped"
    BY <2>2 DEF Unmap
  <2> QED
    BY <2>1, <2>2
<1>4. Unmap(Unmap(a)) = Unmap(a)
  BY <1>3 DEF Unmap
<1> QED
  BY <1>3, <1>4 DEF IsTrusted

\* The routes and headers there are, element by element.
LEMMA TypedFacts ==
    ASSUME Typed
    PROVE  /\ Len(route) \in Nat /\ DOMAIN route = 1 .. Len(route)
           /\ \A i \in 1 .. Len(route) : route[i] \in Address
           /\ Len(header) \in Nat
           /\ \A i \in 1 .. Len(header) : header[i] \in Seq(Hop)
           /\ FirstLine \in Seq(Hop) /\ Len(FirstLine) \in Nat
           /\ \A i \in 1 .. Len(FirstLine) : FirstLine[i] \in Hop
           /\ Len(hops) \in Nat
           /\ \A i \in 1 .. Len(hops) : hops[i] \in Hop
<1>1. /\ Len(route) \in Nat /\ DOMAIN route = 1 .. Len(route)
      /\ \A i \in 1 .. Len(route) : route[i] \in Address
  BY LenProperties, ElementOfSeq DEF Typed
<1>2. /\ Len(header) \in Nat
      /\ \A i \in 1 .. Len(header) : header[i] \in Seq(Hop)
  BY LenProperties, ElementOfSeq DEF Typed
<1>3. Len(hops) \in Nat /\ \A i \in 1 .. Len(hops) : hops[i] \in Hop
  BY LenProperties, ElementOfSeq DEF Typed
<1>4. FirstLine \in Seq(Hop)
  <2>1. CASE header = <<>>
    BY <2>1, EmptySeq DEF FirstLine
  <2>2. CASE header # <<>>
    <3>1. Head(header) \in Seq(Hop)
      BY <2>2, HeadTailProperties DEF Typed
    <3> QED
      BY <2>2, <3>1 DEF FirstLine
  <2> QED
    BY <2>1, <2>2
<1>5. Len(FirstLine) \in Nat /\ \A i \in 1 .. Len(FirstLine) : FirstLine[i] \in Hop
  BY <1>4, LenProperties, ElementOfSeq
<1> QED
  BY <1>1, <1>2, <1>3, <1>4, <1>5

LEMMA FirstOfOne ==
    ASSUME Typed, Len(header) = 1
    PROVE  FirstLine = header[1]
<1>1. header # <<>>
  BY EmptySeq
<1>2. Head(header) = header[1]
  BY <1>1, HeadTailProperties DEF Typed
<1> QED
  BY <1>1, <1>2 DEF FirstLine

-----------------------------------------------------------------------------
(* The last stranger on the route.                                         *)

RealSender(k) ==
    /\ k \in 1 .. Len(route)
    /\ ~ IsTrusted(route[k])
    /\ \A i \in k + 1 .. Len(route) : IsTrusted(route[i])

AllAppend == \A i \in 2 .. Len(route) : IsTrusted(route[i]) => route[i].host \notin OwnLine

\* Where there is a stranger there is a last one.
LEMMA LastStranger ==
    ASSUME Typed, NEW s \in 1 .. Len(route), ~ IsTrusted(route[s])
    PROVE  \E k \in Nat : RealSender(k)
<1> DEFINE n == Len(route)
           T == {d \in Nat : d < n /\ ~ IsTrusted(route[n - d])}
<1>0. n \in Nat /\ s \in Nat /\ s <= n
  BY TypedFacts
<1> HIDE DEF n
<1>1. n - s \in T
  <2>1. n - s \in Nat /\ n - s < n /\ n - (n - s) = s
    BY <1>0 DEF n
  <2> QED
    BY <2>1
<1>2. PICK d \in T : \A e \in T : d <= e
  <2>1. T \in SUBSET Nat /\ T # {}
    BY <1>1
  <2> HIDE DEF T
  <2> QED
    BY <2>1, Least
<1>3. d \in Nat /\ d < n /\ ~ IsTrusted(route[n - d])
  BY <1>2
<1>4. \A i \in (n - d) + 1 .. n : IsTrusted(route[i])
  <2> TAKE i \in (n - d) + 1 .. n
  <2>1. n - i \in Nat /\ n - i < n /\ n - (n - i) = i /\ n - i < d /\ ~ (d <= n - i)
    BY <1>0, <1>3
  <2>2. n - i \notin T
    BY <1>2, <2>1
  <2> QED
    BY <2>1, <2>2
<1>5. n - d \in Nat /\ n - d \in 1 .. n
  BY <1>0, <1>3
<1> QED
  BY <1>3, <1>4, <1>5 DEF RealSender, n

\* It is enough that an answer has one spelling and, where the proxies append, is
\* the last stranger's.
LEMMA HeldAfter ==
    ASSUME Typed, UNCHANGED <<trusted, route, remote>>,
           answer' # Unknown => answer'.as # "mapped",
           AllAppend /\ remote # Garbage => \A k \in Nat : RealSender(k) => answer' = Unmap(route[k])
    PROVE  HeldToTheRealSender'
<1> DEFINE strangers == {i \in DOMAIN route : ~ IsTrusted(route[i])}
<1>0. DOMAIN route = 1 .. Len(route) /\ Len(route) \in Nat
  BY TypedFacts
<1>1. ASSUME remote # Garbage, strangers # {}, AllAppend
      PROVE  \E i \in strangers : (\A j \in strangers : j <= i) /\ answer' = Unmap(route[i])
  <2>1. PICK s \in 1 .. Len(route) : ~ IsTrusted(route[s])
    BY <1>0, <1>1
  <2>2. PICK k \in Nat : RealSender(k)
    BY <2>1, LastStranger
  <2>3. k \in 1 .. Len(route) /\ k \in strangers /\ answer' = Unmap(route[k])
    BY <1>0, <1>1, <2>2 DEF RealSender
  <2>4. ASSUME NEW j \in strangers
        PROVE  j <= k
    <3> SUFFICES ASSUME ~ (j <= k)
                 PROVE  FALSE
      OBVIOUS
    <3>1. j \in 1 .. Len(route) /\ ~ IsTrusted(route[j])
      BY <1>0
    <3>2. j \in k + 1 .. Len(route)
      BY <1>0, <3>1
    <3> QED
      BY <2>2, <3>1, <3>2 DEF RealSender
  <2> QED
    BY <2>3, <2>4
<1>2. strangers' = strangers /\ AllAppend' = AllAppend
  BY DEF IsTrusted, AllAppend
<1>3. remote # Garbage /\ strangers # {} /\ AllAppend =>
        \E i \in strangers' : (\A j \in strangers' : j <= i) /\ answer' = Unmap(route'[i])
  BY <1>1, <1>2
<1> QED
  BY <1>2, <1>3 DEF HeldToTheRealSender, AllAppend

-----------------------------------------------------------------------------
(* What From finds.                                                        *)

\* The stranger is behind: the line ends with it and the hosts after it.
LEMMA SenderInLine ==
    ASSUME Inv, AllAppend, NEW k \in Nat, RealSender(k), k < Len(route)
    PROVE  /\ Len(FirstLine) >= Len(route) - k
           /\ \A j \in 1 .. Len(route) - k :
                 FirstLine[Len(FirstLine) + 1 - j] = route[Len(route) - j]
<1>0. Len(route) \in Nat /\ k \in 1 .. Len(route) - 1
  BY TypedFacts DEF Inv, RealSender
<1>1. OnlyAppended(k)
  <2> SUFFICES ASSUME NEW i \in k + 1 .. Len(route)
               PROVE  route[i].host \notin OwnLine
    BY DEF OnlyAppended
  <2>1. i \in 2 .. Len(route)
    BY <1>0
  <2> QED
    BY <2>1 DEF RealSender, AllAppend
<1>2. /\ Len(header) = 1
      /\ Len(header[1]) >= Len(route) - k
      /\ \A j \in 1 .. Len(route) - k :
            header[1][Len(header[1]) + 1 - j] = route[Len(route) - j]
  BY <1>0, <1>1 DEF Inv, Written
<1> QED
  BY <1>2, FirstOfOne DEF Inv

\* The connection is the stranger's when the header does not count.
LEMMA SenderConnects ==
    ASSUME Inv, phase = "asked", ~ HeaderCounts, remote # Garbage, AllAppend,
           NEW k \in Nat, RealSender(k)
    PROVE  remote = Unmap(route[k])
<1> DEFINE n == Len(route)
<1>0. /\ n \in Nat /\ n >= 1 /\ k \in 1 .. n /\ remote = Unmap(route[n])
      /\ route[n] \in Address /\ ~ IsTrusted(route[k])
  <2>1. n \in Nat /\ n >= 1 /\ k \in 1 .. n /\ ~ IsTrusted(route[k])
    BY TypedFacts DEF Inv, Asked, RealSender
  <2>2. route[n] \in Address
    BY <2>1, TypedFacts DEF Inv
  <2> QED
    BY <2>1, <2>2 DEF Inv, Asked
<1>1. CASE k = n
  BY <1>0, <1>1
<1>2. CASE k # n
  <2>1. k < n /\ n \in k + 1 .. n
    BY <1>0, <1>2
  <2>2. IsTrusted(route[n])
    BY <2>1 DEF RealSender
  <2>3. IsTrusted(remote) /\ trusted # {}
    BY <1>0, <2>2, Unmapping DEF IsTrusted
  <2>4. Len(FirstLine) >= n - k
    BY <2>1, SenderInLine
  <2>5. FirstLine # <<>>
    BY <1>0, <2>1, <2>4, EmptySeq
  <2> QED
    BY <2>3, <2>5 DEF HeaderCounts
<1> QED
  BY <1>1, <1>2

\* Otherwise it is in the line: not passed over yet, and next as soon as From gets
\* to a hop that it does not skip.
LEMMA SenderIsNext ==
    ASSUME Inv, phase = "walking", AllAppend, NEW k \in Nat, RealSender(k)
    PROVE  /\ hops # <<>>
           /\ NextHop = Garbage \/ ~ IsTrusted(NextHop) => NextHop = route[k]
<1> DEFINE n == Len(route)
           l == Len(FirstLine)
           p == l + 1 - (n - k)
           m == Len(hops)
<1>0. /\ n \in Nat /\ n >= 1 /\ k \in 1 .. n /\ l \in Nat /\ m \in Nat
      /\ \A i \in 1 .. n : route[i] \in Address
      /\ \A i \in k + 1 .. n : IsTrusted(route[i])
      /\ ~ IsTrusted(route[k])
  BY TypedFacts DEF Inv, Asked, RealSender
<1>1. /\ IsTrusted(remote) /\ remote = Unmap(route[n])
      /\ m <= l
      /\ \A i \in 1 .. m : hops[i] = FirstLine[i]
      /\ \A i \in m + 1 .. l : FirstLine[i] # Garbage /\ IsTrusted(FirstLine[i])
  BY DEF Inv, Asked, Walked, HeaderCounts
<1>2. k < n
  <2>1. IsTrusted(route[n])
    <3>1. route[n] \in Address
      BY <1>0
    <3> QED
      BY <1>1, <3>1, Unmapping
  <2>2. k # n
    BY <1>0, <2>1
  <2> QED
    BY <1>0, <2>2
<1>3. /\ l >= n - k
      /\ \A j \in 1 .. n - k : FirstLine[l + 1 - j] = route[n - j]
  BY <1>2, SenderInLine
<1> HIDE DEF n, l, m
<1>4. p \in 1 .. l /\ FirstLine[p] = route[k]
  <2>1. n - k \in 1 .. n - k /\ n - (n - k) = k /\ p \in 1 .. l
    BY <1>0, <1>2, <1>3
  <2> QED
    BY <1>3, <2>1
<1>5. ASSUME NEW i \in p + 1 .. l
      PROVE  FirstLine[i] # Garbage /\ IsTrusted(FirstLine[i])
  <2> DEFINE j == l + 1 - i
  <2>1. j \in 1 .. n - k /\ l + 1 - j = i /\ n - j \in k + 1 .. n /\ n - j \in 1 .. n
    BY <1>0, <1>2, <1>3, <1>4, <1>5
  <2>2. FirstLine[i] = route[n - j]
    BY <1>3, <2>1
  <2> QED
    BY <1>0, <2>1, <2>2, Outside
<1>6. p <= m
  <2> SUFFICES ASSUME ~ (p <= m)
               PROVE  FALSE
    OBVIOUS
  <2>1. p \in m + 1 .. l
    BY <1>0, <1>4
  <2> QED
    BY <1>0, <1>1, <1>4, <2>1
<1>7. m \in 1 .. m /\ m >= 1
  BY <1>0, <1>4, <1>6
<1>8. hops # <<>>
  BY <1>7, EmptySeq DEF m
<1>9. NextHop = FirstLine[m]
  <2>1. NextHop = hops[m]
    BY <1>8, LastAndFront DEF Inv, Typed, NextHop, m
  <2> QED
    BY <1>1, <1>7, <2>1
<1>10. CASE m = p
  BY <1>4, <1>8, <1>9, <1>10
<1>11. CASE m # p
  <2>1. m \in p + 1 .. l
    BY <1>0, <1>1, <1>4, <1>6, <1>11
  <2>2. FirstLine[m] # Garbage /\ IsTrusted(FirstLine[m])
    BY <1>5, <2>1
  <2> QED
    BY <1>8, <1>9, <2>2
<1> QED
  BY <1>10, <1>11

-----------------------------------------------------------------------------
(* The steps.                                                              *)

LEMMA InvInit ==
    ASSUME Init
    PROVE  Inv
<1>1. <<>> \in Seq(Address) /\ <<>> \in Seq(Seq(Hop)) /\ <<>> \in Seq(Hop) /\ Len(<<>>) = 0
  BY EmptySeq
<1>2. Typed
  BY <1>1 DEF Init, Typed
<1>3. Written
  <2>1. 1 .. 0 - 1 = {}
    OBVIOUS
  <2> QED
    BY <1>1, <2>1 DEF Init, Written
<1>4. Asked /\ Walked /\ HeldToTheRealSender
  BY DEF Init, Asked, Walked, HeldToTheRealSender, Answered
<1> QED
  BY <1>2, <1>3, <1>4 DEF Inv

\* With no answer given there is nobody it could be wrong about.
LEMMA NoAnswerYet ==
    ASSUME answer' = None
    PROVE  HeldToTheRealSender'
BY DEF HeldToTheRealSender, Answered

\* The request stays as it was.
LEMMA RequestStays ==
    ASSUME Inv, UNCHANGED <<route, header>>
    PROVE  Written'
BY DEF Inv, Written, OnlyAppended

LEMMA InvReading ==
    ASSUME Inv, ReadEntry \/ Built
    PROVE  Inv'
<1>0. /\ UNCHANGED <<route, header, remote, hops, answer>>
      /\ phase = "reading" /\ phase' \in {"reading", "refused", "idle"}
  BY DEF ReadEntry, Built, request, settings
<1>1. Typed'
  BY <1>0 DEF Inv, Typed
<1>2. Asked' /\ Walked'
  BY <1>0 DEF Inv, Asked, Walked
<1>3. answer' = None
  BY <1>0 DEF Inv, Asked
<1> QED
  BY <1>0, <1>1, <1>2, <1>3, RequestStays, NoAnswerYet DEF Inv

LEMMA InvSend ==
    ASSUME Inv, NEW client \in Address, NEW forged \in Headers, Send(client, forged)
    PROVE  Inv'
<1>0. /\ phase' = "travelling" /\ route' = <<client>> /\ header' = forged /\ answer' = None
      /\ UNCHANGED hops
  BY DEF Send
<1>1. /\ <<client>> \in Seq(Address) /\ Len(<<client>>) = 1
      /\ forged \in Seq(Seq(Hop))
  BY HopsAssumption DEF Hop
<1>2. Typed'
  BY <1>0, <1>1 DEF Inv, Typed
<1>3. Written'
  <2>1. 1 .. 1 - 1 = {}
    OBVIOUS
  <2> QED
    BY <1>0, <1>1, <2>1 DEF Written
<1>4. Asked' /\ Walked'
  BY <1>0, <1>1 DEF Asked, Walked
<1> QED
  BY <1>0, <1>2, <1>3, <1>4, NoAnswerYet DEF Inv

\* A proxy hands the request on: one that appends makes the line one longer, by the
\* host the request came from.
LEMMA InvForward ==
    ASSUME Inv, NEW proxy \in Address, Forward(proxy)
    PROVE  Inv'
<1>n. PICK n : n = Len(route)
  OBVIOUS
<1>0. /\ phase = "travelling" /\ phase' = phase /\ answer' = answer
      /\ route' = Append(route, proxy) /\ hops' = hops
      /\ n \in Nat /\ n >= 1
      /\ route \in Seq(Address) /\ header \in Seq(Seq(Hop))
      /\ route # <<>> /\ Last(route) = route[n] /\ route[n] \in Address
  <2>1. /\ phase = "travelling" /\ phase' = phase /\ answer' = answer
        /\ route' = Append(route, proxy) /\ hops' = hops
    BY DEF Forward
  <2>2. /\ n \in Nat /\ n >= 1 /\ n \in 1 .. n
        /\ route \in Seq(Address) /\ header \in Seq(Seq(Hop))
    BY <1>n, <2>1, TypedFacts DEF Inv, Typed, Asked
  <2>3. route # <<>> /\ Last(route) = route[n]
    <3>1. route # <<>>
      BY <1>n, <2>2, EmptySeq
    <3> QED
      BY <1>n, <2>2, <3>1, LastAndFront
  <2>4. route[n] \in Address
    BY <1>n, <2>2, TypedFacts DEF Inv
  <2> QED
    BY <2>1, <2>2, <2>3, <2>4
<1>1. /\ route' \in Seq(Address) /\ Len(route') = n + 1
      /\ \A i \in 1 .. n : route'[i] = route[i]
      /\ route'[n + 1] = proxy
  BY <1>n, <1>0, AppendProperties
<1>2. FlattenSeq(header) \in Seq(Hop) /\ (Len(header) = 1 => FlattenSeq(header) = header[1])
  BY <1>0, Flattening
<1>3. header' \in Seq(Seq(Hop))
  <2>1. route[n] \in Hop
    BY <1>0 DEF Hop
  <2>2. CASE proxy.host \in OwnLine
    <3>1. header' = Append(header, <<route[n]>>)
      BY <1>0, <2>2 DEF Forward
    <3>2. <<route[n]>> \in Seq(Hop)
      BY <2>1
    <3> QED
      BY <1>0, <3>1, <3>2, AppendProperties
  <2>3. CASE proxy.host \notin OwnLine
    <3>1. header' = <<Append(FlattenSeq(header), route[n])>>
      BY <1>0, <2>3 DEF Forward
    <3>2. Append(FlattenSeq(header), route[n]) \in Seq(Hop)
      BY <1>2, <2>1, AppendProperties
    <3> QED
      BY <3>1, <3>2
  <2> QED
    BY <2>2, <2>3
<1>4. Written'
  <2> SUFFICES ASSUME NEW k \in 1 .. n, OnlyAppended(k)'
               PROVE  /\ Len(header') = 1
                      /\ Len(header'[1]) >= (n + 1) - k
                      /\ \A j \in 1 .. (n + 1) - k :
                            header'[1][Len(header'[1]) + 1 - j] = route'[(n + 1) - j]
    <3>1. (n + 1) - 1 = n
      BY <1>0
    <3> QED
      BY <1>1, <3>1 DEF Written
  <2>1. \A i \in k + 1 .. n + 1 : route'[i].host \notin OwnLine
    BY <1>1 DEF OnlyAppended
  <2>2. proxy.host \notin OwnLine
    <3>1. n + 1 \in k + 1 .. n + 1
      BY <1>0
    <3> QED
      BY <1>1, <2>1, <3>1
  <2> DEFINE old == FlattenSeq(header)
             line == Append(old, route[n])
  <2>3. header' = <<line>> /\ Len(header') = 1 /\ header'[1] = line
    BY <1>0, <2>2 DEF Forward
  <2>4. /\ old \in Seq(Hop) /\ Len(old) \in Nat
        /\ Len(line) = Len(old) + 1
        /\ \A i \in 1 .. Len(old) : line[i] = old[i]
        /\ line[Len(old) + 1] = route[n]
    <3>1. old \in Seq(Hop) /\ route[n] \in Hop
      BY <1>0, <1>2 DEF Hop
    <3> QED
      BY <3>1, AppendProperties, LenProperties
  <2> HIDE DEF line
  <2>5. CASE k = n
    <3>1. Len(line) >= (n + 1) - k
      BY <1>0, <2>4, <2>5
    <3>2. ASSUME NEW j \in 1 .. (n + 1) - k
          PROVE  line[Len(line) + 1 - j] = route'[(n + 1) - j]
      <4>1. j = 1 /\ Len(line) + 1 - j = Len(old) + 1 /\ (n + 1) - j = n /\ n \in 1 .. n
        BY <1>0, <2>4, <2>5
      <4> QED
        BY <1>1, <2>4, <4>1
    <3> QED
      BY <2>3, <3>1, <3>2
  <2>6. CASE k # n
    <3>0. k \in 1 .. n - 1 /\ k \in Nat
      BY <1>0, <2>6
    <3>1. OnlyAppended(k)
      <4> SUFFICES ASSUME NEW i \in k + 1 .. n
                   PROVE  route[i].host \notin OwnLine
        BY <1>n DEF OnlyAppended
      <4>1. i \in k + 1 .. n + 1 /\ i \in 1 .. n
        BY <1>0, <3>0
      <4> QED
        BY <1>1, <2>1, <4>1
    <3>2. /\ Len(header) = 1
          /\ Len(header[1]) >= n - k
          /\ \A j \in 1 .. n - k : header[1][Len(header[1]) + 1 - j] = route[n - j]
      BY <1>n, <3>0, <3>1 DEF Inv, Written
    <3>3. old = header[1]
      BY <1>2, <3>2
    <3>4. Len(line) >= (n + 1) - k
      BY <1>0, <2>4, <3>0, <3>2, <3>3
    <3>5. ASSUME NEW j \in 1 .. (n + 1) - k
          PROVE  line[Len(line) + 1 - j] = route'[(n + 1) - j]
      <4>1. CASE j = 1
        <5>1. Len(line) + 1 - j = Len(old) + 1 /\ (n + 1) - j = n /\ n \in 1 .. n
          BY <1>0, <2>4, <4>1
        <5> QED
          BY <1>1, <2>4, <5>1
      <4>2. CASE j # 1
        <5>1. /\ j - 1 \in 1 .. n - k
              /\ Len(line) + 1 - j = Len(old) + 1 - (j - 1)
              /\ Len(old) + 1 - (j - 1) \in 1 .. Len(old)
              /\ (n + 1) - j = n - (j - 1) /\ n - (j - 1) \in 1 .. n
          BY <1>0, <2>4, <3>0, <3>2, <3>3, <4>2
        <5> QED
          BY <1>1, <2>4, <3>2, <3>3, <5>1
      <4> QED
        BY <4>1, <4>2
    <3> QED
      BY <2>3, <3>4, <3>5
  <2> QED
    BY <2>5, <2>6
<1>5. Typed'
  BY <1>0, <1>1, <1>3 DEF Inv, Typed
<1>6. Asked' /\ Walked' /\ answer' = None
  BY <1>0, <1>1 DEF Inv, Asked, Walked
<1> QED
  BY <1>4, <1>5, <1>6, NoAnswerYet DEF Inv

LEMMA InvArrive ==
    ASSUME Inv, NEW readable \in BOOLEAN, Arrive(readable)
    PROVE  Inv'
<1>0. /\ phase = "travelling" /\ phase' = "asked"
      /\ UNCHANGED <<route, header, hops, answer>>
      /\ remote' \in {Garbage, Unmap(Last(route))}
  BY DEF Arrive, settings
<1>1. Len(route) >= 1 /\ Len(route) \in Nat /\ answer = None
  BY <1>0, TypedFacts DEF Inv, Asked
<1>2. Last(route) = route[Len(route)]
  BY DEF Last
<1>3. Typed'
  BY <1>0 DEF Inv, Typed
<1>4. Asked' /\ Walked'
  BY <1>0, <1>1, <1>2 DEF Asked, Walked
<1> QED
  BY <1>0, <1>1, <1>3, <1>4, RequestStays, NoAnswerYet DEF Inv

LEMMA InvReadHeader ==
    ASSUME Inv, ReadHeader
    PROVE  Inv'
<1>0. /\ phase = "asked" /\ phase' = "walking" /\ HeaderCounts /\ hops' = FirstLine
      /\ UNCHANGED <<route, header, remote, answer, trusted>>
  BY DEF ReadHeader, settings, request
<1>1. FirstLine' = FirstLine /\ FirstLine \in Seq(Hop) /\ Len(FirstLine) \in Nat
  BY <1>0, TypedFacts DEF Inv, FirstLine
<1>2. Typed'
  BY <1>0, <1>1 DEF Inv, Typed
<1>3. Asked'
  BY <1>0 DEF Inv, Asked
<1>4. Walked'
  <2>1. HeaderCounts'
    BY <1>0, <1>1 DEF HeaderCounts, IsTrusted
  <2>2. Len(FirstLine) + 1 .. Len(FirstLine) = {}
    BY <1>1
  <2> QED
    BY <1>0, <1>1, <2>1, <2>2 DEF Walked
<1>5. answer' = None
  BY <1>0 DEF Inv, Asked
<1> QED
  BY <1>0, <1>2, <1>3, <1>4, <1>5, RequestStays, NoAnswerYet DEF Inv

LEMMA InvSkipOurOwn ==
    ASSUME Inv, SkipOurOwn
    PROVE  Inv'
<1>m. PICK m : m = Len(hops)
  OBVIOUS
<1>0. /\ phase = "walking" /\ phase' = "walking" /\ hops # <<>>
      /\ NextHop # Garbage /\ IsTrusted(NextHop) /\ hops' = Front(hops)
      /\ UNCHANGED <<route, header, remote, answer, trusted>>
  BY DEF SkipOurOwn, settings, request
<1>1. /\ m \in Nat \ {0} /\ NextHop = hops[m]
      /\ hops' \in Seq(Hop) /\ Len(hops') = m - 1
      /\ \A i \in 1 .. m - 1 : hops'[i] = hops[i]
  BY <1>0, <1>m, LastAndFront DEF Inv, Typed, NextHop
<1>2. FirstLine' = FirstLine /\ Len(FirstLine) \in Nat
  BY <1>0, TypedFacts DEF Inv, FirstLine
<1>3. /\ HeaderCounts
      /\ m <= Len(FirstLine)
      /\ \A i \in 1 .. m : hops[i] = FirstLine[i]
      /\ \A i \in m + 1 .. Len(FirstLine) : FirstLine[i] # Garbage /\ IsTrusted(FirstLine[i])
  BY <1>0, <1>m DEF Inv, Walked
<1>4. Typed'
  BY <1>0, <1>1 DEF Inv, Typed
<1>5. Asked'
  BY <1>0 DEF Inv, Asked
<1>6. Walked'
  <2>1. HeaderCounts'
    BY <1>0, <1>2, <1>3 DEF HeaderCounts, IsTrusted
  <2>2. m - 1 <= Len(FirstLine) /\ \A i \in 1 .. m - 1 : hops'[i] = FirstLine[i]
    BY <1>1, <1>2, <1>3
  <2>3. \A i \in (m - 1) + 1 .. Len(FirstLine) : FirstLine[i] # Garbage /\ IsTrusted(FirstLine[i])
    <3> TAKE i \in (m - 1) + 1 .. Len(FirstLine)
    <3>1. i = m \/ i \in m + 1 .. Len(FirstLine)
      BY <1>1, <1>2
    <3>2. NextHop = FirstLine[m]
      BY <1>1, <1>3
    <3> QED
      BY <1>0, <1>3, <3>1, <3>2
  <2>4. \A i \in (m - 1) + 1 .. Len(FirstLine) : FirstLine'[i] # Garbage /\ IsTrusted(FirstLine[i])'
    BY <1>0, <1>2, <2>3 DEF IsTrusted
  <2> QED
    BY <1>1, <1>2, <2>1, <2>2, <2>4 DEF Walked
<1>7. answer' = None
  BY <1>0 DEF Inv, Asked
<1> QED
  BY <1>0, <1>4, <1>5, <1>6, <1>7, RequestStays, NoAnswerYet DEF Inv

\* Whichever way From returns, the request and what is trusted stay; so only the
\* answer is in question.
LEMMA InvAnswer ==
    ASSUME Inv, AnswerConnection \/ StopAtGarbage \/ AnswerHop \/ AllOurOwn
    PROVE  Inv'
<1>0. /\ phase \in {"asked", "walking"} /\ phase' = "idle" /\ hops' = <<>>
      /\ UNCHANGED <<route, header, remote, trusted>>
  BY DEF AnswerConnection, StopAtGarbage, AnswerHop, AllOurOwn, Answer, settings, request
<1>1. Typed'
  BY <1>0, EmptySeq DEF Inv, Typed
<1>2. Asked' /\ Walked'
  BY <1>0 DEF Asked, Walked
<1>r. remote # Garbage =>
        remote = Unmap(route[Len(route)]) /\ remote.as # "mapped"
  <2>1. Len(route) \in 1 .. Len(route)
    BY <1>0, TypedFacts DEF Inv, Asked
  <2>2. route[Len(route)] \in Address
    BY <2>1, TypedFacts DEF Inv
  <2> QED
    BY <1>0, <2>2, Unmapping DEF Inv, Asked
<1>3. HeldToTheRealSender'
  <2>1. CASE AnswerConnection
    <3>1. /\ phase = "asked" /\ ~ HeaderCounts
          /\ answer' = IF remote = Garbage THEN Unknown ELSE remote
      BY <2>1 DEF AnswerConnection, Answer
    <3>2. AllAppend /\ remote # Garbage =>
            \A k \in Nat : RealSender(k) => answer' = Unmap(route[k])
      BY <3>1, SenderConnects
    <3>3. answer' # Unknown => answer'.as # "mapped"
      BY <1>r, <3>1
    <3> QED
      BY <1>0, <3>2, <3>3, HeldAfter DEF Inv
  <2>2. CASE StopAtGarbage \/ AllOurOwn
    <3>1. /\ phase = "walking"
          /\ hops = <<>> \/ NextHop = Garbage
          /\ answer' = IF remote = Garbage THEN Unknown ELSE remote
      BY <2>2 DEF StopAtGarbage, AllOurOwn, Answer
    <3>2. ASSUME AllAppend, NEW k \in Nat, RealSender(k)
          PROVE  FALSE
      <4>1. NextHop = Garbage /\ NextHop = route[k]
        BY <3>1, <3>2, SenderIsNext
      <4>2. route[k] \in Address
        BY <3>2, TypedFacts DEF Inv, RealSender
      <4> QED
        BY <4>1, <4>2, Outside
    <3>3. answer' # Unknown => answer'.as # "mapped"
      BY <1>r, <3>1
    <3> QED
      BY <1>0, <3>2, <3>3, HeldAfter DEF Inv
  <2>3. CASE AnswerHop
    <3>1. /\ phase = "walking" /\ hops # <<>> /\ NextHop # Garbage /\ ~ IsTrusted(NextHop)
          /\ answer' = IF Unmap(NextHop) = Garbage THEN Unknown ELSE Unmap(NextHop)
      BY <2>3 DEF AnswerHop, Answer
    <3>2. NextHop \in Address
      <4>1. NextHop \in Hop
        BY <3>1, LastAndFront DEF Inv, Typed, NextHop
      <4> QED
        BY <3>1, <4>1 DEF Hop
    <3>3. answer' = Unmap(NextHop) /\ Unmap(NextHop).as # "mapped"
      BY <3>1, <3>2, Unmapping, Outside
    <3>4. AllAppend => \A k \in Nat : RealSender(k) => answer' = Unmap(route[k])
      BY <3>1, <3>3, SenderIsNext
    <3> QED
      BY <1>0, <3>3, <3>4, HeldAfter DEF Inv
  <2> QED
    BY <2>1, <2>2, <2>3
<1> QED
  BY <1>0, <1>1, <1>2, <1>3, RequestStays DEF Inv

LEMMA InvNext ==
    ASSUME Inv, [Next]_vars
    PROVE  Inv'
<1>1. CASE Next
  <2>1. CASE ReadEntry \/ Built
    BY <2>1, InvReading
  <2>2. CASE \E client \in Address, forged \in Headers : Send(client, forged)
    BY <2>2, InvSend
  <2>3. CASE \E proxy \in Address : Forward(proxy)
    BY <2>3, InvForward
  <2>4. CASE \E readable \in BOOLEAN : Arrive(readable)
    BY <2>4, InvArrive
  <2>5. CASE ReadHeader
    BY <2>5, InvReadHeader
  <2>6. CASE SkipOurOwn
    BY <2>6, InvSkipOurOwn
  <2>7. CASE AnswerConnection \/ StopAtGarbage \/ AnswerHop \/ AllOurOwn
    BY <2>7, InvAnswer
  <2> QED
    BY <1>1, <2>1, <2>2, <2>3, <2>4, <2>5, <2>6, <2>7 DEF Next
<1>2. CASE UNCHANGED vars
  <2>0. UNCHANGED <<phase, route, header, remote, hops, answer, trusted>>
    BY <1>2 DEF vars
  <2>1. Typed'
    BY <2>0 DEF Inv, Typed
  <2>2. Asked'
    BY <2>0 DEF Inv, Asked
  <2>3. Walked'
    BY <2>0 DEF Inv, Walked, HeaderCounts, FirstLine, IsTrusted
  <2>4. HeldToTheRealSender'
    BY <2>0 DEF Inv, HeldToTheRealSender, Answered, IsTrusted
  <2> QED
    BY <2>0, <2>1, <2>2, <2>3, <2>4, RequestStays DEF Inv
<1> QED
  BY <1>1, <1>2

-----------------------------------------------------------------------------
(* The theorems.                                                           *)

\* The invariant holds in every state of every run of the resolver (clientip.go).
THEOREM InvHolds == Spec => []Inv
BY InvInit, InvNext, PTL DEF Spec

\* Whatever a client forges and however long the route, it is held to the last host
\* that is not a trusted proxy, in one spelling (NewResolver, From).
THEOREM HeldToTheRealSenderHolds == Spec => []HeldToTheRealSender
<1>1. Inv => HeldToTheRealSender
  BY DEF Inv
<1> QED
  BY <1>1, InvHolds, PTL
=============================================================================
