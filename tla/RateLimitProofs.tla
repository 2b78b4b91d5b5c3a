-------------------------- MODULE RateLimitProofs --------------------------
(***************************************************************************)
(* The limiter's properties for every set of callers, every period, every  *)
(* limit and every length of run.                                          *)
(***************************************************************************)
EXTENDS RateLimit, TLAPS

-----------------------------------------------------------------------------
(* What the operators of FixedWindow return and keep.                      *)

\* Sweeping keeps the map a map of windows.
LEMMA SweptType ==
    ASSUME NEW s \in [Keys -> Window], NEW t \in Nat
    PROVE  Swept(s, t) \in [Keys -> Window]
  BY DEF Swept, Window, Absent, Expired

\* Sweeping leaves a window alone or, when it has expired, empties it.
LEMMA SweptValue ==
    ASSUME NEW s \in [Keys -> Window], NEW t \in Nat, NEW k \in Keys
    PROVE  /\ Expired(s[k], t) => Swept(s, t)[k] = Absent
           /\ ~Expired(s[k], t) => Swept(s, t)[k] = s[k]
  BY DEF Swept

\* Counting keeps the map a map of windows.
LEMMA CountedType ==
    ASSUME NEW s \in [Keys -> Window], NEW t \in Nat, NEW k \in Keys
    PROVE  Counted(s, k, t) \in [Keys -> Window]
  BY PeriodAssumption DEF Counted, Window, Absent

\* Counting touches one caller: it opens a window, or adds one to the count.
LEMMA CountedValue ==
    ASSUME NEW s \in [Keys -> Window], NEW t \in Nat, NEW k \in Keys, NEW j \in Keys
    PROVE  /\ j # k => Counted(s, k, t)[j] = s[j]
           /\ s[k] = Absent =>
                Counted(s, k, t)[k] = [count |-> 1, reset |-> t + Period]
           /\ s[k] # Absent =>
                Counted(s, k, t)[k] = [count |-> s[k].count + 1, reset |-> s[k].reset]
  BY DEF Counted, Window

-----------------------------------------------------------------------------
(* Type correctness.                                                       *)

\* Every step keeps the variables in their types.
THEOREM TypeCorrect == Spec => []TypeOK
<1>1. Init => TypeOK
  <2> SUFFICES ASSUME Init PROVE TypeOK
    OBVIOUS
  <2>1. seen \in [Keys -> Window]
    BY DEF Init, NobodySeen, Absent, Window
  <2>2. grants \in [Keys -> Seq(Nat)] /\ opened \in [Keys -> SUBSET Nat]
    BY DEF Init
  <2>3. verdict \in Verdict
    BY DEF Init, Verdict
  <2> QED
    BY <2>1, <2>2, <2>3, LimitsAssumption DEF Init, TypeOK
<1>2. TypeOK /\ [Next]_vars => TypeOK'
  <2> SUFFICES ASSUME TypeOK, [Next]_vars PROVE TypeOK'
    OBVIOUS
  <2>1. CASE Tick
    BY <2>1, MaxNowAssumption DEF TypeOK, Tick
  <2>2. CASE Restart
    BY <2>2 DEF TypeOK, Restart, NobodySeen, Absent, Window
  <2>3. ASSUME NEW k \in Keys, AllowUnlimited(k) PROVE TypeOK'
    BY <2>3 DEF TypeOK, AllowUnlimited, Verdict
  <2>4. ASSUME NEW k \in Keys, Grant(k) PROVE TypeOK'
    <3>1. seen' \in [Keys -> Window]
      BY <2>4, SweptType, CountedType DEF TypeOK, Grant
    <3>2. grants' \in [Keys -> Seq(Nat)] /\ opened' \in [Keys -> SUBSET Nat]
      BY <2>4 DEF TypeOK, Grant
    <3> QED
      BY <2>4, <3>1, <3>2 DEF TypeOK, Grant, Verdict
  <2>5. ASSUME NEW k \in Keys, Refuse(k) PROVE TypeOK'
    BY <2>5, SweptType DEF TypeOK, Refuse, Verdict
  <2>6. CASE UNCHANGED vars
    BY <2>6 DEF TypeOK, vars
  <2> QED
    BY <2>1, <2>2, <2>3, <2>4, <2>5, <2>6 DEF Next, Allow
<1> QED
  BY <1>1, <1>2, PTL DEF Spec

-----------------------------------------------------------------------------
(* The inductive invariant, one caller at a time.                          *)

History(k) ==
    /\ limit <= 0 => grants[k] = <<>>
    /\ limit > 0 => /\ Ordered(k)
                    /\ WindowsApart(k)
                    /\ WindowsFull(k)
                    /\ EntryIsLastWindow(k)
                    /\ NothingRecent(k)

\* A caller whose variables a step leaves alone keeps its history when time
\* stands still or moves on.
LEMMA HistoryFrame ==
    ASSUME TypeOK, TypeOK', NEW k \in Keys, History(k),
           limit' = limit, now' >= now,
           seen'[k] = seen[k], grants'[k] = grants[k], opened'[k] = opened[k]
    PROVE  History(k)'
<1> USE DEF History, TypeOK
<1>1. Ordered(k) => Ordered(k)'
  BY DEF Ordered
<1>2. WindowsApart(k) => WindowsApart(k)'
  BY DEF WindowsApart
<1>3. WindowsFull(k) => WindowsFull(k)'
  BY DEF WindowsFull
<1>4. EntryIsLastWindow(k) => EntryIsLastWindow(k)'
  BY DEF EntryIsLastWindow, First
<1>5. WindowsApart(k) /\ NothingRecent(k) => NothingRecent(k)'
  BY PeriodAssumption DEF NothingRecent, WindowsApart
<1> QED
  BY <1>1, <1>2, <1>3, <1>4, <1>5

\* What an entry says once it has expired, or was never there: nothing the
\* caller was granted opened a window in the last Period.
LEMMA ExpiredMeansNothingRecent ==
    ASSUME TypeOK, NEW k \in Keys, History(k), limit > 0,
           Swept(seen, now)[k] = Absent
    PROVE  \A a \in opened[k] : grants[k][a] + Period < now
<1> USE PeriodAssumption DEF History, TypeOK
<1>1. CASE seen[k] = Absent
  BY <1>1 DEF NothingRecent
<1>2. CASE seen[k] # Absent
  <2>1. Expired(seen[k], now)
    BY <1>2, SweptValue
  <2>2. grants[k][First(k)] + Period < now
    BY <1>2, <2>1 DEF EntryIsLastWindow, Expired
  <2>3. ASSUME NEW a \in opened[k] PROVE grants[k][a] <= grants[k][First(k)]
    BY <1>2 DEF EntryIsLastWindow, WindowsApart, Ordered
  <2>4. ASSUME NEW a \in opened[k] PROVE grants[k][a] \in Nat /\ grants[k][First(k)] \in Nat
    BY <1>2 DEF EntryIsLastWindow, WindowsApart
  <2> QED
    BY <2>2, <2>3, <2>4
<1> QED
  BY <1>1, <1>2

\* Sweeping a caller's entry, whoever called, keeps its history.
LEMMA HistorySwept ==
    ASSUME TypeOK, TypeOK', NEW k \in Keys, History(k), limit > 0,
           limit' = limit, now' = now, seen'[k] = Swept(seen, now)[k],
           grants'[k] = grants[k], opened'[k] = opened[k]
    PROVE  History(k)'
<1>1. CASE Expired(seen[k], now)
  <2>1. seen'[k] = Absent
    BY <1>1, SweptValue DEF TypeOK
  <2>2. NothingRecent(k)'
    BY <2>1, ExpiredMeansNothingRecent DEF NothingRecent
  <2>3. EntryIsLastWindow(k)'
    BY <2>1 DEF EntryIsLastWindow
  <2>4. Ordered(k)' /\ WindowsApart(k)' /\ WindowsFull(k)'
    BY DEF History, Ordered, WindowsApart, WindowsFull, TypeOK
  <2> QED
    BY <2>2, <2>3, <2>4 DEF History, TypeOK
<1>2. CASE ~Expired(seen[k], now)
  <2>1. seen'[k] = seen[k]
    BY <1>2, SweptValue DEF TypeOK
  <2> QED
    BY <2>1, HistoryFrame DEF TypeOK
<1> QED
  BY <1>1, <1>2

\* The caller that is granted: its new grant opens a window more than a Period
\* after the last one, or is the next of the window it has.
LEMMA HistoryGranted ==
    ASSUME TypeOK, TypeOK', NEW k \in Keys, Grant(k), History(k)
    PROVE  History(k)'
<1> DEFINE w == Swept(seen, now)[k]
           n == Len(grants[k])
<1>0. limit > 0 /\ limit' = limit /\ now' = now /\ limit \in Int /\ now \in Nat
  BY DEF Grant, TypeOK
<1>1. /\ n \in Nat
      /\ grants[k] \in Seq(Nat)
      /\ grants'[k] = Append(grants[k], now)
      /\ Len(grants'[k]) = n + 1
      /\ grants'[k][n + 1] = now
      /\ \A i \in 1 .. n : grants'[k][i] = grants[k][i] /\ grants[k][i] \in Nat
      /\ DOMAIN grants[k] = 1 .. n
      /\ DOMAIN grants'[k] = 1 .. (n + 1)
  BY DEF Grant, TypeOK
<1>2. /\ Ordered(k)
      /\ WindowsApart(k)
      /\ WindowsFull(k)
      /\ EntryIsLastWindow(k)
  BY <1>0 DEF History
<1>n. n \in Nat
  BY <1>1
<1>sw. /\ seen \in [Keys -> Window]
       /\ Swept(seen, now) \in [Keys -> Window]
       /\ seen' = Counted(Swept(seen, now), k, now)
       /\ opened \in [Keys -> SUBSET Nat]
  BY SweptType DEF Grant, TypeOK
<1>3. Ordered(k)'
  BY <1>0, <1>1, <1>2 DEF Ordered
<1>4. CASE w = Absent
  <2>1. opened'[k] = opened[k] \cup {n + 1}
    BY <1>sw, <1>4 DEF Grant
  <2>2. seen'[k] = [count |-> 1, reset |-> now + Period]
    BY <1>0, <1>sw, <1>4, CountedValue
  <2>3. \A a \in opened[k] : grants[k][a] + Period < now
    BY <1>0, <1>4, ExpiredMeansNothingRecent
  <2>4. opened[k] \subseteq 1 .. n
    BY <1>1, <1>2 DEF WindowsApart
  <2>5. WindowsApart(k)'
    <3>1. opened'[k] \subseteq DOMAIN grants'[k]
      BY <1>1, <2>1, <2>4
    <3>2. ASSUME NEW a \in opened'[k], NEW b \in opened'[k], a < b
          PROVE  grants'[k][b] - grants'[k][a] > Period
      <4>1. CASE b = n + 1
        <5>1. a \in opened[k] /\ a \in 1 .. n
          BY <2>1, <2>4, <3>2, <4>1, <1>1
        <5> QED
          <6>1. grants'[k][b] = now /\ grants'[k][a] = grants[k][a] /\ grants[k][a] \in Nat
            BY <1>1, <4>1, <5>1
          <6>2. grants[k][a] + Period < now
            BY <2>3, <5>1
          <6> QED
            BY <1>0, <6>1, <6>2, PeriodAssumption
      <4>2. CASE b # n + 1
        <5>1. b \in opened[k] /\ b \in 1 .. n /\ a \in opened[k] /\ a \in 1 .. n
          BY <2>1, <2>4, <3>2, <4>2, <1>1
        <5> QED
          BY <1>1, <1>2, <3>2, <5>1 DEF WindowsApart
      <4> QED
        BY <4>1, <4>2
    <3> QED
      BY <3>1, <3>2 DEF WindowsApart
  <2>6. WindowsFull(k)'
    <3> SUFFICES ASSUME NEW i \in 1 .. (n + 1), i + limit <= n + 1
                 PROVE  \E a \in opened'[k] : i < a /\ a <= i + limit
      BY <1>0, <1>1 DEF WindowsFull
    <3>1. CASE i + limit = n + 1
      <4>1. i < n + 1 /\ n + 1 <= i + limit
        BY <1>0, <1>1, <3>1
      <4>2. n + 1 \in opened'[k]
        BY <2>1
      <4> QED
        BY <4>1, <4>2
    <3>2. CASE i + limit <= n
      <4>1. i \in DOMAIN grants[k]
        BY <1>0, <1>1, <3>2
      <4>2. PICK a \in opened[k] : i < a /\ a <= i + limit
        BY <1>2, <3>2, <4>1 DEF WindowsFull
      <4> QED
        BY <2>1, <4>2
    <3>3. i + limit = n + 1 \/ i + limit <= n
      BY <1>0, <1>n
    <3> QED
      BY <3>1, <3>2, <3>3
  <2>7. EntryIsLastWindow(k)'
    BY <1>0, <1>1, <2>1, <2>2, <2>4, PeriodAssumption DEF EntryIsLastWindow, First
  <2>8. NothingRecent(k)'
    BY <2>2 DEF NothingRecent, Absent
  <2> QED
    BY <1>0, <1>3, <2>5, <2>6, <2>7, <2>8 DEF History
<1>5. CASE w # Absent
  <2>1. opened'[k] = opened[k]
    BY <1>sw, <1>5 DEF Grant
  <2>2. w = seen[k]
    BY <1>0, <1>sw, <1>5, SweptValue
  <2>3. seen'[k] = [count |-> seen[k].count + 1, reset |-> seen[k].reset]
    <3>1. Counted(Swept(seen, now), k, now)[k] = [count |-> w.count + 1, reset |-> w.reset]
      BY <1>0, <1>sw, <1>5, CountedValue
    <3> QED
      BY <1>sw, <2>2, <3>1
  <2>4. seen[k].count < limit
    BY <1>5, <2>2 DEF Grant, May
  <2>5. /\ seen[k].count \in 1 .. limit
        /\ First(k) \in opened[k]
        /\ seen[k].reset = grants[k][First(k)] + Period
        /\ \A a \in opened[k] : a <= First(k)
    BY <1>2, <1>5, <2>2 DEF EntryIsLastWindow
  <2>6. opened[k] \subseteq 1 .. n
    BY <1>1, <1>2 DEF WindowsApart
  <2>7. First(k) = n - seen[k].count + 1 /\ First(k) \in 1 .. n
    BY <2>5, <2>6 DEF First
  <2>8. First(k)' = First(k)
    BY <1>1, <2>3, <2>5, <2>7 DEF First
  <2>9. WindowsApart(k)'
    BY <1>1, <1>2, <2>1, <2>6 DEF WindowsApart
  <2>10. WindowsFull(k)'
    <3> SUFFICES ASSUME NEW i \in 1 .. (n + 1), i + limit <= n + 1
                 PROVE  \E a \in opened[k] : i < a /\ a <= i + limit
      BY <1>0, <1>1, <2>1 DEF WindowsFull
    <3>1. CASE i + limit = n + 1
      <4>1. seen[k].count \in Int /\ 1 <= seen[k].count /\ seen[k].count < limit
        BY <1>0, <2>4, <2>5
      <4>2. i = n + 1 - limit /\ First(k) = n - seen[k].count + 1 /\ n \in Int
        BY <1>0, <1>1, <2>7, <3>1
      <4>3. i < First(k) /\ First(k) <= i + limit
        BY <1>0, <4>1, <4>2
      <4> QED
        BY <2>5, <4>3
    <3>2. CASE i + limit <= n
      <4>1. i \in DOMAIN grants[k]
        BY <1>0, <1>1, <3>2
      <4> QED
        BY <1>2, <3>2, <4>1 DEF WindowsFull
    <3>3. i + limit = n + 1 \/ i + limit <= n
      BY <1>0, <1>n
    <3> QED
      BY <3>1, <3>2, <3>3
  <2>11. EntryIsLastWindow(k)'
    <3>1. seen'[k].count \in 1 .. limit'
      BY <1>0, <2>3, <2>4, <2>5
    <3>2. First(k)' \in opened'[k] /\ \A a \in opened'[k] : a <= First(k)'
      BY <2>1, <2>5, <2>8
    <3>3. seen'[k].reset = grants'[k][First(k)'] + Period
      <4>1. grants'[k][First(k)] = grants[k][First(k)]
        BY <1>1, <2>7
      <4> QED
        BY <2>3, <2>5, <2>8, <4>1
    <3> QED
      BY <3>1, <3>2, <3>3 DEF EntryIsLastWindow
  <2>12. NothingRecent(k)'
    BY <2>3, <2>5 DEF NothingRecent, Absent
  <2>13. limit' > 0 /\ ~(limit' <= 0)
    BY <1>0
  <2> QED
    BY <1>3, <2>9, <2>10, <2>11, <2>12, <2>13 DEF History
<1> QED
  BY <1>4, <1>5

\* The whole invariant is inductive: the map of windows always agrees with the
\* history of grants.
THEOREM WindowHistoryHolds == Spec => []WindowHistory
<1>1. Init => WindowHistory
  <2> SUFFICES ASSUME Init, NEW j \in Keys PROVE History(j)
    BY DEF WindowHistory, History
  <2>1. grants[j] = <<>> /\ opened[j] = {} /\ seen[j] = Absent
    BY DEF Init, NobodySeen
  <2>2. limit \in Int
    BY LimitsAssumption DEF Init
  <2> QED
    BY <2>1, <2>2 DEF History, Ordered, WindowsApart, WindowsFull,
                      EntryIsLastWindow, NothingRecent
<1>2. TypeOK /\ TypeOK' /\ WindowHistory /\ [Next]_vars => WindowHistory'
  <2> SUFFICES ASSUME TypeOK, TypeOK', WindowHistory, [Next]_vars,
                      NEW j \in Keys
               PROVE  History(j)'
    BY DEF WindowHistory, History
  <2>0. History(j)
    BY DEF WindowHistory, History
  <2>1. CASE Tick
    BY <2>0, <2>1, HistoryFrame DEF Tick, TypeOK
  <2>2. CASE Restart
    BY <2>2 DEF Restart, TypeOK, History, Ordered, WindowsApart, WindowsFull,
                EntryIsLastWindow, NothingRecent, NobodySeen
  <2>3. ASSUME NEW k \in Keys, AllowUnlimited(k) PROVE History(j)'
    BY <2>0, <2>3, HistoryFrame DEF AllowUnlimited, TypeOK
  <2>4. ASSUME NEW k \in Keys, Grant(k) PROVE History(j)'
    <3>1. CASE j = k
      BY <2>0, <2>4, <3>1, HistoryGranted
    <3>2. CASE j # k
      <4>1. seen'[j] = Swept(seen, now)[j]
        <5>1. Swept(seen, now) \in [Keys -> Window] /\ now \in Nat
          BY SweptType DEF TypeOK
        <5> QED
          BY <2>4, <3>2, <5>1, CountedValue DEF Grant
      <4>2. grants'[j] = grants[j] /\ opened'[j] = opened[j]
        BY <2>4, <3>2 DEF Grant, TypeOK
      <4> QED
        BY <2>0, <2>4, <4>1, <4>2, HistorySwept DEF Grant
    <3> QED
      BY <3>1, <3>2
  <2>5. ASSUME NEW k \in Keys, Refuse(k) PROVE History(j)'
    BY <2>0, <2>5, HistorySwept DEF Refuse
  <2>6. CASE UNCHANGED vars
    BY <2>0, <2>6, HistoryFrame DEF vars, TypeOK
  <2> QED
    BY <2>1, <2>2, <2>3, <2>4, <2>5, <2>6 DEF Next, Allow
<1> QED
  BY <1>1, <1>2, TypeCorrect, PTL DEF Spec

-----------------------------------------------------------------------------
(* What follows from it.                                                   *)

\* Any 2*limit + 1 consecutive grants to one caller span more than a Period.
THEOREM SlidingBoundHolds == Spec => []SlidingBound
<1>1. TypeOK /\ WindowHistory => SlidingBound
  <2> SUFFICES ASSUME TypeOK, WindowHistory, NEW k \in Keys,
                      NEW i \in DOMAIN grants[k], NEW j \in DOMAIN grants[k],
                      j = i + 2 * limit
               PROVE  grants[k][j] - grants[k][i] > Period
    BY DEF SlidingBound
  <2>1. limit > 0 /\ limit \in Int
    BY DEF WindowHistory, TypeOK
  <2>2. Ordered(k) /\ WindowsApart(k) /\ WindowsFull(k)
    BY <2>1 DEF WindowHistory
  <2>3. DOMAIN grants[k] = 1 .. Len(grants[k]) /\ Len(grants[k]) \in Nat
    BY DEF TypeOK
  <2>4. PICK a \in opened[k] : i < a /\ a <= i + limit
    <3>1. i + limit <= Len(grants[k])
      BY <2>1, <2>3
    <3> QED
      BY <2>2, <3>1 DEF WindowsFull
  <2>5. a \in DOMAIN grants[k]
    BY <2>2 DEF WindowsApart
  <2>6. PICK b \in opened[k] : a < b /\ b <= a + limit
    <3>1. a + limit <= Len(grants[k])
      BY <2>1, <2>3, <2>4, <2>5
    <3> QED
      BY <2>2, <2>5, <3>1 DEF WindowsFull
  <2>7. b \in DOMAIN grants[k]
    BY <2>2 DEF WindowsApart
  <2>8. grants[k][b] - grants[k][a] > Period
    BY <2>2, <2>6 DEF WindowsApart
  <2>9. grants[k][i] <= grants[k][a] /\ grants[k][b] <= grants[k][j]
    <3>1. i <= a /\ b <= j
      BY <2>1, <2>3, <2>4, <2>5, <2>6, <2>7
    <3> QED
      BY <2>2, <2>5, <2>7, <3>1 DEF Ordered
  <2>10. \A x \in DOMAIN grants[k] : grants[k][x] \in Nat
    BY DEF TypeOK
  <2>11. /\ grants[k][i] \in Nat /\ grants[k][j] \in Nat
         /\ grants[k][a] \in Nat /\ grants[k][b] \in Nat
    BY <2>5, <2>7, <2>10
  <2> QED
    BY <2>8, <2>9, <2>11, PeriodAssumption
<1> QED
  BY <1>1, TypeCorrect, WindowHistoryHolds, PTL

\* A refused caller has had limit grants within the last Period.
THEOREM RefusalsJustified == Spec => RefusedOnlyWhenSpent
<1> DEFINE Justified ==
      \A k \in Keys :
         verdict' # verdict /\ verdict'.key = k /\ ~verdict'.ok =>
            /\ limit > 0
            /\ Len(grants[k]) >= limit
            /\ now - grants[k][Len(grants[k]) - limit + 1] <= Period
<1>1. TypeOK /\ WindowHistory /\ [Next]_vars => [Justified]_vars
  <2> SUFFICES ASSUME TypeOK, WindowHistory, Next, NEW k \in Keys,
                      verdict' # verdict, verdict'.key = k, ~verdict'.ok
               PROVE  /\ limit > 0
                      /\ Len(grants[k]) >= limit
                      /\ now - grants[k][Len(grants[k]) - limit + 1] <= Period
    OBVIOUS
  <2>1. Refuse(k)
    <3>1. PICK j \in Keys : Allow(j)
      BY DEF Next, Tick, Restart
    <3>2. ~AllowUnlimited(j) /\ ~Grant(j)
      BY <3>1 DEF AllowUnlimited, Grant
    <3>3. Refuse(j)
      BY <3>1, <3>2 DEF Allow
    <3> QED
      BY <3>3 DEF Refuse
  <2>2. limit > 0 /\ limit \in Int /\ now \in Nat
    BY <2>1 DEF Refuse, TypeOK
  <2>3. Swept(seen, now)[k] # Absent /\ ~(Swept(seen, now)[k].count < limit)
    BY <2>1 DEF Refuse, May
  <2>4. ~Expired(seen[k], now) /\ Swept(seen, now)[k] = seen[k]
    BY <2>3, SweptValue DEF TypeOK
  <2>5. /\ seen[k].count \in 1 .. limit
        /\ First(k) \in opened[k]
        /\ seen[k].reset = grants[k][First(k)] + Period
        /\ opened[k] \subseteq DOMAIN grants[k]
    BY <2>2, <2>3, <2>4 DEF WindowHistory, EntryIsLastWindow, WindowsApart
  <2>6. seen[k].count = limit
    BY <2>2, <2>3, <2>4, <2>5
  <2>7. /\ First(k) = Len(grants[k]) - limit + 1
        /\ First(k) \in 1 .. Len(grants[k])
        /\ grants[k][First(k)] \in Nat
        /\ Len(grants[k]) \in Nat
    BY <2>5, <2>6 DEF First, TypeOK
  <2>8. now <= seen[k].reset
    BY <2>2, <2>4, <2>5, <2>7, PeriodAssumption DEF Expired
  <2> QED
    BY <2>2, <2>5, <2>7, <2>8, PeriodAssumption
<1>2. Spec => [][Justified]_vars
  BY <1>1, TypeCorrect, WindowHistoryHolds, PTL DEF Spec
<1> QED
  BY <1>2 DEF RefusedOnlyWhenSpent

\* What a call leaves of a window that is still open, its own caller's or not.
LEMMA OpenWindowKept ==
    ASSUME TypeOK, NEW k \in Keys, NEW j \in Keys, Grant(k) \/ Refuse(k),
           seen[j] # Absent, ~Expired(seen[j], now)
    PROVE  /\ seen'[j].reset = seen[j].reset
           /\ seen'[j].count >= seen[j].count
<1>1. /\ seen \in [Keys -> Window] /\ now \in Nat
      /\ Swept(seen, now) \in [Keys -> Window]
      /\ Swept(seen, now)[j] = seen[j]
      /\ seen[j].count \in Nat
  BY SweptType, SweptValue DEF TypeOK, Window
<1>2. CASE Grant(k)
  <2>1. seen' = Counted(Swept(seen, now), k, now)
    BY <1>2 DEF Grant
  <2>2. CASE j = k
    <3>1. LET w == Swept(seen, now)[j] IN
          Counted(Swept(seen, now), j, now)[j] = [count |-> w.count + 1, reset |-> w.reset]
      <4>1. Swept(seen, now)[j] # Absent
        BY <1>1
      <4> QED
        BY <1>1, <4>1, CountedValue
    <3>2. seen'[j] = [count |-> seen[j].count + 1, reset |-> seen[j].reset]
      BY <1>1, <2>1, <2>2, <3>1
    <3> QED
      BY <1>1, <3>2
  <2>3. CASE j # k
    <3>1. seen'[j] = seen[j]
      BY <1>1, <2>1, <2>3, CountedValue
    <3> QED
      BY <1>1, <3>1
  <2> QED
    BY <2>2, <2>3
<1>3. CASE Refuse(k)
  <2>1. seen'[j] = seen[j]
    BY <1>1, <1>3 DEF Refuse
  <2> QED
    BY <1>1, <2>1
<1> QED
  BY <1>2, <1>3

\* No step but a restart moves the reset of an open window or takes from its count.
THEOREM OpenWindowsStayHolds == Spec => OpenWindowsStay
<1> DEFINE Stay ==
      \/ grants' = [k \in Keys |-> <<>>]
      \/ \A k \in Keys :
            seen[k] # Absent /\ ~Expired(seen[k], now) =>
                /\ seen'[k].reset = seen[k].reset
                /\ seen'[k].count >= seen[k].count
<1>1. TypeOK /\ [Next]_vars => [Stay]_vars
  <2> SUFFICES ASSUME TypeOK, Next PROVE Stay
    OBVIOUS
  <2>1. ASSUME seen' = seen PROVE Stay
    BY <2>1 DEF TypeOK, Window
  <2>2. CASE Tick
    BY <2>1, <2>2 DEF Tick
  <2>3. CASE Restart
    BY <2>3 DEF Restart
  <2>4. ASSUME NEW k \in Keys, AllowUnlimited(k) PROVE Stay
    BY <2>1, <2>4 DEF AllowUnlimited
  <2>5. ASSUME NEW k \in Keys, Grant(k) \/ Refuse(k) PROVE Stay
    BY <2>5, OpenWindowKept
  <2> QED
    BY <2>2, <2>3, <2>4, <2>5 DEF Next, Allow
<1>2. Spec => [][Stay]_vars
  BY <1>1, TypeCorrect, PTL DEF Spec
<1> QED
  BY <1>2 DEF OpenWindowsStay

\* A caller whose entry outlives the sweep has a grant in the last Period.
LEMMA SurvivorIsRecent ==
    ASSUME TypeOK, NEW k \in Keys, History(k), limit > 0,
           Swept(seen, now)[k] # Absent
    PROVE  /\ grants[k] # <<>>
           /\ now - grants[k][Len(grants[k])] <= Period
<1> DEFINE n == Len(grants[k])
<1>1. /\ n \in Nat
      /\ DOMAIN grants[k] = 1 .. n
      /\ now \in Nat
      /\ \A i \in 1 .. n : grants[k][i] \in Nat
  BY DEF TypeOK
<1>2. seen[k] # Absent /\ ~Expired(seen[k], now)
  BY SweptValue DEF TypeOK
<1>3. Ordered(k) /\ WindowsApart(k) /\ EntryIsLastWindow(k)
  BY DEF History, TypeOK
<1>4. /\ First(k) \in 1 .. n
      /\ seen[k].reset = grants[k][First(k)] + Period
  BY <1>1, <1>2, <1>3 DEF EntryIsLastWindow, WindowsApart
<1>5. n \in 1 .. n /\ First(k) <= n
  BY <1>1, <1>4
<1>6. grants[k][First(k)] <= grants[k][n] /\ grants[k][n] \in Nat /\ grants[k][First(k)] \in Nat
  BY <1>1, <1>3, <1>4, <1>5 DEF Ordered
<1>7. now <= grants[k][First(k)] + Period
  BY <1>1, <1>2, <1>4, <1>6, PeriodAssumption DEF Expired
<1>8. now - grants[k][n] <= Period
  BY <1>1, <1>6, <1>7, PeriodAssumption
<1> QED
  BY <1>1, <1>5, <1>8

\* After a call under a limit, everyone remembered was granted something in the
\* last Period: the map is as large as the traffic of a Period, and no larger.
THEOREM RemembersOnlyRecentHolds == Spec => RemembersOnlyRecent
<1> DEFINE Recent ==
      verdict' # verdict /\ limit > 0 =>
         \A k \in Keys : seen'[k] # Absent =>
            /\ grants'[k] # <<>>
            /\ now - grants'[k][Len(grants'[k])] <= Period
<1>1. TypeOK /\ WindowHistory /\ [Next]_vars => [Recent]_vars
  <2> SUFFICES ASSUME TypeOK, WindowHistory, Next, verdict' # verdict, limit > 0,
                      NEW j \in Keys, seen'[j] # Absent
               PROVE  /\ grants'[j] # <<>>
                      /\ now - grants'[j][Len(grants'[j])] <= Period
    OBVIOUS
  <2>0. History(j)
    BY DEF WindowHistory, History
  <2>1. PICK k \in Keys : Grant(k) \/ Refuse(k)
    BY DEF Next, Tick, Restart, Allow, AllowUnlimited, TypeOK
  <2>2. ASSUME seen'[j] = Swept(seen, now)[j], grants'[j] = grants[j]
        PROVE  /\ grants'[j] # <<>>
               /\ now - grants'[j][Len(grants'[j])] <= Period
    BY <2>0, <2>2, SurvivorIsRecent
  <2>3. CASE Refuse(k)
    BY <2>2, <2>3 DEF Refuse
  <2>4. CASE Grant(k) /\ j # k
    <3>1. Swept(seen, now) \in [Keys -> Window] /\ now \in Nat
      BY SweptType DEF TypeOK
    <3>2. seen'[j] = Swept(seen, now)[j]
      BY <2>4, <3>1, CountedValue DEF Grant
    <3>3. grants'[j] = grants[j]
      BY <2>4 DEF Grant, TypeOK
    <3> QED
      BY <2>2, <3>2, <3>3
  <2>5. CASE Grant(k) /\ j = k
    <3>1. grants[j] \in Seq(Nat) /\ grants'[j] = Append(grants[j], now) /\ now \in Nat
      BY <2>5 DEF Grant, TypeOK
    <3>2. grants'[j] # <<>> /\ grants'[j][Len(grants'[j])] = now
      BY <3>1
    <3> QED
      BY <3>1, <3>2, PeriodAssumption
  <2> QED
    BY <2>1, <2>3, <2>4, <2>5
<1>2. Spec => [][Recent]_vars
  BY <1>1, TypeCorrect, WindowHistoryHolds, PTL DEF Spec
<1> QED
  BY <1>2 DEF RemembersOnlyRecent
=============================================================================
