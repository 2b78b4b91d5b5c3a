------------------------ MODULE MemoryLimiterProofs ------------------------
(***************************************************************************)
(* The limiter as goroutines run it is the limiter of RateLimit, for every *)
(* number of goroutines and callers, every period, limit and length of     *)
(* run: first what the mutex keeps true, then the refinement step by step. *)
(***************************************************************************)
EXTENDS MemoryLimiter, TLAPS

-----------------------------------------------------------------------------
\* Counting keeps the map a map of windows.
LEMMA CountedType ==
    ASSUME NEW s \in [Keys -> Window], NEW t \in Nat, NEW k \in Keys
    PROVE  Counted(s, k, t) \in [Keys -> Window]
  BY PeriodAssumption DEF Counted, Window, Absent

-----------------------------------------------------------------------------
(* Type correctness.                                                       *)

\* The history variables are typed too: the refinement needs them.
Typed ==
    /\ TypeOK
    /\ verdict \in Abstract!Verdict
    /\ read \in 0 .. MaxNow
    /\ grants \in [Keys -> Seq(Nat)]
    /\ opened \in [Keys -> SUBSET Nat]

LEMMA TypedInit == Init => Typed
<1> SUFFICES ASSUME Init PROVE Typed
  OBVIOUS
<1>1. NobodySeen \in [Keys -> Window]
  BY DEF NobodySeen, Absent, Window
<1>2. verdict \in Abstract!Verdict
  BY DEF Init, Abstract!Verdict
<1> QED
  BY <1>1, <1>2, MaxNowAssumption DEF Init, Typed, TypeOK

LEMMA TypedNext == Typed /\ [Next]_vars => Typed'
<1> SUFFICES ASSUME Typed, [Next]_vars PROVE Typed'
  OBVIOUS
<1> USE MaxNowAssumption DEF Typed, TypeOK
<1>0. Absent \in Window /\ NobodySeen \in [Keys -> Window]
  BY DEF NobodySeen, Absent, Window
<1>1. CASE Tick
  BY <1>1 DEF Tick, local, history
<1>2. CASE Restart
  BY <1>0, <1>2 DEF Restart
<1>3. ASSUME NEW g \in Goroutines, NEW k \in Keys, Call(g, k) PROVE Typed'
  BY <1>3 DEF Call, Goto, shared, history
<1>4. ASSUME NEW g \in Goroutines, ReturnUnlimited(g) PROVE Typed'
  BY <1>4 DEF ReturnUnlimited, Goto, shared, history, Abstract!Verdict
<1>5. ASSUME NEW g \in Goroutines, Lock(g) PROVE Typed'
  BY <1>5 DEF Lock, Goto, history
<1>6. ASSUME NEW g \in Goroutines, ReadClock(g) PROVE Typed'
  BY <1>6 DEF ReadClock, Goto, shared
<1>7. ASSUME NEW g \in Goroutines, Sweep(g) PROVE Typed'
  <2>1. PICK k \in Keys :
          /\ seen' = [seen EXCEPT ![k] = Absent]
          /\ swept' = [swept EXCEPT ![k] = seen[k]]
    BY <1>7 DEF Sweep
  <2>2. seen' \in [Keys -> Window] /\ swept' \in [Keys -> Window]
    BY <1>0, <2>1
  <2> QED
    BY <1>7, <2>2 DEF Sweep, local
<1>8. ASSUME NEW g \in Goroutines, Decide(g) PROVE Typed'
  <2>1. key[g] \in Keys /\ at[g] \in Nat
    OBVIOUS
  <2>2. seen' \in [Keys -> Window]
    BY <1>8, <2>1, CountedType DEF Decide
  <2>3. verdict' \in Abstract!Verdict
    BY <1>8, <2>1 DEF Decide, Abstract!Verdict, May
  <2>4. grants' \in [Keys -> Seq(Nat)] /\ opened' \in [Keys -> SUBSET Nat]
    BY <1>8, <2>1 DEF Decide
  <2> QED
    BY <1>0, <1>8, <2>2, <2>3, <2>4 DEF Decide, Goto
<1>9. ASSUME NEW g \in Goroutines, Unlock(g) PROVE Typed'
  BY <1>9 DEF Unlock, Goto, Released, history
<1>10. CASE UNCHANGED vars
  BY <1>10 DEF vars, shared, local, history
<1> QED
  BY <1>1, <1>2, <1>3, <1>4, <1>5, <1>6, <1>7, <1>8, <1>9, <1>10 DEF Next, Inside

\* Every step keeps the variables in their types.
THEOREM TypeCorrect == Spec => []TypeOK
<1>1. Typed => TypeOK
  BY DEF Typed
<1> QED
  BY <1>1, TypedInit, TypedNext, PTL DEF Spec

-----------------------------------------------------------------------------
(* What the mutex keeps true.                                              *)

Within(g) == pc[g] \in {"locked", "sweeping", "unlocking"}

\* Whoever is past Lock holds the mutex, of a limited form, and sweeps by the
\* last reading of the clock.
Exclusive ==
    \A g \in Goroutines :
        /\ Within(g) => holder = g /\ limit > 0
        /\ pc[g] = "sweeping" => at[g] = read

\* swept is the work of the sweep under way, and of that one alone.
SweptIsGone ==
    /\ \A k \in Keys : swept[k] # Absent => seen[k] = Absent /\ Expired(swept[k], read)
    /\ (\A g \in Goroutines : pc[g] # "sweeping") => swept = NobodySeen

Mutex == Exclusive /\ SweptIsGone /\ read <= now

LEMMA MutexInit == Init => Mutex
  BY DEF Init, Mutex, Exclusive, SweptIsGone, Within, NobodySeen

\* Two goroutines are never past Lock together.
LEMMA OneWithin ==
    ASSUME Exclusive, NEW g \in Goroutines, NEW h \in Goroutines, Within(g), Within(h)
    PROVE  g = h
  BY DEF Exclusive

LEMMA MutexNext == Typed /\ Mutex /\ [Next]_vars => Mutex'
<1> SUFFICES ASSUME Typed, Mutex, [Next]_vars PROVE Mutex'
  OBVIOUS
<1> USE DEF Typed, TypeOK, Mutex
<1>0. now \in Nat /\ read \in Nat /\ limit \in Int
  BY MaxNowAssumption, LimitsAssumption
<1>1. CASE Tick
  BY <1>0, <1>1 DEF Tick, local, history, Exclusive, SweptIsGone, Within
<1>2. CASE Restart
  BY <1>2 DEF Restart, Exclusive, SweptIsGone, Within, NobodySeen
<1>3. ASSUME NEW g \in Goroutines, NEW k \in Keys, Call(g, k) PROVE Mutex'
  BY <1>3 DEF Call, Goto, shared, history, Exclusive, SweptIsGone, Within
<1>4. ASSUME NEW g \in Goroutines, ReturnUnlimited(g) PROVE Mutex'
  BY <1>4 DEF ReturnUnlimited, Goto, shared, history, Exclusive, SweptIsGone, Within
<1>5. ASSUME NEW g \in Goroutines, Lock(g) PROVE Mutex'
  <2>1. \A h \in Goroutines : ~Within(h)
    BY <1>5, GoroutinesAssumption DEF Lock, Unlocked, Exclusive
  <2>2. Exclusive'
    BY <1>5, <2>1 DEF Lock, Goto, history, Exclusive, Within
  <2>3. SweptIsGone'
    BY <1>5 DEF Lock, Goto, history, SweptIsGone
  <2> QED
    BY <1>5, <2>2, <2>3 DEF Lock, history
<1>6. ASSUME NEW g \in Goroutines, ReadClock(g) PROVE Mutex'
  <2>1. \A h \in Goroutines : h # g => ~Within(h)
    BY <1>6, OneWithin DEF ReadClock, Within
  <2>2. swept = NobodySeen
    BY <1>6, <2>1 DEF ReadClock, SweptIsGone, Within
  <2>3. Exclusive'
    BY <1>6, <2>1 DEF ReadClock, Goto, shared, Exclusive, Within
  <2>4. SweptIsGone'
    BY <1>6, <2>2 DEF ReadClock, Goto, shared, SweptIsGone, NobodySeen
  <2> QED
    BY <1>0, <1>6, <2>3, <2>4 DEF ReadClock, shared
<1>7. ASSUME NEW g \in Goroutines, Sweep(g) PROVE Mutex'
  <2>1. PICK k \in Keys :
          /\ seen[k] # Absent
          /\ Expired(seen[k], at[g])
          /\ seen' = [seen EXCEPT ![k] = Absent]
          /\ swept' = [swept EXCEPT ![k] = seen[k]]
    BY <1>7 DEF Sweep
  <2>2. at[g] = read
    BY <1>7 DEF Sweep, Exclusive
  <2>3. SweptIsGone'
    BY <1>7, <2>1, <2>2 DEF Sweep, local, SweptIsGone, Expired
  <2> QED
    BY <1>7, <2>3 DEF Sweep, local, Exclusive, Within
<1>8. ASSUME NEW g \in Goroutines, Decide(g) PROVE Mutex'
  <2>1. Exclusive'
    BY <1>8 DEF Decide, Goto, Exclusive, Within
  <2>2. SweptIsGone'
    BY <1>8 DEF Decide, SweptIsGone, NobodySeen
  <2> QED
    BY <1>8, <2>1, <2>2 DEF Decide
<1>9. ASSUME NEW g \in Goroutines, Unlock(g) PROVE Mutex'
  <2>1. \A h \in Goroutines : h # g => ~Within(h)
    BY <1>9, OneWithin DEF Unlock, Within
  <2>2. Exclusive'
    BY <1>9, <2>1 DEF Unlock, Goto, Released, history, Exclusive, Within
  <2>3. SweptIsGone'
    BY <1>9 DEF Unlock, Goto, history, SweptIsGone
  <2> QED
    BY <1>9, <2>2, <2>3 DEF Unlock, history
<1>10. CASE UNCHANGED vars
  BY <1>10 DEF vars, shared, local, history, Exclusive, SweptIsGone, Within
<1> QED
  BY <1>1, <1>2, <1>3, <1>4, <1>5, <1>6, <1>7, <1>8, <1>9, <1>10 DEF Next, Inside

\* The critical section has at most one goroutine in it, and its sweep goes by
\* the last reading of the clock, which is never ahead of the clock.
THEOREM MutexHolds == Spec => []Mutex
  BY TypedInit, TypedNext, MutexInit, MutexNext, PTL DEF Spec

-----------------------------------------------------------------------------
(* The refinement.                                                         *)

\* The map the abstract limiter sees: swept entries are still there.
AbsSeen == [k \in Keys |-> IF swept[k] # Absent THEN swept[k] ELSE seen[k]]

LEMMA AbstractInit == Init => Abstract!Init
<1> SUFFICES ASSUME Init PROVE Abstract!Init
  OBVIOUS
<1>1. [k \in Keys |-> IF swept[k] # Absent THEN swept[k] ELSE seen[k]] = Abstract!NobodySeen
  BY DEF Init, NobodySeen, Absent, Abstract!NobodySeen, Abstract!Absent
<1> QED
  BY <1>1 DEF Init, Abstract!Init

\* A step that leaves the abstract variables alone is a stutter.
LEMMA AbstractStutter ==
    ASSUME UNCHANGED <<read, limit, verdict, grants, opened>>, AbsSeen' = AbsSeen
    PROVE  UNCHANGED Abstract!vars
  BY DEF AbsSeen, Abstract!vars

\* Reading the clock is the time that passed since the last reading.
LEMMA ReadClockIsTick ==
    ASSUME Typed, Mutex, NEW g \in Goroutines, ReadClock(g)
    PROVE  [Abstract!Next]_(Abstract!vars)
<1>1. read' = now /\ now \in 0 .. MaxNow /\ read \in Nat /\ read <= now /\ MaxNow \in Nat
  BY MaxNowAssumption DEF ReadClock, Typed, TypeOK, Mutex
<1>2. UNCHANGED <<limit, verdict, grants, opened>> /\ AbsSeen' = AbsSeen
  BY DEF ReadClock, shared, AbsSeen
<1>3. CASE now = read
  BY <1>1, <1>2, <1>3, AbstractStutter
<1>4. CASE now # read
  <2>1. now \in read + 1 .. MaxNow
    BY <1>1, <1>4
  <2>2. Abstract!Tick
    BY <1>1, <1>2, <2>1 DEF AbsSeen, Abstract!Tick
  <2> QED
    BY <2>2 DEF Abstract!Next
<1> QED
  BY <1>3, <1>4

\* What a goroutine finds when its sweep is over is the swept abstract map.
LEMMA SweepDone ==
    ASSUME Typed, Mutex, NEW g \in Goroutines, pc[g] = "sweeping",
           \A k \in Keys : seen[k] # Absent => ~Expired(seen[k], at[g])
    PROVE  seen = Abstract!Swept(AbsSeen, read)
<1>1. /\ seen \in [Keys -> Window] /\ swept \in [Keys -> Window]
      /\ at[g] = read
      /\ \A k \in Keys : swept[k] # Absent => seen[k] = Absent /\ Expired(swept[k], read)
  BY DEF Typed, TypeOK, Mutex, Exclusive, SweptIsGone
<1>2. ASSUME NEW k \in Keys
      PROVE  seen[k] = IF Expired(AbsSeen[k], read) THEN Absent ELSE AbsSeen[k]
  BY <1>1 DEF AbsSeen
<1>3. seen = [k \in Keys |-> IF Expired(AbsSeen[k], read) THEN Absent ELSE AbsSeen[k]]
  BY <1>1, <1>2
<1> QED
  BY <1>3 DEF Expired, Absent, Abstract!Swept, Abstract!Expired, Abstract!Absent

\* A call takes effect when its goroutine decides: the sweep it has finished,
\* the look-up and the count are one Grant or one Refuse at its clock reading.
LEMMA DecideIsAllow ==
    ASSUME Typed, Mutex, NEW g \in Goroutines, NEW k \in Keys, key[g] = k, Decide(g)
    PROVE  Abstract!Allow(k)
<1> DEFINE old == Abstract!Swept(AbsSeen, read)
           ok == May(seen, k, limit)
<1>1. /\ pc[g] = "sweeping" /\ limit > 0 /\ at[g] = read /\ k \in Keys
      /\ seen \in [Keys -> Window]
      /\ grants \in [Keys -> Seq(Nat)] /\ opened \in [Keys -> SUBSET Nat]
  BY DEF Decide, Typed, TypeOK, Mutex, Exclusive, Within
<1>2. seen = old
  BY <1>1, SweepDone DEF Decide
<1>3. AbsSeen' = seen'
  <2>1. swept' = NobodySeen
    BY DEF Decide
  <2>2. seen' \in [Keys -> Window]
    <3>1. at[g] \in Nat
      BY MaxNowAssumption DEF Typed, TypeOK
    <3>2. Counted(seen, k, at[g]) \in [Keys -> Window]
      BY <1>1, <3>1, CountedType
    <3> QED
      BY <1>1, <3>2 DEF Decide
  <2> QED
    BY <2>1, <2>2 DEF AbsSeen, NobodySeen
<1>4. CASE ok
  <2>1. Abstract!May(old, k, limit)
    BY <1>2, <1>4 DEF May, Absent, Abstract!May, Abstract!Absent
  <2>2. AbsSeen' = Abstract!Counted(old, k, read)
    <3>1. seen' = Counted(seen, k, read)
      BY <1>1, <1>4 DEF Decide
    <3> QED
      BY <1>2, <1>3, <3>1 DEF Counted, Absent, Abstract!Counted, Abstract!Absent
  <2>3. /\ verdict' = [key |-> k, ok |-> TRUE, at |-> read]
        /\ grants' = [grants EXCEPT ![k] = Append(@, read)]
        /\ UNCHANGED <<read, limit>>
    BY <1>1, <1>4 DEF Decide, May
  <2>4. opened' = [opened EXCEPT ![k] =
                     IF old[k] = Absent THEN @ \cup {Len(grants[k]) + 1} ELSE @]
    BY <1>1, <1>2, <1>4 DEF Decide
  <2>5. Abstract!Grant(k)
    BY <1>1, <2>1, <2>2, <2>3, <2>4 DEF Abstract!Grant, AbsSeen, Absent, Abstract!Absent
  <2> QED
    BY <2>5 DEF Abstract!Allow
<1>5. CASE ~ok
  <2>1. ~Abstract!May(old, k, limit)
    BY <1>2, <1>5 DEF May, Absent, Abstract!May, Abstract!Absent
  <2>2. AbsSeen' = old
    BY <1>2, <1>3, <1>5 DEF Decide
  <2>3. /\ verdict' = [key |-> k, ok |-> FALSE, at |-> read]
        /\ UNCHANGED <<read, limit, grants, opened>>
    BY <1>1, <1>5 DEF Decide, May
  <2>4. Abstract!Refuse(k)
    BY <1>1, <2>1, <2>2, <2>3 DEF Abstract!Refuse, AbsSeen
  <2> QED
    BY <2>4 DEF Abstract!Allow
<1> QED
  BY <1>4, <1>5

\* Every step is a step of the abstract limiter, or none it can see.
LEMMA AbstractStep ==
    ASSUME Typed, Mutex, [Next]_vars
    PROVE  [Abstract!Next]_(Abstract!vars)
<1> USE DEF Typed, TypeOK
<1>1. CASE Tick
  BY <1>1, AbstractStutter DEF Tick, history, AbsSeen
<1>2. CASE Restart
  <2>1. AbsSeen' = Abstract!NobodySeen
    BY <1>2 DEF Restart, AbsSeen, NobodySeen, Absent, Abstract!NobodySeen, Abstract!Absent
  <2>2. Abstract!Restart
    BY <1>2, <2>1 DEF Restart, AbsSeen, Abstract!Restart
  <2> QED
    BY <2>2 DEF Abstract!Next
<1>3. ASSUME NEW g \in Goroutines, NEW k \in Keys, Call(g, k)
      PROVE  [Abstract!Next]_(Abstract!vars)
  BY <1>3, AbstractStutter DEF Call, shared, history, AbsSeen
<1>4. ASSUME NEW g \in Goroutines, ReturnUnlimited(g)
      PROVE  [Abstract!Next]_(Abstract!vars)
  <2>1. Abstract!AllowUnlimited(key[g]) /\ key[g] \in Keys
    BY <1>4 DEF ReturnUnlimited, shared, history, AbsSeen, Abstract!AllowUnlimited
  <2> QED
    BY <2>1 DEF Abstract!Next, Abstract!Allow
<1>5. ASSUME NEW g \in Goroutines, Lock(g) PROVE [Abstract!Next]_(Abstract!vars)
  BY <1>5, AbstractStutter DEF Lock, history, AbsSeen
<1>6. ASSUME NEW g \in Goroutines, ReadClock(g) PROVE [Abstract!Next]_(Abstract!vars)
  BY <1>6, ReadClockIsTick
<1>7. ASSUME NEW g \in Goroutines, Sweep(g) PROVE [Abstract!Next]_(Abstract!vars)
  <2>1. PICK k \in Keys :
          /\ seen[k] # Absent
          /\ seen' = [seen EXCEPT ![k] = Absent]
          /\ swept' = [swept EXCEPT ![k] = seen[k]]
    BY <1>7 DEF Sweep
  <2>2. swept[k] = Absent
    BY <2>1 DEF Mutex, SweptIsGone
  <2>3. AbsSeen' = AbsSeen
    BY <2>1, <2>2 DEF AbsSeen
  <2> QED
    BY <1>7, <2>3, AbstractStutter DEF Sweep
<1>8. ASSUME NEW g \in Goroutines, Decide(g) PROVE [Abstract!Next]_(Abstract!vars)
  <2>1. PICK k \in Keys : key[g] = k
    OBVIOUS
  <2>2. Abstract!Allow(k)
    BY <1>8, <2>1, DecideIsAllow
  <2> QED
    BY <2>2 DEF Abstract!Next
<1>9. ASSUME NEW g \in Goroutines, Unlock(g) PROVE [Abstract!Next]_(Abstract!vars)
  BY <1>9, AbstractStutter DEF Unlock, history, AbsSeen
<1>10. CASE UNCHANGED vars
  BY <1>10, AbstractStutter DEF vars, shared, history, AbsSeen
<1> QED
  BY <1>1, <1>2, <1>3, <1>4, <1>5, <1>6, <1>7, <1>8, <1>9, <1>10 DEF Next, Inside

\* Goroutines, a mutex, a clock that moves while it is held and a sweep of many
\* steps make every call one atomic step of RateLimit, at times that never go back.
THEOREM Refines == Spec => ImplementsRateLimit
<1>1. Init => Abstract!Init
  BY AbstractInit
<1>2. Typed /\ Mutex /\ [Next]_vars => [Abstract!Next]_(Abstract!vars)
  BY AbstractStep
<1> QED
  BY <1>1, <1>2, TypedInit, TypedNext, MutexInit, MutexNext, PTL
     DEF Spec, ImplementsRateLimit, Abstract!Spec

-----------------------------------------------------------------------------
(* What is proved of the abstract limiter, of the limiter as it runs.      *)

Proved ==
    INSTANCE RateLimitProofs WITH
        now <- read,
        seen <- [k \in Keys |-> IF swept[k] # Absent THEN swept[k] ELSE seen[k]]

LEMMA SameSpec == Abstract!Spec => Proved!Spec
<1>1. Abstract!Init => Proved!Init
  BY DEF Abstract!Init, Proved!Init, Abstract!NobodySeen, Proved!NobodySeen,
         Abstract!Absent, Proved!Absent
<1>2. [Abstract!Next]_(Abstract!vars) => [Proved!Next]_(Proved!vars)
  BY DEF Abstract!Next, Proved!Next, Abstract!vars, Proved!vars,
         Abstract!Tick, Proved!Tick, Abstract!Restart, Proved!Restart,
         Abstract!Allow, Proved!Allow, Abstract!AllowUnlimited, Proved!AllowUnlimited,
         Abstract!Grant, Proved!Grant, Abstract!Refuse, Proved!Refuse,
         Abstract!May, Proved!May, Abstract!Counted, Proved!Counted,
         Abstract!Swept, Proved!Swept, Abstract!Expired, Proved!Expired,
         Abstract!NobodySeen, Proved!NobodySeen, Abstract!Absent, Proved!Absent
<1> QED
  BY <1>1, <1>2, PTL DEF Abstract!Spec, Proved!Spec

\* However the goroutines interleave: at most twice the limit in a Period, no
\* refusal but for the caller's own recent grants, no open window moved or
\* emptied but by a restart, and nobody remembered who has nothing recent.
THEOREM PromisesKept ==
    Spec => /\ []Proved!SlidingBound
            /\ Proved!RefusedOnlyWhenSpent
            /\ Proved!OpenWindowsStay
            /\ Proved!RemembersOnlyRecent
<1> USE PeriodAssumption, LimitsAssumption, MaxNowAssumption
<1>1. Spec => Proved!Spec
  BY Refines, SameSpec DEF ImplementsRateLimit
<1>2. Proved!Spec => []Proved!SlidingBound
  BY Proved!SlidingBoundHolds
<1>3. Proved!Spec => Proved!RefusedOnlyWhenSpent
  BY Proved!RefusalsJustified
<1>4. Proved!Spec => Proved!OpenWindowsStay
  BY Proved!OpenWindowsStayHolds
<1>5. Proved!Spec => Proved!RemembersOnlyRecent
  BY Proved!RemembersOnlyRecentHolds
<1> QED
  BY <1>1, <1>2, <1>3, <1>4, <1>5
=============================================================================
