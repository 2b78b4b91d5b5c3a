--------------------------- MODULE MemoryLimiter ---------------------------
(***************************************************************************)
(* ratelimit.Memory as the code runs it: every request is a goroutine, the *)
(* mutex is taken after the early return for an unlimited form, the clock  *)
(* is read with the mutex held, the sweep deletes entries one at a time    *)
(* and the deferred Unlock comes last.  The clock moves at any moment.     *)
(*                                                                         *)
(* Each call takes effect in Decide; the clock the abstract limiter sees   *)
(* is the last reading made under the mutex.                               *)
(***************************************************************************)
EXTENDS FixedWindow, Sequences

CONSTANTS
    Goroutines,   \* the goroutines net/http serves requests on
    Nobody,       \* the mutex is free
    Limits,       \* the values New may be given for limit
    MaxNow        \* bound: the tick at which the clock stops

ASSUME GoroutinesAssumption == Nobody \notin Goroutines
ASSUME LimitsAssumption == Limits \subseteq Int
ASSUME MaxNowAssumption == MaxNow \in Nat

VARIABLES
    now,          \* the clock
    limit,        \* Memory.limit
    seen,         \* Memory.seen
    holder,       \* who holds Memory.mu
    pc,           \* where each goroutine is inside Allow
    key,          \* the argument of each goroutine's call
    at,           \* the local variable now of each goroutine
    verdict,      \* the last answer
    \* history, read by no action
    read,         \* the last reading of the clock under the mutex
    swept,        \* the entries the sweep under way has deleted
    grants,       \* the readings each caller was granted at
    opened        \* which of those grants opened a window

shared == <<now, limit, seen, holder>>
local == <<pc, key, at>>
history == <<read, swept, grants, opened>>
vars == <<shared, local, verdict, history>>

Init ==
    /\ now = 0
    /\ limit \in Limits
    /\ seen = NobodySeen
    /\ holder = Nobody
    /\ pc = [g \in Goroutines |-> "idle"]
    /\ key \in [Goroutines -> Keys]
    /\ at = [g \in Goroutines |-> 0]
    /\ \E k \in Keys : verdict = [key |-> k, ok |-> TRUE, at |-> 0]
    /\ read = 0
    /\ swept = NobodySeen
    /\ grants = [k \in Keys |-> <<>>]
    /\ opened = [k \in Keys |-> {}]

Goto(g, place) == pc' = [pc EXCEPT ![g] = place]

\* The handler calls Allow(k).
Call(g, k) ==
    /\ pc[g] = "idle"
    /\ key' = [key EXCEPT ![g] = k]
    /\ Goto(g, "called")
    /\ UNCHANGED <<shared, at, verdict, history>>

\* limit <= 0: return true before the mutex.
ReturnUnlimited(g) ==
    /\ pc[g] = "called"
    /\ limit <= 0
    /\ verdict' = [key |-> key[g], ok |-> TRUE, at |-> read]
    /\ Goto(g, "idle")
    /\ UNCHANGED <<shared, key, at, history>>

\* m.mu.Lock().  Faulty variant: the mutex keeps nobody out.
LocksAnyway == TRUE
Unlocked == holder = Nobody

Lock(g) ==
    /\ pc[g] = "called"
    /\ limit > 0
    /\ Unlocked
    /\ holder' = g
    /\ Goto(g, "locked")
    /\ UNCHANGED <<now, limit, seen, key, at, verdict, history>>

\* now := time.Now(), under the mutex.
ReadClock(g) ==
    /\ pc[g] = "locked"
    /\ at' = [at EXCEPT ![g] = now]
    /\ read' = now
    /\ Goto(g, "sweeping")
    /\ UNCHANGED <<shared, key, verdict, swept, grants, opened>>

\* One deletion of the loop over the map.
Sweep(g) ==
    /\ pc[g] = "sweeping"
    /\ \E k \in Keys :
        /\ seen[k] # Absent
        /\ Expired(seen[k], at[g])
        /\ seen' = [seen EXCEPT ![k] = Absent]
        /\ swept' = [swept EXCEPT ![k] = seen[k]]
    /\ UNCHANGED <<now, limit, holder, local, verdict, read, grants, opened>>

\* The loop is over: look the caller up, count it or not.
Decide(g) ==
    /\ pc[g] = "sweeping"
    /\ \A k \in Keys : seen[k] # Absent => ~Expired(seen[k], at[g])
    /\ LET ok == May(seen, key[g], limit) IN
        /\ seen' = IF ok THEN Counted(seen, key[g], at[g]) ELSE seen
        /\ verdict' = [key |-> key[g], ok |-> ok, at |-> at[g]]
        /\ grants' = IF ok THEN [grants EXCEPT ![key[g]] = Append(@, at[g])] ELSE grants
        /\ opened' = IF ok /\ seen[key[g]] = Absent
                     THEN [opened EXCEPT ![key[g]] = @ \cup {Len(grants[key[g]]) + 1}]
                     ELSE opened
    /\ swept' = NobodySeen
    /\ Goto(g, "unlocking")
    /\ UNCHANGED <<now, limit, holder, key, at, read>>

\* The deferred Unlock.  Faulty variant: the refusing return forgets it.
ReleasedIfGranted == IF verdict.ok THEN Nobody ELSE holder
Released == Nobody

Unlock(g) ==
    /\ pc[g] = "unlocking"
    /\ holder' = Released
    /\ Goto(g, "idle")
    /\ UNCHANGED <<now, limit, seen, key, at, verdict, history>>

Tick ==
    /\ now < MaxNow
    /\ now' = now + 1
    /\ UNCHANGED <<limit, seen, holder, local, verdict, history>>

\* The process dies at any moment, in the middle of calls too, and New runs again.
Restart ==
    /\ seen' = NobodySeen
    /\ holder' = Nobody
    /\ pc' = [g \in Goroutines |-> "idle"]
    /\ swept' = NobodySeen
    /\ grants' = [k \in Keys |-> <<>>]
    /\ opened' = [k \in Keys |-> {}]
    /\ UNCHANGED <<now, limit, key, at, verdict, read>>

Inside(g) == ReadClock(g) \/ Sweep(g) \/ Decide(g) \/ Unlock(g)

Next ==
    \/ Tick
    \/ Restart
    \/ \E g \in Goroutines :
        \/ \E k \in Keys : Call(g, k)
        \/ ReturnUnlimited(g)
        \/ Lock(g)
        \/ Inside(g)

(***************************************************************************)
(* A goroutine that can run does, and sync.Mutex hands the lock to a       *)
(* waiter that has starved for a millisecond, so no waiter waits for ever. *)
(***************************************************************************)
Fairness ==
    \A g \in Goroutines :
        /\ WF_vars(ReturnUnlimited(g))
        /\ SF_vars(Lock(g))
        /\ WF_vars(Inside(g))

Spec == Init /\ [][Next]_vars /\ Fairness

-----------------------------------------------------------------------------
TypeOK ==
    /\ now \in 0 .. MaxNow
    /\ limit \in Limits
    /\ seen \in [Keys -> Window]
    /\ holder \in Goroutines \cup {Nobody}
    /\ pc \in [Goroutines -> {"idle", "called", "locked", "sweeping", "unlocking"}]
    /\ key \in [Goroutines -> Keys]
    /\ at \in [Goroutines -> 0 .. MaxNow]
    /\ swept \in [Keys -> Window]

(***************************************************************************)
(* Sweeping and counting are two steps, with the clock read before both.   *)
(* Still every call is one atomic step of the abstract limiter, at a time  *)
(* that never goes back: the mutex covers the clock reading as well as the *)
(* map.                                                                    *)
(***************************************************************************)
Abstract ==
    INSTANCE RateLimit WITH
        now <- read,
        seen <- [k \in Keys |-> IF swept[k] # Absent THEN swept[k] ELSE seen[k]]

ImplementsRateLimit == Abstract!Spec

(***************************************************************************)
(* A submission that finds the mutex taken is held up, never hung: every   *)
(* call of Allow returns, on the refusing path as on the granting one.     *)
(***************************************************************************)
EveryCallReturns == \A g \in Goroutines : pc[g] = "called" ~> pc[g] = "idle"
=============================================================================
