----------------------------- MODULE RateLimit -----------------------------
(***************************************************************************)
(* What a ratelimit.Memory promises, each call of Allow being one atomic   *)
(* step at one reading of the clock.  MemoryLimiter implements it with     *)
(* goroutines, a mutex and a clock that moves while they hold it.          *)
(*                                                                         *)
(* grants and opened are history variables: the times at which each caller *)
(* was granted in this life of the process, and which of those grants      *)
(* opened a window.  Nothing in the actions reads them.                    *)
(***************************************************************************)
EXTENDS FixedWindow, Sequences

CONSTANTS
    Limits,    \* the values New may be given for limit
    MaxNow     \* bound: the tick at which the clock stops

ASSUME LimitsAssumption == Limits \subseteq Int
ASSUME MaxNowAssumption == MaxNow \in Nat

VARIABLES
    now,       \* the clock time.Now reads
    limit,     \* Memory.limit, fixed by New
    seen,      \* Memory.seen
    verdict,   \* the last answer: to whom, whether it was yes, and when
    grants,    \* [Keys -> Seq(Nat)]: the ticks each caller was granted at
    opened     \* [Keys -> SUBSET Nat]: which grants opened a window

vars == <<now, limit, seen, verdict, grants, opened>>

Verdict == [key : Keys, ok : BOOLEAN, at : Nat]

Init ==
    /\ now = 0
    /\ limit \in Limits
    /\ seen = NobodySeen
    /\ \E k \in Keys : verdict = [key |-> k, ok |-> TRUE, at |-> 0]
    /\ grants = [k \in Keys |-> <<>>]
    /\ opened = [k \in Keys |-> {}]

\* A limit of zero or less: yes, without touching the map.
AllowUnlimited(k) ==
    /\ limit <= 0
    /\ verdict' = [key |-> k, ok |-> TRUE, at |-> now]
    /\ UNCHANGED <<now, limit, seen, grants, opened>>

Grant(k) ==
    LET swept == Swept(seen, now) IN
    /\ limit > 0
    /\ May(swept, k, limit)
    /\ seen' = Counted(swept, k, now)
    /\ verdict' = [key |-> k, ok |-> TRUE, at |-> now]
    /\ grants' = [grants EXCEPT ![k] = Append(@, now)]
    /\ opened' = [opened EXCEPT ![k] =
                    IF swept[k] = Absent THEN @ \cup {Len(grants[k]) + 1} ELSE @]
    /\ UNCHANGED <<now, limit>>

Refuse(k) ==
    LET swept == Swept(seen, now) IN
    /\ limit > 0
    /\ ~May(swept, k, limit)
    /\ seen' = swept
    /\ verdict' = [key |-> k, ok |-> FALSE, at |-> now]
    /\ UNCHANGED <<now, limit, grants, opened>>

Allow(k) == AllowUnlimited(k) \/ Grant(k) \/ Refuse(k)

\* Time passes between two calls, by any amount.
Tick ==
    /\ \E t \in now + 1 .. MaxNow : now' = t
    /\ UNCHANGED <<limit, seen, verdict, grants, opened>>

\* The process is restarted: New again, with the same limit.
Restart ==
    /\ seen' = NobodySeen
    /\ grants' = [k \in Keys |-> <<>>]
    /\ opened' = [k \in Keys |-> {}]
    /\ UNCHANGED <<now, limit, verdict>>

Next == Tick \/ Restart \/ \E k \in Keys : Allow(k)

Spec == Init /\ [][Next]_vars

-----------------------------------------------------------------------------
TypeOK ==
    /\ now \in Nat
    /\ limit \in Int
    /\ seen \in [Keys -> Window]
    /\ verdict \in Verdict
    /\ grants \in [Keys -> Seq(Nat)]
    /\ opened \in [Keys -> SUBSET Nat]

(***************************************************************************)
(* The map of windows against the history of grants, caller by caller: an  *)
(* entry stands for the last count grants and resets a Period after the    *)
(* first of them; a caller without an entry has nothing recent; windows    *)
(* open more than a Period apart and hold at most limit grants each.       *)
(* This is what makes SlidingBound inductive.                              *)
(***************************************************************************)
Ordered(k) ==
    /\ \A i \in DOMAIN grants[k] : grants[k][i] <= now
    /\ \A i, j \in DOMAIN grants[k] : i <= j => grants[k][i] <= grants[k][j]

WindowsApart(k) ==
    /\ opened[k] \subseteq DOMAIN grants[k]
    /\ \A a, b \in opened[k] : a < b => grants[k][b] - grants[k][a] > Period

WindowsFull(k) ==
    \A i \in DOMAIN grants[k] :
        i + limit <= Len(grants[k]) => \E a \in opened[k] : i < a /\ a <= i + limit

First(k) == Len(grants[k]) - seen[k].count + 1

EntryIsLastWindow(k) ==
    seen[k] # Absent =>
        /\ seen[k].count \in 1 .. limit
        /\ First(k) \in opened[k]
        /\ seen[k].reset = grants[k][First(k)] + Period
        /\ \A a \in opened[k] : a <= First(k)

NothingRecent(k) ==
    seen[k] = Absent => \A a \in opened[k] : grants[k][a] + Period < now

WindowHistory ==
    \A k \in Keys :
        /\ limit <= 0 => grants[k] = <<>>
        /\ limit > 0 => /\ Ordered(k)
                       /\ WindowsApart(k)
                       /\ WindowsFull(k)
                       /\ EntryIsLastWindow(k)
                       /\ NothingRecent(k)

(***************************************************************************)
(* A fixed window lets a burst straddle its edge, but never more: any      *)
(* 2*limit + 1 consecutive grants to one caller span more than a Period.   *)
(* Both the strict comparison with reset and the count decide this.        *)
(***************************************************************************)
SlidingBound ==
    \A k \in Keys : \A i, j \in DOMAIN grants[k] :
        j = i + 2 * limit => grants[k][j] - grants[k][i] > Period

(***************************************************************************)
(* A caller is refused only when its last limit grants all lie within one  *)
(* Period of now: a refusal never outlives the window, and nobody pays for *)
(* anybody else's submissions.                                             *)
(***************************************************************************)
RefusedOnlyWhenSpent ==
    [][\A k \in Keys :
         verdict' # verdict /\ verdict'.key = k /\ ~verdict'.ok =>
            /\ limit > 0
            /\ Len(grants[k]) >= limit
            /\ now - grants[k][Len(grants[k]) - limit + 1] <= Period]_vars

(***************************************************************************)
(* Whoever calls, a window that is still open keeps its reset and loses no *)
(* count: a refusal or a grant never extends it (the caller would be       *)
(* locked out for as long as it keeps trying), and the sweep never drops   *)
(* it.  Only a restart forgives.                                           *)
(***************************************************************************)
OpenWindowsStay ==
    [][\/ grants' = [k \in Keys |-> <<>>]
       \/ \A k \in Keys :
            seen[k] # Absent /\ ~Expired(seen[k], now) =>
                /\ seen'[k].reset = seen[k].reset
                /\ seen'[k].count >= seen[k].count]_vars

(***************************************************************************)
(* The map does not grow by one entry per address for ever: after a call   *)
(* everyone remembered was granted something in the last Period.           *)
(***************************************************************************)
RemembersOnlyRecent ==
    [][verdict' # verdict /\ limit > 0 =>
         \A k \in Keys : seen'[k] # Absent =>
            /\ grants'[k] # <<>>
            /\ now - grants'[k][Len(grants'[k])] <= Period]_vars
=============================================================================
