---------------------------- MODULE FixedWindow ----------------------------
(***************************************************************************)
(* The arithmetic of internal/ratelimit/memory.go: what one call of Allow  *)
(* does to the map of windows, as operators without state.  RateLimit uses *)
(* them in one step, MemoryLimiter spreads them over the steps a goroutine *)
(* takes under the mutex, and Service keeps one map per form.              *)
(*                                                                         *)
(* The Go map has an entry only for a caller seen lately; here it is a     *)
(* function on Keys and a caller without an entry has the window Absent.   *)
(* No window in the code has count 0, so Absent is not one of them.        *)
(* Time is counted in ticks and Period is time.Hour in server.go.          *)
(*                                                                         *)
(* In this project a definition commented as a faulty variant is used by   *)
(* no specification: it is a slip the definition after it could have had,  *)
(* kept to show which property would notice.                               *)
(***************************************************************************)
EXTENDS Integers

CONSTANTS
    Keys,      \* what callers are identified by: client addresses
    Period     \* the length of a window, in ticks

ASSUME PeriodAssumption == Period \in Nat

Window == [count : Nat, reset : Nat]

Absent == [count |-> 0, reset |-> 0]

NobodySeen == [k \in Keys |-> Absent]

\* Faulty variant: a window ends at the very tick it resets.
ExpiredAtReset(w, t) == t >= w.reset
\* now.After(w.reset): a window is still counted at the very tick it resets.
Expired(w, t) == t > w.reset

\* Faulty variant: nothing is ever deleted.
SweptNobody(seen, t) == seen
\* The loop that deletes every expired entry, not only the caller's own.
Swept(seen, t) == [k \in Keys |-> IF Expired(seen[k], t) THEN Absent ELSE seen[k]]

\* Faulty variant: one submission too few.
MayOneFewer(seen, k, limit) == seen[k] = Absent \/ seen[k].count < limit - 1
\* Faulty variant: one submission too many.
MayOneMore(seen, k, limit) == seen[k] = Absent \/ seen[k].count <= limit
\* Whether a caller may submit, asked of a map that has just been swept.
May(seen, k, limit) == seen[k] = Absent \/ seen[k].count < limit

\* Faulty variant: every submission moves the reset on.
CountedExtending(seen, k, t) ==
    [seen EXCEPT ![k] = [count |-> @.count + 1, reset |-> t + Period]]
\* Faulty variant: the first submission resets a Period ago.
CountedBackwards(seen, k, t) ==
    [seen EXCEPT ![k] = IF @ = Absent
                        THEN [count |-> 1, reset |-> t - Period]
                        ELSE [count |-> @.count + 1, reset |-> @.reset]]
\* The map once the submission of k at time t is counted.
Counted(seen, k, t) ==
    [seen EXCEPT ![k] = IF @ = Absent
                        THEN [count |-> 1, reset |-> t + Period]
                        ELSE [count |-> @.count + 1, reset |-> @.reset]]
=============================================================================
