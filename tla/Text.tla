-------------------------------- MODULE Text --------------------------------
(***************************************************************************)
(* Texts as the program handles them, and internal/logsafe.  A text is a   *)
(* sequence of runs, each a kind of character and how many of it:          *)
(*                                                                         *)
(*   "plain", "accented", "wide"   one, two and four bytes in UTF-8        *)
(*   "space", "break"              what TrimSpace takes off the ends; a    *)
(*                                 "break" is a CR or an LF                *)
(*   "control"                     any other control character             *)
(*   "invalid"                     U+FFFD, or a byte that is no character  *)
(*   "mark"                        the sign of a text cut short            *)
(***************************************************************************)
EXTENDS Integers, SequencesExt

Run(class, count) == [class |-> class, count |-> count]

\* The sums of a sequence's first elements, from none of them to all.
Sums(f) ==
    LET upTo[i \in 0 .. Len(f)] == IF i = 0 THEN 0 ELSE upTo[i-1] + f[i]
    IN upTo

Total(f) == Sums(f)[Len(f)]

Counts(t) == [i \in DOMAIN t |-> t[i].count]

\* utf8.RuneCountInString, and len with the bytes each kind takes.
Length(t) == Total(Counts(t))

Weight(t, bytes) == Total([i \in DOMAIN t |-> t[i].count * bytes[t[i].class]])

UTF8 == [plain |-> 1, space |-> 1, break |-> 1, control |-> 1, accented |-> 2,
         invalid |-> 3, mark |-> 3, wide |-> 4]

Texts == Seq([class : DOMAIN UTF8, count : Nat])

Has(t, classes) == \E i \in DOMAIN t : t[i].class \in classes /\ t[i].count > 0

\* What is taken out leaves an empty run behind.
Without(t, classes) ==
    [i \in DOMAIN t |-> IF t[i].class \in classes THEN Run(t[i].class, 0) ELSE t[i]]

TrimSpace(t) ==
    LET solid == {i \in DOMAIN t : t[i].class \notin {"space", "break"} /\ t[i].count > 0} IN
    IF solid = {} THEN <<>> ELSE SubSeq(t, Min(solid), Max(solid))

\* The first n characters.
Prefix(t, n) ==
    LET left(i) == n - Sums(Counts(t))[i-1] IN
    [i \in DOMAIN t |->
        Run(t[i].class, IF left(i) < 0 THEN 0 ELSE Min({t[i].count, left(i)}))]

-----------------------------------------------------------------------------
(* logsafe.String: what cannot stand in a log line comes out, and what is  *)
(* left is cut to max characters and marked as cut.                        *)

Unloggable == {"break", "control", "invalid"}

\* Faulty variant: the text is cut before it is cleaned.
CleanedAfterCut(t, max) == Without(Prefix(t, max), Unloggable)

Cleaned(t, max) == Without(t, Unloggable)

Loggable(t, max) ==
    LET left == Cleaned(t, max) IN
    IF Length(left) <= max THEN left ELSE Append(Prefix(left, max), Run("mark", 1))
=============================================================================
