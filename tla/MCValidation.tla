---------------------------- MODULE MCValidation ----------------------------
(* The limits of the code, and texts on either side of each of them: once  *)
(* every length of each field with plain contents, once every kind of      *)
(* content at an ordinary length.  net/http takes no header with a break.  *)
(* The names of the four fields and the punctuation around them and their  *)
(* texts take 48 bytes, and the limits leave 2764 for white space.         *)
EXTENDS Validation

Of(class, count) == << Run(class, count) >>

Padded(t) == Of("space", 1) \o t \o << Run("break", 1), Run("space", 1) >>

Site1 == Of("plain", 20)

Ordinary ==
    [path |-> Of("plain", 8), origin |-> Site1, name |-> Of("plain", 5),
     email |-> Of("plain", 20), parse |-> "bare", message |-> Of("plain", 50),
     website |-> <<>>, readable |-> TRUE, complaint |-> Of("plain", 30), escaped |-> FALSE,
     framing |-> 48, trailing |-> 0]

Lengths(class, sizes) == {Of(class, n) : n \in sizes}

MCNames == {<<>>, Padded(<<>>), Padded(Of("wide", 100)), Of("plain", 101)}
           \cup Lengths("wide", {1, 100, 101})

\* 254 bytes as 254 characters and as 127.
MCEmails ==
    [email : Lengths("plain", {254, 255}) \cup {Padded(Of("accented", 127)), Of("accented", 128)},
     parse : {"bare"}]
    \cup [email : {<<>>}, parse : {"broken"}]
    \cup [email : {Of("plain", 20), Of("accented", 200)}, parse : {"named", "broken"}]

MCMessages == {<<>>, Padded(Of("wide", 5000))}
              \cup Lengths("wide", {9, 10, 5000, 5001, 8000}) \cup Lengths("plain", {5000, 5001})

MCLengths ==
    {[Ordinary EXCEPT !.name = n, !.email = e.email, !.parse = e.parse, !.message = m,
                      !.website = w, !.escaped = x] :
        n \in MCNames, e \in MCEmails, m \in MCMessages, x \in BOOLEAN,
        w \in {<<>>, Of("space", 1), Of("plain", 1)}}

\* All fields at their limits, and every character escaped.
Longest ==
    [Ordinary EXCEPT !.name = Of("wide", 100), !.email = Of("plain", 254),
                     !.message = Of("wide", 5000), !.escaped = TRUE]

\* A text with something of each kind in the middle, and one that is all of it.
Odd(n) == {<< Run("plain", 3), Run(c, n), Run("plain", 3) >> : c \in {"break", "control", "invalid"}}
          \cup {Of("control", n), << Run("control", n), Run("plain", 200), Run("invalid", n) >>,
                << Run("wide", 199), Run("break", n), Run("wide", 2) >>}

MCContents ==
    LET texts == Odd(1) \cup Odd(250) \cup {Of("wide", 200), Of("wide", 201), <<>>} IN
    {[Ordinary EXCEPT !.path = t] : t \in texts}
    \cup {[Ordinary EXCEPT !.origin = t, !.path = u] :
            t \in {o \in texts : ~ Has(o, {"break"})}, u \in texts}
    \cup {[Ordinary EXCEPT !.readable = FALSE, !.complaint = t] : t \in texts}
    \cup {[Ordinary EXCEPT !.name = t, !.message = u] : t \in Odd(1), u \in Odd(10)}
    \cup {[Longest EXCEPT !.framing = n, !.trailing = m] :
            n \in {48, 2812, 2813, 70000}, m \in {0, 1, 2764, 2765, 70000}}
    \cup {[Longest EXCEPT !.message = Of("space", n) \o @, !.trailing = m] :
            n \in {460, 461}, m \in {0, 4, 5}}
    \cup {[Ordinary EXCEPT !.path = Of("mark", n)] : n \in {1, 200, 201}}
    \cup {[Ordinary EXCEPT !.message = Of("space", n) \o Of("plain", 50), !.escaped = x] :
            n \in {400, 10000, 70000}, x \in BOOLEAN}
    \cup {[Ordinary EXCEPT !.email = t, !.parse = p] : t \in Odd(1), p \in {"named", "broken"}}

MCRequests == MCLengths \cup MCContents

MCTemplates ==
    {[before |-> Of("plain", 14), after |-> <<>>, renders |-> TRUE],
     [before |-> Of("break", 1), after |-> << Run("break", 2), Run("plain", 1) >>, renders |-> TRUE],
     [before |-> <<>>, after |-> <<>>, renders |-> FALSE]}

MCRendering == {t \in MCTemplates : t.renders}
=============================================================================
