------------------------------ MODULE MCConfig ------------------------------
(* Every block with or without a login and with a secret given in neither, *)
(* either or both ways, at the top of the file and in its first form; some *)
(* second forms; the shapes each other setting can have, one at a time; and *)
(* the environments that matter without a file.                            *)
EXTENDS Config

CONSTANTS top, one, two, odd

Block(tag) ==
    {[who |-> w, place |-> None, base |-> None, inline |-> i, named |-> n] :
        w, i, n \in {None, tag}}

Blocks(tag) == Block(tag) \cup {None}

\* An account with its secret in a variable, at a server or region, with an API
\* base of its own.
At(tag, place, base) ==
    [who |-> tag, place |-> place, base |-> base, inline |-> None, named |-> tag]

Usual(tag) == At(tag, None, None)

Misplaced(tag) == {At(tag, p, b) : p \in {tag, Elsewhere}, b \in {None, tag, Refused}}

Plain(id, smtp, mailgun) ==
    [id |-> id, mail |-> "fine", origins |-> "usual", subject |-> "fine", limit |-> None,
     smtp |-> smtp, mailgun |-> mailgun]

\* One form with each shape of the settings that are not about its login.
Shaped ==
    LET f == Plain("default", None, None) IN
    {[f EXCEPT !.mail = "faulty"]}
    \cup {[f EXCEPT !.origins = o] : o \in {"unusual", "path", "none"}}
    \cup {[f EXCEPT !.subject = t] : t \in {"broken", "unrenderable"}}
    \cup {[f EXCEPT !.limit = n] : n \in {0, 2}}

FirstForms ==
    {Plain("default", s, None) : s \in Blocks(one) \cup Misplaced(one)}
    \cup {Plain("default", s, m) : s \in {None, Usual(one)}, m \in Block(one)}
    \cup {Plain("default", None, m) : m \in Misplaced(one)}
    \cup {Plain(id, Usual(one), None) : id \in {odd, None}}
    \cup Shaped

SecondForms ==
    {Plain(id, s, m) : id \in {"default", "careers"}, s \in {None, Usual(two)},
                       m \in {None, Usual(two)}}
    \cup {[Plain("careers", None, None) EXCEPT !.limit = 0]}

Seqs == {<<>>} \cup {<<f>> : f \in FirstForms} \cup {<<f, g>> : f \in FirstForms, g \in SecondForms}

\* A file with defaults for one provider, or with the usual ones for both.
Defaults ==
    {<<s, None>> : s \in Blocks(top)}
    \cup {<<None, m>> : m \in Block(top)}
    \cup {<<At(top, Elsewhere, None), None>>, <<None, At(top, Elsewhere, top)>>,
          <<None, At(top, None, Refused)>>, <<Usual(top), Usual(top)>>}

Files ==
    {[kind |-> "file", level |-> TRUE, proxies |-> TRUE, readable |-> TRUE,
      smtp |-> d[1], mailgun |-> d[2], forms |-> fs, set |-> vs] :
        d \in Defaults, fs \in Seqs, vs \in {{top, one, two}, {one, two}, {top, two}}}

UnreadFiles ==
    {[kind |-> "file", level |-> l, proxies |-> p, readable |-> r, smtp |-> Usual(top),
      mailgun |-> None, forms |-> fs, set |-> {top}] :
        l, p, r \in BOOLEAN, fs \in {<<>>, <<Plain("default", None, None)>>}}

Envs ==
    [kind : {"env"}, level : BOOLEAN, proxies : BOOLEAN, mail : {"fine", "missing", "faulty"},
     origins : {"usual", "unusual", "path", "none", "missing"}, limit : {None, 0, 2}, readable : BOOLEAN,
     user : {None, one}, password : {None, one}, addr : {None, Elsewhere}]

MCSources == Files \cup UnreadFiles \cup Envs
=============================================================================
