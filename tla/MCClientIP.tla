---------------------------- MODULE MCClientIP ----------------------------
(* Two IPv4 hosts and one IPv6 host, under lists with every notation.      *)
EXTENDS ClientIP, TLC

CONSTANTS p, c, s

Bare(h, as) == [notation |-> "bare", as |-> as, hosts |-> {h}]
Cidr(hs, as) == [notation |-> "cidr", as |-> as, hosts |-> hs]

MCLists ==
    { <<>>,
      << Bare(p, "v4") >>,
      << Blank, Bare(p, "v4"), Bare(s, "v6") >>,
      << Cidr({p, c}, "v4") >>,
      << Cidr({p}, "mapped"), Bare(c, "v4") >>,
      << Cidr({s}, "v6") >>,
      << Bare(p, "v4"), Garbage >> }

\* Nothing, any one hop, an empty first line, and two lines that name others.
MCHeaders ==
    LET hop == Address \cup {Garbage}
        few == {[host |-> p, as |-> "v4"], [host |-> c, as |-> "mapped"], Garbage} IN
    {<<>>} \cup {<<<<a>>>> : a \in hop}
        \cup {<<l, <<b>>>> : l \in {<<>>} \cup {<<a>> : a \in few}, b \in few}

\* The lists above and those whose bare address is not in the plain spelling.
MCOddLists == MCLists \cup {<< Bare(p, "mapped") >>, << Bare(s, "zoned") >>}
=============================================================================
