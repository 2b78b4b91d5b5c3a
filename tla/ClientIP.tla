------------------------------ MODULE ClientIP ------------------------------
(***************************************************************************)
(* internal/clientip: whom a request is held to.  A Resolver is built once *)
(* from the trusted proxies of the configuration and then asked, for every *)
(* request, which address sent it.  The module models the reading of the   *)
(* list, the way a request really travels (who hands it on, and what each  *)
(* hop writes into X-Forwarded-For), and the walk of From over that header *)
(* from right to left, a hop at a time.                                    *)
(*                                                                         *)
(* An address is a host in a spelling: an IPv4 host plainly or mapped into *)
(* IPv6 (::ffff:10.0.0.5), an IPv6 host plainly or with a zone.  Unmap,    *)
(* ParseAddr, ParsePrefix and Prefix.Contains are net/netip's.             *)
(***************************************************************************)
EXTENDS Naturals, Sequences, SequencesExt

CONSTANTS
    V4, V6,      \* the hosts there are, by address family
    Garbage,     \* what does not parse as an address
    Blank,       \* a list entry that is empty once trimmed
    Unknown,     \* clientip.Unknown
    None,        \* no answer yet
    Lists,       \* the lists of trusted proxies to try: sequences of entries
    Headers,     \* what a client may write into X-Forwarded-For: sequences of
                 \* lines, each a sequence of hops
    OwnLine,     \* the hosts that, as proxies, add a line of their own
    MaxRoute     \* how many hosts a request passes before it arrives here

Spellings(h) == IF h \in V4 THEN {"v4", "mapped"} ELSE {"v6", "zoned"}

Address == UNION {[host : {h}, as : Spellings(h)] : h \in V4 \cup V6}

\* "unknown" and what does not parse are no addresses, and what a client writes is
\* made of hops.
ASSUME HopsAssumption ==
    /\ {Garbage, Unknown, None} \cap Address = {}
    /\ None # Unknown
    /\ Headers \subseteq Seq(Seq(Address \cup {Garbage}))

Unmap(a) == IF a.as = "mapped" THEN [a EXCEPT !.as = "v4"] ELSE a

\* The prefix a list entry stands for.  Neither form unmaps what was written,
\* and PrefixFrom drops a zone.
PrefixOf(e) == [family |-> IF e.as = "v4" THEN 4 ELSE 6, hosts |-> e.hosts]

\* netip.Prefix.Contains: only the same family, and never an address with a
\* zone.  Of the addresses of family 6, a mapped prefix holds mapped ones only.
Covers(p, a) ==
    /\ a.as # "zoned"
    /\ p.family = (IF a.as = "v4" THEN 4 ELSE 6)
    /\ a.host \in p.hosts

VARIABLES
    phase,     \* "reading", "refused" (to start), "idle", "travelling",
               \* "asked", "walking"
    list,      \* the configured list
    unread,    \* the entries NewResolver has not read yet
    trusted,   \* Resolver.trusted
    route,     \* the addresses the request really passed, the client's first
    header,    \* X-Forwarded-For, line by line, each left to right
    remote,    \* the connection's own address, parsed
    hops,      \* what From has not looked at yet
    answer     \* what From returned last; None while it has not

vars == <<phase, list, unread, trusted, route, header, remote, hops, answer>>

settings == <<list, unread, trusted>>
request == <<route, header, remote>>

Init ==
    /\ phase = "reading"
    /\ list \in Lists
    /\ unread = list
    /\ trusted = {}
    /\ route = <<>>
    /\ header = <<>>
    /\ remote = Garbage
    /\ hops = <<>>
    /\ answer = None

-----------------------------------------------------------------------------
(* NewResolver, an entry at a time.                                        *)

ReadEntry ==
    /\ phase = "reading"
    /\ unread # <<>>
    /\ LET e == Head(unread) IN
       \/ /\ e = Blank
          /\ UNCHANGED <<phase, trusted>>
       \/ /\ e = Garbage
          /\ phase' = "refused"
          /\ UNCHANGED trusted
       \/ /\ e \notin {Blank, Garbage}
          /\ trusted' = trusted \cup {PrefixOf(e)}
          /\ UNCHANGED phase
    /\ unread' = Tail(unread)
    /\ UNCHANGED <<list, request, hops, answer>>

Built ==
    /\ phase = "reading"
    /\ unread = <<>>
    /\ phase' = "idle"
    /\ UNCHANGED <<settings, request, hops, answer>>

-----------------------------------------------------------------------------
(* How a request gets here.  A client writes what it likes into the header *)
(* and hands the request to a proxy or to the service; a proxy adds the    *)
(* address it got the request from, most of them by folding the lines they *)
(* got into one and appending to it, some by a line of their own.  A hop   *)
(* that adds nothing is, to everything after it, the client.               *)

Send(client, forged) ==
    /\ phase = "idle"
    /\ phase' = "travelling"
    /\ route' = <<client>>
    /\ header' = forged
    /\ answer' = None
    /\ UNCHANGED <<settings, remote, hops>>

Forward(proxy) ==
    /\ phase = "travelling"
    /\ Len(route) < MaxRoute
    /\ header' = IF proxy.host \in OwnLine
                 THEN Append(header, <<Last(route)>>)
                 ELSE <<Append(FlattenSeq(header), Last(route))>>
    /\ route' = Append(route, proxy)
    /\ UNCHANGED <<phase, settings, remote, hops, answer>>

\* RemoteAddr, as parse reads it.  net/http always writes an address there; a
\* caller that hands From a request of its own making may not.
Arrive(readable) ==
    /\ phase = "travelling"
    /\ phase' = "asked"
    /\ remote' = IF readable THEN Unmap(Last(route)) ELSE Garbage
    /\ UNCHANGED <<settings, route, header, hops, answer>>

-----------------------------------------------------------------------------
(* From.                                                                   *)

\* Faulty variant: an address is compared as it was written.
IsTrustedAsWritten(a) == \E p \in trusted : Covers(p, a)

IsTrusted(a) == \E p \in trusted : Covers(p, Unmap(a))

Answer(a) ==
    /\ answer' = IF a = Garbage THEN Unknown ELSE a
    /\ phase' = "idle"
    /\ hops' = <<>>
    /\ UNCHANGED <<settings, request>>

\* req.Header.Get: the first line there is, "" when there is none.
FirstLine == IF header = <<>> THEN <<>> ELSE Head(header)

HeaderCounts ==
    /\ trusted # {}
    /\ remote # Garbage
    /\ IsTrusted(remote)
    /\ FirstLine # <<>>

AnswerConnection ==
    /\ phase = "asked"
    /\ ~ HeaderCounts
    /\ Answer(remote)

ReadHeader ==
    /\ phase = "asked"
    /\ HeaderCounts
    /\ phase' = "walking"
    /\ hops' = FirstLine
    /\ UNCHANGED <<settings, request, answer>>

NextHop == Last(hops)

SkipOurOwn ==
    /\ phase = "walking"
    /\ hops # <<>>
    /\ NextHop # Garbage
    /\ IsTrusted(NextHop)
    /\ hops' = Front(hops)
    /\ UNCHANGED <<phase, settings, request, answer>>

StopAtGarbage ==
    /\ phase = "walking"
    /\ hops # <<>>
    /\ NextHop = Garbage
    /\ Answer(remote)

AnswerHop ==
    /\ phase = "walking"
    /\ hops # <<>>
    /\ NextHop # Garbage
    /\ ~ IsTrusted(NextHop)
    /\ Answer(Unmap(NextHop))

AllOurOwn ==
    /\ phase = "walking"
    /\ hops = <<>>
    /\ Answer(remote)

-----------------------------------------------------------------------------
Next ==
    \/ ReadEntry
    \/ Built
    \/ \E client \in Address, forged \in Headers : Send(client, forged)
    \/ \E proxy \in Address : Forward(proxy)
    \/ \E readable \in BOOLEAN : Arrive(readable)
    \/ AnswerConnection
    \/ ReadHeader
    \/ SkipOurOwn
    \/ StopAtGarbage
    \/ AnswerHop
    \/ AllOurOwn

Spec == Init /\ [][Next]_vars

-----------------------------------------------------------------------------
Answered == answer # None

(***************************************************************************)
(* Whoever is not one of ours is held to its own address, whatever it      *)
(* wrote into the header and in however many lines: the answer is the last *)
(* host on the request's real route that is not trusted, when there is     *)
(* one.  A client therefore neither gets a fresh allowance by inventing    *)
(* hops nor spends somebody else's (clientip.go:78-84); and an IPv4 host   *)
(* has one name, so one allowance.  It takes proxies that append: behind a *)
(* trusted one that adds a line of its own, Header.Get reads what the      *)
(* client wrote (clientip.go:94).                                          *)
(***************************************************************************)
HeldToTheRealSender ==
    LET strangers == {i \in DOMAIN route : ~ IsTrusted(route[i])}
        appended == \A i \in 2 .. Len(route) : IsTrusted(route[i]) => route[i].host \notin OwnLine
    IN
    /\ Answered /\ answer # Unknown => answer.as # "mapped"
    /\ Answered /\ remote # Garbage /\ strangers # {} /\ appended =>
         \E i \in strangers :
             /\ \A j \in strangers : j <= i
             /\ answer = Unmap(route[i])

(***************************************************************************)
(* What the comment of NewResolver says (clientip.go:44-48): the addresses *)
(* listed are believed, and a bare one is a single-host prefix.  So a host *)
(* listed by a bare address is trusted when it connects under the address  *)
(* that was listed.                                                        *)
(***************************************************************************)
BareAddressIsTrusted ==
    phase \notin {"reading", "refused"} =>
        \A i \in DOMAIN list :
            list[i] \notin {Blank, Garbage} /\ list[i].notation = "bare" =>
                \A h \in list[i].hosts : IsTrusted([host |-> h, as |-> list[i].as])
=============================================================================
