----------------------------- MODULE SmtpSender -----------------------------
(***************************************************************************)
(* One call of smtp.Sender.Send: dial, SMTP conversation, deferred closes. *)
(* The mail server takes the message when it has read the final dot, which *)
(* may be after Send has given up on its reply.  A blocking call returns   *)
(* by the deadline that is in force for it, which is what net promises;    *)
(* nothing else stops the clock.                                           *)
(*                                                                         *)
(* net/smtp greets the server with EHLO when Extension is called, ignores  *)
(* a failure there and reports it from the next command instead.           *)
(***************************************************************************)
EXTENDS SendContext

VARIABLES
    sender,          \* the Sender: does Addr hold a port, is it this machine's,
                     \* is Username set
    op,              \* the step Send is at, by the name a DeliveryError gives it
    conn,            \* the connection: is it open, what deadline is set on it
    session,         \* the SMTP session: starttls offered, in use, EHLO failed
    server           \* the server: logged in, final dot on its way, message
                     \* taken, and whether the adapter has been told so

vars == <<now, ctx, deadline, result, sender, op, conn, session, server>>

given == <<ctx, sender>>
peer == <<conn, session, server>>

\* The conversation, in order. "hello" is no Op of the adapter's own.
Ops == {"start", "dial", "set deadline", "handshake", "hello", "starttls", "auth",
        "mail from", "rcpt to", "data", "write body", "close body", "quit",
        "closing", "returned"}
\* What follows a command that was answered well.
After(command) ==
    CASE command = "mail from"  -> "rcpt to"
      [] command = "rcpt to"    -> "data"
      [] command = "data"       -> "write body"
      [] command = "write body" -> "close body"

\* net.Dialer is given the deadline; the connection once SetDeadline has run.
Blocking == Ops \ {"start", "set deadline", "closing", "returned"}
Limit == IF op = "dial" THEN deadline ELSE conn.deadline

Init ==
    /\ ContextInit
    /\ sender \in [addrHasPort : BOOLEAN, local : BOOLEAN, username : BOOLEAN]
    /\ op = "start"
    /\ conn = [open |-> FALSE, deadline |-> NoDeadline]
    /\ session = [offersTLS |-> FALSE, tls |-> FALSE, helloFailed |-> FALSE]
    /\ server = [loggedIn |-> FALSE, dot |-> FALSE, taken |-> 0, replied |-> FALSE]

\* Faulty variant: a body that was not acknowledged is sent again.
AfterFailureAgain(o) == IF o = "close body" THEN "data" ELSE "closing"
AfterFailure(o) == "closing"

Fail(why) == result' = why /\ op' = AfterFailure(op)

Start ==
    /\ op = "start"
    /\ deadline' = Earlier
    /\ IF sender.addrHasPort THEN op' = "dial" /\ UNCHANGED result ELSE Fail("config")
    /\ UNCHANGED <<now, given, peer>>

\* DialContext is the only step that watches the context.
\* Faulty variant: it does not.
MayDialAnyway == TRUE
MayDial == ~Cancelled

Dial ==
    /\ op = "dial"
    /\ MayDial
    /\ conn' = [conn EXCEPT !.open = TRUE]
    /\ op' = "set deadline"
    /\ UNCHANGED <<now, given, deadline, session, server, result>>

\* Faulty variant: the deadline is left to the dialer.
ConnDeadlineUnset == NoDeadline
ConnDeadline == deadline

SetDeadline ==
    /\ op = "set deadline"
    /\ conn' = [conn EXCEPT !.deadline = ConnDeadline]
    /\ op' = "handshake"
    /\ UNCHANGED <<now, given, deadline, session, server, result>>

SetDeadlineFails ==
    /\ op = "set deadline"
    /\ Fail("dial")
    /\ UNCHANGED <<now, given, deadline, peer>>

Handshake ==
    /\ op = "handshake"
    /\ op' = "hello"
    /\ UNCHANGED <<now, given, deadline, peer, result>>

AfterTLS == IF sender.username THEN "auth" ELSE "mail from"

\* Faulty variant: STARTTLS is never tried.
AfterHelloPlain(offers) == AfterTLS
AfterHello(offers) == IF offers THEN "starttls" ELSE AfterTLS

\* client.Extension: EHLO, whose failure reads as "not offered".
Hello ==
    /\ op = "hello"
    /\ \E offers, failed \in BOOLEAN :
        /\ failed => ~offers
        /\ session' = [session EXCEPT !.offersTLS = offers, !.helloFailed = failed]
        /\ op' = AfterHello(offers)
    /\ UNCHANGED <<now, given, deadline, conn, server, result>>

StartTLS ==
    /\ op = "starttls"
    /\ session' = [session EXCEPT !.tls = TRUE]
    /\ op' = AfterTLS
    /\ UNCHANGED <<now, given, deadline, conn, server, result>>

\* PlainAuth gives the password to a server on this machine or behind TLS only.
Auth ==
    /\ op = "auth"
    /\ ~session.helloFailed
    /\ session.tls \/ sender.local
    /\ server' = [server EXCEPT !.loggedIn = TRUE]
    /\ op' = "mail from"
    /\ UNCHANGED <<now, given, deadline, conn, session, result>>

\* Mail, Rcpt, Data and Write, each answered well. What follows Write is Close,
\* which sends the final dot.
Command ==
    /\ op \in {"mail from", "rcpt to", "data", "write body"}
    /\ ~session.helloFailed
    /\ op' = After(op)
    /\ server' = [server EXCEPT !.dot = op = "write body"]
    /\ UNCHANGED <<now, given, deadline, conn, session, result>>

\* The server reads the final dot and takes the message, soon or late.
ServerTakes ==
    /\ server.dot
    /\ server' = [server EXCEPT !.dot = FALSE, !.taken = @ + 1]
    /\ UNCHANGED <<now, given, deadline, op, conn, session, result>>

\* Faulty variant: the reply to the final dot is not waited for.
NobodyAsked == TRUE
Acknowledged == server.taken > 0 /\ ~server.dot

\* Close returns nil: the server has said that it took the message.
CloseBody ==
    /\ op = "close body"
    /\ Acknowledged
    /\ server' = [server EXCEPT !.replied = TRUE]
    /\ op' = "quit"
    /\ UNCHANGED <<now, given, deadline, conn, session, result>>

Quit ==
    /\ op = "quit"
    /\ result' = "nil"
    /\ op' = "closing"
    /\ UNCHANGED <<now, given, deadline, peer>>

\* Any blocking step may fail: refused, broken off, or out of time.
Fails ==
    /\ op \in Blocking \ {"hello"}
    /\ Fail(op)
    /\ UNCHANGED <<now, given, deadline, peer>>

\* The deferred closes, and the caller has its answer.
Return ==
    /\ op = "closing"
    /\ conn' = [conn EXCEPT !.open = FALSE]
    /\ op' = "returned"
    /\ UNCHANGED <<now, given, deadline, session, server, result>>

-----------------------------------------------------------------------------
Cancel ==
    /\ Cancels
    /\ op # "returned"
    /\ UNCHANGED <<now, sender, deadline, op, peer, result>>

\* Time passes only inside a blocking call, and not past its deadline.
Tick ==
    /\ op \in Blocking
    /\ IF Limit = NoDeadline THEN TRUE ELSE now < Limit
    /\ now < MaxNow
    /\ now' = now + 1
    /\ UNCHANGED <<given, deadline, op, peer, result>>

SendStep ==
    \/ Start \/ Dial \/ SetDeadline \/ SetDeadlineFails \/ Handshake
    \/ Hello \/ StartTLS \/ Auth \/ Command
    \/ CloseBody \/ Quit \/ Fails \/ Return

Next == SendStep \/ ServerTakes \/ Cancel \/ Tick

\* Send goes on by itself; the server and the visitor owe nothing.
Spec == Init /\ [][Next]_vars /\ WF_vars(SendStep)

-----------------------------------------------------------------------------
TypeOK ==
    /\ ContextTypeOK
    /\ sender \in [addrHasPort : BOOLEAN, local : BOOLEAN, username : BOOLEAN]
    /\ op \in Ops
    /\ conn \in [open : BOOLEAN, deadline : Began .. MaxNow \cup {NoDeadline}]
    /\ session \in [offersTLS : BOOLEAN, tls : BOOLEAN, helloFailed : BOOLEAN]
    /\ server \in [loggedIn : BOOLEAN, dot : BOOLEAN, taken : 0 .. 1, replied : BOOLEAN]
    /\ result \in {"pending", "nil", "config"} \cup Ops

(***************************************************************************)
(* The step a DeliveryError names says what is known of the message: no    *)
(* step before the final dot can have delivered it, quit means that the    *)
(* server has it, config and dial never reached a session, auth blames     *)
(* credentials only where there are some.                                  *)
(***************************************************************************)
StepTellsHowFar ==
    result \notin {"pending", "nil"} =>
        /\ result \notin {"close body", "quit"} => server.taken = 0
        /\ result = "quit" => server.taken = 1
        /\ result \in {"config", "dial"} => ~session.offersTLS /\ ~server.loggedIn
        /\ result = "auth" => sender.username /\ ~server.loggedIn
        /\ result = "starttls" => session.offersTLS /\ ~server.loggedIn

(***************************************************************************)
(* Where the server offers STARTTLS nothing goes over the connection in    *)
(* the clear, no login and no message; and where it does not, the password *)
(* still never leaves this machine (smtp.go:76-89).                        *)
(***************************************************************************)
TLSWhereOffered ==
    /\ session.offersTLS /\ (server.loggedIn \/ server.taken > 0) => session.tls
    /\ server.loggedIn => session.tls \/ sender.local

(***************************************************************************)
(* openapi.yaml on 502: "The mail server refused the message or could not  *)
(* be reached. [...] retrying later is reasonable."  So when the server    *)
(* has said that it took the message, Send does not report a failure.      *)
(***************************************************************************)
AcknowledgedIsNoFailure ==
    op = "returned" /\ server.replied => result = "nil"
=============================================================================
