--------------------------- MODULE DeliveryProofs ---------------------------
(***************************************************************************)
(* One call of Send by either adapter or the fake, for every timeout and   *)
(* every set of deadlines.  The invariant says how far the call has got:   *)
(* what each step of the SMTP conversation has settled, what the API has   *)
(* of the message, and that the clock is within the deadline.              *)
(***************************************************************************)
EXTENDS Delivery, TLAPS

-----------------------------------------------------------------------------
(* The invariant.                                                          *)

Greeting == {"start", "dial", "set deadline", "handshake", "hello"}
\* Before the final dot.
Unsent == Greeting \cup {"starttls", "auth", "mail from", "rcpt to", "data", "write body"}
\* Once STARTTLS has been settled.
Ready == {"auth", "mail from", "rcpt to", "data", "write body", "close body", "quit"}
Over == {"closing", "returned"}

Moments == Began .. MaxNow \cup {NoDeadline}

Typed ==
    /\ provider \in {"smtp", "mailgun", "fake"}
    /\ now \in Began .. MaxNow
    /\ ctx \in [deadline : CtxDeadlines, cancelled : Gone .. NotCancelled]
    /\ deadline \in Moments
    /\ sender \in [addrHasPort : BOOLEAN, local : BOOLEAN, username : BOOLEAN]
    /\ op \in Smtp!Ops
    /\ conn \in [open : BOOLEAN, deadline : Moments]
    /\ session \in [offersTLS : BOOLEAN, tls : BOOLEAN, helloFailed : BOOLEAN]
    /\ server \in [loggedIn : BOOLEAN, dot : BOOLEAN, taken : 0 .. 1, replied : BOOLEAN]
    /\ request \in {"none", "sent", "refused", "taken"}
    /\ taken \in 0 .. 1
    /\ fake \in [broken : BOOLEAN, sent : 0 .. 1]
    /\ answer \in {0, 202, 502}

\* The deadline is the earlier one, and it has not passed.
OnTime ==
    /\ deadline \in Nat
    /\ now <= deadline
    /\ deadline <= Began + Timeout
    /\ ctx.deadline # NoDeadline => deadline <= ctx.deadline

\* What each step of the conversation leaves behind, and a failure at it.
SmtpResult ==
    /\ result = "pending" <=> op \notin Over
    /\ op \in Over => result \in {"nil", "config"} \cup (Smtp!Blocking \ {"hello"})

SmtpMessage ==
    /\ op \in Unsent \/ result \in {"config"} \cup Unsent => server.taken = 0 /\ ~server.dot
    /\ server.dot => server.taken = 0
    /\ op = "quit" \/ result \in {"nil", "quit"} => server.taken = 1 /\ ~server.dot

SmtpSession ==
    /\ op \in Greeting \/ result \in {"config", "dial"} => ~session.offersTLS /\ ~server.loggedIn
    /\ op = "starttls" \/ result = "starttls" => session.offersTLS /\ ~server.loggedIn
    /\ op = "auth" \/ result = "auth" => sender.username /\ ~server.loggedIn
    /\ op \in Ready \/ server.loggedIn \/ server.dot \/ server.taken = 1
         => (session.offersTLS => session.tls)
    /\ server.loggedIn => session.tls \/ sender.local

SmtpTime ==
    /\ op = "start" => now = Began /\ deadline = NoDeadline
    /\ op # "start" => OnTime
    /\ op \in {"start", "dial", "set deadline"} => conn.deadline = NoDeadline
    /\ op \in Smtp!Blocking \ {"dial"} => conn.deadline = deadline
    /\ op = "returned" => ~conn.open
    /\ ctx.cancelled = Gone => op \in {"start", "dial"} \/ result \in {"config", "dial"}

SmtpStory ==
    IF provider = "smtp" THEN SmtpResult /\ SmtpMessage /\ SmtpSession /\ SmtpTime
    ELSE server.taken = 0 /\ ~server.dot /\ ~server.loggedIn /\ ~conn.open

\* The API has the message when it said so, and has none of a visitor who had gone.
MailgunStory ==
    IF provider = "mailgun"
    THEN /\ result \in {"pending", "nil", "send", "timeout"}
         /\ taken = 1 <=> request = "taken"
         /\ result = "nil" => request = "taken"
         /\ request = "none" => result = "pending" /\ now = Began /\ deadline = NoDeadline
         /\ request # "none" => OnTime
         /\ result = "timeout" => now = deadline
         /\ ctx.cancelled = Gone => now = Began /\ request \in {"none", "refused"}
         /\ Cancelled => now <= IF ctx.cancelled = Gone THEN Began ELSE ctx.cancelled
    ELSE taken = 0

FakeStory ==
    IF provider = "fake"
    THEN /\ result \in {"pending", "nil", "context", "send"}
         /\ fake.sent = 1 <=> result = "nil"
         /\ now = Began /\ deadline = NoDeadline
         /\ ctx.cancelled = Gone => result # "nil"
    ELSE fake.sent = 0

\* The visitor is answered when Send has returned, by what it returned.
AnswerStory ==
    /\ answer # 0 => Returned
    /\ answer = 202 => result = "nil"
    /\ answer = 502 => result # "nil"

Inv == Typed /\ SmtpStory /\ MailgunStory /\ FakeStory /\ AnswerStory

-----------------------------------------------------------------------------
(* It holds from the start, and every step keeps it.                       *)

LEMMA Clock ==
    /\ Timeout \in Nat /\ MaxNow \in Nat /\ Began + Timeout < MaxNow
    /\ Began = 1 /\ Gone = 0 /\ NotCancelled = MaxNow + 1 /\ Gone # NotCancelled
    /\ Began \in Began .. MaxNow
  BY TimeoutAssumption DEF Began, Gone, NotCancelled

\* The deadline Send sets itself is within all that bound it.
LEMMA EarlierOnTime ==
    ASSUME Typed, now = Began, deadline' = Earlier, now' = now, ctx' = ctx
    PROVE  deadline' \in Began .. MaxNow /\ OnTime'
<1>1. ctx.deadline \in Began .. MaxNow \/ ctx.deadline = NoDeadline
  BY TimeoutAssumption DEF Typed
<1>2. Earlier \in Began .. MaxNow /\ now <= Earlier /\ Earlier <= Began + Timeout
  BY <1>1, Clock DEF Earlier
<1>3. ctx.deadline # NoDeadline => Earlier <= ctx.deadline
  BY <1>1, Clock DEF Earlier
<1> QED
  BY <1>2, <1>3, Clock DEF OnTime

LEMMA InvInit == Init => Inv
<1> SUFFICES ASSUME Init PROVE Inv
  OBVIOUS
<1>1. /\ now = Began /\ deadline = NoDeadline /\ result = "pending"
      /\ ctx \in [deadline : CtxDeadlines, cancelled : {Gone, NotCancelled}]
      /\ sender \in [addrHasPort : BOOLEAN, local : BOOLEAN, username : BOOLEAN]
      /\ op = "start"
      /\ conn = [open |-> FALSE, deadline |-> NoDeadline]
      /\ session = [offersTLS |-> FALSE, tls |-> FALSE, helloFailed |-> FALSE]
      /\ server = [loggedIn |-> FALSE, dot |-> FALSE, taken |-> 0, replied |-> FALSE]
      /\ request = "none" /\ taken = 0
      /\ provider \in {"smtp", "mailgun", "fake"}
      /\ fake \in [broken : BOOLEAN, sent : {0}]
      /\ answer = 0
  BY DEF Init, Smtp!Init, Smtp!ContextInit, Mailgun!Init, Began, Smtp!Began, Gone, Smtp!Gone,
         NotCancelled, Smtp!NotCancelled
<1>2. Typed
  <2>1. ctx \in [deadline : CtxDeadlines, cancelled : Gone .. NotCancelled]
    BY <1>1, Clock
  <2>2. now \in Began .. MaxNow /\ deadline \in Moments
    BY <1>1, Clock DEF Moments
  <2> QED
    BY <1>1, <2>1, <2>2 DEF Typed, Moments, Smtp!Ops
<1>3. SmtpStory
  <2>1. SmtpResult
    BY <1>1 DEF SmtpResult, Over
  <2>2. SmtpMessage
    BY <1>1 DEF SmtpMessage, Unsent, Greeting
  <2>3. SmtpSession
    BY <1>1 DEF SmtpSession, Ready
  <2>4. SmtpTime
    BY <1>1 DEF SmtpTime, Smtp!Blocking
  <2> QED
    BY <1>1, <2>1, <2>2, <2>3, <2>4 DEF SmtpStory
<1>4. MailgunStory
  BY <1>1, Clock DEF MailgunStory, Cancelled
<1>5. FakeStory
  BY <1>1 DEF FakeStory
<1>6. AnswerStory
  BY <1>1 DEF AnswerStory
<1> QED
  BY <1>2, <1>3, <1>4, <1>5, <1>6 DEF Inv

\* What a step of the SMTP adapter keeps, it says for the whole call.
LEMMA SmtpKept ==
    ASSUME Inv, provider = "smtp", UNCHANGED <<provider, mailgunVars, fake, answer>>,
           Typed', SmtpResult', SmtpMessage', SmtpSession', SmtpTime',
           op # "returned" \/ (op' = op /\ result' = result)
    PROVE  Inv'
<1>1. SmtpStory'
  BY DEF SmtpStory
<1>2. MailgunStory' /\ FakeStory'
  BY DEF Inv, MailgunStory, FakeStory, mailgunVars
<1>3. AnswerStory'
  BY DEF Inv, AnswerStory, Returned
<1> QED
  BY <1>1, <1>2, <1>3 DEF Inv

LEMMA SmtpTypes ==
    ASSUME Typed, now' = now, ctx' = ctx, sender' = sender,
           UNCHANGED <<provider, mailgunVars, fake, answer>>,
           deadline' \in Moments,
           op' \in Smtp!Ops,
           conn' \in [open : BOOLEAN, deadline : Moments],
           session' \in [offersTLS : BOOLEAN, tls : BOOLEAN, helloFailed : BOOLEAN],
           server' \in [loggedIn : BOOLEAN, dot : BOOLEAN, taken : 0 .. 1, replied : BOOLEAN]
    PROVE  Typed'
  BY DEF Typed, mailgunVars

LEMMA SmtpSendKeeps == Inv /\ SmtpSend => Inv'
<1> SUFFICES ASSUME Inv, SmtpSend PROVE Inv'
  OBVIOUS
<1>0. /\ Typed /\ SmtpResult /\ SmtpMessage /\ SmtpSession /\ SmtpTime
      /\ provider = "smtp" /\ Smtp!SendStep
      /\ UNCHANGED <<provider, mailgunVars, fake, answer>>
  BY DEF Inv, SmtpStory, SmtpSend
<1>t. /\ deadline \in Moments
      /\ op \in Smtp!Ops
      /\ conn \in [open : BOOLEAN, deadline : Moments]
      /\ session \in [offersTLS : BOOLEAN, tls : BOOLEAN, helloFailed : BOOLEAN]
      /\ server \in [loggedIn : BOOLEAN, dot : BOOLEAN, taken : 0 .. 1, replied : BOOLEAN]
  BY <1>0 DEF Typed
<1> USE DEF Unsent, Greeting, Ready, Over, Smtp!Blocking, Smtp!Ops
<1>1. CASE Smtp!Start
  <2>0. /\ op = "start" /\ deadline' = Earlier
        /\ \/ op' = "dial" /\ result' = result
           \/ op' = "closing" /\ result' = "config"
        /\ UNCHANGED <<now, ctx, sender, conn, session, server>>
    BY <1>t, <1>1, Clock DEF Smtp!Start, Smtp!Fail, Smtp!AfterFailure, Smtp!Earlier, Earlier, Smtp!given, Smtp!peer
  <2>e. deadline' \in Moments /\ OnTime'
    BY <1>0, <2>0, EarlierOnTime DEF SmtpTime, Moments
  <2>p. result = "pending"
    BY <1>0, <2>0 DEF SmtpResult
  <2>1. Typed'
    BY <1>0, <1>t, <2>0, <2>e, <2>p, SmtpTypes
  <2>2. SmtpResult'
    BY <1>0, <1>t, <2>0, <2>e, <2>p DEF SmtpResult
  <2>3. SmtpMessage'
    BY <1>0, <1>t, <2>0, <2>e, <2>p DEF SmtpMessage
  <2>4. SmtpSession'
    BY <1>0, <1>t, <2>0, <2>e, <2>p DEF SmtpSession
  <2>5. SmtpTime'
    BY <1>0, <1>t, <2>0, <2>e, <2>p DEF SmtpTime
  <2> QED
    BY <1>0, <2>0, <2>1, <2>2, <2>3, <2>4, <2>5, SmtpKept
<1>2. CASE Smtp!Dial
  <2>0. /\ op = "dial" /\ op' = "set deadline" /\ ctx.cancelled # Gone
        /\ conn' = [conn EXCEPT !.open = TRUE]
        /\ conn'.deadline = conn.deadline
        /\ UNCHANGED <<now, ctx, sender, deadline, session, server, result>>
    BY <1>t, <1>2, Clock DEF Smtp!Dial, Smtp!MayDial, Smtp!Cancelled, Smtp!NotCancelled, NotCancelled, Smtp!given, Smtp!peer
  <2>p. result = "pending"
    BY <1>0, <2>0 DEF SmtpResult
  <2>1. Typed'
    BY <1>0, <1>t, <2>0, <2>p, SmtpTypes
  <2>2. SmtpResult'
    BY <1>0, <1>t, <2>0, <2>p DEF SmtpResult
  <2>3. SmtpMessage'
    BY <1>0, <1>t, <2>0, <2>p DEF SmtpMessage
  <2>4. SmtpSession'
    BY <1>0, <1>t, <2>0, <2>p DEF SmtpSession
  <2>5. SmtpTime'
    BY <1>0, <1>t, <2>0, <2>p DEF SmtpTime, OnTime
  <2> QED
    BY <1>0, <2>0, <2>1, <2>2, <2>3, <2>4, <2>5, SmtpKept
<1>3. CASE Smtp!SetDeadline
  <2>0. /\ op = "set deadline" /\ op' = "handshake"
        /\ conn' = [conn EXCEPT !.deadline = deadline]
        /\ conn'.deadline = deadline
        /\ UNCHANGED <<now, ctx, sender, deadline, session, server, result>>
    BY <1>t, <1>3, Clock DEF Smtp!SetDeadline, Smtp!ConnDeadline, Smtp!given, Smtp!peer
  <2>p. result = "pending"
    BY <1>0, <2>0 DEF SmtpResult
  <2>1. Typed'
    BY <1>0, <1>t, <2>0, <2>p, SmtpTypes
  <2>2. SmtpResult'
    BY <1>0, <1>t, <2>0, <2>p DEF SmtpResult
  <2>3. SmtpMessage'
    BY <1>0, <1>t, <2>0, <2>p DEF SmtpMessage
  <2>4. SmtpSession'
    BY <1>0, <1>t, <2>0, <2>p DEF SmtpSession
  <2>5. SmtpTime'
    BY <1>0, <1>t, <2>0, <2>p DEF SmtpTime, OnTime
  <2> QED
    BY <1>0, <2>0, <2>1, <2>2, <2>3, <2>4, <2>5, SmtpKept
<1>4. CASE Smtp!SetDeadlineFails
  <2>0. /\ op = "set deadline" /\ op' = "closing" /\ result' = "dial"
        /\ UNCHANGED <<now, ctx, sender, deadline, conn, session, server>>
    BY <1>t, <1>4, Clock DEF Smtp!SetDeadlineFails, Smtp!Fail, Smtp!AfterFailure, Smtp!given, Smtp!peer
  <2>p. result = "pending"
    BY <1>0, <2>0 DEF SmtpResult
  <2>1. Typed'
    BY <1>0, <1>t, <2>0, <2>p, SmtpTypes
  <2>2. SmtpResult'
    BY <1>0, <1>t, <2>0, <2>p DEF SmtpResult
  <2>3. SmtpMessage'
    BY <1>0, <1>t, <2>0, <2>p DEF SmtpMessage
  <2>4. SmtpSession'
    BY <1>0, <1>t, <2>0, <2>p DEF SmtpSession
  <2>5. SmtpTime'
    BY <1>0, <1>t, <2>0, <2>p DEF SmtpTime, OnTime
  <2> QED
    BY <1>0, <2>0, <2>1, <2>2, <2>3, <2>4, <2>5, SmtpKept
<1>5. CASE Smtp!Handshake
  <2>0. /\ op = "handshake" /\ op' = "hello"
        /\ UNCHANGED <<now, ctx, sender, deadline, conn, session, server, result>>
    BY <1>t, <1>5, Clock DEF Smtp!Handshake, Smtp!given, Smtp!peer
  <2>p. result = "pending"
    BY <1>0, <2>0 DEF SmtpResult
  <2>1. Typed'
    BY <1>0, <1>t, <2>0, <2>p, SmtpTypes
  <2>2. SmtpResult'
    BY <1>0, <1>t, <2>0, <2>p DEF SmtpResult
  <2>3. SmtpMessage'
    BY <1>0, <1>t, <2>0, <2>p DEF SmtpMessage
  <2>4. SmtpSession'
    BY <1>0, <1>t, <2>0, <2>p DEF SmtpSession
  <2>5. SmtpTime'
    BY <1>0, <1>t, <2>0, <2>p DEF SmtpTime, OnTime
  <2> QED
    BY <1>0, <2>0, <2>1, <2>2, <2>3, <2>4, <2>5, SmtpKept
<1>6. CASE Smtp!Hello
  <2>0. /\ op = "hello"
        /\ session' \in [offersTLS : BOOLEAN, tls : BOOLEAN, helloFailed : BOOLEAN]
        /\ \/ session'.offersTLS /\ op' = "starttls"
           \/ ~session'.offersTLS /\ sender.username /\ op' = "auth"
           \/ ~session'.offersTLS /\ op' = "mail from"
        /\ UNCHANGED <<now, ctx, sender, deadline, conn, server, result>>
    BY <1>t, <1>6, Clock DEF Smtp!Hello, Smtp!AfterHello, Smtp!AfterTLS, Smtp!given, Smtp!peer
  <2>p. result = "pending"
    BY <1>0, <2>0 DEF SmtpResult
  <2>m. server.taken = 0 /\ ~server.dot
    BY <1>0, <2>0 DEF SmtpMessage
  <2>l. ~server.loggedIn /\ session'.offersTLS \in BOOLEAN
    BY <1>0, <2>0 DEF SmtpSession
  <2>1. Typed'
    BY <1>0, <1>t, <2>0, <2>p, <2>m, <2>l, SmtpTypes
  <2>2. SmtpResult'
    BY <1>0, <1>t, <2>0, <2>p, <2>m, <2>l DEF SmtpResult
  <2>3. SmtpMessage'
    BY <1>0, <1>t, <2>0, <2>p, <2>m, <2>l DEF SmtpMessage
  <2>4. SmtpSession'
    <3>1. CASE op' = "starttls"
      BY <2>0, <2>p, <2>m, <2>l, <3>1 DEF SmtpSession
    <3>2. CASE ~session'.offersTLS /\ sender.username /\ op' = "auth"
      BY <2>0, <2>p, <2>m, <2>l, <3>2 DEF SmtpSession
    <3>3. CASE ~session'.offersTLS /\ op' = "mail from"
      BY <2>0, <2>p, <2>m, <2>l, <3>3 DEF SmtpSession
    <3> QED
      BY <2>0, <3>1, <3>2, <3>3
  <2>5. SmtpTime'
    BY <1>0, <1>t, <2>0, <2>p, <2>m, <2>l DEF SmtpTime, OnTime
  <2> QED
    BY <1>0, <2>0, <2>1, <2>2, <2>3, <2>4, <2>5, SmtpKept
<1>7. CASE Smtp!StartTLS
  <2>0. /\ op = "starttls"
        /\ session' \in [offersTLS : BOOLEAN, tls : BOOLEAN, helloFailed : BOOLEAN]
        /\ session'.tls
        /\ \/ sender.username /\ op' = "auth"
           \/ op' = "mail from"
        /\ UNCHANGED <<now, ctx, sender, deadline, conn, server, result>>
    BY <1>t, <1>7, Clock DEF Smtp!StartTLS, Smtp!AfterTLS, Smtp!given, Smtp!peer
  <2>p. result = "pending"
    BY <1>0, <2>0 DEF SmtpResult
  <2>m. server.taken = 0 /\ ~server.dot
    BY <1>0, <2>0 DEF SmtpMessage
  <2>1. Typed'
    BY <1>0, <1>t, <2>0, <2>p, <2>m, SmtpTypes
  <2>2. SmtpResult'
    BY <1>0, <1>t, <2>0, <2>p, <2>m DEF SmtpResult
  <2>3. SmtpMessage'
    BY <1>0, <1>t, <2>0, <2>p, <2>m DEF SmtpMessage
  <2>4. SmtpSession'
    BY <1>0, <1>t, <2>0, <2>p, <2>m DEF SmtpSession
  <2>5. SmtpTime'
    BY <1>0, <1>t, <2>0, <2>p, <2>m DEF SmtpTime, OnTime
  <2> QED
    BY <1>0, <2>0, <2>1, <2>2, <2>3, <2>4, <2>5, SmtpKept
<1>8. CASE Smtp!Auth
  <2>0. /\ op = "auth" /\ op' = "mail from"
        /\ session.tls \/ sender.local
        /\ server' = [server EXCEPT !.loggedIn = TRUE]
        /\ server'.dot = server.dot /\ server'.taken = server.taken
        /\ UNCHANGED <<now, ctx, sender, deadline, conn, session, result>>
    BY <1>t, <1>8, Clock DEF Smtp!Auth, Smtp!given, Smtp!peer
  <2>p. result = "pending"
    BY <1>0, <2>0 DEF SmtpResult
  <2>m. server.taken = 0 /\ ~server.dot
    BY <1>0, <2>0 DEF SmtpMessage
  <2>1. Typed'
    BY <1>0, <1>t, <2>0, <2>p, <2>m, SmtpTypes
  <2>2. SmtpResult'
    BY <1>0, <1>t, <2>0, <2>p, <2>m DEF SmtpResult
  <2>3. SmtpMessage'
    BY <1>0, <1>t, <2>0, <2>p, <2>m DEF SmtpMessage
  <2>4. SmtpSession'
    BY <1>0, <1>t, <2>0, <2>p, <2>m DEF SmtpSession
  <2>5. SmtpTime'
    BY <1>0, <1>t, <2>0, <2>p, <2>m DEF SmtpTime, OnTime
  <2> QED
    BY <1>0, <2>0, <2>1, <2>2, <2>3, <2>4, <2>5, SmtpKept
<1>9. CASE Smtp!Command
  <2>0. /\ \/ op = "mail from" /\ op' = "rcpt to" /\ server'.dot = FALSE
           \/ op = "rcpt to" /\ op' = "data" /\ server'.dot = FALSE
           \/ op = "data" /\ op' = "write body" /\ server'.dot = FALSE
           \/ op = "write body" /\ op' = "close body" /\ server'.dot = TRUE
        /\ server' \in [loggedIn : BOOLEAN, dot : BOOLEAN, taken : 0 .. 1, replied : BOOLEAN]
        /\ server'.taken = server.taken /\ server'.loggedIn = server.loggedIn
        /\ UNCHANGED <<now, ctx, sender, deadline, conn, session, result>>
    BY <1>t, <1>9, Clock DEF Smtp!Command, Smtp!After, Smtp!given, Smtp!peer
  <2>p. result = "pending"
    BY <1>0, <2>0 DEF SmtpResult
  <2>m. server.taken = 0 /\ ~server.dot
    BY <1>0, <2>0 DEF SmtpMessage
  <2>1. Typed'
    BY <1>0, <1>t, <2>0, <2>p, <2>m, SmtpTypes
  <2>2. SmtpResult'
    BY <1>0, <1>t, <2>0, <2>p, <2>m DEF SmtpResult
  <2>3. SmtpMessage'
    BY <1>0, <1>t, <2>0, <2>p, <2>m DEF SmtpMessage
  <2>4. SmtpSession'
    BY <1>0, <1>t, <2>0, <2>p, <2>m DEF SmtpSession
  <2>5. SmtpTime'
    BY <1>0, <1>t, <2>0, <2>p, <2>m DEF SmtpTime, OnTime
  <2> QED
    BY <1>0, <2>0, <2>1, <2>2, <2>3, <2>4, <2>5, SmtpKept
<1>10. CASE Smtp!CloseBody
  <2>0. /\ op = "close body" /\ op' = "quit"
        /\ server.taken > 0 /\ ~server.dot
        /\ server' = [server EXCEPT !.replied = TRUE]
        /\ /\ ~server'.dot /\ server'.taken = server.taken
           /\ server'.loggedIn = server.loggedIn
        /\ UNCHANGED <<now, ctx, sender, deadline, conn, session, result>>
    BY <1>t, <1>10, Clock DEF Smtp!CloseBody, Smtp!Acknowledged, Smtp!given, Smtp!peer
  <2>p. result = "pending"
    BY <1>0, <2>0 DEF SmtpResult
  <2>k. server.taken \in 0 .. 1
    BY <1>t
  <2>n. server.taken > 0 /\ server'.taken = server.taken /\ ~server'.dot
    BY <2>0
  <2>m. server'.taken = 1 /\ ~server'.dot
    BY <2>k, <2>n
  <2>1. Typed'
    BY <1>0, <1>t, <2>0, <2>p, <2>m, SmtpTypes
  <2>2. SmtpResult'
    BY <1>0, <1>t, <2>0, <2>p, <2>m DEF SmtpResult
  <2>3. SmtpMessage'
    BY <1>0, <1>t, <2>0, <2>p, <2>m DEF SmtpMessage
  <2>4. SmtpSession'
    BY <1>0, <1>t, <2>0, <2>p, <2>m DEF SmtpSession
  <2>5. SmtpTime'
    BY <1>0, <1>t, <2>0, <2>p, <2>m DEF SmtpTime, OnTime
  <2> QED
    BY <1>0, <2>0, <2>1, <2>2, <2>3, <2>4, <2>5, SmtpKept
<1>11. CASE Smtp!Quit
  <2>0. /\ op = "quit" /\ op' = "closing" /\ result' = "nil"
        /\ UNCHANGED <<now, ctx, sender, deadline, conn, session, server>>
    BY <1>t, <1>11, Clock DEF Smtp!Quit, Smtp!given, Smtp!peer
  <2>p. result = "pending"
    BY <1>0, <2>0 DEF SmtpResult
  <2>1. Typed'
    BY <1>0, <1>t, <2>0, <2>p, SmtpTypes
  <2>2. SmtpResult'
    BY <1>0, <1>t, <2>0, <2>p DEF SmtpResult
  <2>3. SmtpMessage'
    BY <1>0, <1>t, <2>0, <2>p DEF SmtpMessage
  <2>4. SmtpSession'
    BY <1>0, <1>t, <2>0, <2>p DEF SmtpSession
  <2>5. SmtpTime'
    BY <1>0, <1>t, <2>0, <2>p DEF SmtpTime, OnTime
  <2> QED
    BY <1>0, <2>0, <2>1, <2>2, <2>3, <2>4, <2>5, SmtpKept
<1>12. CASE Smtp!Fails
  <2>0. /\ op \in Smtp!Blocking \ {"hello"} /\ op' = "closing" /\ result' = op
        /\ UNCHANGED <<now, ctx, sender, deadline, conn, session, server>>
    BY <1>t, <1>12, Clock DEF Smtp!Fails, Smtp!Fail, Smtp!AfterFailure, Smtp!given, Smtp!peer
  <2>p. result = "pending"
    BY <1>0, <2>0 DEF SmtpResult
  <2>1. Typed'
    BY <1>0, <1>t, <2>0, <2>p, SmtpTypes
  <2>2. SmtpResult'
    BY <1>0, <1>t, <2>0, <2>p DEF SmtpResult
  <2>3. SmtpMessage'
    BY <1>0, <1>t, <2>0, <2>p DEF SmtpMessage
  <2>4. SmtpSession'
    BY <1>0, <1>t, <2>0, <2>p DEF SmtpSession
  <2>5. SmtpTime'
    BY <1>0, <1>t, <2>0, <2>p DEF SmtpTime, OnTime
  <2> QED
    BY <1>0, <2>0, <2>1, <2>2, <2>3, <2>4, <2>5, SmtpKept
<1>13. CASE Smtp!Return
  <2>0. /\ op = "closing" /\ op' = "returned"
        /\ conn' = [conn EXCEPT !.open = FALSE]
        /\ ~conn'.open /\ conn'.deadline = conn.deadline
        /\ UNCHANGED <<now, ctx, sender, deadline, session, server, result>>
    BY <1>t, <1>13, Clock DEF Smtp!Return, Smtp!given, Smtp!peer
  <2>1. Typed'
    BY <1>0, <1>t, <2>0, SmtpTypes
  <2>2. SmtpResult'
    BY <1>0, <1>t, <2>0 DEF SmtpResult
  <2>3. SmtpMessage'
    BY <1>0, <1>t, <2>0 DEF SmtpMessage
  <2>4. SmtpSession'
    BY <1>0, <1>t, <2>0 DEF SmtpSession
  <2>5. SmtpTime'
    BY <1>0, <1>t, <2>0 DEF SmtpTime, OnTime
  <2> QED
    BY <1>0, <2>0, <2>1, <2>2, <2>3, <2>4, <2>5, SmtpKept
<1> QED
  BY <1>0, <1>1, <1>2, <1>3, <1>4, <1>5, <1>6, <1>7, <1>8, <1>9, <1>10, <1>11, <1>12, <1>13 DEF Smtp!SendStep

LEMMA SmtpOutsideKeeps ==
    ASSUME Inv, provider = "smtp", Smtp!ServerTakes \/ Smtp!Cancel \/ Smtp!Tick,
           UNCHANGED <<provider, mailgunVars, fake, answer>>
    PROVE  Inv'
<1>0. Typed /\ SmtpResult /\ SmtpMessage /\ SmtpSession /\ SmtpTime
  BY DEF Inv, SmtpStory
<1>t. /\ deadline \in Moments
      /\ op \in Smtp!Ops
      /\ conn \in [open : BOOLEAN, deadline : Moments]
      /\ session \in [offersTLS : BOOLEAN, tls : BOOLEAN, helloFailed : BOOLEAN]
      /\ server \in [loggedIn : BOOLEAN, dot : BOOLEAN, taken : 0 .. 1, replied : BOOLEAN]
  BY <1>0 DEF Typed
<1>1. CASE Smtp!ServerTakes
  <2>0. /\ server.dot
        /\ server' = [server EXCEPT !.dot = FALSE, !.taken = @ + 1]
        /\ ~server'.dot /\ server'.taken = server.taken + 1
        /\ server'.loggedIn = server.loggedIn
        /\ UNCHANGED <<now, ctx, sender, deadline, op, conn, session, result>>
    BY <1>1, <1>t DEF Smtp!ServerTakes, Smtp!given
  <2>m. /\ server.taken = 0 /\ op \notin Unsent /\ op # "quit"
        /\ result \notin {"config", "nil", "quit"} \cup Unsent
    BY <1>0, <2>0 DEF SmtpMessage
  <2>n. server'.taken = 1
    BY <2>0, <2>m
  <2>s. server' \in [loggedIn : BOOLEAN, dot : BOOLEAN, taken : 0 .. 1, replied : BOOLEAN]
    <3>1. server' = [server EXCEPT !.dot = FALSE, !.taken = 1]
      BY <2>0, <2>m
    <3>2. 1 \in 0 .. 1 /\ FALSE \in BOOLEAN
      OBVIOUS
    <3> QED
      BY <1>t, <3>1, <3>2
  <2>1. Typed'
    BY <1>0, <1>t, <2>0, <2>s, SmtpTypes
  <2>2. SmtpResult'
    BY <1>0, <2>0 DEF SmtpResult
  <2>3. SmtpMessage'
    BY <1>0, <2>0, <2>m, <2>n DEF SmtpMessage
  <2>4. SmtpSession'
    BY <1>0, <2>0 DEF SmtpSession
  <2>5. SmtpTime'
    BY <1>0, <2>0 DEF SmtpTime, OnTime
  <2> QED
    BY <2>0, <2>1, <2>2, <2>3, <2>4, <2>5, SmtpKept
<1>2. CASE Smtp!Cancel
  <2>0. /\ ctx' = [ctx EXCEPT !.cancelled = now]
        /\ UNCHANGED <<now, sender, deadline, op, conn, session, server, result>>
    BY <1>2 DEF Smtp!Cancel, Smtp!Cancels, Smtp!peer
  <2>c. /\ ctx' \in [deadline : CtxDeadlines, cancelled : Gone .. NotCancelled]
        /\ ctx'.deadline = ctx.deadline /\ ctx'.cancelled # Gone
    <3>1. now \in Gone .. NotCancelled /\ now # Gone
      BY <1>0, Clock DEF Typed
    <3> QED
      BY <1>0, <2>0, <3>1 DEF Typed
  <2>1. Typed'
    BY <1>0, <2>0, <2>c DEF Typed, mailgunVars
  <2>2. SmtpResult' /\ SmtpMessage' /\ SmtpSession'
    BY <1>0, <2>0 DEF SmtpResult, SmtpMessage, SmtpSession
  <2>3. SmtpTime'
    BY <1>0, <2>0, <2>c DEF SmtpTime, OnTime
  <2> QED
    BY <2>0, <2>1, <2>2, <2>3, SmtpKept
<1>3. CASE Smtp!Tick
  <2>0. /\ op \in Smtp!Blocking /\ now < MaxNow /\ now' = now + 1
        /\ IF Smtp!Limit = NoDeadline THEN TRUE ELSE now < Smtp!Limit
        /\ UNCHANGED <<ctx, sender, deadline, op, conn, session, server, result>>
    BY <1>3 DEF Smtp!Tick, Smtp!given, Smtp!peer
  <2>n. now \in Nat
    BY <1>0, Clock DEF Typed
  <2>l. op # "start" /\ op # "returned" /\ Smtp!Limit = deadline
    BY <1>0, <2>0 DEF Smtp!Limit, Smtp!Blocking, SmtpTime
  <2>d. OnTime /\ now < deadline
    BY <1>0, <2>0, <2>l, NoDeadlineAssumption DEF SmtpTime, OnTime
  <2>1. Typed'
    <3>1. now' \in Began .. MaxNow
      BY <1>0, <2>0, <2>n, Clock DEF Typed
    <3> QED
      BY <1>0, <2>0, <3>1 DEF Typed, mailgunVars
  <2>2. SmtpResult' /\ SmtpMessage' /\ SmtpSession'
    BY <1>0, <2>0 DEF SmtpResult, SmtpMessage, SmtpSession
  <2>3. SmtpTime'
    <3>1. OnTime'
      BY <2>0, <2>n, <2>d DEF OnTime
    <3> QED
      BY <1>0, <2>0, <2>l, <3>1 DEF SmtpTime
  <2> QED
    BY <2>0, <2>l, <2>1, <2>2, <2>3, SmtpKept
<1> QED
  BY <1>1, <1>2, <1>3

\* The same for the Mailgun adapter.
LEMMA MailgunKept ==
    ASSUME Inv, provider = "mailgun", UNCHANGED <<provider, smtpVars, fake, answer>>,
           Typed', MailgunStory', result = "pending" \/ result' = result
    PROVE  Inv'
<1>1. SmtpStory' /\ FakeStory'
  BY DEF Inv, SmtpStory, FakeStory, smtpVars
<1>2. AnswerStory'
  BY DEF Inv, AnswerStory, Returned
<1> QED
  BY <1>1, <1>2 DEF Inv

LEMMA MailgunKeeps ==
    ASSUME Inv, provider = "mailgun",
           Mailgun!SendStep \/ Mailgun!ApiAnswers \/ Mailgun!Cancel \/ Mailgun!Tick,
           UNCHANGED <<provider, smtpVars, fake, answer>>
    PROVE  Inv'
<1>0. Typed /\ MailgunStory
  BY DEF Inv
<1>t. /\ now \in Nat /\ now >= Began /\ now <= MaxNow
      /\ ctx \in [deadline : CtxDeadlines, cancelled : Gone .. NotCancelled]
      /\ ctx.cancelled \in Nat
      /\ deadline \in Moments
      /\ request \in {"none", "sent", "refused", "taken"}
      /\ taken \in {0, 1}
      /\ Cancelled <=> ctx.cancelled # NotCancelled
  BY <1>0, Clock DEF Typed, Cancelled
\* What is left to show of a step that neither moves the clock nor cancels.
<1>f. ASSUME UNCHANGED <<now, ctx>>, deadline' \in Moments,
             request' \in {"none", "sent", "refused", "taken"}, taken' \in {0, 1}
      PROVE  Typed'
  BY <1>0, <1>f DEF Typed, smtpVars
<1>1. CASE Mailgun!Start
  <2>0. /\ request = "none" /\ deadline' = Earlier
        /\ request' = IF Cancelled THEN "refused" ELSE "sent"
        /\ UNCHANGED <<now, ctx, taken, result>>
    BY <1>1 DEF Mailgun!Start, Mailgun!Earlier, Earlier, Mailgun!Cancelled, Cancelled,
                Mailgun!NotCancelled, NotCancelled
  <2>1. now = Began /\ result = "pending" /\ taken = 0
    BY <1>0, <1>t, <2>0 DEF MailgunStory
  <2>2. deadline' \in Began .. MaxNow /\ OnTime'
    BY <1>0, <2>0, <2>1, EarlierOnTime
  <2>3. Typed'
    BY <1>f, <1>t, <2>0, <2>2 DEF Moments
  <2>4. MailgunStory'
    BY <1>0, <1>t, <2>0, <2>1, <2>2, Clock DEF MailgunStory, Cancelled
  <2> QED
    BY <2>1, <2>3, <2>4, MailgunKept
<1>2. CASE Mailgun!Succeeds \/ Mailgun!Fails \/ Mailgun!TimesOut
  <2>0. /\ request # "none" /\ result = "pending"
        /\ \/ result' = "nil" /\ request = "taken"
           \/ result' = "send"
           \/ result' = "timeout" /\ now = deadline
        /\ UNCHANGED <<now, ctx, deadline, request, taken>>
    BY <1>2 DEF Mailgun!Succeeds, Mailgun!GoodAnswer, Mailgun!Fails, Mailgun!TimesOut,
                Mailgun!Return, Mailgun!Waiting
  <2>1. Typed'
    BY <1>f, <1>t, <2>0
  <2>2. MailgunStory'
    BY <1>0, <2>0 DEF MailgunStory, OnTime, Cancelled
  <2> QED
    BY <2>0, <2>1, <2>2, MailgunKept
<1>3. CASE Mailgun!ApiAnswers
  <2>0. /\ request = "sent"
        /\ \/ request' = "taken" /\ taken' = taken + 1
           \/ request' = "refused" /\ taken' = taken
        /\ UNCHANGED <<now, ctx, deadline, result>>
    BY <1>3 DEF Mailgun!ApiAnswers
  <2>1. taken = 0 /\ ctx.cancelled # Gone /\ result # "nil"
    BY <1>0, <1>t, <2>0 DEF MailgunStory
  <2>2. Typed'
    BY <1>f, <1>t, <2>0, <2>1
  <2>3. MailgunStory'
    BY <1>0, <2>0, <2>1 DEF MailgunStory, OnTime, Cancelled
  <2> QED
    BY <2>0, <2>2, <2>3, MailgunKept
<1>4. CASE Mailgun!Cancel
  <2>0. /\ ctx' = [ctx EXCEPT !.cancelled = now] /\ result = "pending"
        /\ ctx'.cancelled = now /\ ctx'.deadline = ctx.deadline
        /\ UNCHANGED <<now, deadline, request, taken, result>>
    BY <1>4, <1>t DEF Mailgun!Cancel, Mailgun!Cancels
  <2>1. now \in Gone .. NotCancelled /\ now # Gone
    BY <1>t, Clock
  <2>2. Typed'
    BY <1>0, <2>0, <2>1 DEF Typed, smtpVars
  <2>3. MailgunStory'
    BY <1>0, <1>t, <2>0, <2>1 DEF MailgunStory, OnTime, Cancelled
  <2> QED
    BY <2>0, <2>2, <2>3, MailgunKept
<1>5. CASE Mailgun!Tick
  <2>0. /\ request # "none" /\ result = "pending" /\ ~Cancelled
        /\ now < deadline /\ now' = now + 1
        /\ UNCHANGED <<ctx, deadline, request, taken, result>>
    BY <1>5 DEF Mailgun!Tick, Mailgun!Waiting, Mailgun!Cancelled, Cancelled,
                Mailgun!NotCancelled, NotCancelled
  <2>1. OnTime
    BY <1>0, <2>0 DEF MailgunStory
  <2>2. OnTime' /\ now' \in Began .. MaxNow
    BY <1>t, <2>0, <2>1, Clock DEF OnTime
  <2>3. Typed'
    BY <1>0, <2>0, <2>2 DEF Typed, smtpVars
  <2>4. ctx.cancelled # Gone
    BY <1>t, <2>0, Clock
  <2>5. MailgunStory'
    BY <1>0, <2>0, <2>2, <2>4 DEF MailgunStory, Cancelled
  <2> QED
    BY <2>0, <2>3, <2>5, MailgunKept
<1> QED
  BY <1>1, <1>2, <1>3, <1>4, <1>5 DEF Mailgun!SendStep

LEMMA FakeKeeps ==
    ASSUME Inv, provider = "fake", UNCHANGED <<provider, smtpVars, mailgunVars, answer>>,
           \/ FakeSend
           \/ Cancels /\ ~Returned /\ UNCHANGED <<now, deadline, result, fake>>
    PROVE  Inv'
<1>0. Typed /\ FakeStory /\ now = Began
  BY DEF Inv, FakeStory
<1>1. SmtpStory' /\ MailgunStory'
  BY DEF Inv, SmtpStory, MailgunStory, smtpVars, mailgunVars
<1>2. CASE FakeSend
  <2>0. /\ result = "pending"
        /\ \/ result' = "context" /\ fake' = fake
           \/ result' = "send" /\ fake' = fake
           \/ ~Cancelled /\ result' = "nil" /\ fake' = [fake EXCEPT !.sent = @ + 1]
        /\ UNCHANGED <<now, ctx, deadline>>
    BY <1>2 DEF FakeSend
  <2>1. fake.sent = 0
    BY <1>0, <2>0 DEF FakeStory, Typed
  <2>2. /\ fake' \in [broken : BOOLEAN, sent : 0 .. 1]
        /\ fake'.sent = IF result' = "nil" THEN 1 ELSE 0
    <3>1. CASE fake' = fake /\ result' # "nil"
      BY <1>0, <2>1, <3>1 DEF Typed
    <3>2. CASE result' = "nil" /\ fake' = [fake EXCEPT !.sent = 1]
      BY <1>0, <3>2 DEF Typed
    <3> QED
      BY <2>0, <2>1, <3>1, <3>2
  <2>3. Typed'
    BY <1>0, <2>0, <2>2 DEF Typed, smtpVars, mailgunVars
  <2>4. FakeStory'
    BY <1>0, <2>0, <2>2, Clock DEF FakeStory, Cancelled
  <2>5. AnswerStory'
    BY <2>0 DEF Inv, AnswerStory, Returned, smtpVars
  <2> QED
    BY <1>1, <2>3, <2>4, <2>5 DEF Inv
<1>3. CASE Cancels /\ UNCHANGED <<now, deadline, result, fake>>
  <2>0. /\ ctx' = [ctx EXCEPT !.cancelled = now]
        /\ ctx' \in [deadline : CtxDeadlines, cancelled : Gone .. NotCancelled]
        /\ ctx'.cancelled # Gone
    BY <1>0, <1>3, Clock DEF Cancels, Typed
  <2>1. Typed'
    BY <1>0, <1>3, <2>0 DEF Typed, smtpVars, mailgunVars
  <2>2. FakeStory'
    BY <1>0, <1>3, <2>0 DEF FakeStory
  <2>3. AnswerStory'
    BY <1>3 DEF Inv, AnswerStory, Returned, smtpVars
  <2> QED
    BY <1>1, <2>1, <2>2, <2>3 DEF Inv
<1> QED
  BY <1>2, <1>3

LEMMA AnswerKeeps == Inv /\ Answer => Inv'
<1> SUFFICES ASSUME Inv, Answer PROVE Inv'
  OBVIOUS
<1>0. /\ Returned /\ answer' = IF result = "nil" THEN 202 ELSE 502
      /\ UNCHANGED <<now, ctx, deadline, result, provider, sender, op, conn, session,
                     server, request, taken, fake>>
  BY DEF Answer, call, smtpVars, mailgunVars
<1>1. Typed'
  BY <1>0 DEF Inv, Typed
<1>2. SmtpStory'
  <2>1. SmtpResult' = SmtpResult /\ SmtpMessage' = SmtpMessage
    BY <1>0 DEF SmtpResult, SmtpMessage
  <2>2. SmtpSession' = SmtpSession
    BY <1>0 DEF SmtpSession
  <2>3. SmtpTime' = SmtpTime
    BY <1>0 DEF SmtpTime, OnTime
  <2> QED
    BY <1>0, <2>1, <2>2, <2>3 DEF Inv, SmtpStory
<1>3. MailgunStory' /\ FakeStory'
  BY <1>0 DEF Inv, MailgunStory, FakeStory, OnTime, Cancelled
<1>4. AnswerStory'
  BY <1>0 DEF AnswerStory, Returned
<1> QED
  BY <1>1, <1>2, <1>3, <1>4 DEF Inv

LEMMA InvNext == Inv /\ [Next]_vars => Inv'
<1> SUFFICES ASSUME Inv, [Next]_vars PROVE Inv'
  OBVIOUS
<1>1. CASE SmtpSend
  BY <1>1, SmtpSendKeeps
<1>2. CASE MailgunSend
  BY <1>2, MailgunKeeps DEF MailgunSend
<1>3. CASE FakeSend
  BY <1>3, FakeKeeps DEF FakeSend
<1>4. CASE Answer
  BY <1>4, AnswerKeeps
<1>5. CASE Outside
  <2>1. CASE provider = "smtp"
    BY <1>5, <2>1, SmtpOutsideKeeps DEF Outside
  <2>2. CASE provider = "mailgun"
    BY <1>5, <2>2, MailgunKeeps DEF Outside
  <2>3. CASE provider = "fake"
    BY <1>5, <2>3, FakeKeeps DEF Outside
  <2> QED
    BY <1>5, <2>1, <2>2, <2>3 DEF Outside
<1>6. CASE UNCHANGED vars
  <2>0. UNCHANGED <<now, ctx, deadline, result, provider, sender, op, conn, session,
                    server, request, taken, fake, answer>>
    BY <1>6 DEF vars, call, smtpVars, mailgunVars
  <2>1. Typed'
    BY <2>0 DEF Inv, Typed
  <2>2. SmtpStory'
    <3>1. SmtpResult' = SmtpResult /\ SmtpMessage' = SmtpMessage
      BY <2>0 DEF SmtpResult, SmtpMessage
    <3>2. SmtpSession' = SmtpSession
      BY <2>0 DEF SmtpSession
    <3>3. SmtpTime' = SmtpTime
      BY <2>0 DEF SmtpTime, OnTime
    <3> QED
      BY <2>0, <3>1, <3>2, <3>3 DEF Inv, SmtpStory
  <2>3. MailgunStory' /\ FakeStory' /\ AnswerStory'
    BY <2>0 DEF Inv, MailgunStory, FakeStory, AnswerStory, OnTime, Cancelled, Returned
  <2> QED
    BY <2>1, <2>2, <2>3 DEF Inv
<1> QED
  BY <1>1, <1>2, <1>3, <1>4, <1>5, <1>6 DEF Next, HandlerStep

\* At every step of a call the invariant says how far it has got.
THEOREM InvHolds == Spec => []Inv
  BY InvInit, InvNext, PTL DEF Spec

-----------------------------------------------------------------------------
(* What follows from it.                                                   *)

\* Every step keeps the variables of the provider in use in their types.
THEOREM TypeCorrect == Spec => []TypeOK
<1>1. Inv => TypeOK
  <2> SUFFICES ASSUME Inv PROVE TypeOK
    OBVIOUS
  <2>1. Typed /\ ContextTypeOK
    BY DEF Inv, Typed, ContextTypeOK, Moments
  <2>2. ASSUME provider = "smtp" PROVE Smtp!TypeOK
    <3>1. Smtp!ContextTypeOK
      BY <2>1 DEF Typed, Moments, Smtp!ContextTypeOK, Smtp!Began, Smtp!Gone,
                  Smtp!NotCancelled, Began, Gone, NotCancelled
    <3>2. SmtpResult
      BY <2>2 DEF Inv, SmtpStory
    <3>3. result \in {"pending", "nil", "config"} \cup Smtp!Ops
      BY <3>2 DEF SmtpResult, Smtp!Blocking
    <3> QED
      BY <2>1, <3>1, <3>3 DEF Typed, Moments, Smtp!TypeOK, Smtp!Began, Began
  <2>3. ASSUME provider = "mailgun" PROVE Mailgun!TypeOK
    <3>1. Mailgun!ContextTypeOK
      BY <2>1 DEF Typed, Moments, Mailgun!ContextTypeOK, Mailgun!Began, Mailgun!Gone,
                  Mailgun!NotCancelled, Began, Gone, NotCancelled
    <3> QED
      BY <2>3, <3>1 DEF Inv, Typed, MailgunStory, Mailgun!TypeOK
  <2> QED
    BY <2>1, <2>2, <2>3 DEF Typed, TypeOK
<1> QED
  BY <1>1, InvHolds, PTL

\* No visitor who had gone is sent for, behind a 502 is a step of this provider's,
\* and a timeout is one.
THEOREM KeepsContractHolds == Spec => []KeepsContract
<1>1. Inv => KeepsContract
  <2> SUFFICES ASSUME Inv PROVE KeepsContract
    OBVIOUS
  <2>0. Typed /\ SmtpStory /\ MailgunStory /\ FakeStory /\ AnswerStory
    BY DEF Inv
  <2>1. CASE provider = "smtp"
    <3>0. SmtpResult /\ SmtpMessage /\ SmtpTime /\ taken = 0 /\ fake.sent = 0
      BY <2>0, <2>1 DEF SmtpStory, MailgunStory, FakeStory
    <3>1. ctx.cancelled = Gone => server.taken = 0 /\ result # "nil"
      BY <3>0 DEF SmtpTime, SmtpMessage, SmtpResult, Unsent, Greeting, Over
    <3>2. answer = 502 => result \in {"config"} \cup (Smtp!Blocking \ {"hello"})
      BY <2>0, <2>1, <3>0 DEF SmtpResult, AnswerStory, Returned, Over
    <3>3. result # "timeout"
      BY <3>0 DEF SmtpResult, Smtp!Blocking, Smtp!Ops
    <3> QED
      BY <2>1, <3>0, <3>1, <3>2, <3>3 DEF KeepsContract, Delivered, Steps
  <2>2. CASE provider = "mailgun"
    <3>0. server.taken = 0 /\ fake.sent = 0 /\ taken \in {0, 1}
      BY <2>0, <2>2 DEF SmtpStory, FakeStory, Typed
    <3>1. ctx.cancelled = Gone => taken = 0 /\ result # "nil"
      BY <2>0, <2>2, <3>0 DEF MailgunStory
    <3>2. answer = 502 => result \in {"send", "timeout"}
      BY <2>0, <2>2 DEF MailgunStory, AnswerStory, Returned
    <3>3. result = "timeout" => now = deadline
      BY <2>0, <2>2 DEF MailgunStory
    <3> QED
      BY <2>2, <3>0, <3>1, <3>2, <3>3 DEF KeepsContract, Delivered, Steps
  <2>3. CASE provider = "fake"
    <3>0. server.taken = 0 /\ taken = 0 /\ fake.sent \in 0 .. 1
      BY <2>0, <2>3 DEF SmtpStory, MailgunStory, Typed
    <3>1. ctx.cancelled = Gone => fake.sent = 0 /\ result # "nil"
      BY <2>0, <2>3, <3>0 DEF FakeStory
    <3>2. answer = 502 => result \in {"context", "send"}
      BY <2>0, <2>3 DEF FakeStory, AnswerStory, Returned
    <3>3. result # "timeout"
      BY <2>0, <2>3 DEF FakeStory
    <3> QED
      BY <2>3, <3>0, <3>1, <3>2, <3>3 DEF KeepsContract, Delivered, Steps
  <2> QED
    BY <2>0, <2>1, <2>2, <2>3 DEF Typed
<1> QED
  BY <1>1, InvHolds, PTL

\* A call ends by the timeout and by the caller's own deadline, closes what it
\* opened, and with all but SMTP stops the clock once the visitor is gone.
THEOREM EndsInTimeHolds == Spec => []EndsInTime
<1>1. Inv => EndsInTime
  <2> SUFFICES ASSUME Inv PROVE EndsInTime
    OBVIOUS
  <2>0. /\ Typed /\ SmtpStory /\ MailgunStory /\ FakeStory /\ AnswerStory
        /\ now \in Nat /\ provider \in {"smtp", "mailgun", "fake"}
        /\ ctx.deadline \in Nat \/ ctx.deadline = NoDeadline
        /\ ctx.cancelled \in Nat
    <3>1. Typed /\ SmtpStory /\ MailgunStory /\ FakeStory /\ AnswerStory
      BY DEF Inv
    <3>2. now \in Nat /\ provider \in {"smtp", "mailgun", "fake"} /\ ctx.cancelled \in Nat
      BY <3>1, Clock DEF Typed
    <3>3. ctx.deadline \in Nat \/ ctx.deadline = NoDeadline
      <4>1. ctx.deadline \in Began .. MaxNow \/ ctx.deadline = NoDeadline
        BY <3>1, TimeoutAssumption DEF Typed
      <4> QED
        BY <4>1, Clock
    <3> QED
      BY <3>1, <3>2, <3>3
  <2>1. OnTime \/ (now = Began /\ deadline = NoDeadline)
    BY <2>0 DEF SmtpStory, SmtpTime, MailgunStory, FakeStory
  <2>2. /\ now <= Began + Timeout
        /\ ctx.deadline # NoDeadline /\ deadline # NoDeadline => now <= ctx.deadline
    BY <2>0, <2>1, Clock DEF OnTime
  <2>3. answer # 0 => ~conn.open
    BY <2>0 DEF AnswerStory, Returned, SmtpStory, SmtpTime
  <2>4. Cancelled /\ provider # "smtp" =>
          now <= IF ctx.cancelled = Gone THEN Began ELSE ctx.cancelled
    <3>1. CASE provider = "mailgun"
      BY <2>0, <3>1 DEF MailgunStory
    <3>2. CASE provider = "fake"
      BY <2>0, <3>2, Clock DEF FakeStory
    <3> QED
      BY <2>0, <3>1, <3>2
  <2> QED
    BY <2>2, <2>3, <2>4 DEF EndsInTime
<1> QED
  BY <1>1, InvHolds, PTL

\* The step a DeliveryError names says what is known of the message.
THEOREM StepTellsHowFarHolds == Spec => []StepTellsHowFar
<1>1. Inv => StepTellsHowFar
  <2> SUFFICES ASSUME Inv, provider = "smtp", result \notin {"pending", "nil"}
               PROVE  /\ result \notin {"close body", "quit"} => server.taken = 0
                      /\ result = "quit" => server.taken = 1
                      /\ result \in {"config", "dial"} => ~session.offersTLS /\ ~server.loggedIn
                      /\ result = "auth" => sender.username /\ ~server.loggedIn
                      /\ result = "starttls" => session.offersTLS /\ ~server.loggedIn
    BY DEF StepTellsHowFar, Smtp!StepTellsHowFar
  <2>1. SmtpResult /\ SmtpMessage /\ SmtpSession
    BY DEF Inv, SmtpStory
  <2>2. result \in {"config"} \cup (Smtp!Blocking \ {"hello"})
    BY <2>1 DEF SmtpResult
  <2>3. result \notin {"close body", "quit"} => result \in {"config"} \cup Unsent
    BY <2>2 DEF Smtp!Blocking, Smtp!Ops, Unsent, Greeting
  <2>4. /\ result \notin {"close body", "quit"} => server.taken = 0
        /\ result = "quit" => server.taken = 1
    BY <2>1, <2>3 DEF SmtpMessage
  <2> QED
    BY <2>1, <2>4 DEF SmtpSession
<1> QED
  BY <1>1, InvHolds, PTL

\* No login and no message in the clear where TLS is to be had.
THEOREM TLSWhereOfferedHolds == Spec => []TLSWhereOffered
<1>1. Inv => TLSWhereOffered
  <2> SUFFICES ASSUME Inv PROVE Smtp!TLSWhereOffered
    BY DEF TLSWhereOffered
  <2>1. CASE provider = "smtp"
    BY <2>1 DEF Inv, SmtpStory, SmtpSession, Typed, Smtp!TLSWhereOffered
  <2>2. CASE provider # "smtp"
    BY <2>2 DEF Inv, SmtpStory, Smtp!TLSWhereOffered
  <2> QED
    BY <2>1, <2>2
<1> QED
  BY <1>1, InvHolds, PTL

-----------------------------------------------------------------------------
(* Every one of the three is a Mailer.                                     *)

\* What the visitor has been told, as a Mailer's result.
Told == CASE answer = 0 -> "pending" [] answer = 202 -> "nil" [] answer = 502 -> "error"

\* The steps of a Mailer in terms of the call's variables.
LEMMA PortStep ==
    ASSUME \/ Delivered' = Delivered /\ answer' = answer
           \/ answer \in {0, 502} /\ Delivered = 0 /\ Delivered' = 1 /\ answer' = answer
           \/ answer = 0 /\ answer' = 202 /\ Delivered = 1 /\ Delivered' = Delivered
           \/ answer = 0 /\ answer' = 502 /\ Delivered' = Delivered
    PROVE  Port!Next \/ UNCHANGED Port!vars
<1> HIDE DEF Delivered
<1> DEFINE D == Delivered
<1>1. CASE Delivered' = Delivered /\ answer' = answer
  BY <1>1 DEF Port!vars
<1>2. CASE answer \in {0, 502} /\ Delivered = 0 /\ Delivered' = 1 /\ answer' = answer
  BY <1>2 DEF Port!Next, Port!ProviderTakes
<1>3. CASE answer = 0 /\ answer' = 202 /\ Delivered = 1 /\ Delivered' = Delivered
  BY <1>3 DEF Port!Next, Port!ReturnNil
<1>4. CASE answer = 0 /\ answer' = 502 /\ Delivered' = Delivered
  BY <1>4 DEF Port!Next, Port!ReturnError
<1> QED
  BY <1>1, <1>2, <1>3, <1>4

\* Only the provider in use has the message, once at most; who was told 202 was
\* sent for.
LEMMA DeliveredOnce ==
    ASSUME Inv
    PROVE  /\ Delivered = CASE provider = "smtp" -> server.taken
                            [] provider = "mailgun" -> taken
                            [] provider = "fake" -> fake.sent
           /\ Delivered \in {0, 1}
           /\ Returned /\ result = "nil" => Delivered = 1
<1>0. Typed /\ SmtpStory /\ MailgunStory /\ FakeStory
  BY DEF Inv
<1>t. server.taken \in {0, 1} /\ taken \in {0, 1} /\ fake.sent \in {0, 1}
  BY <1>0 DEF Typed
<1>1. CASE provider = "smtp"
  <2>1. taken = 0 /\ fake.sent = 0 /\ (result = "nil" => server.taken = 1)
    BY <1>0, <1>1 DEF SmtpStory, SmtpMessage, MailgunStory, FakeStory
  <2> QED
    BY <1>1, <1>t, <2>1 DEF Delivered
<1>2. CASE provider = "mailgun"
  <2>1. server.taken = 0 /\ fake.sent = 0 /\ (result = "nil" => taken = 1)
    BY <1>0, <1>2 DEF SmtpStory, MailgunStory, FakeStory
  <2> QED
    BY <1>2, <1>t, <2>1 DEF Delivered
<1>3. CASE provider = "fake"
  <2>1. server.taken = 0 /\ taken = 0 /\ (result = "nil" => fake.sent = 1)
    BY <1>0, <1>3 DEF SmtpStory, MailgunStory, FakeStory
  <2> QED
    BY <1>3, <1>t, <2>1 DEF Delivered
<1> QED
  BY <1>0, <1>1, <1>2, <1>3 DEF Typed

\* Every step of a call with any of the three is a step of a Mailer, or none.
LEMMA StepIsMailers == Inv /\ [Next]_vars => [Port!Next]_Port!vars
<1> SUFFICES ASSUME Inv, [Next]_vars PROVE Port!Next \/ UNCHANGED Port!vars
  OBVIOUS
<1>0. Typed /\ SmtpStory /\ MailgunStory /\ FakeStory /\ AnswerStory
  BY DEF Inv
<1>1. CASE SmtpSend
  <2>1. server'.taken = server.taken /\ UNCHANGED <<taken, fake, answer>>
    <3>1. Smtp!SendStep /\ UNCHANGED <<taken, fake, answer>>
      BY <1>1 DEF SmtpSend, mailgunVars
    <3>2. CASE Smtp!Auth \/ Smtp!Command \/ Smtp!CloseBody
      <4>1. /\ server \in [loggedIn : BOOLEAN, dot : BOOLEAN, taken : 0 .. 1, replied : BOOLEAN]
            /\ \/ server' = [server EXCEPT !.loggedIn = TRUE]
               \/ \E final \in BOOLEAN : server' = [server EXCEPT !.dot = final]
               \/ server' = [server EXCEPT !.replied = TRUE]
        BY <1>0, <3>2 DEF Typed, Smtp!Auth, Smtp!Command, Smtp!CloseBody
      <4> QED
        BY <3>1, <4>1
    <3>3. CASE server' = server
      BY <3>1, <3>3
    <3> QED
      BY <3>1, <3>2, <3>3
         DEF Smtp!SendStep, Smtp!Start, Smtp!Dial, Smtp!SetDeadline, Smtp!SetDeadlineFails,
             Smtp!Handshake, Smtp!Hello, Smtp!StartTLS, Smtp!Quit, Smtp!Fails, Smtp!Return,
             Smtp!peer
  <2> QED
    BY <2>1, PortStep DEF Delivered
<1>2. CASE MailgunSend
  <2>1. UNCHANGED <<server, taken, fake, answer>>
    BY <1>2
       DEF MailgunSend, smtpVars, Mailgun!SendStep, Mailgun!Start, Mailgun!Succeeds,
           Mailgun!Fails, Mailgun!TimesOut, Mailgun!Return
  <2> QED
    BY <2>1, PortStep DEF Delivered
<1>3. CASE FakeSend
  <2>1. /\ provider = "fake" /\ result = "pending" /\ answer' = answer
        /\ server' = server /\ taken' = taken
        /\ fake' = fake \/ fake' = [fake EXCEPT !.sent = @ + 1]
    BY <1>3 DEF FakeSend, smtpVars, mailgunVars
  <2>2. answer = 0 /\ fake.sent = 0 /\ Delivered = 0
    <3>1. answer = 0 /\ fake.sent = 0
      BY <1>0, <2>1 DEF AnswerStory, Returned, FakeStory, Typed
    <3> QED
      BY <2>1, <3>1, DeliveredOnce
  <2>3. server.taken = 0 /\ taken = 0
    BY <1>0, <2>1 DEF SmtpStory, MailgunStory
  <2>4. CASE fake' = fake
    BY <2>1, <2>4, PortStep DEF Delivered
  <2>5. CASE fake' = [fake EXCEPT !.sent = @ + 1]
    <3>1. fake'.sent = 1
      BY <1>0, <2>2, <2>5 DEF Typed
    <3>2. Delivered' = 1
      BY <2>1, <2>3, <3>1 DEF Delivered
    <3> QED
      BY <2>1, <2>2, <3>2, PortStep
  <2> QED
    BY <2>1, <2>4, <2>5
<1>4. CASE Answer
  <2>1. /\ Returned /\ answer = 0 /\ answer' = IF result = "nil" THEN 202 ELSE 502
        /\ UNCHANGED <<server, taken, fake>>
    BY <1>4 DEF Answer, smtpVars, mailgunVars
  <2>2. Delivered' = Delivered
    BY <2>1 DEF Delivered
  <2> QED
    BY <2>1, <2>2, DeliveredOnce, PortStep
<1>5. CASE Outside
  <2>0. UNCHANGED <<fake, answer>>
    BY <1>5 DEF Outside
  <2>1. CASE provider = "smtp" /\ Smtp!ServerTakes /\ UNCHANGED mailgunVars
    <3>1. /\ server.dot /\ server'.taken = server.taken + 1 /\ taken' = taken
      BY <1>0, <2>1 DEF Typed, Smtp!ServerTakes, mailgunVars
    <3>2. server.taken = 0 /\ taken = 0 /\ fake.sent = 0 /\ result # "nil"
      BY <1>0, <2>1, <3>1 DEF SmtpStory, SmtpMessage, MailgunStory, FakeStory
    <3>3. Delivered = 0 /\ Delivered' = 1
      BY <2>0, <3>1, <3>2 DEF Delivered
    <3>4. answer \in {0, 502}
      BY <1>0, <3>2 DEF AnswerStory, Typed
    <3> QED
      BY <2>0, <3>3, <3>4, PortStep
  <2>2. CASE provider = "mailgun" /\ Mailgun!ApiAnswers /\ UNCHANGED smtpVars
    <3>1. /\ request = "sent" /\ taken' \in {taken, taken + 1}
          /\ server' = server
      BY <2>2 DEF Mailgun!ApiAnswers, smtpVars
    <3>2. server.taken = 0 /\ taken = 0 /\ fake.sent = 0 /\ result # "nil"
      BY <1>0, <2>2 DEF Typed, SmtpStory, MailgunStory, FakeStory, Mailgun!ApiAnswers
    <3>3. Delivered = 0 /\ Delivered' \in {0, 1}
      <4>1. Delivered = 0
        BY <3>2 DEF Delivered
      <4>2. taken' = 0 \/ taken' = 1
        BY <3>1, <3>2
      <4>3. server'.taken = 0 /\ fake'.sent = 0
        BY <2>0, <3>1, <3>2
      <4>4. Delivered' = taken'
        BY <4>2, <4>3 DEF Delivered
      <4> QED
        BY <4>1, <4>2, <4>4
    <3>4. answer \in {0, 502}
      BY <1>0, <3>2 DEF AnswerStory, Typed
    <3> QED
      BY <2>0, <3>3, <3>4, PortStep
  <2>3. CASE UNCHANGED <<server, taken>>
    BY <2>0, <2>3, PortStep DEF Delivered
  <2> QED
    BY <1>5, <2>1, <2>2, <2>3
       DEF Outside, Smtp!Cancel, Smtp!Tick, Smtp!peer, Mailgun!Cancel, Mailgun!Tick,
           smtpVars, mailgunVars
<1>6. CASE UNCHANGED vars
  BY <1>6, PortStep DEF vars, smtpVars, mailgunVars, Delivered
<1> QED
  BY <1>1, <1>2, <1>3, <1>4, <1>5, <1>6 DEF Next, HandlerStep

\* Whichever mailer a form has, the handler makes of it what a Mailer promises:
\* all of ImplementsMailer but the promise to return.
THEOREM ImplementsMailerSafely == Spec => Port!Safe
<1>1. Init => Port!Init
  BY DEF Init, Smtp!Init, Mailgun!Init, Delivered, Port!Init
<1> QED
  BY <1>1, StepIsMailers, InvHolds, PTL DEF Spec, Port!Safe
=============================================================================
