------------------------------ MODULE Delivery ------------------------------
(***************************************************************************)
(* contact.Handler.deliver with a mailer behind it: one call of Send and   *)
(* the answer that is made of its result.  The mailer is the SMTP adapter, *)
(* the Mailgun adapter or mailertest.Fake, the three that                  *)
(* mailertest.Contract is run against; the handler knows none of them.     *)
(***************************************************************************)
EXTENDS SendContext

VARIABLES
    provider,        \* which mailer the form has: "smtp", "mailgun" or "fake"
    sender, op, conn, session, server,     \* of SmtpSender
    request, taken,                        \* of MailgunSender
    fake,            \* mailertest.Fake: is it broken, how often it took the message
    answer           \* what the visitor was sent, 0 before

call == <<now, ctx, deadline, result>>
smtpVars == <<sender, op, conn, session, server>>
mailgunVars == <<request, taken>>
vars == <<call, provider, smtpVars, mailgunVars, fake, answer>>

Smtp == INSTANCE SmtpSender
Mailgun == INSTANCE MailgunSender

Init ==
    /\ provider \in {"smtp", "mailgun", "fake"}
    /\ Smtp!Init
    /\ Mailgun!Init
    /\ fake \in [broken : BOOLEAN, sent : {0}]
    /\ answer = 0

SmtpSend ==
    /\ provider = "smtp"
    /\ Smtp!SendStep
    /\ UNCHANGED <<provider, mailgunVars, fake, answer>>

MailgunSend ==
    /\ provider = "mailgun"
    /\ Mailgun!SendStep
    /\ UNCHANGED <<provider, smtpVars, fake, answer>>

\* Fake.Send, which holds its mutex from the look at the cause to the return.
FakeSend ==
    /\ provider = "fake"
    /\ result = "pending"
    /\ \/ Cancelled /\ result' = "context" /\ UNCHANGED fake
       \/ ~Cancelled /\ fake.broken /\ result' = "send" /\ UNCHANGED fake
       \/ ~Cancelled /\ ~fake.broken /\ result' = "nil" /\ fake' = [fake EXCEPT !.sent = @ + 1]
    /\ UNCHANGED <<now, ctx, deadline, provider, smtpVars, mailgunVars, answer>>

Returned == result # "pending" /\ (provider = "smtp" => op = "returned")

\* The handler's answer to what Send returned.
Answer ==
    /\ Returned
    /\ answer = 0
    /\ answer' = IF result = "nil" THEN 202 ELSE 502
    /\ UNCHANGED <<call, provider, smtpVars, mailgunVars, fake>>

\* What the server, the API, the visitor and the clock do.
Outside ==
    /\ \/ /\ provider = "smtp"
          /\ Smtp!ServerTakes \/ Smtp!Cancel \/ Smtp!Tick
          /\ UNCHANGED mailgunVars
       \/ /\ provider = "mailgun"
          /\ Mailgun!ApiAnswers \/ Mailgun!Cancel \/ Mailgun!Tick
          /\ UNCHANGED smtpVars
       \/ /\ provider = "fake"
          /\ Cancels /\ ~Returned
          /\ UNCHANGED <<now, deadline, result, smtpVars, mailgunVars>>
    /\ UNCHANGED <<provider, fake, answer>>

HandlerStep == SmtpSend \/ MailgunSend \/ FakeSend \/ Answer

Next == HandlerStep \/ Outside

\* The handler and its adapter go on by themselves; nobody else owes anything.
Spec == Init /\ [][Next]_vars /\ WF_vars(HandlerStep)

-----------------------------------------------------------------------------
Delivered == server.taken + taken + fake.sent

TypeOK ==
    /\ provider = "smtp" => Smtp!TypeOK
    /\ provider = "mailgun" => Mailgun!TypeOK
    /\ provider = "fake" => ContextTypeOK /\ fake.sent \in 0 .. 1
    /\ answer \in {0, 202, 502}

(***************************************************************************)
(* Each of the three is a Mailer to the handler: a visitor told 202 has    *)
(* been sent for, once, and a server that stops answering does not keep    *)
(* the visitor from an answer.                                             *)
(***************************************************************************)
Port == INSTANCE Mailer WITH
    deliveries <- Delivered,
    result <- CASE answer = 0 -> "pending" [] answer = 202 -> "nil" [] answer = 502 -> "error"

ImplementsMailer == Port!Spec

(***************************************************************************)
(* The contract of mailertest, for every order of events: a visitor gone   *)
(* before the call is never sent for, whatever was configured; and behind  *)
(* a 502 is an error that names a step of this provider's, a timeout only  *)
(* when the time was used up (mailertest.go:100-117, 132-163).             *)
(***************************************************************************)
Steps ==
    CASE provider = "smtp" -> {"config"} \cup (Smtp!Blocking \ {"hello"})
      [] provider = "mailgun" -> {"send", "timeout"}
      [] provider = "fake" -> {"context", "send"}

KeepsContract ==
    /\ ctx.cancelled = Gone => Delivered = 0 /\ result # "nil"
    /\ answer = 502 => result \in Steps
    /\ result = "timeout" => now = deadline

(***************************************************************************)
(* Nothing outlives the call, and the call ends in time: by the timeout    *)
(* and by the caller's own deadline with either adapter, and with Mailgun  *)
(* and the fake as soon as the visitor has gone.  SMTP watches for that    *)
(* only while it dials (smtp.go:55); its deadline is what bounds a         *)
(* conversation that nobody waits for.                                     *)
(***************************************************************************)
EndsInTime ==
    /\ now <= Began + Timeout
    /\ ctx.deadline # NoDeadline /\ deadline # NoDeadline => now <= ctx.deadline
    /\ answer # 0 => ~conn.open
    /\ Cancelled /\ provider # "smtp" => now <= IF ctx.cancelled = Gone THEN Began ELSE ctx.cancelled

(***************************************************************************)
(* A DeliveryError of the SMTP adapter says how far the message got.       *)
(***************************************************************************)
StepTellsHowFar == provider = "smtp" => Smtp!StepTellsHowFar

(***************************************************************************)
(* No login and no message in the clear where TLS is to be had.            *)
(***************************************************************************)
TLSWhereOffered == Smtp!TLSWhereOffered
=============================================================================
