--------------------------- MODULE MailgunSender ---------------------------
(***************************************************************************)
(* One call of mailgun.Sender.Send: a single request to the Mailgun API    *)
(* under a context that ends at the timeout, at the caller's own deadline  *)
(* or when the caller is gone, whichever is first.  The client gives up as *)
(* soon as the context is done; the API may take the message before the    *)
(* reply gets through, or after nobody waits for it any more.              *)
(***************************************************************************)
EXTENDS SendContext

VARIABLES
    request,         \* "none", "sent", "refused", "taken"; the API's side of it
    taken            \* how often the API has taken the message

vars == <<now, ctx, deadline, result, request, taken>>

Waiting == request # "none" /\ result = "pending"

Init ==
    /\ ContextInit
    /\ request = "none"
    /\ taken = 0

\* context.WithTimeout and the request: the earlier deadline holds, and nothing
\* is sent for a visitor who has already gone.
Start ==
    /\ request = "none"
    /\ deadline' = Earlier
    /\ request' = IF Cancelled THEN "refused" ELSE "sent"
    /\ UNCHANGED <<now, ctx, taken, result>>

Return(how) ==
    /\ Waiting
    /\ result' = how
    /\ UNCHANGED <<now, ctx, deadline, request, taken>>

\* Faulty variant: any answer counts as success.
AnyAnswer == request \in {"refused", "taken"}
GoodAnswer == request = "taken"

Succeeds == GoodAnswer /\ Return("nil")

\* A refused key, a broken connection, an answer nobody can read, or a context
\* that was cancelled.
Fails == Return("send")

\* errors.Is(err, context.DeadlineExceeded): the context keeps its first reason.
TimesOut == now = deadline /\ ~(ctx.cancelled < deadline) /\ Return("timeout")

-----------------------------------------------------------------------------
ApiAnswers ==
    /\ request = "sent"
    /\ \/ request' = "taken" /\ taken' = taken + 1
       \/ request' = "refused" /\ UNCHANGED taken
    /\ UNCHANGED <<now, ctx, deadline, result>>

Cancel ==
    /\ Cancels
    /\ result = "pending"
    /\ UNCHANGED <<now, deadline, request, taken, result>>

\* Time passes while the client waits, which it does not once ctx is done.
Tick ==
    /\ Waiting
    /\ ~Cancelled
    /\ now < deadline
    /\ now' = now + 1
    /\ UNCHANGED <<ctx, deadline, request, taken, result>>

SendStep == Start \/ Succeeds \/ Fails \/ TimesOut

Next == SendStep \/ ApiAnswers \/ Cancel \/ Tick

Spec == Init /\ [][Next]_vars /\ WF_vars(SendStep)

TypeOK ==
    /\ ContextTypeOK
    /\ request \in {"none", "sent", "refused", "taken"}
    /\ taken \in 0 .. 1
    /\ result \in {"pending", "nil", "send", "timeout"}
=============================================================================
