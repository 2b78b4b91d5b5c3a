---------------------------- MODULE SendContext ----------------------------
(***************************************************************************)
(* What every call of contact.Mailer.Send is given and has to return: the  *)
(* caller's context, the deadline the adapter works to, and the result.    *)
(* The clock reads Began when the call begins.                             *)
(***************************************************************************)
EXTENDS Naturals

CONSTANTS
    Timeout,         \* the adapter's own timeout
    CtxDeadlines,    \* deadlines the caller's context may carry
    NoDeadline,      \* a context or a connection without one
    MaxNow           \* bound: the tick at which the clock stops

Began == 1
Gone == 0                      \* the caller left before the call
NotCancelled == MaxNow + 1

ASSUME TimeoutAssumption ==
    /\ Timeout \in Nat /\ MaxNow \in Nat
    /\ Began + Timeout < MaxNow
    /\ CtxDeadlines \subseteq Began .. MaxNow \cup {NoDeadline}

\* A deadline is a moment of the clock, and having none is not one.
ASSUME NoDeadlineAssumption == NoDeadline \notin Nat

VARIABLES
    now,
    ctx,             \* the caller's context: its deadline, when it was cancelled
    deadline,        \* the one the adapter works to
    result           \* "pending", "nil", or the Op of the DeliveryError

Cancelled == ctx.cancelled # NotCancelled

ContextInit ==
    /\ now = Began
    /\ ctx \in [deadline : CtxDeadlines, cancelled : {Gone, NotCancelled}]
    /\ deadline = NoDeadline
    /\ result = "pending"

\* The earlier of the timeout and the caller's deadline.
Earlier ==
    IF ctx.deadline # NoDeadline /\ ctx.deadline < now + Timeout
    THEN ctx.deadline ELSE now + Timeout

\* The visitor closes the tab.
Cancels == ~Cancelled /\ ctx' = [ctx EXCEPT !.cancelled = now]

ContextTypeOK ==
    /\ now \in Began .. MaxNow
    /\ ctx \in [deadline : CtxDeadlines, cancelled : Gone .. NotCancelled]
    /\ deadline \in Began .. MaxNow \cup {NoDeadline}
=============================================================================
