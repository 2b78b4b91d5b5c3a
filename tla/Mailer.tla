------------------------------- MODULE Mailer -------------------------------
(***************************************************************************)
(* What a contact.Mailer promises for one call of Send, whichever adapter  *)
(* is behind it: the provider takes the message at most once, no error     *)
(* means that it did, and the call returns.  An error leaves it open, and  *)
(* the provider may even take the message after the error was returned.    *)
(***************************************************************************)
EXTENDS Naturals

VARIABLES
    result,       \* "pending", then "nil" or "error"
    deliveries    \* how often the provider has taken the message

vars == <<result, deliveries>>

Init == result = "pending" /\ deliveries = 0

ProviderTakes ==
    /\ result # "nil"
    /\ deliveries = 0
    /\ deliveries' = 1
    /\ UNCHANGED result

ReturnNil ==
    /\ result = "pending"
    /\ deliveries = 1
    /\ result' = "nil"
    /\ UNCHANGED deliveries

ReturnError ==
    /\ result = "pending"
    /\ result' = "error"
    /\ UNCHANGED deliveries

Next == ProviderTakes \/ ReturnNil \/ ReturnError

\* Without the promise to return, which is nothing one step can break.
Safe == Init /\ [][Next]_vars

\* Send is on the request path: it returns, one way or the other.
Spec == Init /\ [][Next]_vars /\ WF_vars(ReturnNil \/ ReturnError)
=============================================================================
