----------------------------- MODULE MCDelivery -----------------------------
(* Delivery for TLC: contexts without a deadline, and with one at the      *)
(* start of the call, before the timeout, at it and after it.              *)
EXTENDS Delivery

CONSTANT none

MCCtxDeadlines == {1, 2, 3, 4, none}
=============================================================================
