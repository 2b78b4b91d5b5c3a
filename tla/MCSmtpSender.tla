---------------------------- MODULE MCSmtpSender ----------------------------
(* SmtpSender for TLC: contexts with no deadline, one before the timeout   *)
(* and one after it, and a clock that reaches past both.                   *)
EXTENDS SmtpSender

CONSTANT none

MCCtxDeadlines == {2, 4, none}
=============================================================================
