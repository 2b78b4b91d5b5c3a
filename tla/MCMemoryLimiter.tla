-------------------------- MODULE MCMemoryLimiter --------------------------
(* MemoryLimiter for TLC: two goroutines that may ask for the same caller  *)
(* or for different ones, an unlimited form and one that allows one.       *)
EXTENDS MemoryLimiter

MCLimits == {0, 1}
=============================================================================
