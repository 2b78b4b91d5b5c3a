---------------------------- MODULE MCRateLimit ----------------------------
(* RateLimit for TLC: two callers, limits that disable, tighten and loosen *)
(* the limiter, and a clock long enough for three windows.                 *)
EXTENDS RateLimit

MCLimits == {0, 1, 2}
=============================================================================
