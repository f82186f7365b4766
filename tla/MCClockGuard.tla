----------------------------- MODULE MCClockGuard -----------------------------
(* Instances of ClockGuard: small corrections and jumps, either way.        *)
EXTENDS ClockGuard

MCAdjustments == {-8, -1, 1, 8}
=============================================================================
