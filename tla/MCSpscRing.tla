----------------------------- MODULE MCSpscRing -----------------------------
(* TLC instances of SpscRing; the configurations fix the ring and the CPU. *)
EXTENDS SpscRing
=============================================================================
