---------------------------- MODULE MCCaptureTap ----------------------------
(* TLC instances of CaptureTap. *)
EXTENDS CaptureTap
=============================================================================
