--------------------------- MODULE MCSendBacklog ---------------------------
(* TLC instances of SendBacklog. *)
EXTENDS SendBacklog
=============================================================================
