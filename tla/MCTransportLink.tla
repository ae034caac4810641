-------------------------- MODULE MCTransportLink --------------------------
(* TLC instances of TransportLink: server, client. *)
EXTENDS TransportLink
=============================================================================
