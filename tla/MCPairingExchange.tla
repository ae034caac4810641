------------------------- MODULE MCPairingExchange -------------------------
(* TLC instance of PairingExchange: it has no constants to choose. *)
EXTENDS PairingExchange
=============================================================================
