-------------------------- MODULE MCIdentityStore --------------------------
(* TLC instance of IdentityStore on a disk without faults. *)
EXTENDS IdentityStore
=============================================================================
