---------------------------- MODULE MCAnnouncer ----------------------------
(* TLC instance of Announcer with fair threads. *)
EXTENDS Announcer
=============================================================================
