---------------------------- MODULE MCTickHosts ----------------------------
(* TickHosts for TLC. *)
EXTENDS TickHosts
=============================================================================
