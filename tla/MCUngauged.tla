----------------------------- MODULE MCUngauged -----------------------------
(* Ungauged by itself, for TLC: two points on rivers and a headwater. *)
EXTENDS Ungauged
=============================================================================
