--------------------------- MODULE MCStateMirror ---------------------------
(* StateMirror for TLC. *)
EXTENDS StateMirror
=============================================================================
