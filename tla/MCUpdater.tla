----------------------------- MODULE MCUpdater ------------------------------
(* Updater by itself, for TLC: one archive feed. *)
EXTENDS Updater
=============================================================================
