---------------------------- MODULE MCEventQueue ----------------------------
(* EventQueue for TLC: two events, one or two workers. *)
EXTENDS EventQueue, TLC

\* Workers of the same kind are interchangeable (safety runs only).
WorkerSymmetry == Permutations(Publishers) \cup Permutations(Events)
=============================================================================
