--------------------------- MODULE MCSimAdmission ---------------------------
(* SimAdmission for TLC. *)
EXTENDS SimAdmission, TLC


=============================================================================
