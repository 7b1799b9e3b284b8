--------------------------- MODULE MCEpisodeIndex ---------------------------
(* EpisodeIndex for TLC. *)
EXTENDS EpisodeIndex, TLC
=============================================================================
