----------------------------- MODULE MCMusicLoop -----------------------------
(***************************************************************************)
(* An instance of MusicLoop for TLC.                                       *)
(***************************************************************************)
EXTENDS MusicLoop
=============================================================================
