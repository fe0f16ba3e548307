----------------------------- MODULE MCUiClient -----------------------------
(***************************************************************************)
(* An instance of UiClient for TLC.                                        *)
(***************************************************************************)
EXTENDS UiClient
=============================================================================
