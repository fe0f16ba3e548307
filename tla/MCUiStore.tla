----------------------------- MODULE MCUiStore -----------------------------
(***************************************************************************)
(* An instance of UiStore for TLC.                                         *)
(***************************************************************************)
EXTENDS UiStore

\* Nothing, or a display of each component.
NothingOrAll == {{}, Types}
=============================================================================
