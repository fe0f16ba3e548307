------------------------------ MODULE MCCompMpd ------------------------------
(***************************************************************************)
(* Instances of CompMpd for TLC.                                           *)
(***************************************************************************)
EXTENDS CompMpd

CONSTANTS stop, play, low, high
=============================================================================
