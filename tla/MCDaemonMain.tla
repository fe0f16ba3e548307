---------------------------- MODULE MCDaemonMain ----------------------------
(***************************************************************************)
(* An instance of DaemonMain for TLC.                                      *)
(***************************************************************************)
EXTENDS DaemonMain, TLC

Symmetry == Permutations(Shells) \cup Permutations(Pids)
=============================================================================
