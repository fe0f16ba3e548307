---------------------------- MODULE MCHardwareMirror ----------------------------
(***************************************************************************)
(* Instances of HardwareMirror for TLC.                                    *)
(***************************************************************************)
EXTENDS HardwareMirror, TLC

CONSTANTS h1, h2, dim, bright

\* Safety only: components, and values, are interchangeable.
Swaps == Permutations(Hardware) \cup Permutations(Values)
=============================================================================
