---------------------------- MODULE MCCoreManager ----------------------------
(***************************************************************************)
(* Instances of CoreManager for TLC.                                       *)
(***************************************************************************)
EXTENDS CoreManager

CONSTANTS h1, p1, p2

Link(s, d) == [sourceComponent |-> s, destinationComponent |-> d]

\* Hardware to plugin, plugin to plugin, plugin to hardware.
ThreeLinks == {Link(h1, p1), Link(p1, p2), Link(p2, h1)}
=============================================================================
