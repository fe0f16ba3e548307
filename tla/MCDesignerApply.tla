--------------------------- MODULE MCDesignerApply ---------------------------
(***************************************************************************)
(* Instances of DesignerApply for TLC.                                     *)
(***************************************************************************)
EXTENDS DesignerApply

CONSTANTS h1, p1, c1, c2

Link(s, d) == [sourceComponent |-> s, destinationComponent |-> d]

\* One link each way between a hardware and a plugin.
BothWays == {Link(h1, p1), Link(p1, h1)}

\* Every consistent graph.
Drawings == {g \in Graphs : Bootable(g)}

\* For two browsers: nothing, or a hardware linked to a plugin, or the same with the
\* hardware elsewhere on the screen, whose link is destroyed and made again.
OneWay == {Link(h1, p1)}
Drawn(c) == [hardware |-> [i \in HwIds |-> c], plugins |-> [i \in PluginIds |-> "here"],
             links |-> OneWay]
Pair == {Drawn("here"), Drawn("moved")}
=============================================================================
