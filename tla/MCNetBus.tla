------------------------------ MODULE MCNetBus ------------------------------
(***************************************************************************)
(* Instances of NetBus for TLC: a hardware that is a switch and a lamp,    *)
(* a plugin of each type, and every way to draw one or two links.          *)
(***************************************************************************)
EXTENDS NetBus, TLC

CONSTANTS h, p1, p2, p3, p4

MCKind == p1 :> "hub" @@ p2 :> "switch" @@ p3 :> "relay" @@ p4 :> "button"

To(c, d, a) == [source |-> c, destination |-> d, action |-> a]

\* The button drives as the switch does, so that only one of them drives plugins.
AllLinks ==
  {To(c, h, "setvalue") : c \in {p1, p2, p3, p4}}
    \cup {To(c, d, "input") : c \in {h, p1, p2, p3}, d \in {p1, p2, p3, p4}}
    \cup {To(c, p3, a) : c \in {h, p1, p2, p3}, a \in {"on", "off"}}

Distinct(s) == Cardinality({s[j] : j \in DOMAIN s}) = Len(s)

\* Every way to draw one or two.
FewLinks == {<<l>> : l \in AllLinks} \cup {s \in [1 .. 2 -> AllLinks] : Distinct(s)}
=============================================================================
