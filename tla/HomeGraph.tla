------------------------------ MODULE HomeGraph ------------------------------
(***************************************************************************)
(* What mylife-home-core promises to those who edit the home's graph: the  *)
(* graph that runs changes by one component or one link at a time and      *)
(* never has a link without its two ends; a copy of it survives the        *)
(* process, unless a save was cut short; a restart runs that copy.         *)
(***************************************************************************)
CONSTANTS
  HwIds, PluginIds,  \* the ids under which components of each kind live
  Configs,           \* what a component's configuration holds
  Links,             \* the links, records with their two component ids
  Absent,            \* no component under that id
  Down,              \* the value of live while nothing runs
  Lost               \* the value of durable once it can not be read

VARIABLES
  live,     \* the graph that runs, or Down
  durable   \* the copy that survives the process, or Lost

EmptyHome == [hardware |-> [i \in HwIds |-> Absent],
              plugins  |-> [i \in PluginIds |-> Absent],
              links    |-> {}]

Has(g, i) == \/ i \in HwIds /\ g.hardware[i] # Absent
             \/ i \in PluginIds /\ g.plugins[i] # Absent

UsedIn(g, i) ==
  \E l \in g.links : l.sourceComponent = i \/ l.destinationComponent = i

Init == live = Down /\ durable = EmptyHome

\* A component is added under an id its kind does not use, or removed when no
\* link needs it.
ChangeHardware(i) ==
  \/ /\ live.hardware[i] = Absent
     /\ \E c \in Configs : live' = [live EXCEPT !.hardware[i] = c]
  \/ /\ ~UsedIn(live, i)
     /\ live' = [live EXCEPT !.hardware[i] = Absent]

ChangePlugin(i) ==
  \/ /\ live.plugins[i] = Absent
     /\ \E c \in Configs : live' = [live EXCEPT !.plugins[i] = c]
  \/ /\ ~UsedIn(live, i)
     /\ live' = [live EXCEPT !.plugins[i] = Absent]

ChangeLink(l) ==
  \/ /\ Has(live, l.sourceComponent) /\ Has(live, l.destinationComponent)
     /\ live' = [live EXCEPT !.links = @ \cup {l}]
  \/ live' = [live EXCEPT !.links = @ \ {l}]

Change ==
  /\ live # Down
  /\ \/ \E i \in HwIds : ChangeHardware(i)
     \/ \E i \in PluginIds : ChangePlugin(i)
     \/ \E l \in Links : ChangeLink(l)
  /\ UNCHANGED durable

Persist == live # Down /\ durable' = live /\ UNCHANGED live
Lose    == live # Down /\ durable' = Lost /\ UNCHANGED live
Stop    == live # Down /\ live' = Down /\ UNCHANGED durable
Restart == live = Down /\ durable # Lost /\ live' = durable /\ UNCHANGED durable

Next == Change \/ Persist \/ Lose \/ Stop \/ Restart

Spec == Init /\ [][Next]_<<live, durable>>
=============================================================================
