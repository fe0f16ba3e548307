----------------------------- MODULE CoreProofs -----------------------------
(***************************************************************************)
(* Theorems about the core and about the designer that drives it.          *)
(* CoreManager, for all sets of ids, configurations and links: types, the  *)
(* inductive invariant behind the safety properties, the properties and    *)
(* the refinement of HomeGraph.  DesignerApply, for any number of browsers *)
(* and of faults: whatever the saves interleave, each step of a save is a  *)
(* request that the core accepts or nothing at all to the core, so that    *)
(* its invariants hold under half-applied series too; and what a save that *)
(* is alone does.                                                          *)
(***************************************************************************)
EXTENDS DesignerApply, TLAPS

USE DEF Ids, Kinds, Objects

(***************************************************************************)
(* Type correctness.                                                       *)
(***************************************************************************)

\* Marking an object stale in a binding leaves a binding.
LEMMA ForgetType ==
  ASSUME NEW b \in Bindings, NEW l, NEW kind, NEW i
  PROVE  Forget(b, l, kind, i) \in Bindings
  BY DEF Forget, Bindings

\* What a boot rebuilds has the types of the running state, for any readable
\* file (manager.js, initialize).
LEMMA BootType ==
  ASSUME NEW g \in Graphs
  PROVE  /\ BootRepository(g) \in [Ids -> Kinds \cup {Absent}]
         /\ \A l \in Links : Absent \notin {BootBinding(g, l).source,
                                            BootBinding(g, l).destination}
                               => BootBinding(g, l) \in Bindings
<1>1. BootRepository(g) \in [Ids -> Kinds \cup {Absent}]
  BY DEF BootRepository
<1>2. ASSUME NEW l \in Links,
             Absent \notin {BootBinding(g, l).source, BootBinding(g, l).destination}
      PROVE  BootBinding(g, l) \in Bindings
  BY <1>1, <1>2, LinksAssumption DEF BootBinding, Bindings
<1> QED BY <1>1, <1>2

\* Every variable keeps its type, through requests, saves, crashes and boots.
LEMMA TypeStep == TypeOK /\ [Next]_vars => TypeOK'
<1> SUFFICES ASSUME TypeOK, [Next]_vars PROVE TypeOK'
  OBVIOUS
<1> USE DEF TypeOK, Graphs
<1>1. ASSUME NEW i \in HwIds, NEW c \in Configs, AddHardware(i, c) PROVE TypeOK'
  BY <1>1 DEF AddHardware, Publish, Record, Idle
<1>2. ASSUME NEW i \in PluginIds, NEW c \in Configs, AddPlugin(i, c) PROVE TypeOK'
  BY <1>2 DEF AddPlugin, Publish, Record, Idle
<1>3. ASSUME NEW i \in Ids, NEW kind, Unpublish(kind, i)
      PROVE  /\ netRepository' \in [Ids -> Kinds \cup {Absent}]
             /\ bound' \in [Links -> Bindings]
             /\ listeners' \subseteq Links \X Bindings
  <2>1. netRepository' \in [Ids -> Kinds \cup {Absent}]
    BY <1>3 DEF Unpublish
  <2>2. bound' \in [Links -> Bindings]
    BY <1>3, ForgetType DEF Unpublish
  <2>3. listeners' \subseteq Links \X Bindings
    BY <1>3, ForgetType DEF Unpublish
  <2> QED BY <2>1, <2>2, <2>3
<1>4. ASSUME NEW i \in HwIds, RemoveHardware(i) PROVE TypeOK'
  BY <1>3, <1>4 DEF RemoveHardware, Record, Idle
<1>5. ASSUME NEW i \in PluginIds, RemovePlugin(i) PROVE TypeOK'
  BY <1>3, <1>5 DEF RemovePlugin, Record, Idle
<1>6. ASSUME NEW l \in Links, AddLink(l) PROVE TypeOK'
  BY <1>6, LinksAssumption DEF AddLink, CreateLink, Record, Idle, Bindings
<1>7. ASSUME NEW l \in Links, RemoveLink(l) PROVE TypeOK'
  BY <1>7 DEF RemoveLink, Record, Idle, NoBinding, Bindings
<1>8. CASE Save
  BY <1>8 DEF Save, SaveOpen, SaveWrite, SaveFails, memory
<1>9. CASE Crash
  BY <1>9 DEF Crash, NoHardware, NoPlugins, NoBinding, EmptyGraph, Bindings
<1>10. CASE Boot
  <2>1. file \in Graphs
    BY <1>10 DEF Boot
  <2>2. \A l \in file.links : BootBinding(file, l) \in Bindings
    BY <1>10, <2>1, BootType DEF Boot, Bootable
  <2>3. bound' \in [Links -> Bindings] /\ listeners' \subseteq Links \X Bindings
    BY <1>10, <2>1, <2>2 DEF Boot, NoBinding, Bindings
  <2> QED BY <1>10, <2>1, <2>3, BootType DEF Boot
<1>11. CASE UNCHANGED vars
  BY <1>11 DEF vars, memory
<1> QED
  BY <1>1, <1>2, <1>4, <1>5, <1>6, <1>7, <1>8, <1>9, <1>10, <1>11 DEF Next, Request

\* An empty data.json and a stopped process.
LEMMA InitType == Init => TypeOK
<1>1. EmptyGraph \in Graphs
  BY DEF Graphs, EmptyGraph, NoHardware, NoPlugins
<1>2. NoBinding \in Bindings
  BY DEF NoBinding, Bindings
<1> QED BY <1>1, <1>2 DEF Init, TypeOK, NoHardware, NoPlugins

\* The type invariant, for every value of the constants.
THEOREM TypeCorrect == Spec => []TypeOK
  BY InitType, TypeStep, PTL DEF Spec

(***************************************************************************)
(* Safety.                                                                 *)
(***************************************************************************)

\* A boot from a graph publishes exactly its components (manager.js:12-24).
LEMMA BootRepositoryAlive ==
  ASSUME NEW g \in Graphs, NEW i \in Ids
  PROVE  BootRepository(g)[i] # Absent <=>
           \/ i \in HwIds /\ g.hardware[i] # Absent
           \/ i \in PluginIds /\ g.plugins[i] # Absent
  BY MarkersAssumption DEF BootRepository

\* A graph whose links all have live ends can be booted from.
LEMMA RunningBootable ==
  ASSUME TypeOK, LinkEndsAlive
  PROVE  Bootable(Running)
<1>1. Running \in Graphs
  BY DEF TypeOK, Running, Graphs
<1>2. ASSUME NEW l \in links
      PROVE  /\ BootRepository(Running)[l.sourceComponent] # Absent
             /\ BootRepository(Running)[l.destinationComponent] # Absent
  <2>1. l.sourceComponent \in Ids /\ l.destinationComponent \in Ids
    BY LinksAssumption DEF TypeOK
  <2>2. /\ Alive(bound[l].source, l.sourceComponent)
        /\ Alive(bound[l].destination, l.destinationComponent)
    BY DEF LinkEndsAlive
  <2> QED
    BY <1>1, <2>1, <2>2, BootRepositoryAlive DEF Alive, Running
<1> QED BY <1>2 DEF Bootable, BootBinding, Running

\* An object no link refers to leaves the links' objects as they are.
LEMMA ForgetUnused ==
  ASSUME NEW b \in Bindings, NEW l, NEW kind, NEW i, ~Uses(l, i)
  PROVE  Forget(b, l, kind, i) = b
  BY DEF Forget, Uses, Bindings

\* Removing hardware that no link uses keeps the invariant.
LEMMA RemoveHardwareStep ==
  ASSUME IndInv, TypeOK', NEW i \in HwIds, RemoveHardware(i)
  PROVE  IndInv'
<1> USE DEF RemoveHardware, Unpublish, IndInv
<1>1. RepositoryAlive'
  BY DEF RepositoryAlive, Alive, TypeOK
<1>2. \A l \in links : bound'[l] = bound[l]
  BY ForgetUnused DEF CheckLink, TypeOK
<1>3. LinkEndsAlive'
  <2> SUFFICES ASSUME NEW l \in links
               PROVE  /\ Alive(bound[l].source, l.sourceComponent)'
                      /\ Alive(bound[l].destination, l.destinationComponent)'
    BY <1>2 DEF LinkEndsAlive
  <2>1. l.sourceComponent # i /\ l.destinationComponent # i
    BY DEF CheckLink, Uses
  <2>2. /\ Alive(bound[l].source, l.sourceComponent)
        /\ Alive(bound[l].destination, l.destinationComponent)
        /\ bound'[l] = bound[l]
    BY <1>2 DEF LinkEndsAlive
  <2>3. ASSUME NEW k, NEW x, x # i, Alive(k, x) PROVE Alive(k, x)'
    BY <2>3 DEF Alive, TypeOK
  <2> QED BY <2>1, <2>2, <2>3
<1>4. CacheIsRunning'
  BY DEF CacheIsRunning, Record, Idle, Running, TypeOK, Graphs
<1>5. DiskBootable'
  BY DEF DiskBootable, Record
<1> QED BY <1>1, <1>3, <1>4, <1>5

\* Removing a plugin that no link uses keeps the invariant.
LEMMA RemovePluginStep ==
  ASSUME IndInv, TypeOK', NEW i \in PluginIds, RemovePlugin(i)
  PROVE  IndInv'
<1> USE DEF RemovePlugin, Unpublish, IndInv
<1>1. RepositoryAlive'
  BY DEF RepositoryAlive, Alive, TypeOK
<1>2. \A l \in links : bound'[l] = bound[l]
  BY ForgetUnused DEF CheckLink, TypeOK
<1>3. LinkEndsAlive'
  <2> SUFFICES ASSUME NEW l \in links
               PROVE  /\ Alive(bound[l].source, l.sourceComponent)'
                      /\ Alive(bound[l].destination, l.destinationComponent)'
    BY <1>2 DEF LinkEndsAlive
  <2>1. l.sourceComponent # i /\ l.destinationComponent # i
    BY DEF CheckLink, Uses
  <2>2. /\ Alive(bound[l].source, l.sourceComponent)
        /\ Alive(bound[l].destination, l.destinationComponent)
        /\ bound'[l] = bound[l]
    BY <1>2 DEF LinkEndsAlive
  <2>3. ASSUME NEW k, NEW x, x # i, Alive(k, x) PROVE Alive(k, x)'
    BY <2>3 DEF Alive, TypeOK
  <2> QED BY <2>1, <2>2, <2>3
<1>4. CacheIsRunning'
  BY DEF CacheIsRunning, Record, Idle, Running, TypeOK, Graphs
<1>5. DiskBootable'
  BY DEF DiskBootable, Record
<1> QED BY <1>1, <1>3, <1>4, <1>5

\* A boot makes live what it finds in the file (manager.js:10-32).
LEMMA BootStep ==
  ASSUME IndInv, TypeOK', Boot
  PROVE  IndInv'
<1> USE DEF Boot, IndInv
<1>1. file \in Graphs
  BY DEF TypeOK
<1>2. ASSUME NEW i \in Ids, BootRepository(file)[i] # Absent
      PROVE  Alive(BootRepository(file)[i], i)'
  BY <1>1, <1>2 DEF BootRepository, Alive
<1>3. RepositoryAlive'
  BY <1>2 DEF RepositoryAlive
<1>4. LinkEndsAlive'
  <2> SUFFICES ASSUME NEW l \in file.links
               PROVE  /\ Alive(bound[l].source, l.sourceComponent)'
                      /\ Alive(bound[l].destination, l.destinationComponent)'
    BY DEF LinkEndsAlive
  <2>1. l \in Links
    BY <1>1 DEF Graphs
  <2>2. bound'[l] = BootBinding(file, l)
    BY <2>1
  <2>3. /\ BootRepository(file)[l.sourceComponent] # Absent
        /\ BootRepository(file)[l.destinationComponent] # Absent
    BY DEF Bootable, BootBinding
  <2> QED BY <1>2, <2>1, <2>2, <2>3, LinksAssumption DEF BootBinding
<1>5. CacheIsRunning'
  BY <1>1 DEF CacheIsRunning, Running, Graphs
<1>6. DiskBootable'
  BY DEF DiskBootable
<1> QED BY <1>3, <1>4, <1>5, <1>6

\* The invariant is kept by every step.
LEMMA IndStep == IndInv /\ [Next]_vars => IndInv'
<1> SUFFICES ASSUME IndInv, [Next]_vars PROVE IndInv'
  OBVIOUS
<1> TypeOK'
  BY TypeStep DEF IndInv
<1> USE DEF IndInv
<1>1. ASSUME NEW i \in HwIds, NEW c \in Configs, AddHardware(i, c) PROVE IndInv'
  <2> USE <1>1 DEF AddHardware, Publish
  <2> c # Absent
    BY MarkersAssumption
  <2>1. RepositoryAlive'
    BY DEF RepositoryAlive, Alive, TypeOK
  <2>2. LinkEndsAlive'
    BY DEF LinkEndsAlive, Alive, TypeOK
  <2>3. CacheIsRunning'
    BY DEF CacheIsRunning, Record, Idle, Running, TypeOK, Graphs
  <2>4. DiskBootable'
    BY DEF DiskBootable, Record
  <2> QED BY <2>1, <2>2, <2>3, <2>4
<1>2. ASSUME NEW i \in PluginIds, NEW c \in Configs, AddPlugin(i, c) PROVE IndInv'
  <2> USE <1>2 DEF AddPlugin, Publish
  <2> c # Absent
    BY MarkersAssumption
  <2>1. RepositoryAlive'
    BY DEF RepositoryAlive, Alive, TypeOK
  <2>2. LinkEndsAlive'
    BY DEF LinkEndsAlive, Alive, TypeOK
  <2>3. CacheIsRunning'
    BY DEF CacheIsRunning, Record, Idle, Running, TypeOK, Graphs
  <2>4. DiskBootable'
    BY DEF DiskBootable, Record
  <2> QED BY <2>1, <2>2, <2>3, <2>4
<1>3. ASSUME NEW l \in Links, AddLink(l) PROVE IndInv'
  <2> USE <1>3 DEF AddLink, CreateLink
  <2>1. RepositoryAlive'
    BY DEF RepositoryAlive, Alive
  <2>2. LinkEndsAlive'
    <3>1. \A k \in links : bound'[k] = bound[k]
      BY DEF TypeOK
    <3>2. /\ bound'[l].source = netRepository[l.sourceComponent]
          /\ bound'[l].destination = netRepository[l.destinationComponent]
      BY DEF TypeOK
    <3>3. /\ Alive(bound'[l].source, l.sourceComponent)
          /\ Alive(bound'[l].destination, l.destinationComponent)
      BY <3>2, LinksAssumption DEF RepositoryAlive
    <3> QED BY <3>1, <3>3 DEF LinkEndsAlive, Alive
  <2>3. CacheIsRunning'
    <3>1. data = [hardware |-> hardware, plugins |-> plugins, links |-> links]
      BY DEF CacheIsRunning, Idle, Running
    <3>2. data' = [data EXCEPT !.links = data.links \cup {l}]
      BY DEF Record
    <3>3. data' = Running'
      BY <3>1, <3>2 DEF Running
    <3> QED BY <3>3 DEF CacheIsRunning
  <2>4. DiskBootable'
    BY DEF DiskBootable, Record
  <2> QED BY <2>1, <2>2, <2>3, <2>4
<1>4. ASSUME NEW l \in Links, RemoveLink(l) PROVE IndInv'
  <2> USE <1>4 DEF RemoveLink
  <2>1. RepositoryAlive'
    BY DEF RepositoryAlive, Alive
  <2>2. LinkEndsAlive'
    <3>1. \A k \in links' : k \in links /\ bound'[k] = bound[k]
      BY DEF TypeOK
    <3> QED BY <3>1 DEF LinkEndsAlive, Alive
  <2>3. CacheIsRunning'
    <3>1. data = [hardware |-> hardware, plugins |-> plugins, links |-> links]
      BY DEF CacheIsRunning, Idle, Running
    <3>2. data' = [data EXCEPT !.links = data.links \ {l}]
      BY DEF Record
    <3>3. data' = Running'
      BY <3>1, <3>2 DEF Running
    <3> QED BY <3>3 DEF CacheIsRunning
  <2>4. DiskBootable'
    BY DEF DiskBootable, Record
  <2> QED BY <2>1, <2>2, <2>3, <2>4
<1>5. CASE SaveOpen
  BY <1>5 DEF SaveOpen, memory, RepositoryAlive, LinkEndsAlive, Alive,
              CacheIsRunning, Running, DiskBootable
<1>6. CASE SaveWrite
  <2>1. DiskBootable'
    BY <1>6, RunningBootable DEF SaveWrite, CacheIsRunning, DiskBootable
  <2> QED
    BY <1>6, <2>1 DEF SaveWrite, memory, RepositoryAlive, LinkEndsAlive, Alive,
                      CacheIsRunning, Running
<1>7. CASE SaveFails
  BY <1>7 DEF SaveFails, memory, RepositoryAlive, LinkEndsAlive, Alive,
              CacheIsRunning, Running, DiskBootable
<1>8. CASE Crash
  BY <1>8 DEF Crash, RepositoryAlive, LinkEndsAlive, CacheIsRunning, DiskBootable
<1>9. CASE UNCHANGED vars
  BY <1>9 DEF vars, memory, RepositoryAlive, LinkEndsAlive, Alive,
              CacheIsRunning, Running, DiskBootable
<1> QED
  BY <1>1, <1>2, <1>3, <1>4, <1>5, <1>6, <1>7, <1>8, <1>9,
     RemoveHardwareStep, RemovePluginStep, BootStep DEF Next, Request, Save

\* The invariant holds in every reachable state.
THEOREM Inductive == Spec => []IndInv
<1>1. Init => IndInv
  <2> SUFFICES ASSUME Init PROVE IndInv
    OBVIOUS
  <2>1. TypeOK
    BY InitType
  <2>2. RepositoryAlive /\ LinkEndsAlive /\ CacheIsRunning
    BY DEF Init, RepositoryAlive, LinkEndsAlive, CacheIsRunning
  <2>3. DiskBootable
    BY DEF Init, DiskBootable, Bootable, EmptyGraph
  <2> QED BY <2>1, <2>2, <2>3 DEF IndInv
<1> QED BY <1>1, IndStep, PTL DEF Spec

\* A running link never holds an object destroyed since it was made.
THEOREM LinksStayAlive == Spec => []LinkEndsAlive
<1>1. IndInv => LinkEndsAlive
  BY DEF IndInv
<1> QED BY <1>1, Inductive, PTL

\* Whatever the requests, failed saves and crashes, a readable data.json boots.
THEOREM AlwaysBootable == Spec => []DiskBootable
<1>1. IndInv => DiskBootable
  BY DEF IndInv
<1> QED BY <1>1, Inductive, PTL

(***************************************************************************)
(* The core implements HomeGraph.                                          *)
(***************************************************************************)

\* A running graph is not one of the markers.
LEMMA LiveIsGraph ==
  ASSUME TypeOK, up
  PROVE  LiveGraph = Running /\ Running \in Graphs /\ LiveGraph # Absent
  BY MarkersAssumption DEF LiveGraph, TypeOK, Running, Graphs

\* Every request changes the graph by one component or one link, as the
\* abstract graph may.
LEMMA RequestRefines ==
  ASSUME IndInv, Request
  PROVE  Promise!Change
<1> USE DEF IndInv
<1>1. up /\ up' /\ UNCHANGED file
  BY DEF Request, AddHardware, AddPlugin, RemoveHardware, RemovePlugin, AddLink,
         RemoveLink, Idle, Record
<1>2. LiveGraph = Running /\ LiveGraph # Absent /\ LiveGraph' = Running'
  BY <1>1, LiveIsGraph DEF LiveGraph
<1>3. ASSUME NEW i \in HwIds, NEW c \in Configs, AddHardware(i, c)
      PROVE  Promise!ChangeHardware(i)
  <2>1. Running' = [Running EXCEPT !.hardware[i] = c]
    BY <1>3 DEF AddHardware, Running
  <2> QED BY <1>2, <1>3, <2>1 DEF AddHardware, Promise!ChangeHardware, Running
<1>4. ASSUME NEW i \in PluginIds, NEW c \in Configs, AddPlugin(i, c)
      PROVE  Promise!ChangePlugin(i)
  <2>1. Running' = [Running EXCEPT !.plugins[i] = c]
    BY <1>4 DEF AddPlugin, Running
  <2> QED BY <1>2, <1>4, <2>1 DEF AddPlugin, Promise!ChangePlugin, Running
<1>5. ASSUME NEW i \in HwIds, RemoveHardware(i)
      PROVE  Promise!ChangeHardware(i)
  <2>1. Running' = [Running EXCEPT !.hardware[i] = Absent]
    BY <1>5 DEF RemoveHardware, Running
  <2>2. ~Promise!UsedIn(Running, i)
    BY <1>5 DEF RemoveHardware, CheckLink, Uses, Promise!UsedIn, Running
  <2> QED BY <1>2, <2>1, <2>2 DEF Promise!ChangeHardware
<1>6. ASSUME NEW i \in PluginIds, RemovePlugin(i)
      PROVE  Promise!ChangePlugin(i)
  <2>1. Running' = [Running EXCEPT !.plugins[i] = Absent]
    BY <1>6 DEF RemovePlugin, Running
  <2>2. ~Promise!UsedIn(Running, i)
    BY <1>6 DEF RemovePlugin, CheckLink, Uses, Promise!UsedIn, Running
  <2> QED BY <1>2, <2>1, <2>2 DEF Promise!ChangePlugin
<1>7. ASSUME NEW l \in Links, AddLink(l)
      PROVE  Promise!ChangeLink(l)
  <2>1. Running' = [Running EXCEPT !.links = Running.links \cup {l}]
    BY <1>7 DEF AddLink, CreateLink, Running
  <2>2. /\ netRepository[l.sourceComponent] # Absent
        /\ netRepository[l.destinationComponent] # Absent
    BY <1>7 DEF AddLink, CreateLink
  <2>3. /\ Promise!Has(Running, l.sourceComponent)
        /\ Promise!Has(Running, l.destinationComponent)
    BY <2>2, LinksAssumption DEF RepositoryAlive, Alive, Promise!Has, Running
  <2> QED BY <1>2, <2>1, <2>3 DEF Promise!ChangeLink
<1>8. ASSUME NEW l \in Links, RemoveLink(l)
      PROVE  Promise!ChangeLink(l)
  <2>1. Running' = [Running EXCEPT !.links = Running.links \ {l}]
    BY <1>8 DEF RemoveLink, Running
  <2> QED BY <1>2, <2>1 DEF Promise!ChangeLink
<1> QED
  BY <1>1, <1>2, <1>3, <1>4, <1>5, <1>6, <1>7, <1>8 DEF Request, Promise!Change

\* Every step of the core is a step of the abstract graph, or none.
LEMMA StepRefines ==
  ASSUME IndInv, [Next]_vars
  PROVE  [Promise!Next]_<<LiveGraph, file>>
<1> USE DEF IndInv
<1>1. CASE Request
  BY <1>1, RequestRefines DEF Promise!Next
<1>2. CASE SaveOpen
  <2>1. Promise!Lose
    BY <1>2, LiveIsGraph DEF SaveOpen, memory, Running, LiveGraph, Promise!Lose
  <2> QED BY <2>1 DEF Promise!Next
<1>3. CASE SaveWrite
  <2>1. Promise!Persist
    BY <1>3, LiveIsGraph DEF SaveWrite, memory, Running, LiveGraph,
                             CacheIsRunning, Promise!Persist
  <2> QED BY <2>1 DEF Promise!Next
<1>4. CASE SaveFails
  BY <1>4 DEF SaveFails, memory, Running, LiveGraph
<1>5. CASE Crash
  <2>1. Promise!Stop
    BY <1>5, LiveIsGraph DEF Crash, LiveGraph, Promise!Stop
  <2> QED BY <2>1 DEF Promise!Next
<1>6. CASE Boot
  <2>1. file \in Graphs /\ LiveGraph = Absent /\ LiveGraph' = Running'
    BY <1>6 DEF Boot, TypeOK, LiveGraph
  <2>2. Running' = file
    BY <1>6, <2>1 DEF Boot, Running, Graphs
  <2>3. Promise!Restart
    BY <1>6, <2>1, <2>2 DEF Boot, Promise!Restart
  <2> QED BY <2>3 DEF Promise!Next
<1>7. CASE UNCHANGED vars
  BY <1>7 DEF vars, memory, Running, LiveGraph
<1> QED BY <1>1, <1>2, <1>3, <1>4, <1>5, <1>6, <1>7 DEF Next, Save

\* The core keeps the promise of HomeGraph, for every value of the constants.
THEOREM CoreRefinesHomeGraph == Spec => KeepsPromise
<1>1. Init => Promise!Init
  BY DEF Init, Promise!Init, LiveGraph, EmptyGraph, NoHardware, NoPlugins,
         Promise!EmptyHome
<1>2. IndInv /\ [Next]_vars => [Promise!Next]_<<LiveGraph, file>>
  BY StepRefines
<1> QED BY <1>1, <1>2, Inductive, PTL DEF Spec, KeepsPromise, Promise!Spec

-----------------------------------------------------------------------------
(* Series of requests                                                      *)

\* What a request of a series must be for the core to accept or reject it as
\* one of its own: a component of its kind, drawn when it is to be created.
Sound(r, g) ==
  /\ r.kind = "plugins" => /\ r.item \in PluginIds
                           /\ r.verb = "create" => g.plugins[r.item] # Absent
  /\ r.kind = "hardware" => /\ r.item \in HwIds
                            /\ r.verb = "create" => g.hardware[r.item] # Absent
  /\ r.kind = "links" => r.item \in Links

AllRequests == [at : 1 .. 6, verb : {"destroy", "create"}, kind : Parts,
                item : Ids \cup Links]

\* The invariant: what was merged is sound for the graph that is still drawn,
\* which a browser draws again only when its series is over.
PlanSound ==
  /\ TypeOK
  /\ phase \in [Clients -> Phases]
  /\ target \in [Clients -> Graphs]
  /\ unread \in [Clients -> SUBSET Parts]
  /\ seen \in [Clients -> Graphs]
  /\ plan \in [Clients -> SUBSET AllRequests]
  /\ asking \in Clients \cup {Nobody}
  /\ faults \in 0 .. MaxFaults
  /\ disturbed \subseteq Clients
  /\ \A c \in Clients : phase[c] \notin {"confirm", "apply"} => plan[c] = {}
  /\ \A c \in Clients : \A r \in plan[c] : Sound(r, target[c])

\* What doMerge destroys was there, what it creates is drawn.
LEMMA MergeDrawn ==
  ASSUME NEW old \in Graphs, NEW new \in Graphs
  PROVE  LET m == Merge(old, new)
         IN /\ m.destroy.plugins \subseteq PluginIds
            /\ m.destroy.hardware \subseteq HwIds
            /\ m.destroy.links \subseteq Links
            /\ m.create.plugins \subseteq {i \in PluginIds : new.plugins[i] # Absent}
            /\ m.create.hardware \subseteq {i \in HwIds : new.hardware[i] # Absent}
            /\ m.create.links \subseteq Links
  BY DEF Merge, DestroyedIn, CreatedIn, Recreated, Graphs

\* Requests for items of one kind, drawn when they are to be created, are
\* sound.
LEMMA RequestsSound ==
  ASSUME NEW g, NEW verb \in {"destroy", "create"}, NEW at \in 1 .. 6, NEW items,
         NEW kind \in Parts,
         kind = "plugins" => /\ items \subseteq PluginIds
                             /\ verb = "create" => \A i \in items : g.plugins[i] # Absent,
         kind = "hardware" => /\ items \subseteq HwIds
                              /\ verb = "create" => \A i \in items : g.hardware[i] # Absent,
         kind = "links" => items \subseteq Links,
         NEW r \in Requests(verb, at, items, kind)
  PROVE  r \in AllRequests /\ Sound(r, g)
<1>1. PICK x \in items : r = [at |-> at, verb |-> verb, kind |-> kind, item |-> x]
  BY DEF Requests
<1>2. x \in Ids \cup Links
  BY DEF Parts, Ids
<1>3. r \in AllRequests
  BY <1>1, <1>2 DEF AllRequests
<1>4. Sound(r, g)
  BY <1>1 DEF Sound
<1> QED BY <1>3, <1>4

\* So are the requests for components, also where a hardware's request takes
\* the place of the plugin's of the same id.
LEMMA ComponentsSound ==
  ASSUME NEW g, NEW verb \in {"destroy", "create"}, NEW at \in 1 .. 5,
         NEW plugs \in SUBSET PluginIds, NEW hards \in SUBSET HwIds,
         verb = "create" => /\ \A i \in plugs : g.plugins[i] # Absent
                            /\ \A i \in hards : g.hardware[i] # Absent,
         NEW merged, merged.plugins = plugs, merged.hardware = hards,
         NEW r \in ComponentRequests(verb, at, merged)
  PROVE  r \in AllRequests /\ Sound(r, g)
<1>0. at \in 1 .. 6
  OBVIOUS
<1>1. CASE r \in Requests(verb, at, plugs \ hards, "plugins")
  BY <1>0, <1>1, RequestsSound DEF Parts
<1>2. CASE r \in Requests(verb, at, plugs \cap hards, "hardware")
  BY <1>0, <1>2, RequestsSound DEF Parts
<1>3. CASE r \in Requests(verb, at + 1, hards \ plugs, "hardware")
  <2>1. at + 1 \in 1 .. 6
    OBVIOUS
  <2> QED BY <1>3, <2>1, RequestsSound DEF Parts
<1> QED BY <1>1, <1>2, <1>3 DEF ComponentRequests

\* A series merged for a graph is sound for it.
LEMMA SeriesSound ==
  ASSUME NEW old \in Graphs, NEW new \in Graphs
  PROVE  LET s == Series(Merge(old, new))
         IN s \in SUBSET AllRequests /\ \A r \in s : Sound(r, new)
<1> SUFFICES ASSUME NEW m, m = Merge(old, new)
             PROVE  \A r \in Series(m) : r \in AllRequests /\ Sound(r, new)
  OBVIOUS
<1>0. /\ m.destroy.plugins \subseteq PluginIds
      /\ m.destroy.hardware \subseteq HwIds
      /\ m.destroy.links \subseteq Links
      /\ m.create.plugins \subseteq {i \in PluginIds : new.plugins[i] # Absent}
      /\ m.create.hardware \subseteq {i \in HwIds : new.hardware[i] # Absent}
      /\ m.create.links \subseteq Links
  BY MergeDrawn
<1> TAKE r \in Series(m)
<1>1. CASE r \in Requests("destroy", 1, m.destroy.links, "links")
  BY <1>0, <1>1, RequestsSound DEF Parts
<1>2. CASE r \in ComponentRequests("destroy", 2, m.destroy)
  <2>1. 2 \in 1 .. 5
    OBVIOUS
  <2>2. m.destroy.plugins \in SUBSET PluginIds /\ m.destroy.hardware \in SUBSET HwIds
    BY <1>0
  <2> QED BY <1>2, <2>1, <2>2, ComponentsSound
<1>3. CASE r \in ComponentRequests("create", 4, m.create)
  <2>1. 4 \in 1 .. 5
    OBVIOUS
  <2>2. m.create.plugins \in SUBSET PluginIds /\ m.create.hardware \in SUBSET HwIds
    BY <1>0
  <2> QED BY <1>0, <1>3, <2>1, <2>2, ComponentsSound
<1>4. CASE r \in Requests("create", 6, m.create.links, "links")
  BY <1>0, <1>4, RequestsSound DEF Parts
<1> QED BY <1>1, <1>2, <1>3, <1>4 DEF Series

\* A sound request that the core carries out is one of its own requests.
LEMMA PerformIsRequest ==
  ASSUME TypeOK, NEW c \in Clients, target[c] \in Graphs,
         NEW r, Sound(r, target[c]), Perform(c, r)
  PROVE  Request
<1>1. CASE r.verb = "destroy"
  BY <1>1 DEF Perform, Sound, Request
<1>2. CASE r.verb = "create" /\ r.kind = "plugins"
  <2>1. target[c].plugins[r.item] \in Configs /\ r.item \in PluginIds
    BY <1>2 DEF Sound, Graphs
  <2> QED BY <1>2, <2>1 DEF Perform, Request
<1>3. CASE r.verb = "create" /\ r.kind = "hardware"
  <2>1. target[c].hardware[r.item] \in Configs /\ r.item \in HwIds
    BY <1>3 DEF Sound, Graphs
  <2> QED BY <1>3, <2>1 DEF Perform, Request
<1>4. CASE r.verb = "create" /\ r.kind = "links"
  BY <1>4 DEF Perform, Sound, Request
<1> QED BY <1>1, <1>2, <1>3, <1>4 DEF Perform

\* Each step of the designers and of the core under them is one of the core's
\* own steps, or leaves the core alone.
LEMMA DesignerStep ==
  ASSUME PlanSound, [DNext]_dvars
  PROVE  [Next]_vars
<1> USE DEF PlanSound
<1>1. ASSUME NEW c \in Clients, Send(c) PROVE Request
  <2>1. PICK r \in Current(c) : Perform(c, r)
    BY <1>1 DEF Send
  <2>2. Sound(r, target[c]) /\ target[c] \in Graphs
    BY <2>1 DEF Current
  <2> QED BY <2>1, <2>2, PerformIsRequest
<1>2. ASSUME NEW c \in Clients, SaverStep(c) PROVE Next \/ UNCHANGED vars
  BY <1>1, <1>2 DEF SaverStep, Read, Rejected, Refused, Finish, Next
<1>3. ASSUME NEW c \in Clients,
             (\E g \in Targets : Submit(c, g)) \/ Confirm(c) \/ Cancel(c)
      PROVE  UNCHANGED vars
  BY <1>3 DEF Submit, Confirm, Cancel
<1>4. CASE CoreSave \/ CoreFault \/ CoreBoot
  BY <1>4 DEF CoreSave, CoreFault, CoreBoot, Next, Save
<1>5. CASE UNCHANGED dvars
  BY <1>5 DEF dvars
<1> QED BY <1>2, <1>3, <1>4, <1>5 DEF DNext

\* The invariant is kept by every step.
LEMMA PlanStep == PlanSound /\ [DNext]_dvars => PlanSound'
<1> SUFFICES ASSUME PlanSound, [DNext]_dvars PROVE PlanSound'
  OBVIOUS
<1>0. TypeOK' /\ faults' \in 0 .. MaxFaults /\ disturbed' \subseteq Clients
  <2>1. TypeOK'
    BY DesignerStep, TypeStep DEF PlanSound
  <2>2. faults' = faults \/ (faults < MaxFaults /\ faults' = faults + 1)
    <3>1. ASSUME NEW c \in Clients, SaverStep(c) PROVE faults' = faults
      BY <3>1 DEF SaverStep, Read, Send, Rejected, Refused, Finish
    <3>2. ASSUME NEW c \in Clients, (\E g \in Targets : Submit(c, g)) \/ Confirm(c) \/ Cancel(c)
          PROVE  faults' = faults
      BY <3>2 DEF Submit, Confirm, Cancel
    <3>3. CASE CoreSave \/ CoreFault \/ CoreBoot
      BY <3>3 DEF CoreSave, CoreFault, CoreBoot
    <3>4. CASE UNCHANGED dvars
      BY <3>4 DEF dvars
    <3> QED BY <3>1, <3>2, <3>3, <3>4 DEF DNext
  <2>3. faults \in 0 .. MaxFaults
    BY DEF PlanSound
  <2>4. disturbed' \subseteq disturbed \cup Clients
    BY DEF DNext, SaverStep, Submit, Confirm, Cancel, Read, Send, Rejected, Refused, Finish,
           CoreSave, CoreFault, CoreBoot, dvars
  <2>5. disturbed \subseteq Clients
    BY DEF PlanSound
  <2> QED BY <2>1, <2>2, <2>3, <2>4, <2>5, ClientsAssumption
<1> USE <1>0 DEF PlanSound, Phases, Ended, Goto
<1>1. ASSUME NEW c \in Clients, NEW g \in Targets, Submit(c, g) PROVE PlanSound'
  <2>1. g \in Graphs /\ EmptyGraph \in Graphs
    BY TargetsAssumption DEF EmptyGraph, NoHardware, NoPlugins, Graphs
  <2>2. plan[c] = {}
    BY <1>1 DEF Submit
  <2>3. \A d \in Clients : \A r \in plan'[d] : Sound(r, target'[d])
    BY <1>1, <2>2 DEF Submit
  <2> QED BY <1>1, <2>1, <2>2, <2>3 DEF Submit
<1>2. ASSUME NEW c \in Clients, NEW part \in Parts, Read(c, part) PROVE PlanSound'
  <2>1. seen' \in [Clients -> Graphs]
    <3>1. Running \in Graphs
      BY DEF Running, TypeOK, Graphs
    <3>2. ASSUME NEW g \in Graphs
          PROVE  [g EXCEPT ![part] = Running[part]] \in Graphs
      BY <3>1 DEF Graphs, Parts
    <3>3. [seen[c] EXCEPT ![part] = Running[part]] \in Graphs
      BY <3>2
    <3> QED BY <1>2, <3>3 DEF Read
  <2>2. CASE unread'[c] = {}
    <3>1. seen'[c] \in Graphs /\ target[c] \in Graphs
      BY <2>1
    <3>2. /\ Series(Merge(seen'[c], target[c])) \in SUBSET AllRequests
          /\ \A r \in Series(Merge(seen'[c], target[c])) : Sound(r, target[c])
      BY <3>1, SeriesSound
    <3>3. /\ plan' = [plan EXCEPT ![c] = Series(Merge(seen'[c], target[c]))]
          /\ phase' = [phase EXCEPT ![c] = "confirm"]
          /\ UNCHANGED <<target, asking>>
          /\ unread' \in [Clients -> SUBSET Parts]
      BY <1>2, <2>2 DEF Read
    <3>4. \A d \in Clients : \A r \in plan'[d] : Sound(r, target'[d])
      BY <3>2, <3>3
    <3> QED BY <2>1, <3>2, <3>3, <3>4
  <2>3. CASE unread'[c] # {}
    BY <1>2, <2>1, <2>3 DEF Read
  <2> QED BY <2>2, <2>3
<1>11. EmptyGraph \in Graphs
  BY DEF EmptyGraph, NoHardware, NoPlugins, Graphs
<1>3. ASSUME NEW c \in Clients, Confirm(c) \/ Finish(c) PROVE PlanSound'
  BY <1>3, <1>11 DEF Confirm, Finish
<1>5. ASSUME NEW c \in Clients, Send(c) PROVE PlanSound'
  BY <1>5 DEF Send
<1>6. ASSUME NEW c \in Clients, NEW p \in {"edit", "failed"}, GiveUp(c, p),
             asking' \in Clients \cup {Nobody}
      PROVE  PlanSound'
  BY <1>6, <1>11 DEF GiveUp
<1>4. ASSUME NEW c \in Clients, Cancel(c) \/ Refused(c) PROVE PlanSound'
  BY <1>4, <1>6 DEF Cancel, Refused
<1>7. ASSUME NEW c \in Clients, Rejected(c) PROVE PlanSound'
  BY <1>7 DEF Rejected
<1>8. ASSUME UNCHANGED saver, asking' \in Clients \cup {Nobody} PROVE PlanSound'
  BY <1>8 DEF saver
<1>9. CASE CoreSave \/ CoreFault \/ CoreBoot
  <2>1. asking' \in Clients \cup {Nobody}
    BY <1>9 DEF CoreSave, CoreFault, CoreBoot, Answer
  <2>2. UNCHANGED saver \/ (asking \in Clients /\ GiveUp(asking, "failed"))
    BY <1>9 DEF CoreSave, CoreFault, CoreBoot, Answer
  <2>3. CASE UNCHANGED saver
    BY <1>8, <2>1, <2>3
  <2>4. CASE asking \in Clients /\ GiveUp(asking, "failed")
    BY <1>6, <2>1, <2>4
  <2> QED BY <2>2, <2>3, <2>4
<1>10. CASE UNCHANGED dvars
  BY <1>8, <1>10 DEF dvars
<1> QED
  BY <1>1, <1>2, <1>3, <1>4, <1>5, <1>7, <1>9, <1>10 DEF DNext, SaverStep

\* The invariant holds in every reachable state.
THEOREM PlansAreSound == DSpec => []PlanSound
<1>1. DInit => PlanSound
  <2>1. EmptyGraph \in Graphs
    BY DEF EmptyGraph, NoHardware, NoPlugins, Graphs
  <2>2. 0 \in 0 .. MaxFaults
    BY ClientsAssumption
  <2> QED BY <2>1, <2>2, InitType DEF DInit, PlanSound, Phases
<1> QED BY <1>1, PlanStep, PTL DEF DSpec

\* The type invariant of the saves: componentManager.js merge, apply.
THEOREM DesignerTypes == DSpec => []DTypeOK
<1>1. PlanSound => DTypeOK
  BY DEF PlanSound, AllRequests, DTypeOK
<1> QED BY <1>1, PlansAreSound, PTL

\* Designers drive a core that behaves like a core.
THEOREM DesignerRefinesCore == DSpec => Spec
<1>1. DInit => Init
  BY DEF DInit
<1>2. PlanSound /\ [DNext]_dvars => [Next]_vars
  BY DesignerStep
<1> QED BY <1>1, <1>2, PlansAreSound, PTL DEF DSpec, Spec

\* However many browsers save at once, and wherever their series stop, no
\* running link holds a destroyed object (links.js:16-17).
THEOREM SavesKeepLinksAlive == DSpec => []LinkEndsAlive
  BY DesignerRefinesCore, LinksStayAlive, PTL

\* However many browsers save at once, a readable data.json boots.
THEOREM SavesKeepBootable == DSpec => []DiskBootable
  BY DesignerRefinesCore, AlwaysBootable, PTL
-----------------------------------------------------------------------------
(* A save that nothing crosses                                             *)

Asked(at, verb, kind, x) == [at |-> at, verb |-> verb, kind |-> kind, item |-> x]

SeriesOf(c) == Series(Merge(seen[c], target[c]))

\* What comes later in a series is there as long as what comes earlier.
Ordered(c) == \A r \in plan[c], s \in SeriesOf(c) : s.at > r.at => s \in plan[c]

\* A component is the old one until it is destroyed, and the new one once created.
Between(old, new, destroy, create) ==
  IF destroy THEN old ELSE IF create THEN Absent ELSE new

\* What runs while a series is carried out: what is asked for is not done, the rest is.
HalfwayFrom(run, old, new, asked) ==
  /\ \A i \in HwIds :
       run.hardware[i] = Between(old.hardware[i], new.hardware[i],
                                 Asked(3, "destroy", "hardware", i) \in asked,
                                 Asked(5, "create", "hardware", i) \in asked)
  /\ \A i \in PluginIds :
       run.plugins[i] = Between(old.plugins[i], new.plugins[i],
                                Asked(2, "destroy", "plugins", i) \in asked,
                                Asked(4, "create", "plugins", i) \in asked)
  /\ \A l \in Links :
       LET d == Asked(1, "destroy", "links", l) \in asked
           n == Asked(6, "create", "links", l) \in asked
       IN /\ d => l \in run.links
          /\ ~d /\ n => l \notin run.links
          /\ ~d /\ ~n => (l \in run.links <=> l \in new.links)

Halfway(c) == HalfwayFrom(Running, seen[c], target[c], plan[c])

\* The invariant of one browser: what it has read runs, what it has asked for and was
\* answered runs, and at the end what was drawn.
Follows(c) ==
  /\ phase[c] = "reading" =>
       \A part \in Parts \ unread[c] : up /\ seen[c][part] = Running[part]
  /\ phase[c] \in {"confirm", "apply"} =>
       up /\ plan[c] \subseteq SeriesOf(c) /\ Ordered(c) /\ Halfway(c)
  /\ phase[c] = "done" => up /\ Running = target[c]

\* No hardware has the id of a plugin.
Apart == HwIds \cap PluginIds = {}

FollowsAll == PlanSound /\ \A c \in Clients \ disturbed : Follows(c)

\* With ids apart, a series has the six kinds of requests, each in its turn.
LEMMA SeriesApart ==
  ASSUME Apart, NEW old \in Graphs, NEW new \in Graphs
  PROVE  LET S == Series(Merge(old, new))
             again == Recreated(old, new)
         IN /\ \A i \in HwIds :
                 /\ Asked(3, "destroy", "hardware", i) \in S <=>
                      old.hardware[i] # Absent /\ old.hardware[i] # new.hardware[i]
                 /\ Asked(5, "create", "hardware", i) \in S <=>
                      new.hardware[i] # Absent /\ old.hardware[i] # new.hardware[i]
            /\ \A i \in PluginIds :
                 /\ Asked(2, "destroy", "plugins", i) \in S <=>
                      old.plugins[i] # Absent /\ old.plugins[i] # new.plugins[i]
                 /\ Asked(4, "create", "plugins", i) \in S <=>
                      new.plugins[i] # Absent /\ old.plugins[i] # new.plugins[i]
            /\ \A l \in Links :
                 /\ Asked(1, "destroy", "links", l) \in S <=>
                      l \in (old.links \ new.links) \cup again
                 /\ Asked(6, "create", "links", l) \in S <=>
                      l \in (new.links \ old.links) \cup again
            /\ \A r \in S :
                 \/ \E l \in Links : \/ r = Asked(1, "destroy", "links", l)
                                    \/ r = Asked(6, "create", "links", l)
                 \/ \E i \in PluginIds : \/ r = Asked(2, "destroy", "plugins", i)
                                        \/ r = Asked(4, "create", "plugins", i)
                 \/ \E i \in HwIds : \/ r = Asked(3, "destroy", "hardware", i)
                                    \/ r = Asked(5, "create", "hardware", i)
<1> DEFINE m == Merge(old, new)
           S == Series(m)
           again == Recreated(old, new)
           DL == {Asked(1, "destroy", "links", x) : x \in m.destroy.links}
           DP == {Asked(2, "destroy", "plugins", x) : x \in m.destroy.plugins}
           DH == {Asked(3, "destroy", "hardware", x) : x \in m.destroy.hardware}
           CP == {Asked(4, "create", "plugins", x) : x \in m.create.plugins}
           CH == {Asked(5, "create", "hardware", x) : x \in m.create.hardware}
           CL == {Asked(6, "create", "links", x) : x \in m.create.links}
<1>1. /\ m.destroy.hardware = {i \in HwIds : old.hardware[i] # Absent /\ old.hardware[i] # new.hardware[i]}
      /\ m.create.hardware = {i \in HwIds : new.hardware[i] # Absent /\ old.hardware[i] # new.hardware[i]}
      /\ m.destroy.plugins = {i \in PluginIds : old.plugins[i] # Absent /\ old.plugins[i] # new.plugins[i]}
      /\ m.create.plugins = {i \in PluginIds : new.plugins[i] # Absent /\ old.plugins[i] # new.plugins[i]}
      /\ m.destroy.links = (old.links \ new.links) \cup again
      /\ m.create.links = (new.links \ old.links) \cup again
  BY DEF Merge, DestroyedIn, CreatedIn, Graphs
<1>2. again \subseteq Links /\ old.links \subseteq Links /\ new.links \subseteq Links
  BY DEF Recreated, Graphs
<1>3. S = DL \cup DP \cup DH \cup CP \cup CH \cup CL
  <2>1. /\ m.destroy.plugins \ m.destroy.hardware = m.destroy.plugins
        /\ m.destroy.plugins \cap m.destroy.hardware = {}
        /\ m.destroy.hardware \ m.destroy.plugins = m.destroy.hardware
        /\ m.create.plugins \ m.create.hardware = m.create.plugins
        /\ m.create.plugins \cap m.create.hardware = {}
        /\ m.create.hardware \ m.create.plugins = m.create.hardware
    BY <1>1 DEF Apart
  <2>2. \A at, verb, kind : Requests(verb, at, {}, kind) = {}
    BY DEF Requests
  <2>3. \A at, verb, kind, items :
          Requests(verb, at, items, kind) = {Asked(at, verb, kind, x) : x \in items}
    BY DEF Requests, Asked
  <2>4. ComponentRequests("destroy", 2, m.destroy) = DP \cup DH
    <3>1. ComponentRequests("destroy", 2, m.destroy) = DP \cup {} \cup Requests("destroy", 2 + 1, m.destroy.hardware, "hardware")
      BY <2>1, <2>2, <2>3, Zenon DEF ComponentRequests
    <3>2. 2 + 1 = 3
      OBVIOUS
    <3> QED BY <2>3, <3>1, <3>2, Zenon
  <2>5. ComponentRequests("create", 4, m.create) = CP \cup CH
    <3>1. ComponentRequests("create", 4, m.create) = CP \cup {} \cup Requests("create", 4 + 1, m.create.hardware, "hardware")
      BY <2>1, <2>2, <2>3, Zenon DEF ComponentRequests
    <3>2. 4 + 1 = 5
      OBVIOUS
    <3> QED BY <2>3, <3>1, <3>2, Zenon
  <2> HIDE DEF m
  <2> QED BY <2>3, <2>4, <2>5, Zenon DEF Series
<1> HIDE DEF m, S
<1>4. \A a, b \in 1 .. 6 : \A v, w, k, n, x, y :
        Asked(a, v, k, x) = Asked(b, w, n, y) => a = b /\ x = y
  BY DEF Asked
<1>5. /\ \A x : Asked(1, "destroy", "links", x) \in S <=> x \in m.destroy.links
      /\ \A x : Asked(2, "destroy", "plugins", x) \in S <=> x \in m.destroy.plugins
      /\ \A x : Asked(3, "destroy", "hardware", x) \in S <=> x \in m.destroy.hardware
      /\ \A x : Asked(4, "create", "plugins", x) \in S <=> x \in m.create.plugins
      /\ \A x : Asked(5, "create", "hardware", x) \in S <=> x \in m.create.hardware
      /\ \A x : Asked(6, "create", "links", x) \in S <=> x \in m.create.links
  BY <1>3, <1>4
<1>6. \A r \in S :
        \/ \E l \in Links : \/ r = Asked(1, "destroy", "links", l)
                           \/ r = Asked(6, "create", "links", l)
        \/ \E i \in PluginIds : \/ r = Asked(2, "destroy", "plugins", i)
                               \/ r = Asked(4, "create", "plugins", i)
        \/ \E i \in HwIds : \/ r = Asked(3, "destroy", "hardware", i)
                           \/ r = Asked(5, "create", "hardware", i)
  BY <1>1, <1>2, <1>3, Zenon
<1> QED BY <1>1, <1>5, <1>6 DEF m, S

\* Requests differ if their turn or item does.
LEMMA AskedApart ==
  ASSUME NEW a \in 1 .. 6, NEW b \in 1 .. 6, NEW v, NEW w, NEW k, NEW n, NEW x, NEW y,
         Asked(a, v, k, x) = Asked(b, w, n, y)
  PROVE  a = b /\ x = y
  BY DEF Asked

\* When all is read, nothing is done of the series.
LEMMA NothingDone ==
  ASSUME Apart, NEW old \in Graphs, NEW new \in Graphs
  PROVE  HalfwayFrom(old, old, new, Series(Merge(old, new)))
<1> DEFINE S == Series(Merge(old, new))
           again == Recreated(old, new)
<1>1. again \subseteq old.links \cap new.links
  BY DEF Recreated
<1>2. ASSUME NEW i \in HwIds
      PROVE  old.hardware[i] = Between(old.hardware[i], new.hardware[i],
                                 Asked(3, "destroy", "hardware", i) \in S,
                                 Asked(5, "create", "hardware", i) \in S)
  BY SeriesApart DEF Between
<1>3. ASSUME NEW i \in PluginIds
      PROVE  old.plugins[i] = Between(old.plugins[i], new.plugins[i],
                                Asked(2, "destroy", "plugins", i) \in S,
                                Asked(4, "create", "plugins", i) \in S)
  BY SeriesApart DEF Between
<1>4. ASSUME NEW l \in Links
      PROVE  LET d == Asked(1, "destroy", "links", l) \in S
                 n == Asked(6, "create", "links", l) \in S
             IN /\ d => l \in old.links
                /\ ~d /\ n => l \notin old.links
                /\ ~d /\ ~n => (l \in old.links <=> l \in new.links)
  BY <1>1, SeriesApart
<1> HIDE DEF S
<1> QED BY <1>2, <1>3, <1>4 DEF HalfwayFrom, S

\* A graph is its three parts.
LEMMA SameGraph ==
  ASSUME NEW g \in Graphs, NEW h \in Graphs,
         g.hardware = h.hardware, g.plugins = h.plugins, g.links = h.links
  PROVE  g = h
  BY DEF Graphs

\* When all is done, what was drawn runs.
LEMMA AllDone ==
  ASSUME NEW run \in Graphs, NEW old \in Graphs, NEW new \in Graphs,
         HalfwayFrom(run, old, new, {})
  PROVE  run = new
<1>1. /\ \A i \in HwIds : run.hardware[i] = new.hardware[i]
      /\ \A i \in PluginIds : run.plugins[i] = new.plugins[i]
      /\ \A l \in Links : l \in run.links <=> l \in new.links
  BY DEF HalfwayFrom, Between
<1>2. run.hardware = new.hardware /\ run.plugins = new.plugins /\ run.links = new.links
  BY <1>1 DEF Graphs
<1> QED BY <1>2, SameGraph

\* The core does what it is asked, and nothing else.
LEMMA HalfwayStep ==
  ASSUME Apart, PlanSound, NEW c \in Clients, plan[c] \subseteq SeriesOf(c), Ordered(c), Halfway(c),
         NEW r \in Current(c), Perform(c, r), plan' = [plan EXCEPT ![c] = @ \ {r}],
         UNCHANGED <<seen, target>>
  PROVE  Halfway(c)' /\ Ordered(c)'
<1> DEFINE old == seen[c]
           new == target[c]
           S == Series(Merge(old, new))
           P == plan[c]
<1>0. /\ r \in P /\ r \in S /\ plan'[c] = P \ {r}
      /\ \A q \in P : r.at <= q.at
      /\ \A q \in P : q.at \in 1 .. 6
      /\ \A q \in P, t \in S : t.at > q.at => t \in P
      /\ old \in Graphs /\ new \in Graphs
      /\ hardware \in [HwIds -> Configs \cup {Absent}]
      /\ plugins \in [PluginIds -> Configs \cup {Absent}]
  BY DEF Current, SeriesOf, Ordered, PlanSound, AllRequests, TypeOK
<1>1. Ordered(c)'
  <2>1. \A q \in P \ {r}, t \in S : t.at > q.at => t \in P \ {r}
    <3> SUFFICES ASSUME NEW q \in P \ {r}, NEW t \in S, t.at > q.at PROVE t # r
      BY <1>0
    <3> QED BY <1>0
  <2>2. SeriesOf(c)' = S
    BY DEF SeriesOf
  <2> QED BY <1>0, <2>1, <2>2 DEF Ordered
<1>2. /\ \A i \in HwIds :
           hardware[i] = Between(old.hardware[i], new.hardware[i],
                                 Asked(3, "destroy", "hardware", i) \in P,
                                 Asked(5, "create", "hardware", i) \in P)
      /\ \A i \in PluginIds :
           plugins[i] = Between(old.plugins[i], new.plugins[i],
                                Asked(2, "destroy", "plugins", i) \in P,
                                Asked(4, "create", "plugins", i) \in P)
      /\ \A l \in Links :
           LET d == Asked(1, "destroy", "links", l) \in P
               n == Asked(6, "create", "links", l) \in P
           IN /\ d => l \in links
              /\ ~d /\ n => l \notin links
              /\ ~d /\ ~n => (l \in links <=> l \in new.links)
  BY DEF Halfway, HalfwayFrom, Running
<1>3. /\ \A i \in HwIds : /\ Asked(3, "destroy", "hardware", i).at = 3
                         /\ Asked(5, "create", "hardware", i).at = 5
      /\ \A i \in PluginIds : /\ Asked(2, "destroy", "plugins", i).at = 2
                             /\ Asked(4, "create", "plugins", i).at = 4
      /\ \A l \in Links : /\ Asked(1, "destroy", "links", l).at = 1
                         /\ Asked(6, "create", "links", l).at = 6
  BY DEF Asked
<1> DEFINE HardwareHalf == \A i \in HwIds :
             hardware'[i] = Between(old.hardware[i], new.hardware[i],
                                    Asked(3, "destroy", "hardware", i) \in P \ {r},
                                    Asked(5, "create", "hardware", i) \in P \ {r})
           PluginsHalf == \A i \in PluginIds :
             plugins'[i] = Between(old.plugins[i], new.plugins[i],
                                   Asked(2, "destroy", "plugins", i) \in P \ {r},
                                   Asked(4, "create", "plugins", i) \in P \ {r})
           LinksHalf == \A l \in Links :
             LET d == Asked(1, "destroy", "links", l) \in P \ {r}
                 n == Asked(6, "create", "links", l) \in P \ {r}
             IN /\ d => l \in links'
                /\ ~d /\ n => l \notin links'
                /\ ~d /\ ~n => (l \in links' <=> l \in new.links)
<1>4. /\ hardware' = hardware /\ (\A i \in HwIds : r # Asked(3, "destroy", "hardware", i)
                                               /\ r # Asked(5, "create", "hardware", i))
        => HardwareHalf
      /\ plugins' = plugins /\ (\A i \in PluginIds : r # Asked(2, "destroy", "plugins", i)
                                                 /\ r # Asked(4, "create", "plugins", i))
        => PluginsHalf
      /\ links' = links /\ (\A l \in Links : r # Asked(1, "destroy", "links", l)
                                         /\ r # Asked(6, "create", "links", l))
        => LinksHalf
  BY <1>2
<1>5. ASSUME HardwareHalf, PluginsHalf, LinksHalf PROVE Halfway(c)'
  BY <1>0, <1>5 DEF Halfway, HalfwayFrom, Running
<1>6. /\ \A i \in HwIds :
           Asked(5, "create", "hardware", i) \in S <=>
             new.hardware[i] # Absent /\ old.hardware[i] # new.hardware[i]
      /\ \A i \in HwIds :
           Asked(3, "destroy", "hardware", i) \in S => old.hardware[i] # new.hardware[i]
      /\ \A i \in PluginIds :
           Asked(4, "create", "plugins", i) \in S <=>
             new.plugins[i] # Absent /\ old.plugins[i] # new.plugins[i]
      /\ \A i \in PluginIds :
           Asked(2, "destroy", "plugins", i) \in S => old.plugins[i] # new.plugins[i]
      /\ \A l \in Links :
           /\ Asked(1, "destroy", "links", l) \in S /\ Asked(6, "create", "links", l) \notin S
                => l \notin new.links
           /\ Asked(6, "create", "links", l) \in S => l \in new.links
  <2>1. Recreated(old, new) \subseteq old.links \cap new.links
    BY DEF Recreated
  <2> QED BY <1>0, <2>1, SeriesApart
<1> HIDE DEF S, P, HardwareHalf, PluginsHalf, LinksHalf
<1>7. ASSUME NEW i \in HwIds, r = Asked(3, "destroy", "hardware", i) PROVE Halfway(c)'
  <2>1. hardware' = [hardware EXCEPT ![i] = Absent] /\ UNCHANGED <<plugins, links>>
    BY <1>7 DEF Perform, Asked, RemoveHardware
  <2>2. Asked(5, "create", "hardware", i) \in P <=> new.hardware[i] # Absent
    <3>1. Asked(5, "create", "hardware", i) \in S => Asked(5, "create", "hardware", i) \in P
      BY <1>0, <1>3, <1>7
    <3>2. P \subseteq S
      BY DEF P, S, SeriesOf
    <3> QED BY <1>0, <1>6, <1>7, <3>1, <3>2
  <2>3. HardwareHalf
    <3> SUFFICES ASSUME NEW j \in HwIds
                 PROVE  hardware'[j] = Between(old.hardware[j], new.hardware[j],
                                    Asked(3, "destroy", "hardware", j) \in P \ {r},
                                    Asked(5, "create", "hardware", j) \in P \ {r})
      BY DEF HardwareHalf
    <3>1. CASE j = i
      BY <1>0, <1>3, <1>7, <2>1, <2>2, <3>1 DEF Between
    <3>2. CASE j # i
      <4>1. r # Asked(3, "destroy", "hardware", j) /\ r # Asked(5, "create", "hardware", j)
        BY <1>7, <3>2, AskedApart
      <4> QED BY <1>0, <1>2, <2>1, <3>2, <4>1
    <3> QED BY <3>1, <3>2
  <2>4. PluginsHalf /\ LinksHalf
    <3>1. /\ \A j \in PluginIds : r # Asked(2, "destroy", "plugins", j)
                                /\ r # Asked(4, "create", "plugins", j)
          /\ \A l \in Links : r # Asked(1, "destroy", "links", l) /\ r # Asked(6, "create", "links", l)
      BY <1>3, <1>7
    <3> QED BY <1>4, <2>1, <3>1
  <2> QED BY <1>5, <2>3, <2>4
<1>8. ASSUME NEW i \in HwIds, r = Asked(5, "create", "hardware", i) PROVE Halfway(c)'
  <2>1. hardware' = [hardware EXCEPT ![i] = new.hardware[i]] /\ UNCHANGED <<plugins, links>>
    BY <1>8 DEF Perform, Asked, AddHardware
  <2>2. Asked(3, "destroy", "hardware", i) \notin P
    BY <1>0, <1>3, <1>8
  <2>3. HardwareHalf
    <3> SUFFICES ASSUME NEW j \in HwIds
                 PROVE  hardware'[j] = Between(old.hardware[j], new.hardware[j],
                                    Asked(3, "destroy", "hardware", j) \in P \ {r},
                                    Asked(5, "create", "hardware", j) \in P \ {r})
      BY DEF HardwareHalf
    <3>1. CASE j = i
      BY <1>0, <1>8, <2>1, <2>2, <3>1 DEF Between
    <3>2. CASE j # i
      <4>1. r # Asked(3, "destroy", "hardware", j) /\ r # Asked(5, "create", "hardware", j)
        BY <1>8, <3>2, AskedApart
      <4> QED BY <1>0, <1>2, <2>1, <3>2, <4>1
    <3> QED BY <3>1, <3>2
  <2>4. PluginsHalf /\ LinksHalf
    <3>1. /\ \A j \in PluginIds : r # Asked(2, "destroy", "plugins", j)
                                /\ r # Asked(4, "create", "plugins", j)
          /\ \A l \in Links : r # Asked(1, "destroy", "links", l) /\ r # Asked(6, "create", "links", l)
      BY <1>3, <1>8
    <3> QED BY <1>4, <2>1, <3>1
  <2> QED BY <1>5, <2>3, <2>4
<1>9. ASSUME NEW i \in PluginIds, r = Asked(2, "destroy", "plugins", i) PROVE Halfway(c)'
  <2>1. plugins' = [plugins EXCEPT ![i] = Absent] /\ UNCHANGED <<hardware, links>>
    BY <1>9 DEF Perform, Asked, RemovePlugin
  <2>2. Asked(4, "create", "plugins", i) \in P <=> new.plugins[i] # Absent
    <3>1. Asked(4, "create", "plugins", i) \in S => Asked(4, "create", "plugins", i) \in P
      BY <1>0, <1>3, <1>9
    <3>2. P \subseteq S
      BY DEF P, S, SeriesOf
    <3> QED BY <1>0, <1>6, <1>9, <3>1, <3>2
  <2>3. PluginsHalf
    <3> SUFFICES ASSUME NEW j \in PluginIds
                 PROVE  plugins'[j] = Between(old.plugins[j], new.plugins[j],
                                    Asked(2, "destroy", "plugins", j) \in P \ {r},
                                    Asked(4, "create", "plugins", j) \in P \ {r})
      BY DEF PluginsHalf
    <3>1. CASE j = i
      BY <1>0, <1>3, <1>9, <2>1, <2>2, <3>1 DEF Between
    <3>2. CASE j # i
      <4>1. r # Asked(2, "destroy", "plugins", j) /\ r # Asked(4, "create", "plugins", j)
        BY <1>9, <3>2, AskedApart
      <4> QED BY <1>0, <1>2, <2>1, <3>2, <4>1
    <3> QED BY <3>1, <3>2
  <2>4. HardwareHalf /\ LinksHalf
    <3>1. /\ \A j \in HwIds : r # Asked(3, "destroy", "hardware", j)
                                /\ r # Asked(5, "create", "hardware", j)
          /\ \A l \in Links : r # Asked(1, "destroy", "links", l) /\ r # Asked(6, "create", "links", l)
      BY <1>3, <1>9
    <3> QED BY <1>4, <2>1, <3>1
  <2> QED BY <1>5, <2>3, <2>4
<1>10. ASSUME NEW i \in PluginIds, r = Asked(4, "create", "plugins", i) PROVE Halfway(c)'
  <2>1. plugins' = [plugins EXCEPT ![i] = new.plugins[i]] /\ UNCHANGED <<hardware, links>>
    BY <1>10 DEF Perform, Asked, AddPlugin
  <2>2. Asked(2, "destroy", "plugins", i) \notin P
    BY <1>0, <1>3, <1>10
  <2>3. PluginsHalf
    <3> SUFFICES ASSUME NEW j \in PluginIds
                 PROVE  plugins'[j] = Between(old.plugins[j], new.plugins[j],
                                    Asked(2, "destroy", "plugins", j) \in P \ {r},
                                    Asked(4, "create", "plugins", j) \in P \ {r})
      BY DEF PluginsHalf
    <3>1. CASE j = i
      BY <1>0, <1>10, <2>1, <2>2, <3>1 DEF Between
    <3>2. CASE j # i
      <4>1. r # Asked(2, "destroy", "plugins", j) /\ r # Asked(4, "create", "plugins", j)
        BY <1>10, <3>2, AskedApart
      <4> QED BY <1>0, <1>2, <2>1, <3>2, <4>1
    <3> QED BY <3>1, <3>2
  <2>4. HardwareHalf /\ LinksHalf
    <3>1. /\ \A j \in HwIds : r # Asked(3, "destroy", "hardware", j)
                                /\ r # Asked(5, "create", "hardware", j)
          /\ \A l \in Links : r # Asked(1, "destroy", "links", l) /\ r # Asked(6, "create", "links", l)
      BY <1>3, <1>10
    <3> QED BY <1>4, <2>1, <3>1
  <2> QED BY <1>5, <2>3, <2>4
<1>11. ASSUME NEW l \in Links, r = Asked(1, "destroy", "links", l) PROVE Halfway(c)'
  <2>1. links' = links \ {l} /\ UNCHANGED <<hardware, plugins>>
    BY <1>11 DEF Perform, Asked, RemoveLink
  <2>2. Asked(6, "create", "links", l) \in P \/ l \notin new.links
    <3>1. Asked(6, "create", "links", l) \in S => Asked(6, "create", "links", l) \in P
      BY <1>0, <1>3, <1>11
    <3> QED BY <1>0, <1>6, <1>11, <3>1
  <2>3. LinksHalf
    <3>1. ASSUME NEW k \in Links, k # l
          PROVE  r # Asked(1, "destroy", "links", k) /\ r # Asked(6, "create", "links", k)
      BY <1>11, <3>1, AskedApart
    <3>2. r # Asked(6, "create", "links", l)
      BY <1>3, <1>11
    <3> QED BY <1>2, <1>11, <2>1, <2>2, <3>1, <3>2 DEF LinksHalf
  <2>4. HardwareHalf /\ PluginsHalf
    <3>1. /\ \A i \in HwIds : r # Asked(3, "destroy", "hardware", i)
                            /\ r # Asked(5, "create", "hardware", i)
          /\ \A i \in PluginIds : r # Asked(2, "destroy", "plugins", i)
                                /\ r # Asked(4, "create", "plugins", i)
      BY <1>3, <1>11
    <3> QED BY <1>4, <2>1, <3>1
  <2> QED BY <1>5, <2>3, <2>4
<1>12. ASSUME NEW l \in Links, r = Asked(6, "create", "links", l) PROVE Halfway(c)'
  <2>1. links' = links \cup {l} /\ UNCHANGED <<hardware, plugins>>
    BY <1>12 DEF Perform, Asked, AddLink, CreateLink
  <2>2. Asked(1, "destroy", "links", l) \notin P /\ l \in new.links
    BY <1>0, <1>3, <1>6, <1>12
  <2>3. LinksHalf
    <3>1. ASSUME NEW k \in Links, k # l
          PROVE  r # Asked(1, "destroy", "links", k) /\ r # Asked(6, "create", "links", k)
      BY <1>12, <3>1, AskedApart
    <3> QED BY <1>2, <1>12, <2>1, <2>2, <3>1 DEF LinksHalf
  <2>4. HardwareHalf /\ PluginsHalf
    <3>1. /\ \A i \in HwIds : r # Asked(3, "destroy", "hardware", i)
                            /\ r # Asked(5, "create", "hardware", i)
          /\ \A i \in PluginIds : r # Asked(2, "destroy", "plugins", i)
                                /\ r # Asked(4, "create", "plugins", i)
      BY <1>3, <1>12
    <3> QED BY <1>4, <2>1, <3>1
  <2> QED BY <1>5, <2>3, <2>4
<1>13. \/ \E l \in Links : r = Asked(1, "destroy", "links", l) \/ r = Asked(6, "create", "links", l)
       \/ \E i \in PluginIds : \/ r = Asked(2, "destroy", "plugins", i)
                              \/ r = Asked(4, "create", "plugins", i)
       \/ \E i \in HwIds : \/ r = Asked(3, "destroy", "hardware", i)
                          \/ r = Asked(5, "create", "hardware", i)
  BY <1>0, SeriesApart DEF S
<1> QED BY <1>1, <1>7, <1>8, <1>9, <1>10, <1>11, <1>12, <1>13

\* Nothing changes what runs under a save but a request of its own, or what marks it
\* as disturbed.
LEMMA FollowsStep ==
  ASSUME Apart, FollowsAll, [DNext]_dvars
  PROVE  FollowsAll'
<1>0. PlanSound /\ PlanSound' /\ \A c \in Clients \ disturbed : Follows(c)
  BY PlanStep DEF FollowsAll
<1>1. SUFFICES ASSUME NEW c \in Clients, c \notin disturbed' PROVE Follows(c)'
  BY <1>0 DEF FollowsAll
<1>3. /\ Running \in Graphs /\ seen[c] \in Graphs /\ target[c] \in Graphs
      /\ phase \in [Clients -> Phases] /\ target \in [Clients -> Graphs]
      /\ unread \in [Clients -> SUBSET Parts] /\ seen \in [Clients -> Graphs]
      /\ plan \in [Clients -> SUBSET AllRequests]
  BY <1>0 DEF PlanSound, Running, TypeOK, Graphs
<1>4. ASSUME Follows(c), UNCHANGED <<up, hardware, plugins, links>>,
             phase'[c] = phase[c], target'[c] = target[c], unread'[c] = unread[c],
             seen'[c] = seen[c], plan'[c] = plan[c]
      PROVE  Follows(c)'
  BY <1>4 DEF Follows, Ordered, SeriesOf, Halfway, Running
<1>5. ASSUME NEW g \in Targets, Submit(c, g) PROVE Follows(c)'
  <2>1. phase'[c] = "reading" /\ unread'[c] = Parts
    BY <1>3, <1>5 DEF Submit, Goto
  <2> QED BY <2>1 DEF Follows
<1>15. ASSUME NEW d \in Clients, d # c,
              \/ \E g \in Targets : Submit(d, g)
              \/ Confirm(d) \/ Cancel(d) \/ SaverStep(d)
       PROVE  Follows(c)'
  <2>1. ~Send(d)
    BY <1>1, <1>15 DEF Send
  <2>2. Follows(c)
    BY <1>0, <1>1, <1>15, <2>1 DEF Submit, Confirm, Cancel, SaverStep, Read, Rejected,
                                   Refused, Finish
  <2>3. UNCHANGED <<up, hardware, plugins, links>>
    BY <1>15, <2>1 DEF Submit, Confirm, Cancel, SaverStep, Read, Rejected, Refused,
                       Finish, vars, memory
  <2>4. /\ phase'[c] = phase[c] /\ target'[c] = target[c] /\ unread'[c] = unread[c]
        /\ seen'[c] = seen[c] /\ plan'[c] = plan[c]
    BY <1>3, <1>15, <2>1 DEF Submit, Confirm, Cancel, SaverStep, Read, Rejected,
                             Refused, Finish, GiveUp, Goto
  <2> QED BY <1>4, <2>2, <2>3, <2>4
<1>2. CASE c \in disturbed
  <2>1. PICK d \in Clients : \E g \in Targets : Submit(d, g)
    BY <1>1, <1>2 DEF DNext, SaverStep, Confirm, Cancel, Read, Send, Rejected, Refused,
                      Finish, CoreSave, CoreFault, CoreBoot, dvars
  <2>2. d = c
    BY <1>1, <1>2, <2>1 DEF Submit
  <2> QED BY <1>5, <2>1, <2>2
<1>16. SUFFICES ASSUME c \notin disturbed PROVE Follows(c)'
  BY <1>2
<1>17. Follows(c)
  BY <1>0, <1>16
<1>6. ASSUME NEW part \in Parts, Read(c, part) PROVE Follows(c)'
  <2>1. /\ up' /\ Running' = Running /\ target' = target /\ phase[c] = "reading"
        /\ unread'[c] = unread[c] \ {part}
        /\ seen'[c] = [seen[c] EXCEPT ![part] = Running[part]]
    BY <1>3, <1>6 DEF Read, Idle, vars, memory, Running
  <2>2. \A p \in Parts \ unread'[c] : seen'[c][p] = Running[p]
    BY <1>17, <1>3, <2>1 DEF Follows, Graphs, Parts
  <2>3. CASE unread'[c] # {}
    <3>1. phase' = phase
      BY <1>6, <2>3 DEF Read
    <3> QED BY <2>1, <2>2, <3>1 DEF Follows
  <2>4. CASE unread'[c] = {}
    <3>1. phase'[c] = "confirm" /\ plan'[c] = Series(Merge(seen'[c], target[c]))
      BY <1>3, <1>6, <2>4 DEF Read, Goto
    <3>2. seen'[c] = Running
      <4>1. seen'[c] \in Graphs
        BY <1>0 DEF PlanSound
      <4>2. \A p \in Parts : seen'[c][p] = Running[p]
        BY <2>2, <2>4
      <4>3. /\ seen'[c].hardware = Running.hardware /\ seen'[c].plugins = Running.plugins
            /\ seen'[c].links = Running.links
        BY <4>2 DEF Parts
      <4> QED BY <1>3, <4>1, <4>3, SameGraph
    <3>3. HalfwayFrom(Running, Running, target[c], Series(Merge(Running, target[c])))
      BY <1>3, NothingDone
    <3>4. Halfway(c)'
      BY <2>1, <3>1, <3>2, <3>3, Zenon DEF Halfway
    <3>5. plan'[c] = SeriesOf(c)'
      BY <2>1, <3>1 DEF SeriesOf
    <3> QED BY <2>1, <3>1, <3>4, <3>5 DEF Follows, Ordered
  <2> QED BY <2>3, <2>4
<1>7. ASSUME Confirm(c) PROVE Follows(c)'
  <2>1. phase[c] = "confirm" /\ phase'[c] = "apply"
        /\ UNCHANGED <<up, hardware, plugins, links, target, unread, seen, plan>>
    BY <1>3, <1>7 DEF Confirm, Goto, vars, memory
  <2> QED BY <1>17, <2>1 DEF Follows, Ordered, SeriesOf, Halfway, Running
<1>8. ASSUME Cancel(c) \/ Rejected(c) \/ Refused(c) PROVE Follows(c)'
  <2>1. phase'[c] \in {"edit", "refused", "failed"}
    BY <1>3, <1>8 DEF Cancel, Rejected, Refused, GiveUp, Goto
  <2> QED BY <2>1 DEF Follows
<1>9. ASSUME Send(c) PROVE Follows(c)'
  <2>1. PICK r \in Current(c) : Perform(c, r) /\ plan' = [plan EXCEPT ![c] = @ \ {r}]
    BY <1>9 DEF Send
  <2>2. phase[c] = "apply" /\ UNCHANGED <<phase, target, unread, seen>>
    BY <1>9 DEF Send
  <2>3. up /\ plan[c] \subseteq SeriesOf(c) /\ Ordered(c) /\ Halfway(c)
    BY <1>17, <2>2 DEF Follows
  <2>4. Halfway(c)' /\ Ordered(c)'
    BY <1>0, <2>1, <2>2, <2>3, HalfwayStep
  <2>5. up'
    BY <2>1, <2>3 DEF Perform, RemoveLink, RemovePlugin, RemoveHardware, AddPlugin,
                      AddHardware, AddLink
  <2>6. plan'[c] \subseteq SeriesOf(c)'
    BY <1>3, <2>1, <2>2, <2>3 DEF SeriesOf
  <2> QED BY <2>2, <2>4, <2>5, <2>6 DEF Follows
<1>10. ASSUME Finish(c) PROVE Follows(c)'
  <2>1. phase[c] = "apply" /\ plan[c] = {} /\ phase'[c] = "done"
        /\ UNCHANGED <<up, hardware, plugins, links, target>>
    BY <1>3, <1>10 DEF Finish, Goto, vars, memory
  <2>2. up /\ HalfwayFrom(Running, seen[c], target[c], {})
    BY <1>17, <2>1 DEF Follows, Halfway
  <2>3. Running = target[c]
    BY <1>3, <2>2, AllDone
  <2> QED BY <2>1, <2>2, <2>3 DEF Follows, Running
<1>11. ASSUME CoreSave PROVE Follows(c)'
  <2>1. UNCHANGED <<up, hardware, plugins, links, saver>>
    BY <1>11 DEF CoreSave, SaveOpen, SaveWrite, Answer, memory
  <2> QED BY <1>4, <1>17, <2>1 DEF saver
<1>12. ~CoreFault
  BY <1>1 DEF CoreFault
<1>13. ASSUME CoreBoot PROVE Follows(c)'
  <2>1. ~up /\ UNCHANGED <<phase, unread>>
    BY <1>13 DEF CoreBoot, Boot, saver
  <2> QED BY <1>17, <2>1 DEF Follows
<1>14. CASE UNCHANGED dvars
  BY <1>4, <1>14, <1>17 DEF dvars, vars, memory, saver
<1>18. ASSUME SaverStep(c) PROVE Follows(c)'
  BY <1>6, <1>8, <1>9, <1>10, <1>18 DEF SaverStep
<1> QED BY <1>5, <1>7, <1>8, <1>11, <1>12, <1>13, <1>14, <1>15, <1>18 DEF DNext

LEMMA FollowsInit == DInit => FollowsAll
<1> SUFFICES ASSUME DInit PROVE FollowsAll
  OBVIOUS
<1>1. EmptyGraph \in Graphs /\ 0 \in 0 .. MaxFaults
  BY ClientsAssumption DEF EmptyGraph, NoHardware, NoPlugins, Graphs
<1>2. PlanSound
  BY <1>1, InitType DEF DInit, PlanSound, Phases
<1> QED BY <1>2 DEF DInit, FollowsAll, Follows

\* A save that is told done and that neither another's request nor a fault of the core
\* has crossed leaves the drawn graph running: componentManager.js doMerge and apply leave
\* nothing out and nothing over, whatever the two graphs are, and whoever else saves.
THEOREM SavedIsDrawn ==
  ASSUME Apart
  PROVE  DSpec => []DoneIsDrawn
<1>1. DInit => FollowsAll
  BY FollowsInit
<1>2. FollowsAll /\ [DNext]_dvars => FollowsAll'
  BY FollowsStep
<1>3. FollowsAll => DoneIsDrawn
  BY DEF FollowsAll, Follows, DoneIsDrawn
<1> QED BY <1>1, <1>2, <1>3, PTL DEF DSpec

-----------------------------------------------------------------------------
(* What is refused to a save that nothing crosses                          *)

\* What runs is what a link finds when it is made, where no id is given twice.
AllPublished ==
  /\ \A i \in HwIds : hardware[i] # Absent => netRepository[i] = "hardware"
  /\ \A i \in PluginIds : plugins[i] # Absent => netRepository[i] = "plugin"

LEMMA PublishedStep ==
  ASSUME HwIds \cap PluginIds = {}, TypeOK, AllPublished, [Next]_vars
  PROVE  AllPublished'
<1> USE DEF AllPublished, TypeOK
<1>1. ASSUME NEW i \in HwIds, NEW c \in Configs, AddHardware(i, c) PROVE AllPublished'
  BY <1>1 DEF AddHardware, Publish
<1>2. ASSUME NEW i \in PluginIds, NEW c \in Configs, AddPlugin(i, c) PROVE AllPublished'
  BY <1>2 DEF AddPlugin, Publish
<1>3. ASSUME NEW i \in HwIds, RemoveHardware(i) PROVE AllPublished'
  BY <1>3 DEF RemoveHardware, Unpublish
<1>4. ASSUME NEW i \in PluginIds, RemovePlugin(i) PROVE AllPublished'
  BY <1>4 DEF RemovePlugin, Unpublish
<1>5. ASSUME NEW l \in Links, AddLink(l) \/ RemoveLink(l) PROVE AllPublished'
  BY <1>5 DEF AddLink, RemoveLink
<1>6. ASSUME Save PROVE AllPublished'
  BY <1>6 DEF Save, SaveOpen, SaveWrite, SaveFails, memory
<1>7. ASSUME Crash PROVE AllPublished'
  BY <1>7 DEF Crash, NoHardware, NoPlugins
<1>8. ASSUME Boot PROVE AllPublished'
  <2>1. file \in Graphs
    BY <1>8 DEF Boot
  <2> QED BY <1>8, <2>1 DEF Boot, BootRepository, Graphs
<1>9. CASE UNCHANGED vars
  BY <1>9 DEF vars, memory
<1> QED BY <1>1, <1>2, <1>3, <1>4, <1>5, <1>6, <1>7, <1>8, <1>9 DEF Next, Request

\* Drawn graphs have both ends of their links; and what was refused was refused for a link
\* that doMerge missed.
RefusedInv ==
  /\ FollowsAll /\ AllPublished
  /\ \A c \in Clients : Bootable(target[c])
  /\ RefusedOnlyIfMissed

\* What is not accepted is not carried out: a rejection never stands beside a change.
LEMMA RejectedUndone ==
  ASSUME NEW c \in Clients, NEW r, ~Accepts(r), Perform(c, r)
  PROVE  FALSE
BY DEF Accepts, Perform, AddHardware, RemoveHardware, AddPlugin, RemovePlugin, AddLink,
       CreateLink, RemoveLink

\* A link in the way of a removal was neither destroyed nor remade: doMerge missed it.
LEMMA InTheWay ==
  ASSUME Apart, RefusedInv, NEW c \in Clients \ disturbed, phase[c] = "apply",
         NEW r \in Current(c), NEW i \in Ids,
         \/ r = Asked(2, "destroy", "plugins", i) /\ i \in PluginIds
         \/ r = Asked(3, "destroy", "hardware", i) /\ i \in HwIds,
         NEW l \in links, Uses(l, i)
  PROVE  l \in Missed(seen[c], target[c])
<1> DEFINE old == seen[c]
           new == target[c]
           S == Series(Merge(old, new))
           P == plan[c]
<1>1. /\ P \subseteq S /\ r \in P /\ l \in Links
      /\ \A q \in P : r.at <= q.at
      /\ \A q \in P, t \in S : t.at > q.at => t \in P
      /\ old \in Graphs /\ new \in Graphs
  BY DEF RefusedInv, FollowsAll, Follows, Current, SeriesOf, Ordered, PlanSound, TypeOK
<1>2. /\ Asked(1, "destroy", "links", l).at = 1 /\ Asked(6, "create", "links", l).at = 6
      /\ r.at \in {2, 3}
  BY DEF Asked
<1>3. /\ Asked(1, "destroy", "links", l) \notin P
      /\ Asked(6, "create", "links", l) \in S => Asked(6, "create", "links", l) \in P
  BY <1>1, <1>2
<1>4. /\ Asked(6, "create", "links", l) \notin P /\ l \in new.links
  BY <1>1, <1>3 DEF RefusedInv, FollowsAll, Follows, Halfway, HalfwayFrom, Running
<1>5. l \notin (new.links \ old.links) \cup Recreated(old, new)
  BY <1>1, <1>3, <1>4, SeriesApart
<1>6. l \in old.links \cap new.links /\ l \notin Recreated(old, new)
  BY <1>4, <1>5
<1>7. \/ i \in DestroyedIn(old.plugins, new.plugins) /\ i \in PluginIds
      \/ i \in DestroyedIn(old.hardware, new.hardware) /\ i \in HwIds
  BY <1>1, SeriesApart DEF DestroyedIn, Graphs
<1>8. \/ l.sourceComponent \in DestroyedIn(old.plugins, new.plugins)
      \/ l.destinationComponent \in DestroyedIn(old.hardware, new.hardware)
  BY <1>6, <1>7 DEF Recreated, Uses
<1> QED BY <1>6, <1>8 DEF Missed

\* The turns of a series leave nothing else to refuse.
LEMMA RejectedMissed ==
  ASSUME Apart, RefusedInv, NEW c \in Clients \ disturbed, Rejected(c)
  PROVE  Missed(seen[c], target[c]) # {}
<1> DEFINE old == seen[c]
           new == target[c]
           S == Series(Merge(old, new))
           P == plan[c]
<1>0. PICK r \in Current(c) : ~Accepts(r)
  BY DEF Rejected
<1>1. /\ phase[c] = "apply" /\ P \subseteq S /\ r \in P
      /\ \A q \in P : r.at <= q.at
      /\ old \in Graphs /\ new \in Graphs /\ Bootable(new)
      /\ Halfway(c)
  BY DEF Rejected, RefusedInv, FollowsAll, Follows, Current, SeriesOf, PlanSound
<1>2. ASSUME NEW l \in Links, r = Asked(1, "destroy", "links", l) PROVE FALSE
  BY <1>0, <1>1, <1>2 DEF Halfway, HalfwayFrom, Running, Accepts, Asked
<1>3. ASSUME NEW i \in PluginIds, r = Asked(2, "destroy", "plugins", i)
      PROVE  Missed(old, new) # {}
  <2>1. plugins[i] # Absent
    BY <1>1, <1>3, SeriesApart DEF Halfway, HalfwayFrom, Running, Between
  <2>2. ~CheckLink(i)
    BY <1>0, <1>3, <2>1 DEF Accepts, Asked
  <2>3. PICK l \in links : Uses(l, i)
    BY <2>2 DEF CheckLink
  <2> QED BY <1>1, <1>3, <2>3, InTheWay DEF Ids
<1>4. ASSUME NEW i \in HwIds, r = Asked(3, "destroy", "hardware", i)
      PROVE  Missed(old, new) # {}
  <2>1. hardware[i] # Absent
    BY <1>1, <1>4, SeriesApart DEF Halfway, HalfwayFrom, Running, Between
  <2>2. ~CheckLink(i)
    BY <1>0, <1>4, <2>1 DEF Accepts, Asked
  <2>3. PICK l \in links : Uses(l, i)
    BY <2>2 DEF CheckLink
  <2> QED BY <1>1, <1>4, <2>3, InTheWay DEF Ids
<1>5. ASSUME NEW i \in PluginIds, r = Asked(4, "create", "plugins", i) PROVE FALSE
  <2>1. Asked(2, "destroy", "plugins", i) \notin P
    BY <1>1, <1>5 DEF Asked
  <2>2. plugins[i] = Absent
    BY <1>1, <1>5, <2>1 DEF Halfway, HalfwayFrom, Running, Between
  <2> QED BY <1>0, <1>5, <2>2 DEF Accepts, Asked
<1>6. ASSUME NEW i \in HwIds, r = Asked(5, "create", "hardware", i) PROVE FALSE
  <2>1. Asked(3, "destroy", "hardware", i) \notin P
    BY <1>1, <1>6 DEF Asked
  <2>2. hardware[i] = Absent
    BY <1>1, <1>6, <2>1 DEF Halfway, HalfwayFrom, Running, Between
  <2> QED BY <1>0, <1>6, <2>2 DEF Accepts, Asked
<1>7. ASSUME NEW l \in Links, r = Asked(6, "create", "links", l) PROVE FALSE
  <2>1. /\ Asked(1, "destroy", "links", l) \notin P
        /\ \A i \in HwIds : /\ Asked(3, "destroy", "hardware", i) \notin P
                            /\ Asked(5, "create", "hardware", i) \notin P
        /\ \A i \in PluginIds : /\ Asked(2, "destroy", "plugins", i) \notin P
                                /\ Asked(4, "create", "plugins", i) \notin P
    BY <1>1, <1>7 DEF Asked
  <2>2. /\ \A i \in HwIds : hardware[i] = new.hardware[i]
        /\ \A i \in PluginIds : plugins[i] = new.plugins[i]
        /\ l \notin links
    BY <1>1, <1>7, <2>1 DEF Halfway, HalfwayFrom, Running, Between
  <2>3. l \in new.links
    <3>1. Recreated(old, new) \subseteq new.links
      BY DEF Recreated
    <3> QED BY <1>1, <1>7, <3>1, SeriesApart
  <2>4. /\ BootRepository(new)[l.sourceComponent] # Absent
        /\ BootRepository(new)[l.destinationComponent] # Absent
    BY <1>1, <2>3 DEF Bootable, BootBinding
  <2>5. \A i \in Ids : BootRepository(new)[i] # Absent => netRepository[i] # Absent
    BY <2>2, MarkersAssumption DEF BootRepository, RefusedInv, AllPublished, Ids
  <2>6. l.sourceComponent \in Ids /\ l.destinationComponent \in Ids
    BY LinksAssumption
  <2> QED BY <1>0, <1>7, <2>2, <2>4, <2>5, <2>6 DEF Accepts, Asked
<1> QED BY <1>1, <1>2, <1>3, <1>4, <1>5, <1>6, <1>7, SeriesApart

LEMMA RefusedStep ==
  ASSUME Apart, RefusedInv, [DNext]_dvars
  PROVE  RefusedInv'
<1>1. FollowsAll' /\ PlanSound /\ PlanSound'
  BY FollowsStep DEF RefusedInv, FollowsAll
<1>2. AllPublished'
  <2>1. [Next]_vars
    BY <1>1, DesignerStep
  <2> QED BY <1>1, <2>1, PublishedStep DEF RefusedInv, Apart, PlanSound
<1>3. ASSUME NEW c \in Clients PROVE Bootable(target'[c])
  <2>1. Bootable(target[c]) /\ target \in [Clients -> Graphs]
    BY <1>1 DEF RefusedInv, PlanSound
  <2>2. ASSUME NEW d \in Clients, NEW g \in Targets, Submit(d, g) PROVE Bootable(target'[c])
    BY <2>1, <2>2, TargetsAssumption DEF Submit
  <2>3. ASSUME NEW d, NEW p, GiveUp(d, p) PROVE Bootable(target'[c])
    <3>1. Bootable(EmptyGraph)
      BY DEF Bootable, EmptyGraph
    <3> QED BY <2>1, <2>3, <3>1 DEF GiveUp
  <2>4. \/ \E d \in Clients, g \in Targets : Submit(d, g)
        \/ \E d, p : GiveUp(d, p)
        \/ target' = target
    BY DEF DNext, Confirm, Cancel, SaverStep, Read, Send, Rejected, Refused, Finish,
           CoreSave, CoreFault, CoreBoot, Answer, saver, dvars
  <2> QED BY <2>1, <2>2, <2>3, <2>4
<1>4. ASSUME NEW c \in Clients, c \notin disturbed', phase'[c] = "refused"
      PROVE  Missed(seen'[c], target'[c]) # {}
  <2>1. /\ c \notin disturbed /\ phase[c] = "refused" => Missed(seen[c], target[c]) # {}
        /\ phase \in [Clients -> Phases] /\ target \in [Clients -> Graphs]
        /\ seen \in [Clients -> Graphs]
    BY <1>1 DEF RefusedInv, RefusedOnlyIfMissed, PlanSound
  <2>2. ASSUME NEW g \in Targets, Submit(c, g) PROVE FALSE
    BY <1>4, <2>1, <2>2 DEF Submit, Goto
  <2>3. ASSUME NEW part \in Parts, Read(c, part) PROVE FALSE
    BY <1>4, <2>1, <2>3 DEF Read, Goto
  <2>4. ASSUME Confirm(c) \/ Cancel(c) \/ Refused(c) \/ Finish(c) PROVE FALSE
    BY <1>4, <2>1, <2>4 DEF Confirm, Cancel, Refused, GiveUp, Finish, Goto
  <2>5. ASSUME Send(c) PROVE FALSE
    BY <1>4, <2>1, <2>5 DEF Send
  <2>6. ASSUME Rejected(c) PROVE Missed(seen'[c], target'[c]) # {}
    BY <1>4, <2>6, RejectedMissed DEF Rejected
  <2>7. ~CoreFault
    BY <1>4 DEF CoreFault
  <2>8. ASSUME phase'[c] = phase[c], target'[c] = target[c], seen'[c] = seen[c],
               c \notin disturbed
        PROVE  Missed(seen'[c], target'[c]) # {}
    BY <1>4, <2>1, <2>8
  <2>9. CASE CoreSave \/ CoreBoot \/ UNCHANGED dvars
    <3>1. UNCHANGED <<phase, target, seen, disturbed>>
      BY <2>9 DEF CoreSave, CoreBoot, Answer, saver, dvars
    <3> QED BY <1>4, <2>8, <3>1
  <2>10. ASSUME NEW d \in Clients, d # c,
                \/ \E g \in Targets : Submit(d, g)
                \/ Confirm(d) \/ Cancel(d) \/ SaverStep(d)
         PROVE  Missed(seen'[c], target'[c]) # {}
    <3>1. ~Send(d)
      BY <1>4, <2>10 DEF Send
    <3>2. /\ phase'[c] = phase[c] /\ target'[c] = target[c] /\ seen'[c] = seen[c]
          /\ c \notin disturbed
      BY <1>4, <2>1, <2>10, <3>1 DEF Submit, Confirm, Cancel, SaverStep, Read, Rejected,
                                     Refused, Finish, GiveUp, Goto
    <3> QED BY <2>8, <3>2
  <2> QED BY <2>2, <2>3, <2>4, <2>5, <2>6, <2>7, <2>9, <2>10 DEF DNext, SaverStep
<1> QED BY <1>1, <1>2, <1>3, <1>4 DEF RefusedInv, RefusedOnlyIfMissed

\* A save that nothing crosses is refused only for a link that doMerge missed, one that
\* stays and starts at a plugin or ends at a hardware that changes
\* (componentManager.js:75-93), whatever the two graphs are, and whoever else saves.
THEOREM RefusedForMissedLink ==
  ASSUME Apart
  PROVE  DSpec => []RefusedOnlyIfMissed
<1>1. DInit => RefusedInv
  <2> SUFFICES ASSUME DInit PROVE RefusedInv
    OBVIOUS
  <2>1. FollowsAll
    BY FollowsInit
  <2>2. Bootable(EmptyGraph)
    BY DEF Bootable, EmptyGraph
  <2> QED BY <2>1, <2>2 DEF DInit, Init, RefusedInv, AllPublished, NoHardware, NoPlugins,
                          RefusedOnlyIfMissed
<1>2. RefusedInv /\ [DNext]_dvars => RefusedInv'
  BY RefusedStep
<1>3. RefusedInv => RefusedOnlyIfMissed
  BY DEF RefusedInv
<1> QED BY <1>1, <1>2, <1>3, PTL DEF DSpec
=============================================================================
