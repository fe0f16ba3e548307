----------------------------- MODULE CoreManager -----------------------------
(***************************************************************************)
(* The graph of components and links kept by mylife-home-core: manager.js  *)
(* over hardware.js, plugins.js, links.js, the repository of netobject.js  *)
(* and the store of data.js.                                               *)
(*                                                                         *)
(* Node runs a request to its end without interleaving another, so the     *)
(* in-memory half of a request is one action.  The file is another matter: *)
(* fs.writeFileSync truncates data.json and then fills it, either step may *)
(* fail, and the process may die before, between and after them.  A        *)
(* request that the code rejects (an exception answered with a 500 by      *)
(* app.js) changes nothing and is the negation of its action's guard.      *)
(*                                                                         *)
(* A definition introduced as a slip is a wrong variant of the one that    *)
(* follows it, which the properties must be able to tell from the code.    *)
(***************************************************************************)
EXTENDS Naturals

CONSTANTS
  HwIds,      \* ids under which hardware (components of other hosts) is added
  PluginIds,  \* ids under which plugins are added; nothing keeps them apart
  Configs,    \* what a posted configuration holds beside its id
  Links,      \* link configurations, which the code identifies with link ids
  Absent,     \* "undefined": no entry under that id
  Torn        \* data.json truncated or partly written: JSON.parse throws

Ids == HwIds \cup PluginIds

\* A link joins the attribute of a component to the action of another one.
ASSUME LinksAssumption ==
  \A l \in Links : l.sourceComponent \in Ids /\ l.destinationComponent \in Ids

(***************************************************************************)
(* What a link closes over: the object published under an id when the link *)
(* was made.  "stale" is an object whose component has been destroyed; no  *)
(* later component of the same id is that object.                          *)
(***************************************************************************)
Kinds    == {"hardware", "plugin"}
Objects  == Kinds \cup {"stale"}
Bindings == [source : Objects, destination : Objects]

\* The content of data.json, of data.js's cache and of the running graph.
Graphs == [hardware : [HwIds -> Configs \cup {Absent}],
           plugins  : [PluginIds -> Configs \cup {Absent}],
           links    : SUBSET Links]

\* The two markers are not values of the program.
ASSUME MarkersAssumption ==
  /\ Absent \notin Configs \cup Kinds
  /\ Absent \notin Graphs
  /\ Torn \notin Graphs

NoHardware == [i \in HwIds |-> Absent]
NoPlugins  == [i \in PluginIds |-> Absent]
EmptyGraph == [hardware |-> NoHardware, plugins |-> NoPlugins, links |-> {}]

NoBinding  == [source |-> "stale", destination |-> "stale"]

VARIABLES
  up,             \* the core process runs and has finished initialize()
  hardware,       \* hardware.js: id -> configuration of a running entry
  plugins,        \* plugins.js: id -> configuration of a running container
  links,          \* links.js: the ids of the running links
  bound,          \* the two objects each running link captured
  listeners,      \* 'connected' handlers registered: <<link, binding>>
  netRepository,  \* netobject.js: id -> the kind of object published last
  data,           \* data.js: the cached content of data.json
  file,           \* data.json on disk
  saving          \* where the current request is in saveData()

memory == <<hardware, plugins, links, bound, listeners, netRepository>>
vars   == <<up, memory, data, file, saving>>

Running == [hardware |-> hardware, plugins |-> plugins, links |-> links]

Uses(l, i) == l.sourceComponent = i \/ l.destinationComponent = i

TypeOK ==
  /\ up \in BOOLEAN
  /\ hardware \in [HwIds -> Configs \cup {Absent}]
  /\ plugins \in [PluginIds -> Configs \cup {Absent}]
  /\ links \subseteq Links
  /\ bound \in [Links -> Bindings]
  /\ listeners \subseteq Links \X Bindings
  /\ netRepository \in [Ids -> Kinds \cup {Absent}]
  /\ data \in Graphs
  /\ file \in Graphs \cup {Torn}
  /\ saving \in {"no", "open", "write"}

(***************************************************************************)
(* netobject.publish and netobject.unpublish.  Hardware and plugins share  *)
(* the one repository: the last to publish an id hides the other, and      *)
(* either one unpublishing it empties the entry.                           *)
(***************************************************************************)
Publish(kind, i) == netRepository' = [netRepository EXCEPT ![i] = kind]

Forget(b, l, kind, i) ==
  [source      |-> IF l.sourceComponent = i /\ b.source = kind
                     THEN "stale" ELSE b.source,
   destination |-> IF l.destinationComponent = i /\ b.destination = kind
                     THEN "stale" ELSE b.destination]

\* The handlers hanging on the object's own emitter go with it; the others
\* keep their reference to an object nothing else knows.
Unpublish(kind, i) ==
  /\ netRepository' = [netRepository EXCEPT ![i] = Absent]
  /\ bound' = [l \in Links |-> Forget(bound[l], l, kind, i)]
  /\ listeners' = {<<h[1], Forget(h[2], h[1], kind, i)>> :
                     h \in {g \in listeners :
                              Forget(g[2], g[1], kind, i).source # "stale"}}

(***************************************************************************)
(* The requests.  Each runs when the previous one has finished its save.   *)
(***************************************************************************)
Idle == up /\ saving = "no"

\* data.add... and data.remove... change the cache, then call saveData.
Record(graph) == data' = graph /\ saving' = "open" /\ UNCHANGED file

AddHardware(i, c) ==
  /\ Idle
  /\ hardware[i] = Absent
  /\ hardware' = [hardware EXCEPT ![i] = c]
  /\ Publish("hardware", i)
  /\ Record([data EXCEPT !.hardware[i] = c])
  /\ UNCHANGED <<up, plugins, links, bound, listeners>>

AddPlugin(i, c) ==
  /\ Idle
  /\ plugins[i] = Absent
  /\ plugins' = [plugins EXCEPT ![i] = c]
  /\ Publish("plugin", i)
  /\ Record([data EXCEPT !.plugins[i] = c])
  /\ UNCHANGED <<up, hardware, links, bound, listeners>>

\* Slip: only one end of the links is looked at.
CheckLinkSource(i) == \A l \in links : l.sourceComponent # i

\* manager.js, checkLink: it looks at the ids in the links' configurations.
CheckLink(i) == \A l \in links : ~Uses(l, i)

RemoveHardware(i) ==
  /\ Idle
  /\ CheckLink(i)
  /\ hardware[i] # Absent
  /\ Unpublish("hardware", i)
  /\ hardware' = [hardware EXCEPT ![i] = Absent]
  /\ Record([data EXCEPT !.hardware[i] = Absent])
  /\ UNCHANGED <<up, plugins, links>>

RemovePlugin(i) ==
  /\ Idle
  /\ CheckLink(i)
  /\ plugins[i] # Absent
  /\ Unpublish("plugin", i)
  /\ plugins' = [plugins EXCEPT ![i] = Absent]
  /\ Record([data EXCEPT !.plugins[i] = Absent])
  /\ UNCHANGED <<up, hardware, links>>

\* links.js, create: both ends must be published, otherwise reading .object
\* of undefined throws before anything is registered.
CreateLink(l) ==
  LET b == [source      |-> netRepository[l.sourceComponent],
            destination |-> netRepository[l.destinationComponent]]
  IN /\ l \notin links
     /\ Absent \notin {b.source, b.destination}
     /\ links' = links \cup {l}
     /\ bound' = [bound EXCEPT ![l] = b]
     /\ listeners' = listeners \cup {<<l, b>>}

AddLink(l) ==
  /\ Idle
  /\ CreateLink(l)
  /\ Record([data EXCEPT !.links = @ \cup {l}])
  /\ UNCHANGED <<up, hardware, plugins, netRepository>>

\* links.js, destroy: only the listener of 'attribute#...' is removed, the
\* one registered for 'connected' stays.
RemoveLink(l) ==
  /\ Idle
  /\ l \in links
  /\ links' = links \ {l}
  /\ bound' = [bound EXCEPT ![l] = NoBinding]
  /\ Record([data EXCEPT !.links = @ \ {l}])
  /\ UNCHANGED <<up, hardware, plugins, listeners, netRepository>>

(***************************************************************************)
(* saveData.  writeFileSync opens the file with truncation, writes, closes;*)
(* an exception from either step ends the request with a 500, the memory   *)
(* and the cache keeping what the request did.                             *)
(***************************************************************************)
SaveOpen ==
  /\ up /\ saving = "open"
  /\ file' = Torn
  /\ saving' = "write"
  /\ UNCHANGED <<up, memory, data>>

\* A slip: the links are not written.
SaveNoLinks ==
  /\ up /\ saving = "write"
  /\ file' = [data EXCEPT !.links = {}]
  /\ saving' = "no"
  /\ UNCHANGED <<up, memory, data>>

SaveWrite ==
  /\ up /\ saving = "write"
  /\ file' = data
  /\ saving' = "no"
  /\ UNCHANGED <<up, memory, data>>

\* The open fails and leaves the old content, or the write fails and leaves
\* what the truncation and a part of the content made of the file.
SaveFails ==
  /\ up /\ saving # "no"
  /\ saving' = "no"
  /\ UNCHANGED <<up, memory, data, file>>

(***************************************************************************)
(* The process ends, by a signal, a power cut or through the exit handler  *)
(* that calls terminate(): whatever terminate destroys is in memory.       *)
(***************************************************************************)
Crash ==
  /\ up
  /\ up' = FALSE
  /\ hardware' = NoHardware
  /\ plugins' = NoPlugins
  /\ links' = {}
  /\ bound' = [l \in Links |-> NoBinding]
  /\ listeners' = {}
  /\ netRepository' = [i \in Ids |-> Absent]
  /\ data' = EmptyGraph
  /\ saving' = "no"
  /\ UNCHANGED file

\* Slip: the links are made before the plugins are.
BootRepositoryEarly(g) ==
  [i \in Ids |-> IF i \in HwIds /\ g.hardware[i] # Absent THEN "hardware"
                 ELSE Absent]

\* initialize() publishes the hardware, then the plugins over it.
BootRepository(g) ==
  [i \in Ids |->
     IF i \in PluginIds /\ g.plugins[i] # Absent THEN "plugin"
     ELSE IF i \in HwIds /\ g.hardware[i] # Absent THEN "hardware"
     ELSE Absent]

BootBinding(g, l) ==
  [source      |-> BootRepository(g)[l.sourceComponent],
   destination |-> BootRepository(g)[l.destinationComponent]]

\* A link whose end is missing throws out of initialize and out of main.js.
Bootable(g) ==
  \A l \in g.links : Absent \notin {BootBinding(g, l).source,
                                    BootBinding(g, l).destination}

Boot ==
  /\ ~up
  /\ file # Torn
  /\ Bootable(file)
  /\ up' = TRUE
  /\ data' = file
  /\ hardware' = file.hardware
  /\ plugins' = file.plugins
  /\ links' = file.links
  /\ netRepository' = BootRepository(file)
  /\ bound' = [l \in Links |-> IF l \in file.links THEN BootBinding(file, l)
                                                   ELSE NoBinding]
  /\ listeners' = {<<l, BootBinding(file, l)>> : l \in file.links}
  /\ UNCHANGED <<file, saving>>

Init ==
  /\ up = FALSE
  /\ hardware = NoHardware
  /\ plugins = NoPlugins
  /\ links = {}
  /\ bound = [l \in Links |-> NoBinding]
  /\ listeners = {}
  /\ netRepository = [i \in Ids |-> Absent]
  /\ data = EmptyGraph
  /\ file = EmptyGraph
  /\ saving = "no"

Request ==
  \/ \E i \in HwIds, c \in Configs : AddHardware(i, c)
  \/ \E i \in PluginIds, c \in Configs : AddPlugin(i, c)
  \/ \E i \in HwIds : RemoveHardware(i)
  \/ \E i \in PluginIds : RemovePlugin(i)
  \/ \E l \in Links : AddLink(l)
  \/ \E l \in Links : RemoveLink(l)

Save == SaveOpen \/ SaveWrite \/ SaveFails

Next == Request \/ Save \/ Crash \/ Boot

Spec == Init /\ [][Next]_vars

(***************************************************************************)
(* Properties.                                                             *)
(***************************************************************************)

\* The component an object of kind k under id i stands for is running.
Alive(k, i) == \/ k = "hardware" /\ i \in HwIds /\ hardware[i] # Absent
               \/ k = "plugin" /\ i \in PluginIds /\ plugins[i] # Absent

\* An id found in the repository (netobject.js) is that of a running component
\* of the kind found, so that a new link can only capture a live object, even
\* when hardware and plugins publish and unpublish under the same id.
RepositoryAlive ==
  \A i \in Ids : netRepository[i] # Absent => Alive(netRepository[i], i)

\* A running link drives running components: neither end it captured when it
\* was created (links.js:16-17) is ever an object destroyed since, whatever
\* hardware and plugins were removed and added again under the same ids.
LinkEndsAlive ==
  \A l \in links : /\ Alive(bound[l].source, l.sourceComponent)
                   /\ Alive(bound[l].destination, l.destinationComponent)

\* The cache that the next save writes (data.js) is the graph that runs, also
\* after requests answered with a 500 because their save failed.
CacheIsRunning == up => data = Running

\* Whenever the process dies, in the middle of any sequence of requests and
\* failed saves, a data.json that can be read at all can be booted from: no
\* link in it lacks an end (links.js:16-17 would throw out of initialize).
DiskBootable == file # Torn => Bootable(file)

\* The inductive invariant that the proofs of the others go through.
IndInv ==
  TypeOK /\ RepositoryAlive /\ LinkEndsAlive /\ CacheIsRunning /\ DiskBootable

\* "on regarde s'il n'est pas utilise dans des liens" (manager.js:92, 152): a
\* component is removed only once no link handler can reach it any more.
NoHandlerReachesRemoved ==
  \A h \in listeners : /\ Alive(h[2].source, h[1].sourceComponent)
                       /\ Alive(h[2].destination, h[1].destinationComponent)

\* What the designer may rely on (HomeGraph): a graph changed by whole
\* requests, whose durable copy is replaced by the running graph or lost, and
\* which alone decides what runs after a restart.
LiveGraph == IF up THEN Running ELSE Absent

Promise == INSTANCE HomeGraph WITH
  live    <- LiveGraph,
  durable <- file,
  Down    <- Absent,
  Lost    <- Torn

\* The core implements that promise, through every crash and failed save.
KeepsPromise == Promise!Spec
=============================================================================
