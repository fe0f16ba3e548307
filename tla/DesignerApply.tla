---------------------------- MODULE DesignerApply ----------------------------
(***************************************************************************)
(* Saving a schema from mylife-home-core-designer: componentManager.js of  *)
(* the designer's server over the REST interface of the core.  A save      *)
(* reads the core's graph, computes what to destroy and what to create,    *)
(* lets the user confirm, and sends the requests one after the other; the  *)
(* first one refused ends the series with the others undone.  Several      *)
(* browsers may save at the same time, and the core may fail meanwhile.    *)
(***************************************************************************)
EXTENDS CoreManager

CONSTANTS
  Clients,    \* the browsers
  Targets,    \* the graphs that are drawn and saved
  Nobody,     \* no browser
  MaxFaults   \* bound: crashes and failed saves of the core in a behaviour

ASSUME ClientsAssumption == Nobody \notin Clients /\ MaxFaults \in Nat

\* schemaHelper.js deletes a component with its links, and a link is drawn
\* between two components on the screen: a drawn graph is consistent.
ASSUME TargetsAssumption == \A g \in Targets : g \in Graphs /\ Bootable(g)

VARIABLES
  phase,    \* what each browser's save is doing
  target,   \* the graph it saves
  unread,   \* the GETs of componentManager.data() not answered yet
  seen,     \* what they have answered
  plan,     \* the requests not answered yet, as async.series holds them
  asking,   \* the browser whose request the core is serving, or Nobody
  faults,   \* faults of the core so far
  disturbed \* observed: the browsers whose last save was crossed by another's
            \* request or a fault of the core

saver == <<phase, target, unread, seen, plan>>
dvars == <<vars, saver, asking, faults, disturbed>>

Parts  == {"plugins", "hardware", "links"}
\* How a save ends: done, refused by a request's 500, or failed on the core's
\* side, which did not answer or could not write its file.
Ended  == {"done", "refused", "failed"}
Phases == {"edit", "reading", "confirm", "apply"} \cup Ended

(***************************************************************************)
(* mergeData and doMerge.  Items are compared deeply, so a component whose *)
(* configuration differs, if only by its place on the screen, is destroyed *)
(* and created again.                                                      *)
(***************************************************************************)
DestroyedIn(old, new) == {i \in DOMAIN old : old[i] # Absent /\ old[i] # new[i]}
CreatedIn(old, new)   == DestroyedIn(new, old)

\* Links that stay in the schema but are destroyed and made again, because of
\* what happens to their ends: the two tests doMerge makes (each one twice).
Recreated(old, new) ==
  {l \in old.links \cap new.links :
     \/ l.sourceComponent \in DestroyedIn(old.hardware, new.hardware)
     \/ l.destinationComponent \in DestroyedIn(old.plugins, new.plugins)}

\* Slip: links are destroyed with their ends and not made again.
MergeForgets(old, new) ==
  [destroy |-> [plugins  |-> DestroyedIn(old.plugins, new.plugins),
                hardware |-> DestroyedIn(old.hardware, new.hardware),
                links    |-> (old.links \ new.links) \cup Recreated(old, new)],
   create  |-> [plugins  |-> CreatedIn(old.plugins, new.plugins),
                hardware |-> CreatedIn(old.hardware, new.hardware),
                links    |-> new.links \ old.links]]

Merge(old, new) ==
  LET again == Recreated(old, new)
  IN [destroy |-> [plugins  |-> DestroyedIn(old.plugins, new.plugins),
                   hardware |-> DestroyedIn(old.hardware, new.hardware),
                   links    |-> (old.links \ new.links) \cup again],
      create  |-> [plugins  |-> CreatedIn(old.plugins, new.plugins),
                   hardware |-> CreatedIn(old.hardware, new.hardware),
                   links    |-> (new.links \ old.links) \cup again]]

(***************************************************************************)
(* apply.  The requests are the values of one object with keys             *)
(* 'destroy:'+id and 'create:'+id, run in the order the keys were first    *)
(* added.  A hardware with the id of a plugin takes over the plugin's key: *)
(* its request runs in the plugin's place, and the plugin's never.         *)
(***************************************************************************)
Requests(verb, at, items, kind) ==
  {[at |-> at, verb |-> verb, kind |-> kind, item |-> x] : x \in items}

ComponentRequests(verb, at, merged) ==
  Requests(verb, at, merged.plugins \ merged.hardware, "plugins")
    \cup Requests(verb, at, merged.plugins \cap merged.hardware, "hardware")
    \cup Requests(verb, at + 1, merged.hardware \ merged.plugins, "hardware")

Series(m) ==
  Requests("destroy", 1, m.destroy.links, "links")
    \cup ComponentRequests("destroy", 2, m.destroy)
    \cup ComponentRequests("create", 4, m.create)
    \cup Requests("create", 6, m.create.links, "links")

\* Components added with the configuration drawn for them.
Perform(c, r) ==
  \/ r.verb = "destroy" /\ r.kind = "links"    /\ RemoveLink(r.item)
  \/ r.verb = "destroy" /\ r.kind = "plugins"  /\ RemovePlugin(r.item)
  \/ r.verb = "destroy" /\ r.kind = "hardware" /\ RemoveHardware(r.item)
  \/ r.verb = "create"  /\ r.kind = "plugins"
       /\ AddPlugin(r.item, target[c].plugins[r.item])
  \/ r.verb = "create"  /\ r.kind = "hardware"
       /\ AddHardware(r.item, target[c].hardware[r.item])
  \/ r.verb = "create"  /\ r.kind = "links"    /\ AddLink(r.item)

\* What the core carries out.  Anything else throws in its managers, and is answered
\* with a 500.
Accepts(r) ==
  \/ r.verb = "destroy" /\ r.kind = "links"    /\ r.item \in links
  \/ r.verb = "destroy" /\ r.kind = "plugins"
       /\ CheckLink(r.item) /\ plugins[r.item] # Absent
  \/ r.verb = "destroy" /\ r.kind = "hardware"
       /\ CheckLink(r.item) /\ hardware[r.item] # Absent
  \/ r.verb = "create"  /\ r.kind = "plugins"  /\ plugins[r.item] = Absent
  \/ r.verb = "create"  /\ r.kind = "hardware" /\ hardware[r.item] = Absent
  \/ r.verb = "create"  /\ r.kind = "links"    /\ r.item \notin links
       /\ netRepository[r.item.sourceComponent] # Absent
       /\ netRepository[r.item.destinationComponent] # Absent

(***************************************************************************)
(* The browser and the designer's server.                                  *)
(***************************************************************************)
Goto(c, p) == phase' = [phase EXCEPT ![c] = p]

\* dataAccess.js, save: the whole schema is posted to /component/merge.
Submit(c, g) ==
  /\ phase[c] \in {"edit"} \cup Ended
  /\ Goto(c, "reading")
  /\ target' = [target EXCEPT ![c] = g]
  /\ unread' = [unread EXCEPT ![c] = Parts]
  /\ seen' = [seen EXCEPT ![c] = EmptyGraph]
  /\ disturbed' = disturbed \ {c}
  /\ UNCHANGED <<vars, plan, asking, faults>>

\* The GETs are sent together and answered in any order, other requests in
\* between.  The answer to the last one runs doMerge.
Read(c, part) ==
  /\ phase[c] = "reading" /\ part \in unread[c]
  /\ Idle
  /\ seen' = [seen EXCEPT ![c][part] = Running[part]]
  /\ unread' = [unread EXCEPT ![c] = @ \ {part}]
  /\ IF unread'[c] = {}
       THEN /\ Goto(c, "confirm")
            /\ plan' = [plan EXCEPT ![c] = Series(Merge(seen'[c], target[c]))]
       ELSE UNCHANGED <<phase, plan>>
  /\ UNCHANGED <<vars, target, asking, faults, disturbed>>

\* The modal: ok posts what the server merged back to it, cancel drops it.
Confirm(c) ==
  /\ phase[c] = "confirm"
  /\ Goto(c, "apply")
  /\ UNCHANGED <<vars, target, unread, seen, plan, asking, faults, disturbed>>

\* Nothing is kept of a save that is given up.
GiveUp(c, p) ==
  /\ Goto(c, p)
  /\ target' = [target EXCEPT ![c] = EmptyGraph]
  /\ unread' = [unread EXCEPT ![c] = {}]
  /\ seen' = [seen EXCEPT ![c] = EmptyGraph]
  /\ plan' = [plan EXCEPT ![c] = {}]

Cancel(c) ==
  /\ phase[c] = "confirm"
  /\ GiveUp(c, "edit")
  /\ UNCHANGED <<vars, asking, faults, disturbed>>

Current(c) == {r \in plan[c] : \A s \in plan[c] : r.at <= s.at}

\* One request of the series reaches the core, which carries it out...
Send(c) ==
  /\ phase[c] = "apply" /\ asking # c
  /\ \E r \in Current(c) :
       /\ Perform(c, r)
       /\ plan' = [plan EXCEPT ![c] = @ \ {r}]
  /\ asking' = c
  /\ disturbed' = disturbed \cup (Clients \ {c})
  /\ UNCHANGED <<phase, target, unread, seen, faults>>

\* Slip: the callback of a request answered with a 500 is not called.
RejectedIgnored(c) == FALSE

\* ...or rejects with a 500, which ends the series.
Rejected(c) ==
  /\ phase[c] = "apply" /\ Idle
  /\ \E r \in Current(c) : ~Accepts(r)
  /\ Goto(c, "refused")
  /\ plan' = [plan EXCEPT ![c] = {}]
  /\ UNCHANGED <<vars, target, unread, seen, asking, faults, disturbed>>

\* Nobody listens on the core's port.
Refused(c) ==
  /\ phase[c] \in {"reading", "apply"} /\ ~up
  /\ GiveUp(c, "failed")
  /\ UNCHANGED <<vars, asking, faults, disturbed>>

Finish(c) ==
  /\ phase[c] = "apply" /\ plan[c] = {} /\ asking # c
  /\ Goto(c, "done")
  /\ seen' = [seen EXCEPT ![c] = EmptyGraph]
  /\ UNCHANGED <<vars, target, unread, plan, asking, faults, disturbed>>

(***************************************************************************)
(* The core's side of a request that it is serving.                        *)
(***************************************************************************)
Answer(ok) ==
  /\ asking' = Nobody
  /\ IF asking = Nobody \/ ok THEN UNCHANGED saver ELSE GiveUp(asking, "failed")

CoreSave ==
  \/ SaveOpen /\ UNCHANGED <<saver, asking, faults, disturbed>>
  \/ SaveWrite /\ Answer(TRUE) /\ UNCHANGED <<faults, disturbed>>

CoreFault ==
  /\ faults < MaxFaults
  /\ faults' = faults + 1
  /\ disturbed' = Clients
  /\ SaveFails \/ Crash
  /\ Answer(FALSE)

CoreBoot == Boot /\ UNCHANGED <<saver, asking, faults, disturbed>>

DInit ==
  /\ Init
  /\ phase = [c \in Clients |-> "edit"]
  /\ target = [c \in Clients |-> EmptyGraph]
  /\ unread = [c \in Clients |-> {}]
  /\ seen = [c \in Clients |-> EmptyGraph]
  /\ plan = [c \in Clients |-> {}]
  /\ asking = Nobody
  /\ faults = 0
  /\ disturbed = {}

SaverStep(c) ==
  \/ \E part \in Parts : Read(c, part)
  \/ Send(c) \/ Rejected(c) \/ Refused(c) \/ Finish(c)

DNext ==
  \/ \E c \in Clients : \/ \E g \in Targets : Submit(c, g)
                        \/ Confirm(c) \/ Cancel(c)
                        \/ SaverStep(c)
  \/ CoreSave \/ CoreFault \/ CoreBoot

DSpec == DInit /\ [][DNext]_dvars

\* The core serves the requests that wait in the order they came (one event
\* loop), so none waits for ever behind those of the others, and a request once
\* begun is answered; users, boots and faults are free.
FairDSpec ==
  DSpec /\ WF_dvars(CoreSave) /\ \A c \in Clients : SF_dvars(SaverStep(c))

(***************************************************************************)
(* Properties.                                                             *)
(***************************************************************************)
DTypeOK ==
  /\ TypeOK
  /\ phase \in [Clients -> Phases]
  /\ target \in [Clients -> Graphs]
  /\ unread \in [Clients -> SUBSET Parts]
  /\ seen \in [Clients -> Graphs]
  /\ \A c \in Clients : \A r \in plan[c] :
       /\ r.at \in 1..6 /\ r.verb \in {"destroy", "create"} /\ r.kind \in Parts
       /\ r.item \in Ids \cup Links
  /\ asking \in Clients \cup {Nobody}
  /\ faults \in 0..MaxFaults
  /\ disturbed \subseteq Clients

\* A save that is told done, and that no other's request and no fault of the core
\* has crossed since it began to read, leaves the drawn graph running: whatever
\* the two graphs are and whatever earlier saves left half done, merge and apply
\* leave nothing out and nothing over.
DoneIsDrawn ==
  \A c \in Clients \ disturbed : phase[c] = "done" => Running = target[c]

\* componentManager.js:62-63 (in French): the links of the old schema that are
\* referred to by the deletions, and are not among the links to delete, are deleted
\* and made again.  So what the user is asked to confirm destroys, and makes again,
\* each link that stays in the schema while one of its ends is destroyed.  doMerge
\* tests a hardware as source and a plugin as destination, twice over, and neither a
\* plugin as source nor a hardware as destination.
ReferencedRemade ==
  \A c \in Clients : phase[c] = "confirm" =>
    LET Items(verb, kinds) ==
          {r.item : r \in {q \in plan[c] : q.verb = verb /\ q.kind \in kinds}}
        gone == Items("destroy", {"plugins", "hardware"})
    IN \A l \in seen[c].links \cap target[c].links :
         {l.sourceComponent, l.destinationComponent} \cap gone # {}
           => l \in Items("destroy", {"links"}) \cap Items("create", {"links"})

\* The links that the comment means and the code leaves alone.
Missed(old, new) ==
  {l \in old.links \cap new.links :
     \/ l.sourceComponent \in DestroyedIn(old.plugins, new.plugins)
     \/ l.destinationComponent \in DestroyedIn(old.hardware, new.hardware)}
  \ Recreated(old, new)

\* What comes of it: checkLink refuses the removal and the series stops half way.
\* A save that nothing crosses is refused for no other reason.
RefusedOnlyIfMissed ==
  \A c \in Clients \ disturbed : phase[c] = "refused" => Missed(seen[c], target[c]) # {}

\* A series always comes to an end, done or stopped by an answer.
ApplyEnds ==
  \A c \in Clients : phase[c] = "apply" ~> phase[c] \in Ended

=============================================================================
