--------------------------- MODULE GpioComponents ---------------------------
(***************************************************************************)
(* The components of the daemon that hold pins (comp_gpioin.c,             *)
(* comp_gpioout.c, comp_rcswitch.c), from comp_manager.c that creates and  *)
(* destroys them to gpio_manager.c and its drivers (gpio_io.c, gpio_lock.c)*)
(* and the kernel's files.                                                 *)
(*                                                                         *)
(* The daemon has one thread; pc is where it is, and i the component at    *)
(* hand.  The levels of inputs change between any two of its steps, and it *)
(* may end without a word at any of them.  What it keeps in memory is then *)
(* lost and what it told the kernel is not.                                *)
(*                                                                         *)
(* A definition introduced as a slip is a wrong variant of the next one.   *)
(***************************************************************************)
EXTENDS Naturals, Sequences, FiniteSets

CONSTANTS
  Ids,      \* ids of components
  Pins,     \* pins that exist; a configuration may name others
  BadPin,   \* one that does not
  Configs,  \* configuration files: sequences of components
  Null,
  MaxMoves  \* bound on changes of level, actions, crashes and starts

Kinds == {"gpioin", "gpioout", "rcswitch"}

Component == [id : Ids, kind : Kinds, pin : Pins \cup {BadPin}]

ASSUME GpioAssumption ==
  /\ IsFiniteSet(Pins)
  /\ BadPin \notin Pins
  /\ Null \notin Ids \cup Pins \cup {BadPin, "off", "on"}
  /\ \A c \in Configs : c \in Seq(Component)
  /\ MaxMoves \in Nat

Levels == {"off", "on"}

VARIABLES
  kernel,    \* by pin: exported, direction, level, and whether edges are told
  pc, i,
  config,
  gpios,     \* gpio_manager.c: by pin, what is open
  refcount,  \* gpio_manager.c: by type
  monitors,  \* gpio_io.c: pins whose file is polled
  ready,     \* those whose file has something to read
  reopened,  \* pins this process opened that were exported already (observed)
  shared,    \* comp_rcswitch.c: its one pin, and how many components use it
  attribute, \* by component: the value published
  moves

pins   == <<gpios, refcount, monitors, ready, reopened>>
gvars  == <<kernel, pc, i, config, pins, shared, attribute, moves>>

KernelPin == [exported : BOOLEAN, direction : {"in", "out"}, level : Levels, edge : BOOLEAN]

\* A lock has neither direction nor value.
Closed == [type |-> "none", direction |-> "none", value |-> "off", listener |-> Null]
Locked == [Closed EXCEPT !.type = "lock"]
OpenPin == [type : {"io"}, direction : {"in", "out"}, value : Levels, listener : Ids \cup {Null}]

Unused == [pin |-> Null, usage |-> 0]

IsOpen(p) == gpios[p] # Closed

\* Types.
TypeOK ==
  /\ kernel \in [Pins -> KernelPin]
  /\ pc \in {"off", "create", "configure", "loop", "destroy", "terminate"}
  /\ i \in Nat
  /\ config \in Configs
  /\ \A p \in Pins : gpios[p] \in OpenPin \cup {Closed, Locked}
  /\ refcount \in [{"io", "lock"} -> Nat]
  /\ ready \subseteq monitors /\ monitors \subseteq Pins
  /\ reopened \subseteq Pins
  /\ shared.pin = Null \/ shared.pin \in Pins
  /\ shared.usage \in Nat
  /\ \A id \in Ids : attribute[id] = Null \/ attribute[id] \in Levels
  /\ moves \in 0 .. MaxMoves

Move == moves < MaxMoves /\ moves' = moves + 1

Empty ==
  /\ gpios' = [p \in Pins |-> Closed]
  /\ refcount' = [t \in {"io", "lock"} |-> 0]
  /\ monitors' = {}
  /\ ready' = {}
  /\ reopened' = {}
  /\ shared' = Unused
  /\ attribute' = [id \in Ids |-> Null]

Init ==
  /\ \E levels \in [Pins -> Levels] :
       kernel = [p \in Pins |-> [exported |-> FALSE, direction |-> "in",
                                 level |-> levels[p], edge |-> FALSE]]
  /\ pc = "off" /\ i = 1
  /\ config \in Configs
  /\ gpios = [p \in Pins |-> Closed]
  /\ refcount = [t \in {"io", "lock"} |-> 0]
  /\ monitors = {} /\ ready = {} /\ reopened = {}
  /\ shared = Unused
  /\ attribute = [id \in Ids |-> Null]
  /\ moves = 0

-----------------------------------------------------------------------------
(* The drivers                                                             *)

\* A file just opened is ready: it was never read.
Monitor(p)   == monitors' = monitors \cup {p} /\ ready' = ready \cup {p}
Unmonitor(p) == monitors' = monitors \ {p} /\ ready' = ready \ {p}

\* sysfs_export.  Its assertion looks for a directory without the prefix gpio, which never
\* exists: an exported pin passes, and the kernel leaves it as it is.
Export(p) == reopened' = IF kernel[p].exported THEN reopened \cup {p} ELSE reopened

\* A slip: what the files say is compared the wrong way round.
IoOpenAsOutput(p) ==
  /\ kernel' = [kernel EXCEPT ![p].exported = TRUE, ![p].edge = @ \/ kernel[p].direction = "in"]
  /\ Export(p)
  /\ gpios' = [gpios EXCEPT ![p] = [type |-> "io", direction |-> "out",
                                    value |-> "off", listener |-> Null]]
  /\ refcount' = [refcount EXCEPT !["io"] = @ + 1]
  /\ UNCHANGED <<monitors, ready>>

\* io_open.  Direction and value are compared with the newline that the files end with, so
\* that any pin is taken for an input that is off.  Edges are asked for, which the kernel
\* refuses for an output.
IoOpen(p) ==
  /\ kernel' = [kernel EXCEPT ![p].exported = TRUE, ![p].edge = @ \/ kernel[p].direction = "in"]
  /\ Export(p)
  /\ gpios' = [gpios EXCEPT ![p] = [type |-> "io", direction |-> "in",
                                    value |-> "off", listener |-> Null]]
  /\ Monitor(p)
  /\ refcount' = [refcount EXCEPT !["io"] = @ + 1]

LockOpen(p) ==
  /\ gpios' = [gpios EXCEPT ![p] = Locked]
  /\ refcount' = [refcount EXCEPT !["lock"] = @ + 1]
  /\ UNCHANGED <<kernel, monitors, ready, reopened>>

\* What the kernel makes of a pin whose value is written: only an output has one.
Driven(k, l) == IF k.direction = "out" THEN [k EXCEPT !.level = l] ELSE k

\* A pin closed by the component that has it: an output is set to off first, which the
\* code refuses for what it takes for an input.
Unexported(p) ==
  LET off == IF gpios[p].direction = "out" THEN Driven(kernel[p], "off") ELSE kernel[p]
  IN  [off EXCEPT !.direction = "in", !.exported = FALSE, !.edge = FALSE]

\* A slip: the file polled is left open.
IoCloseMonitored(p) ==
  /\ gpios' = [gpios EXCEPT ![p] = Closed]
  /\ UNCHANGED <<monitors, ready>>
  /\ kernel' = [kernel EXCEPT ![p] = Unexported(p)]
  /\ refcount' = [refcount EXCEPT !["io"] = @ - 1]
  /\ UNCHANGED reopened

IoClose(p) ==
  /\ gpios' = [gpios EXCEPT ![p] = Closed]
  /\ IF gpios[p].direction = "in" THEN Unmonitor(p) ELSE UNCHANGED <<monitors, ready>>
  /\ kernel' = [kernel EXCEPT ![p] = Unexported(p)]
  /\ refcount' = [refcount EXCEPT !["io"] = @ - 1]
  /\ UNCHANGED reopened

LockClose(p) ==
  /\ gpios' = [gpios EXCEPT ![p] = Closed]
  /\ refcount' = [refcount EXCEPT !["lock"] = @ - 1]
  /\ UNCHANGED <<kernel, monitors, ready, reopened>>

\* gpio_open refuses a pin that does not exist or is in use.
Openable(p) == p \in Pins /\ ~IsOpen(p)

-----------------------------------------------------------------------------
(* Creation: components_init, one component after the other                *)

Start ==
  /\ Move
  /\ pc = "off"
  /\ config' \in Configs
  /\ pc' = "create"
  /\ i' = 1
  /\ UNCHANGED <<kernel, pins, shared, attribute>>

New == config[i]

SameId == \E j \in 1 .. i - 1 : config[j].id = New.id

\* The pin of a component: rcswitch opens one for all.
Create ==
  /\ pc = "create" /\ i <= Len(config)
  /\ ~SameId
  /\ \/ /\ New.kind # "rcswitch"
        /\ Openable(New.pin)
        /\ IoOpen(New.pin)
        /\ UNCHANGED shared
     \/ /\ New.kind = "rcswitch" /\ shared.pin = Null
        /\ Openable(New.pin)
        /\ LockOpen(New.pin)
        /\ shared' = [pin |-> New.pin, usage |-> 1]
     \/ /\ New.kind = "rcswitch" /\ shared.pin # Null
        /\ shared' = [shared EXCEPT !.usage = @ + 1]
        /\ UNCHANGED <<kernel, pins>>
  /\ pc' = "configure"
  /\ UNCHANGED <<i, config, attribute, moves>>

\* An assertion of comp_manager.c or of a creator fails: the process exits.
Refused ==
  /\ pc = "create" /\ i <= Len(config)
  /\ SameId \/ (~Openable(New.pin) /\ ~(New.kind = "rcswitch" /\ shared.pin # Null))
  /\ pc' = "off"
  /\ Empty
  /\ UNCHANGED <<kernel, i, config, moves>>

\* SET_DIRECTION to in changes nothing: that is what io_open took the pin for.  What it
\* took for the level is published.
ConfigureInput ==
  LET p == New.pin IN
  /\ New.kind = "gpioin"
  /\ gpios' = [gpios EXCEPT ![p].listener = New.id]
  /\ attribute' = [attribute EXCEPT ![New.id] = gpios[p].value]
  /\ UNCHANGED <<kernel, monitors, ready>>

\* SET_DIRECTION to out, unless that is what the pin is taken for; then SET_VALUE.
ConfigureOutput ==
  LET p == New.pin
      out == IF gpios[p].direction = "in"
             THEN [kernel[p] EXCEPT !.direction = "out", !.level = "off"] ELSE kernel[p]
  IN
  /\ New.kind = "gpioout"
  /\ gpios' = [gpios EXCEPT ![p].direction = "out", ![p].value = "off"]
  /\ IF gpios[p].direction = "in" THEN Unmonitor(p) ELSE UNCHANGED <<monitors, ready>>
  /\ kernel' = [kernel EXCEPT ![p] = Driven(out, "off")]
  /\ attribute' = [attribute EXCEPT ![New.id] = "off"]

ConfigureSwitch ==
  /\ New.kind = "rcswitch"
  /\ attribute' = [attribute EXCEPT ![New.id] = "off"]
  /\ UNCHANGED <<kernel, gpios, monitors, ready>>

Configure ==
  /\ pc = "configure"
  /\ ConfigureInput \/ ConfigureOutput \/ ConfigureSwitch
  /\ pc' = "create" /\ i' = i + 1
  /\ UNCHANGED <<config, refcount, reopened, shared, moves>>

Run ==
  /\ pc = "create" /\ i > Len(config)
  /\ pc' = "loop"
  /\ UNCHANGED <<kernel, i, config, pins, shared, attribute, moves>>

-----------------------------------------------------------------------------
(* The loop                                                                *)

\* The level of an input changes.  The kernel tells those who asked for edges.
Toggle(p) ==
  /\ Move
  /\ kernel[p].direction = "in"
  /\ kernel' = [kernel EXCEPT ![p].level = IF @ = "on" THEN "off" ELSE "on"]
  /\ ready' = IF kernel[p].edge /\ p \in monitors THEN ready \cup {p} ELSE ready
  /\ UNCHANGED <<pc, i, config, gpios, refcount, monitors, reopened, shared, attribute>>

\* A slip: the listener is not called.
ReadOnly(S) ==
  /\ gpios' = [p \in Pins |-> IF p \in S THEN [gpios[p] EXCEPT !.value = kernel[p].level]
                                         ELSE gpios[p]]
  /\ ready' = ready \ S
  /\ UNCHANGED attribute

\* select_process for the files in the set: read, which makes them not ready, and
\* the listener of each is called.
Read(S) ==
  /\ gpios' = [p \in Pins |-> IF p \in S THEN [gpios[p] EXCEPT !.value = kernel[p].level]
                                         ELSE gpios[p]]
  /\ ready' = ready \ S
  /\ attribute' = [id \in Ids |->
       IF \E p \in S : gpios[p].listener = id
       THEN kernel[CHOOSE p \in S : gpios[p].listener = id].level
       ELSE attribute[id]]

Poll ==
  /\ pc = "loop"
  /\ ready # {}
  /\ Read(ready)
  /\ UNCHANGED <<kernel, pc, i, config, refcount, monitors, reopened, shared, moves>>

\* setvalue.  An rcswitch runs a command, which changes nothing here.
Action(c, l) ==
  /\ Move
  /\ pc = "loop"
  /\ c.kind \in {"gpioout", "rcswitch"}
  /\ attribute' = [attribute EXCEPT ![c.id] = l]
  /\ IF c.kind = "gpioout"
     THEN /\ gpios' = [gpios EXCEPT ![c.pin].value = l]
          /\ kernel' = [kernel EXCEPT ![c.pin] = Driven(@, l)]
     ELSE UNCHANGED <<gpios, kernel>>
  /\ UNCHANGED <<pc, i, config, refcount, monitors, ready, reopened, shared>>

\* SIGTERM.  When it interrupts select, every file polled is taken for ready.
Term ==
  /\ pc = "loop"
  /\ \E S \in {{}, monitors} : Read(S)
  /\ pc' = "destroy" /\ i' = 1
  /\ UNCHANGED <<kernel, config, refcount, monitors, reopened, shared, moves>>

-----------------------------------------------------------------------------
(* The end: components_terminate, then gpio_terminate                      *)

\* A slip: the pin stays open.
ReleaseNever ==
  /\ shared' = [shared EXCEPT !.usage = @ - 1]
  /\ UNCHANGED <<kernel, pins>>

\* The pin of rcswitch is closed with the last component that uses it.
Release ==
  IF shared.usage = 1
  THEN /\ LockClose(shared.pin)
       /\ shared' = Unused
  ELSE /\ shared' = [shared EXCEPT !.usage = @ - 1]
       /\ UNCHANGED <<kernel, pins>>

Destroy ==
  /\ pc = "destroy" /\ i <= Len(config)
  /\ attribute' = [attribute EXCEPT ![New.id] = Null]
  /\ \/ New.kind # "rcswitch" /\ IoClose(New.pin) /\ UNCHANGED shared
     \/ New.kind = "rcswitch" /\ Release
  /\ i' = i + 1
  /\ UNCHANGED <<pc, config, moves>>

Destroyed ==
  /\ pc = "destroy" /\ i > Len(config)
  /\ pc' = "terminate"
  /\ UNCHANGED <<kernel, i, config, pins, shared, attribute, moves>>

Terminate ==
  /\ pc = "terminate"
  /\ pc' = "off"
  /\ UNCHANGED <<kernel, i, config, pins, shared, attribute, moves>>

\* The process is killed, or an assertion of another part of it fails.
Crash ==
  /\ Move
  /\ pc # "off"
  /\ pc' = "off"
  /\ Empty
  /\ UNCHANGED <<kernel, i, config>>

-----------------------------------------------------------------------------
Running == {config[j] : j \in 1 .. Len(config)}

Next ==
  \/ Start \/ Create \/ Refused \/ Configure \/ Run
  \/ \E p \in Pins : Toggle(p)
  \/ Poll
  \/ \E c \in Running, l \in Levels : Action(c, l)
  \/ Term \/ Destroy \/ Destroyed \/ Terminate \/ Crash

Spec == Init /\ [][Next]_gvars

-----------------------------------------------------------------------------
(* Properties                                                              *)

\* The components created and not yet destroyed; the one being created has its
\* pin and no value.
Alive ==
  CASE pc \in {"create", "loop"} -> {config[j] : j \in 1 .. i - 1}
    [] pc = "configure" -> {config[j] : j \in 1 .. i}
    [] pc = "destroy" -> {config[j] : j \in i .. Len(config)}
    [] OTHER -> {}

\* The accounts of three modules agree: counts by type and files polled with the
\* pins open, and the pin of rcswitch with the components that use it.
BooksBalance ==
  /\ refcount["io"] = Cardinality({p \in Pins : gpios[p].type = "io"})
  /\ refcount["lock"] = Cardinality({p \in Pins : gpios[p].type = "lock"})
  /\ monitors = {p \in Pins : gpios[p].direction = "in"}
  /\ shared.usage = Cardinality({c \in Alive : c.kind = "rcswitch"})
  /\ {p \in Pins : gpios[p].type = "lock"} = {shared.pin} \ {Null}

\* The assertions of io_terminate, lock_terminate and gpio_terminate hold: an
\* ordered end leaves nothing open, counted or watched.
EndsClean ==
  pc = "terminate" =>
    /\ \A p \in Pins : ~IsOpen(p)
    /\ refcount["io"] = 0 /\ refcount["lock"] = 0
    /\ monitors = {}

\* While the loop runs, what an output publishes is what its pin does, whatever
\* state an earlier process left it in.
OutputsTrue ==
  pc = "loop" =>
    \A c \in Running : c.kind = "gpioout" =>
      kernel[c.pin].direction = "out" /\ kernel[c.pin].level = attribute[c.id]

\* No edge is lost: an input that publishes another level than its pin has is about to
\* read it, and the kernel tells its edges, unless an earlier process left
\* the pin an output.
EdgesKept ==
  pc = "loop" =>
    \A c \in Running : c.kind = "gpioin" =>
      /\ kernel[c.pin].level = attribute[c.id] \/ c.pin \in ready
      /\ IF kernel[c.pin].direction = "in" THEN kernel[c.pin].edge ELSE c.pin \in reopened

=============================================================================
