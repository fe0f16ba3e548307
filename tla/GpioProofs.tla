----------------------------- MODULE GpioProofs -----------------------------
(***************************************************************************)
(* Theorems about GpioComponents, for all pins, configurations and moves:  *)
(* the accounts of three modules agree at every step of creation, loop and *)
(* end, and an ordered end leaves nothing behind.                          *)
(***************************************************************************)
EXTENDS GpioComponents, FiniteSetTheorems, TLAPS

\* The places in the configuration of the components that are alive.
AliveAt ==
  CASE pc \in {"create", "loop"} -> 1 .. i - 1
    [] pc = "configure" -> 1 .. i
    [] pc = "destroy" -> i .. Len(config)
    [] OTHER -> {}

\* Types, with the domains and where the daemon is in its configuration.
Typed ==
  /\ TypeOK
  /\ gpios \in [Pins -> OpenPin \cup {Closed, Locked}]
  /\ shared \in [pin : Pins \cup {Null}, usage : Nat]
  /\ attribute \in [Ids -> Levels \cup {Null}]
  /\ i \in 1 .. Len(config) + 1
  /\ pc = "configure" => i <= Len(config)
  /\ pc = "loop" => i = Len(config) + 1

UsesIo(c) == c.kind # "rcswitch"

IoPins == {p \in Pins : gpios[p].type = "io"}
LockPins == {p \in Pins : gpios[p].type = "lock"}
Switches == {j \in AliveAt : ~UsesIo(config[j])}

\* What is open is held: each pin of a component that is alive is open and its own, each
\* open pin is a component's or that of rcswitch, which is open as long as it is used.
Held ==
  /\ \A j, k \in AliveAt : config[j].id = config[k].id => j = k
  /\ \A j \in AliveAt : UsesIo(config[j]) => config[j].pin \in IoPins
  /\ \A j, k \in AliveAt :
       UsesIo(config[j]) /\ UsesIo(config[k]) /\ config[j].pin = config[k].pin => j = k
  /\ \A p \in IoPins : \E j \in AliveAt : UsesIo(config[j]) /\ config[j].pin = p
  /\ LockPins = {shared.pin} \ {Null}
  /\ shared.pin = Null <=> shared.usage = 0

\* The accounts.
Counted ==
  /\ refcount["io"] = Cardinality(IoPins)
  /\ refcount["lock"] = Cardinality(LockPins)
  /\ monitors = {p \in Pins : gpios[p].direction = "in"}
  /\ shared.usage = Cardinality(Switches)

\* The invariant.
GpioInv == Typed /\ Held /\ Counted

-----------------------------------------------------------------------------
(* What configurations and sets are                                        *)

\* The configuration is a sequence of components, and those alive are places of it.
LEMMA ConfigFacts ==
  ASSUME Typed
  PROVE  /\ config \in Seq(Component) /\ Len(config) \in Nat /\ i \in Nat
         /\ AliveAt \subseteq 1 .. Len(config)
         /\ \A j \in 1 .. Len(config) : config[j] \in Component
<1>1. config \in Seq(Component)
  BY GpioAssumption DEF Typed, TypeOK
<1>2. Len(config) \in Nat /\ \A j \in 1 .. Len(config) : config[j] \in Component
  BY <1>1
<1>3. i \in 1 .. Len(config) + 1
  BY DEF Typed
<1>4. AliveAt \subseteq 1 .. Len(config)
  BY <1>2, <1>3 DEF AliveAt, Typed
<1> QED BY <1>1, <1>2, <1>3, <1>4

\* The sets that are counted are finite.
LEMMA FiniteFacts ==
  ASSUME Typed
  PROVE  /\ IsFiniteSet(IoPins) /\ IsFiniteSet(LockPins) /\ IsFiniteSet(Switches)
         /\ Cardinality(IoPins) \in Nat /\ Cardinality(LockPins) \in Nat
         /\ Cardinality(Switches) \in Nat
<1>1. IsFiniteSet(IoPins) /\ IsFiniteSet(LockPins)
  BY GpioAssumption, FS_Subset DEF IoPins, LockPins
<1>2. IsFiniteSet(1 .. Len(config))
  BY ConfigFacts, FS_Interval
<1>3. IsFiniteSet(Switches)
  BY <1>2, ConfigFacts, FS_Subset DEF Switches
<1> QED BY <1>1, <1>3, FS_CardinalityType

\* A component is alive at one place.
LEMMA SwitchesAlive ==
  ASSUME GpioInv
  PROVE  Cardinality({c \in Alive : c.kind = "rcswitch"}) = Cardinality(Switches)
<1> DEFINE T == {c \in Alive : c.kind = "rcswitch"}
<1> DEFINE f == [j \in Switches |-> config[j]]
<1>1. Alive = {config[j] : j \in AliveAt}
  BY DEF Alive, AliveAt
<1>2. f \in Bijection(Switches, T)
  <2>1. \A j, k \in Switches : config[j] = config[k] => j = k
    BY DEF GpioInv, Held, Switches
  <2>2. \A c \in T : \E j \in Switches : config[j] = c
    BY <1>1 DEF Switches, UsesIo
  <2>3. \A j \in Switches : config[j] \in T
    BY <1>1 DEF Switches, UsesIo
  <2>4. f \in [Switches -> T] /\ \A j \in Switches : f[j] = config[j]
    BY <2>3
  <2> HIDE DEF f, T
  <2>5. f \in Injection(Switches, T)
    BY <2>1, <2>4 DEF Injection, IsInjective
  <2>6. f \in Surjection(Switches, T)
    BY <2>2, <2>4 DEF Surjection
  <2> QED BY <2>5, <2>6 DEF Bijection
<1>3. IsFiniteSet(Switches)
  BY FiniteFacts DEF GpioInv
<1> QED BY <1>2, <1>3, FS_Bijection DEF ExistsBijection

-----------------------------------------------------------------------------
(* Steps that open and close nothing                                       *)

\* If the same components are alive, pins keep their type and files are polled as pins
\* are directed, everything stays held and counted.
LEMMA Steady ==
  ASSUME GpioInv, AliveAt' = AliveAt, AliveAt # {} => config' = config,
         shared' = shared, refcount' = refcount,
         \A p \in Pins : gpios'[p].type = gpios[p].type,
         monitors' = {p \in Pins : gpios'[p].direction = "in"}
  PROVE  Held' /\ Counted'
<1>1. IoPins' = IoPins /\ LockPins' = LockPins
  BY DEF IoPins, LockPins
<1>2. Switches' = Switches
  BY DEF Switches
<1>3. \A j \in AliveAt' : config'[j] = config[j] /\ j \in AliveAt
  OBVIOUS
<1>4. Held'
  BY <1>1, <1>3 DEF GpioInv, Held
<1>5. Counted'
  BY <1>1, <1>2 DEF GpioInv, Counted
<1> QED BY <1>4, <1>5

\* The process is gone, and with it all that it held.
LEMMA EmptyKeeps ==
  ASSUME GpioInv, Empty, pc' = "off", UNCHANGED <<i, config>>, moves' \in 0 .. MaxMoves,
         kernel' = kernel
  PROVE  GpioInv'
<1>1. Typed'
  <2>1. gpios' \in [Pins -> OpenPin \cup {Closed, Locked}]
    BY DEF Empty
  <2>2. refcount' \in [{"io", "lock"} -> Nat]
    BY DEF Empty
  <2>3. shared' \in [pin : Pins \cup {Null}, usage : Nat] /\ shared'.pin = Null /\ shared'.usage = 0
    BY DEF Empty, Unused
  <2>4. attribute' \in [Ids -> Levels \cup {Null}]
    BY DEF Empty
  <2>5. monitors' = {} /\ ready' = {} /\ reopened' = {}
    BY DEF Empty
  <2> QED BY <2>1, <2>2, <2>3, <2>4, <2>5 DEF GpioInv, Typed, TypeOK
<1>2. AliveAt' = {} /\ Switches' = {}
  BY DEF AliveAt, Switches
<1>3. IoPins' = {} /\ LockPins' = {}
  BY DEF Empty, IoPins, LockPins, Closed
<1>4. shared'.pin = Null /\ shared'.usage = 0
  BY DEF Empty, Unused
<1>5. Held'
  BY <1>2, <1>3, <1>4 DEF Held
<1>6. Counted'
  <2>1. refcount'["io"] = 0 /\ refcount'["lock"] = 0 /\ monitors' = {}
    BY DEF Empty
  <2>2. {p \in Pins : gpios'[p].direction = "in"} = {}
    BY DEF Empty, Closed
  <2> QED BY <1>2, <1>3, <1>4, <2>1, <2>2, FS_EmptySet DEF Counted
<1> QED BY <1>1, <1>5, <1>6 DEF GpioInv

\* A step in which only the place in the code changes.
LEMMA PlaceKeeps ==
  ASSUME GpioInv, Start \/ Run \/ Destroyed \/ Terminate
  PROVE  GpioInv'
<1>1. UNCHANGED <<kernel, gpios, refcount, monitors, ready, reopened, shared, attribute>>
  BY DEF Start, Run, Destroyed, Terminate, pins
<1>2. config \in Seq(Component) /\ config' \in Configs /\ config' \in Seq(Component)
      /\ moves' \in 0 .. MaxMoves
  BY GpioAssumption, ConfigFacts
  DEF Start, Run, Destroyed, Terminate, Move, GpioInv, Typed, TypeOK
<1>3. /\ i' \in 1 .. Len(config') + 1 /\ pc' # "configure"
      /\ pc' \in {"off", "create", "configure", "loop", "destroy", "terminate"}
      /\ pc' = "loop" => i' = Len(config') + 1
  BY <1>2 DEF Start, Run, Destroyed, Terminate, GpioInv, Typed
<1>4. Typed'
  BY <1>1, <1>2, <1>3 DEF GpioInv, Typed, TypeOK
<1>5. AliveAt' = AliveAt /\ (AliveAt # {} => config' = config)
  <2>1. CASE Start
    BY <2>1 DEF Start, AliveAt
  <2>2. CASE Run
    BY <2>2 DEF Run, AliveAt
  <2>3. CASE Destroyed
    BY <2>3, ConfigFacts DEF Destroyed, AliveAt, GpioInv
  <2>4. CASE Terminate
    BY <2>4 DEF Terminate, AliveAt
  <2> QED BY <2>1, <2>2, <2>3, <2>4
<1> QED BY <1>1, <1>4, <1>5, Steady DEF GpioInv, Counted

\* A pin of a component that is alive is open, as input or as output.
LEMMA PinIsOpen ==
  ASSUME GpioInv, NEW j \in AliveAt, UsesIo(config[j])
  PROVE  /\ config[j] \in Component /\ config[j].pin \in Pins
         /\ gpios[config[j].pin] \in OpenPin
<1>1. config[j].pin \in Pins /\ gpios[config[j].pin].type = "io"
  BY DEF GpioInv, Held, IoPins
<1>2. gpios[config[j].pin] \in OpenPin \cup {Closed, Locked}
  BY <1>1 DEF GpioInv, Typed
<1>3. Closed.type = "none" /\ Locked.type = "lock"
  BY DEF Closed, Locked
<1> QED BY <1>1, <1>2, <1>3, ConfigFacts DEF GpioInv

\* What Steady asks of the pins, of a step that changes one open pin and leaves it open.
LEMMA OnePin ==
  ASSUME GpioInv, NEW p \in Pins, gpios[p] \in OpenPin, NEW q \in OpenPin,
         gpios' = [gpios EXCEPT ![p] = q],
         monitors' = IF q.direction = "in" THEN monitors \cup {p} ELSE monitors \ {p}
  PROVE  /\ gpios' \in [Pins -> OpenPin \cup {Closed, Locked}]
         /\ \A r \in Pins : gpios'[r].type = gpios[r].type
         /\ monitors' = {r \in Pins : gpios'[r].direction = "in"}
<1>1. gpios \in [Pins -> OpenPin \cup {Closed, Locked}]
  BY DEF GpioInv, Typed
<1>2. \A r \in Pins : gpios'[r] = IF r = p THEN q ELSE gpios[r]
  BY <1>1
<1>3. q.type = gpios[p].type
  BY DEF OpenPin
<1>4. monitors = {r \in Pins : gpios[r].direction = "in"}
  BY DEF GpioInv, Counted
<1>5. q.direction \in {"in", "out"}
  BY DEF OpenPin
<1> QED BY <1>1, <1>2, <1>3, <1>4, <1>5

\* What is written to a pin leaves it a pin.
LEMMA PinWritten ==
  ASSUME NEW k \in KernelPin, NEW l \in Levels
  PROVE  /\ Driven(k, l) \in KernelPin
         /\ Driven(k, l).direction = k.direction /\ Driven(k, l).edge = k.edge
         /\ Driven(k, l).exported = k.exported
         /\ k.direction = "out" => Driven(k, l).level = l
         /\ k.direction = "in" => Driven(k, l) = k
BY DEF Driven, KernelPin

\* The type of an output.
LEMMA OutputWritten ==
  ASSUME NEW k \in KernelPin
  PROVE  /\ [k EXCEPT !.direction = "out", !.level = "off"] \in KernelPin
         /\ [k EXCEPT !.direction = "out", !.level = "off"].direction = "out"
         /\ [k EXCEPT !.direction = "out", !.level = "off"].exported = k.exported
         /\ "off" \in Levels
BY DEF KernelPin, Levels

\* A pin that is closed is an input, told of no edge.
LEMMA PinClosed ==
  ASSUME NEW p, kernel[p] \in KernelPin
  PROVE  Unexported(p) \in KernelPin /\ Unexported(p).direction = "in"
<1> DEFINE off == IF gpios[p].direction = "out" THEN Driven(kernel[p], "off") ELSE kernel[p]
<1>1. off \in KernelPin
  BY PinWritten DEF Levels
<1> HIDE DEF off
<1>2. Unexported(p) = [off EXCEPT !.direction = "in", !.exported = FALSE, !.edge = FALSE]
  BY DEF Unexported, off
<1>3. [off EXCEPT !.direction = "in", !.exported = FALSE, !.edge = FALSE] \in KernelPin
  BY <1>1, Zenon DEF KernelPin
<1>4. [off EXCEPT !.direction = "in", !.exported = FALSE, !.edge = FALSE].direction = "in"
  BY <1>1 DEF KernelPin
<1> QED BY <1>2, <1>3, <1>4

\* A component is configured: its pin is directed and listened to, its value published.
LEMMA ConfigureKeeps ==
  ASSUME GpioInv, Configure
  PROVE  GpioInv'
<1>1. pc = "configure" /\ i \in AliveAt /\ i \in 1 .. Len(config)
  BY ConfigFacts DEF Configure, AliveAt, GpioInv, Typed
<1>2. New \in Component
  BY <1>1, ConfigFacts DEF New, GpioInv
<1>3. UNCHANGED <<config, refcount, reopened, shared, moves>> /\ pc' = "create" /\ i' = i + 1
  BY DEF Configure
<1>4. AliveAt' = AliveAt /\ i' \in 1 .. Len(config') + 1
  BY <1>1, <1>3, ConfigFacts DEF AliveAt, GpioInv
<1>5. /\ gpios' \in [Pins -> OpenPin \cup {Closed, Locked}]
      /\ \A r \in Pins : gpios'[r].type = gpios[r].type
      /\ monitors' = {r \in Pins : gpios'[r].direction = "in"}
      /\ kernel' \in [Pins -> KernelPin]
      /\ attribute' \in [Ids -> Levels \cup {Null}]
      /\ ready' \subseteq monitors'
  <2> DEFINE p == New.pin
  <2>0. New.id \in Ids /\ ready \subseteq monitors /\ kernel \in [Pins -> KernelPin]
        /\ attribute \in [Ids -> Levels \cup {Null}] /\ "off" \in Levels
        /\ monitors = {r \in Pins : gpios[r].direction = "in"}
        /\ gpios \in [Pins -> OpenPin \cup {Closed, Locked}]
    BY <1>2 DEF Component, GpioInv, Typed, TypeOK, Levels, Counted
  <2>1. CASE ConfigureInput
    <3>1. p \in Pins /\ gpios[p] \in OpenPin
      BY <1>1, <2>1, PinIsOpen DEF ConfigureInput, New, UsesIo
    <3>2. /\ [gpios[p] EXCEPT !.listener = New.id] \in OpenPin
          /\ [gpios[p] EXCEPT !.listener = New.id].direction = gpios[p].direction
      BY <2>0, <3>1 DEF OpenPin
    <3>3. gpios' = [gpios EXCEPT ![p] = [gpios[p] EXCEPT !.listener = New.id]]
      BY <2>0, <2>1, <3>1 DEF ConfigureInput
    <3>4. monitors' = IF gpios[p].direction = "in" THEN monitors \cup {p} ELSE monitors \ {p}
      BY <2>0, <2>1, <3>1 DEF ConfigureInput
    <3>5. kernel' = kernel /\ ready' \subseteq monitors'
      BY <2>0, <2>1 DEF ConfigureInput
    <3>6. attribute' \in [Ids -> Levels \cup {Null}]
      BY <2>0, <2>1, <3>1 DEF ConfigureInput, OpenPin
    <3> QED BY <2>0, <3>1, <3>2, <3>3, <3>4, <3>5, <3>6, OnePin
  <2>2. CASE ConfigureOutput
    <3>1. p \in Pins /\ gpios[p] \in OpenPin
      BY <1>1, <2>2, PinIsOpen DEF ConfigureOutput, New, UsesIo
    <3>2. [gpios[p] EXCEPT !.direction = "out", !.value = "off"] \in OpenPin
      BY <2>0, <3>1 DEF OpenPin
    <3>3. gpios' = [gpios EXCEPT ![p] = [gpios[p] EXCEPT !.direction = "out", !.value = "off"]]
      BY <2>0, <2>2, <3>1 DEF ConfigureOutput
    <3>4. monitors' = monitors \ {p} /\ ready' \subseteq monitors'
      BY <2>0, <2>2, <3>1 DEF ConfigureOutput, Unmonitor
    <3>5. kernel' \in [Pins -> KernelPin]
      <4> DEFINE out == IF gpios[p].direction = "in"
                        THEN [kernel[p] EXCEPT !.direction = "out", !.level = "off"] ELSE kernel[p]
      <4>1. kernel' = [kernel EXCEPT ![p] = Driven(out, "off")]
        BY <2>2 DEF ConfigureOutput
      <4>2. out \in KernelPin /\ "off" \in Levels
        BY <2>0, <3>1, OutputWritten
      <4> HIDE DEF out
      <4>3. Driven(out, "off") \in KernelPin
        BY <4>2, PinWritten
      <4> QED BY <2>0, <4>1, <4>3
    <3>6. attribute' \in [Ids -> Levels \cup {Null}]
      BY <2>0, <2>2 DEF ConfigureOutput
    <3>7. [gpios[p] EXCEPT !.direction = "out", !.value = "off"].direction = "out"
      BY <3>1 DEF OpenPin
    <3> QED BY <3>1, <3>2, <3>3, <3>4, <3>5, <3>6, <3>7, OnePin
  <2>3. CASE ConfigureSwitch
    BY <2>0, <2>3 DEF ConfigureSwitch
  <2> QED BY <2>1, <2>2, <2>3 DEF Configure
<1>6. Typed'
  BY <1>3, <1>4, <1>5 DEF GpioInv, Typed, TypeOK
<1> QED BY <1>3, <1>4, <1>5, <1>6, Steady DEF GpioInv

\* Files are read.
LEMMA ReadKeeps ==
  ASSUME GpioInv, NEW S \in SUBSET monitors, Read(S)
  PROVE  /\ gpios' \in [Pins -> OpenPin \cup {Closed, Locked}]
         /\ \A r \in Pins : gpios'[r].type = gpios[r].type
         /\ monitors = {r \in Pins : gpios'[r].direction = "in"}
         /\ attribute' \in [Ids -> Levels \cup {Null}]
         /\ ready' \subseteq monitors
<1>1. /\ monitors = {r \in Pins : gpios[r].direction = "in"}
      /\ gpios \in [Pins -> OpenPin \cup {Closed, Locked}]
      /\ kernel \in [Pins -> KernelPin] /\ ready \subseteq monitors
      /\ attribute \in [Ids -> Levels \cup {Null}]
  BY DEF GpioInv, Counted, Typed, TypeOK
<1>2. \A r \in Pins : kernel[r].level \in Levels
  BY <1>1 DEF KernelPin
<1>3. Closed.direction = "none" /\ Locked.direction = "none"
  BY DEF Closed, Locked
<1>4. \A r \in S : gpios[r] \in OpenPin /\ r \in Pins
  BY <1>1, <1>3
<1>5. ASSUME NEW r \in Pins
      PROVE  /\ gpios'[r] \in OpenPin \cup {Closed, Locked}
             /\ gpios'[r].type = gpios[r].type /\ gpios'[r].direction = gpios[r].direction
  <2>1. CASE r \in S
    <3>1. gpios'[r] = [gpios[r] EXCEPT !.value = kernel[r].level]
      BY <2>1 DEF Read
    <3> QED BY <1>2, <1>4, <2>1, <3>1 DEF OpenPin
  <2>2. CASE r \notin S
    BY <1>1, <2>2 DEF Read
  <2> QED BY <2>1, <2>2
<1>6. gpios' \in [Pins -> OpenPin \cup {Closed, Locked}]
  BY <1>5 DEF Read
<1>7. attribute' \in [Ids -> Levels \cup {Null}]
  <2> SUFFICES ASSUME NEW id \in Ids PROVE attribute'[id] \in Levels \cup {Null}
    BY DEF Read
  <2>1. CASE \E r \in S : gpios[r].listener = id
    <3>1. (CHOOSE r \in S : gpios[r].listener = id) \in Pins
      BY <1>4, <2>1
    <3>2. attribute'[id] = kernel[CHOOSE r \in S : gpios[r].listener = id].level
      BY <2>1 DEF Read
    <3> QED BY <1>2, <3>1, <3>2
  <2>2. CASE ~\E r \in S : gpios[r].listener = id
    BY <1>1, <2>2 DEF Read
  <2> QED BY <2>1, <2>2
<1> QED BY <1>1, <1>5, <1>6, <1>7 DEF Read

\* The steps of the loop and of the kernel.
LEMMA LoopKeeps ==
  ASSUME GpioInv,
         \/ \E p \in Pins : Toggle(p)
         \/ Poll \/ Term
         \/ \E c \in Running, l \in Levels : Action(c, l)
  PROVE  GpioInv'
<1>0. /\ Typed /\ TypeOK /\ Len(config) \in Nat /\ ready \subseteq monitors
      /\ monitors = {r \in Pins : gpios[r].direction = "in"}
      /\ gpios \in [Pins -> OpenPin \cup {Closed, Locked}]
  BY ConfigFacts DEF GpioInv, Typed, TypeOK, Counted
<1>1. ASSUME NEW p \in Pins, Toggle(p) PROVE GpioInv'
  <2>1. kernel' \in [Pins -> KernelPin]
    BY <1>0, <1>1 DEF Toggle, TypeOK, KernelPin, Levels
  <2>2. ready' \subseteq monitors' /\ moves' \in 0 .. MaxMoves
        /\ UNCHANGED <<pc, i, config, gpios, refcount, monitors, reopened, shared, attribute>>
    BY <1>0, <1>1, GpioAssumption DEF Toggle, Move, TypeOK
  <2>3. Typed'
    BY <2>1, <2>2 DEF GpioInv, Typed, TypeOK
  <2>4. AliveAt' = AliveAt
    BY <2>2 DEF AliveAt
  <2> QED BY <1>0, <2>2, <2>3, <2>4, Steady DEF GpioInv
<1>2. CASE Poll
  <2>1. /\ Read(ready)
        /\ UNCHANGED <<kernel, pc, i, config, refcount, monitors, reopened, shared, moves>>
    BY <1>2 DEF Poll
  <2>2. /\ gpios' \in [Pins -> OpenPin \cup {Closed, Locked}]
        /\ \A r \in Pins : gpios'[r].type = gpios[r].type
        /\ monitors' = {r \in Pins : gpios'[r].direction = "in"}
        /\ attribute' \in [Ids -> Levels \cup {Null}]
        /\ ready' \subseteq monitors'
    BY <1>0, <2>1, ReadKeeps
  <2>3. Typed'
    BY <2>1, <2>2 DEF GpioInv, Typed, TypeOK
  <2>4. AliveAt' = AliveAt
    BY <2>1 DEF AliveAt
  <2> QED BY <2>1, <2>2, <2>3, <2>4, Steady DEF GpioInv
<1>3. CASE Term
  <2>1. PICK S \in {{}, monitors} : Read(S)
    BY <1>3 DEF Term
  <2>2. /\ pc = "loop" /\ pc' = "destroy" /\ i' = 1
        /\ UNCHANGED <<kernel, config, refcount, monitors, reopened, shared, moves>>
    BY <1>3 DEF Term
  <2>3. /\ gpios' \in [Pins -> OpenPin \cup {Closed, Locked}]
        /\ \A r \in Pins : gpios'[r].type = gpios[r].type
        /\ monitors' = {r \in Pins : gpios'[r].direction = "in"}
        /\ attribute' \in [Ids -> Levels \cup {Null}]
        /\ ready' \subseteq monitors'
    BY <2>1, <2>2, ReadKeeps
  <2>4. Typed'
    BY <1>0, <2>2, <2>3 DEF Typed, TypeOK
  <2>5. AliveAt' = AliveAt
    BY <1>0, <2>2 DEF Typed, AliveAt
  <2> QED BY <2>2, <2>3, <2>4, <2>5, Steady DEF GpioInv
<1>4. ASSUME NEW c \in Running, NEW l \in Levels, Action(c, l) PROVE GpioInv'
  <2>1. PICK j \in 1 .. Len(config) : c = config[j]
    BY DEF Running
  <2>2. c \in Component /\ j \in AliveAt /\ c.id \in Ids
    BY <1>0, <1>4, <2>1, ConfigFacts DEF Action, AliveAt, Typed, Component
  <2>3. /\ UNCHANGED <<pc, i, config, refcount, monitors, ready, reopened, shared>>
        /\ moves' \in 0 .. MaxMoves
        /\ attribute' \in [Ids -> Levels \cup {Null}]
    BY <1>0, <1>4, <2>2, GpioAssumption DEF Action, Move, Typed, TypeOK
  <2>4. /\ gpios' \in [Pins -> OpenPin \cup {Closed, Locked}]
        /\ \A r \in Pins : gpios'[r].type = gpios[r].type
        /\ monitors' = {r \in Pins : gpios'[r].direction = "in"}
        /\ kernel' \in [Pins -> KernelPin]
    <3>1. CASE c.kind = "gpioout"
      <4>1. c.pin \in Pins /\ gpios[c.pin] \in OpenPin
        BY <2>1, <2>2, <3>1, PinIsOpen DEF UsesIo
      <4>2. /\ [gpios[c.pin] EXCEPT !.value = l] \in OpenPin
            /\ [gpios[c.pin] EXCEPT !.value = l].direction = gpios[c.pin].direction
        BY <4>1 DEF OpenPin
      <4>3. gpios' = [gpios EXCEPT ![c.pin] = [gpios[c.pin] EXCEPT !.value = l]]
        BY <1>0, <1>4, <3>1, <4>1 DEF Action
      <4>4. monitors' = IF gpios[c.pin].direction = "in" THEN monitors \cup {c.pin}
                        ELSE monitors \ {c.pin}
        BY <1>0, <2>3, <4>1
      <4>5. kernel' \in [Pins -> KernelPin]
        <5>1. kernel \in [Pins -> KernelPin] /\ kernel[c.pin] \in KernelPin
          BY <1>0, <4>1 DEF TypeOK
        <5>2. kernel' = [kernel EXCEPT ![c.pin] = Driven(kernel[c.pin], l)]
          BY <1>4, <3>1 DEF Action
        <5> QED BY <5>1, <5>2, PinWritten
      <4> QED BY <4>1, <4>2, <4>3, <4>4, <4>5, OnePin
    <3>2. CASE c.kind # "gpioout"
      BY <1>0, <1>4, <2>3, <3>2 DEF Action, TypeOK
    <3> QED BY <3>1, <3>2
  <2>5. Typed'
    BY <1>0, <2>3, <2>4 DEF Typed, TypeOK
  <2>6. AliveAt' = AliveAt
    BY <2>3 DEF AliveAt
  <2> QED BY <2>3, <2>4, <2>5, <2>6, Steady DEF GpioInv
<1> QED BY <1>1, <1>2, <1>3, <1>4

-----------------------------------------------------------------------------
(* Creation                                                                *)

\* Where the daemon is when it creates a component.
LEMMA CreatePlace ==
  ASSUME GpioInv, Create
  PROVE  /\ config' = config /\ i' = i /\ New \in Component /\ New = config[i]
         /\ attribute' = attribute /\ moves' = moves /\ pc' = "configure"
         /\ i \in 1 .. Len(config) /\ i \notin AliveAt /\ AliveAt' = AliveAt \cup {i}
         /\ \A j, k \in AliveAt' : config'[j].id = config'[k].id => j = k
         /\ Switches' = IF UsesIo(New) THEN Switches ELSE Switches \cup {i}
         /\ ~UsesIo(New) => Cardinality(Switches') = Cardinality(Switches) + 1
<1>1. pc = "create" /\ pc' = "configure" /\ i \in 1 .. Len(config) /\ ~SameId
      /\ UNCHANGED <<i, config, attribute, moves>> /\ Len(config) \in Nat
  BY ConfigFacts DEF Create, GpioInv, Typed
<1>2. AliveAt = 1 .. i - 1 /\ AliveAt' = 1 .. i
  BY <1>1 DEF AliveAt
<1>3. i \notin AliveAt /\ AliveAt' = AliveAt \cup {i}
  BY <1>1, <1>2
<1>4. \A j \in AliveAt : config[j].id # config[i].id
  BY <1>1, <1>2 DEF SameId, New
<1>5. \A j, k \in AliveAt' : config'[j].id = config'[k].id => j = k
  BY <1>1, <1>3, <1>4 DEF GpioInv, Held
<1>6. Switches' = IF UsesIo(New) THEN Switches ELSE Switches \cup {i}
  BY <1>1, <1>3 DEF Switches, New
<1>7. ~UsesIo(New) => Cardinality(Switches') = Cardinality(Switches) + 1
  BY <1>3, <1>6, FiniteFacts, FS_AddElement DEF Switches, GpioInv
<1> QED BY <1>1, <1>3, <1>5, <1>6, <1>7, ConfigFacts DEF New, GpioInv

\* A pin that was closed is opened for a component that is its only one.
LEMMA CreateIo ==
  ASSUME GpioInv, Create, New.kind # "rcswitch", Openable(New.pin), IoOpen(New.pin),
         shared' = shared
  PROVE  GpioInv'
<1> DEFINE p == New.pin
<1> DEFINE q == [type |-> "io", direction |-> "in", value |-> "off", listener |-> Null]
<1>0. /\ Typed /\ TypeOK /\ Held /\ Counted /\ UsesIo(New)
      /\ kernel \in [Pins -> KernelPin]
      /\ refcount \in [{"io", "lock"} -> Nat] /\ ready \subseteq monitors
      /\ gpios \in [Pins -> OpenPin \cup {Closed, Locked}]
      /\ monitors = {r \in Pins : gpios[r].direction = "in"}
  BY DEF GpioInv, Typed, TypeOK, Counted, UsesIo
<1>1. p \in Pins /\ gpios[p] = Closed /\ Closed.type = "none" /\ Closed.direction = "none"
  BY DEF Openable, IsOpen, Closed
<1>2. q \in OpenPin /\ gpios' = [gpios EXCEPT ![p] = q]
  BY <1>0, <1>1 DEF IoOpen, OpenPin, Levels
<1>3. gpios' \in [Pins -> OpenPin \cup {Closed, Locked}]
  BY <1>0, <1>2
<1>4. \A r \in Pins : gpios'[r] = IF r = p THEN q ELSE gpios[r]
  BY <1>0, <1>2
<1>5. p \notin IoPins /\ IoPins' = IoPins \cup {p} /\ LockPins' = LockPins
  BY <1>1, <1>4 DEF IoPins, LockPins
<1>6. Cardinality(IoPins') = Cardinality(IoPins) + 1
  BY <1>0, <1>5, FiniteFacts, FS_AddElement
<1>7. refcount' = [refcount EXCEPT !["io"] = @ + 1]
  BY DEF IoOpen
<1>8. monitors' = {r \in Pins : gpios'[r].direction = "in"} /\ ready' \subseteq monitors'
      /\ reopened' \subseteq Pins
  BY <1>0, <1>1, <1>4 DEF IoOpen, Export, Monitor, TypeOK
<1>9. kernel' \in [Pins -> KernelPin]
  <2>1. [kernel[p] EXCEPT !.exported = TRUE, !.edge = @ \/ kernel[p].direction = "in"]
          \in KernelPin
    <3>1. kernel[p] \in KernelPin
      BY <1>0, <1>1
    <3>2. (kernel[p].edge \/ kernel[p].direction = "in") \in BOOLEAN
      OBVIOUS
    <3> QED BY <3>1, <3>2, Zenon DEF KernelPin
  <2>2. kernel' = [kernel EXCEPT ![p] =
                     [kernel[p] EXCEPT !.exported = TRUE,
                                       !.edge = @ \/ kernel[p].direction = "in"]]
    BY <1>0, <1>1 DEF IoOpen
  <2> QED BY <1>0, <2>1, <2>2
<1> HIDE DEF p, q
<1>10. Typed'
  BY <1>0, <1>3, <1>7, <1>8, <1>9, CreatePlace DEF Typed, TypeOK
<1>11. Held'
  <2>1. \A j \in AliveAt : UsesIo(config[j]) => config[j].pin \in IoPins
    BY <1>0 DEF Held
  <2>2. config'[i].pin = p /\ config' = config /\ AliveAt' = AliveAt \cup {i} /\ UsesIo(config[i])
    BY <1>0, CreatePlace DEF p
  <2>3. \A j \in AliveAt' : UsesIo(config'[j]) => config'[j].pin \in IoPins'
    BY <1>5, <2>1, <2>2
  <2>4. \A j, k \in AliveAt' :
          UsesIo(config'[j]) /\ UsesIo(config'[k]) /\ config'[j].pin = config'[k].pin => j = k
    BY <1>0, <1>5, <2>1, <2>2 DEF Held
  <2>5. \A r \in IoPins' : \E j \in AliveAt' : UsesIo(config'[j]) /\ config'[j].pin = r
    BY <1>0, <1>5, <2>2 DEF Held
  <2> QED BY <1>0, <1>5, <2>3, <2>4, <2>5, CreatePlace DEF Held
<1>12. Counted'
  BY <1>0, <1>5, <1>6, <1>7, <1>8, CreatePlace DEF Counted
<1> QED BY <1>10, <1>11, <1>12 DEF GpioInv

\* The pin of rcswitch is opened by the first that uses it, and counted by the others.
LEMMA CreateSwitch ==
  ASSUME GpioInv, Create, New.kind = "rcswitch",
         \/ /\ shared.pin = Null /\ Openable(New.pin) /\ LockOpen(New.pin)
            /\ shared' = [pin |-> New.pin, usage |-> 1]
         \/ /\ shared.pin # Null /\ shared' = [shared EXCEPT !.usage = @ + 1]
            /\ UNCHANGED <<kernel, pins>>
  PROVE  GpioInv'
<1> DEFINE p == New.pin
<1>0. /\ Typed /\ TypeOK /\ Held /\ Counted /\ ~UsesIo(New)
      /\ refcount \in [{"io", "lock"} -> Nat] /\ shared \in [pin : Pins \cup {Null}, usage : Nat]
      /\ gpios \in [Pins -> OpenPin \cup {Closed, Locked}]
      /\ monitors = {r \in Pins : gpios[r].direction = "in"}
  BY DEF GpioInv, Typed, TypeOK, Counted, UsesIo
<1>1. UNCHANGED <<kernel, monitors, ready, reopened>>
  BY DEF LockOpen, pins
<1>2. /\ \A j \in AliveAt' : UsesIo(config'[j]) => j \in AliveAt /\ config'[j] = config[j]
      /\ AliveAt \subseteq AliveAt' /\ config' = config
  BY <1>0, CreatePlace
<1>3. CASE shared.pin = Null
  <2>1. p \in Pins /\ gpios[p] = Closed /\ Closed.type = "none" /\ Closed.direction = "none"
        /\ Locked.type = "lock" /\ Locked.direction = "none"
    BY <1>3 DEF Openable, IsOpen, Closed, Locked
  <2>2. \A r \in Pins : gpios'[r] = IF r = p THEN Locked ELSE gpios[r]
    BY <1>0, <1>3 DEF LockOpen
  <2>3. gpios' \in [Pins -> OpenPin \cup {Closed, Locked}]
    BY <1>0, <1>3 DEF LockOpen
  <2>4. IoPins' = IoPins /\ LockPins' = LockPins \cup {p} /\ p \notin LockPins /\ LockPins = {}
    BY <1>0, <1>3, <2>1, <2>2 DEF IoPins, LockPins, Held
  <2>5. Cardinality(LockPins') = Cardinality(LockPins) + 1
    BY <1>0, <2>4, FiniteFacts, FS_AddElement
  <2>6. shared' = [pin |-> p, usage |-> 1] /\ p # Null
        /\ refcount' = [refcount EXCEPT !["lock"] = @ + 1]
    BY <1>3, <2>1, GpioAssumption DEF LockOpen
  <2>7. monitors' = {r \in Pins : gpios'[r].direction = "in"}
    BY <1>0, <1>1, <2>1, <2>2
  <2> HIDE DEF p
  <2>8. Typed'
    BY <1>0, <1>1, <2>1, <2>3, <2>6, CreatePlace DEF Typed, TypeOK
  <2>9. Held'
    BY <1>0, <1>2, <2>4, <2>6, CreatePlace DEF Held
  <2>10. Counted'
    <3>1. Cardinality(Switches) = 0
      BY <1>0, <1>3 DEF Held, Counted
    <3>2. Cardinality(Switches') = 1 /\ shared'.usage = 1
      BY <1>0, <2>6, <3>1, CreatePlace
    <3>3. refcount'["io"] = Cardinality(IoPins')
      BY <1>0, <2>4, <2>6 DEF Counted
    <3>4. refcount'["lock"] = Cardinality(LockPins')
      BY <1>0, <2>5, <2>6 DEF Counted
    <3> QED BY <2>7, <3>2, <3>3, <3>4 DEF Counted
  <2> QED BY <2>8, <2>9, <2>10 DEF GpioInv
<1>4. CASE shared.pin # Null
  <2>1. UNCHANGED <<gpios, refcount>> /\ shared' = [shared EXCEPT !.usage = @ + 1]
    BY <1>4 DEF pins
  <2>2. IoPins' = IoPins /\ LockPins' = LockPins
    BY <2>1 DEF IoPins, LockPins
  <2>3. shared'.pin = shared.pin /\ shared'.usage = shared.usage + 1 /\ shared.usage \in Nat
        /\ shared' \in [pin : Pins \cup {Null}, usage : Nat]
    BY <1>0, <2>1
  <2>4. Typed'
    BY <1>0, <1>1, <2>1, <2>3, CreatePlace DEF Typed, TypeOK
  <2>5. Held'
    BY <1>0, <1>2, <1>4, <2>2, <2>3, CreatePlace DEF Held
  <2>6. Counted'
    BY <1>0, <1>1, <2>1, <2>2, <2>3, CreatePlace DEF Counted
  <2> QED BY <2>4, <2>5, <2>6 DEF GpioInv
<1> QED BY <1>3, <1>4

-----------------------------------------------------------------------------
(* The end                                                                 *)

\* Where the daemon is when it destroys a component.
LEMMA DestroyPlace ==
  ASSUME GpioInv, Destroy
  PROVE  /\ config' = config /\ i \in AliveAt /\ AliveAt' = AliveAt \ {i}
         /\ pc' = "destroy" /\ i' \in 1 .. Len(config') + 1 /\ moves' = moves
         /\ New \in Component /\ New = config[i]
         /\ attribute' \in [Ids -> Levels \cup {Null}]
         /\ Switches' = IF UsesIo(New) THEN Switches ELSE Switches \ {i}
         /\ ~UsesIo(New) => i \in Switches
<1>1. pc = "destroy" /\ pc' = "destroy" /\ i \in 1 .. Len(config) /\ i' = i + 1
      /\ UNCHANGED <<config, moves>> /\ Len(config) \in Nat
  BY ConfigFacts DEF Destroy, GpioInv, Typed
<1>2. AliveAt = i .. Len(config) /\ AliveAt' = i + 1 .. Len(config)
  BY <1>1 DEF AliveAt
<1>3. i \in AliveAt /\ AliveAt' = AliveAt \ {i} /\ i' \in 1 .. Len(config') + 1
  BY <1>1, <1>2
<1>4. New \in Component /\ New = config[i]
  BY <1>1, ConfigFacts DEF New, GpioInv
<1>5. attribute' \in [Ids -> Levels \cup {Null}]
  BY <1>4 DEF Destroy, GpioInv, Typed, Component
<1>6. Switches' = IF UsesIo(New) THEN Switches ELSE Switches \ {i}
  BY <1>1, <1>3 DEF Switches, New
<1> QED BY <1>1, <1>3, <1>4, <1>5, <1>6 DEF Switches, New

\* The pin of a component is closed with it.
LEMMA DestroyIo ==
  ASSUME GpioInv, Destroy, New.kind # "rcswitch", IoClose(New.pin), shared' = shared
  PROVE  GpioInv'
<1> DEFINE p == New.pin
<1>0. /\ Typed /\ TypeOK /\ Held /\ Counted /\ UsesIo(New)
      /\ kernel \in [Pins -> KernelPin]
      /\ refcount \in [{"io", "lock"} -> Nat] /\ ready \subseteq monitors
      /\ gpios \in [Pins -> OpenPin \cup {Closed, Locked}]
      /\ monitors = {r \in Pins : gpios[r].direction = "in"}
  BY DEF GpioInv, Typed, TypeOK, Counted, UsesIo
<1>1. p \in IoPins /\ p \in Pins /\ gpios[p] \in OpenPin
  BY <1>0, DestroyPlace, PinIsOpen DEF Held
<1>2. Closed.type = "none" /\ Closed.direction = "none" /\ gpios[p].type = "io"
  BY <1>1 DEF Closed, OpenPin
<1>3. gpios' \in [Pins -> OpenPin \cup {Closed, Locked}]
  BY <1>0, <1>1 DEF IoClose
<1>4. \A r \in Pins : gpios'[r] = IF r = p THEN Closed ELSE gpios[r]
  BY <1>0, <1>1 DEF IoClose
<1>5. IoPins' = IoPins \ {p} /\ LockPins' = LockPins
  BY <1>1, <1>2, <1>4 DEF IoPins, LockPins
<1>6. Cardinality(IoPins') = Cardinality(IoPins) - 1 /\ Cardinality(IoPins) \in Nat
      /\ Cardinality(IoPins') \in Nat
  BY <1>0, <1>1, <1>5, FiniteFacts, FS_RemoveElement, FS_CardinalityType
<1>7. refcount' = [refcount EXCEPT !["io"] = @ - 1] /\ refcount["io"] = Cardinality(IoPins)
  BY <1>0 DEF IoClose, Counted
<1>8. monitors' = {r \in Pins : gpios'[r].direction = "in"} /\ ready' \subseteq monitors'
      /\ monitors' \subseteq Pins /\ reopened' = reopened
  BY <1>0, <1>1, <1>2, <1>4 DEF IoClose, Unmonitor
<1>9. kernel' \in [Pins -> KernelPin]
  <2>1. kernel[p] \in KernelPin
    BY <1>0, <1>1
  <2>2. Unexported(p) \in KernelPin
    BY <2>1, PinClosed
  <2>3. kernel' = [kernel EXCEPT ![p] = Unexported(p)]
    BY DEF IoClose
  <2> QED BY <1>0, <2>2, <2>3
<1> HIDE DEF p
<1>10. refcount' \in [{"io", "lock"} -> Nat]
  BY <1>0, <1>6, <1>7
<1>11. Typed'
  BY <1>0, <1>3, <1>8, <1>9, <1>10, DestroyPlace DEF Typed, TypeOK
<1>12. Held'
  <2>1. config[i].pin = p /\ config' = config /\ AliveAt' = AliveAt \ {i} /\ UsesIo(config[i])
        /\ i \in AliveAt
    BY <1>0, DestroyPlace DEF p
  <2>2. \A j \in AliveAt' : UsesIo(config'[j]) => config'[j].pin \in IoPins'
    BY <1>0, <1>5, <2>1 DEF Held
  <2>3. \A r \in IoPins' : \E j \in AliveAt' : UsesIo(config'[j]) /\ config'[j].pin = r
    BY <1>0, <1>5, <2>1 DEF Held
  <2>4. \A j, k \in AliveAt' : j \in AliveAt /\ k \in AliveAt
    BY <2>1
  <2> QED BY <1>0, <1>5, <2>1, <2>2, <2>3, <2>4 DEF Held
<1>13. Counted'
  BY <1>0, <1>5, <1>6, <1>7, <1>8, DestroyPlace DEF Counted
<1> QED BY <1>11, <1>12, <1>13 DEF GpioInv

\* The pin of rcswitch is closed with the last that uses it.
LEMMA DestroySwitch ==
  ASSUME GpioInv, Destroy, New.kind = "rcswitch", Release
  PROVE  GpioInv'
<1> DEFINE p == shared.pin
<1>0. /\ Typed /\ TypeOK /\ Held /\ Counted /\ ~UsesIo(New)
      /\ refcount \in [{"io", "lock"} -> Nat] /\ shared \in [pin : Pins \cup {Null}, usage : Nat]
      /\ gpios \in [Pins -> OpenPin \cup {Closed, Locked}]
      /\ monitors = {r \in Pins : gpios[r].direction = "in"}
      /\ kernel \in [Pins -> KernelPin] /\ ready \subseteq monitors
  BY DEF GpioInv, Typed, TypeOK, Counted, UsesIo
<1>1. UNCHANGED <<kernel, monitors, ready, reopened>>
  BY DEF Release, LockClose, pins
<1>2. /\ \A j \in AliveAt' : j \in AliveAt /\ config'[j] = config[j]
      /\ config' = config /\ AliveAt' = AliveAt \ {i} /\ ~UsesIo(config[i])
  BY <1>0, DestroyPlace
<1>3. /\ i \in Switches /\ Switches' = Switches \ {i}
      /\ Cardinality(Switches') = Cardinality(Switches) - 1
      /\ Cardinality(Switches) \in Nat /\ Cardinality(Switches') \in Nat
  BY <1>0, DestroyPlace, FiniteFacts, FS_RemoveElement, FS_CardinalityType
<1>4. shared.usage \in Nat /\ shared.usage # 0 /\ p # Null /\ p \in Pins
      /\ shared.usage = Cardinality(Switches)
  BY <1>0, <1>3 DEF Held, Counted
<1>5. p \in LockPins /\ LockPins = {p}
  BY <1>0, <1>4 DEF Held
<1>6. CASE shared.usage = 1
  <2>1. /\ Closed.type = "none" /\ Closed.direction = "none" /\ Locked.direction = "none"
        /\ gpios[p] = Locked
    BY <1>0, <1>5 DEF Closed, Locked, LockPins, OpenPin
  <2>2. /\ gpios' = [gpios EXCEPT ![p] = Closed] /\ shared' = Unused
        /\ refcount' = [refcount EXCEPT !["lock"] = @ - 1]
    BY <1>6 DEF Release, LockClose
  <2>3. \A r \in Pins : gpios'[r] = IF r = p THEN Closed ELSE gpios[r]
    BY <1>0, <2>2
  <2>4. gpios' \in [Pins -> OpenPin \cup {Closed, Locked}]
    BY <1>0, <2>2
  <2>5. IoPins' = IoPins /\ LockPins' = LockPins \ {p} /\ LockPins' = {}
    BY <1>5, <2>1, <2>3 DEF IoPins, LockPins, Locked
  <2>6. refcount["lock"] = 1 /\ Cardinality(LockPins') = 0
    <3>1. Cardinality(LockPins) = 1
      BY <1>5, FS_Singleton
    <3>2. Cardinality(LockPins') = 0
      BY <2>5, FS_EmptySet
    <3> QED BY <1>0, <3>1, <3>2 DEF Counted
  <2>7. refcount' \in [{"io", "lock"} -> Nat] /\ refcount'["lock"] = Cardinality(LockPins')
        /\ refcount'["io"] = refcount["io"]
    BY <1>0, <2>2, <2>6
  <2>8. shared'.pin = Null /\ shared'.usage = 0
        /\ shared' \in [pin : Pins \cup {Null}, usage : Nat]
    BY <2>2 DEF Unused
  <2>9. monitors' = {r \in Pins : gpios'[r].direction = "in"}
    BY <1>0, <1>1, <2>1, <2>3
  <2> HIDE DEF p
  <2>10. Typed'
    BY <1>0, <1>1, <2>4, <2>7, <2>8, DestroyPlace DEF Typed, TypeOK
  <2>11. Held'
    BY <1>0, <1>2, <2>5, <2>8 DEF Held
  <2>12. Counted'
    <3>1. refcount'["io"] = Cardinality(IoPins')
      BY <1>0, <2>5, <2>7 DEF Counted
    <3>2. shared'.usage = Cardinality(Switches')
      BY <1>3, <1>4, <1>6, <2>8
    <3> QED BY <2>7, <2>9, <3>1, <3>2 DEF Counted
  <2> QED BY <2>10, <2>11, <2>12 DEF GpioInv
<1>7. CASE shared.usage # 1
  <2>1. UNCHANGED <<gpios, refcount>> /\ shared' = [shared EXCEPT !.usage = @ - 1]
    BY <1>7 DEF Release, pins
  <2>2. IoPins' = IoPins /\ LockPins' = LockPins
    BY <2>1 DEF IoPins, LockPins
  <2>3. /\ shared'.pin = shared.pin /\ shared'.usage = shared.usage - 1 /\ shared'.usage # 0
        /\ shared' \in [pin : Pins \cup {Null}, usage : Nat]
    BY <1>0, <1>4, <1>7, <2>1
  <2>4. Typed'
    BY <1>0, <1>1, <2>1, <2>3, DestroyPlace DEF Typed, TypeOK
  <2>5. Held'
    BY <1>0, <1>2, <1>4, <2>2, <2>3 DEF Held
  <2>6. Counted'
    BY <1>0, <1>1, <1>3, <1>4, <2>1, <2>2, <2>3 DEF Counted
  <2> QED BY <2>4, <2>5, <2>6 DEF GpioInv
<1> QED BY <1>6, <1>7

-----------------------------------------------------------------------------
(* The theorems                                                            *)

\* Nothing is open at first.
LEMMA GpioBegins ==
  ASSUME Init
  PROVE  GpioInv
<1>0. config \in Configs /\ config \in Seq(Component) /\ Len(config) \in Nat
  BY GpioAssumption DEF Init
<1>1. kernel \in [Pins -> KernelPin]
  BY DEF Init, KernelPin
<1>2. gpios \in [Pins -> {Closed}] /\ monitors = {} /\ ready = {} /\ i = 1 /\ pc = "off"
      /\ reopened = {}
      /\ refcount = [t \in {"io", "lock"} |-> 0] /\ attribute = [id \in Ids |-> Null]
      /\ shared.pin = Null /\ shared.usage = 0 /\ moves = 0
      /\ shared \in [pin : Pins \cup {Null}, usage : Nat]
  BY DEF Init, Unused
<1>3. Typed
  BY <1>0, <1>1, <1>2, GpioAssumption DEF Typed, TypeOK
<1>4. AliveAt = {} /\ Switches = {}
  BY <1>2 DEF AliveAt, Switches
<1>5. IoPins = {} /\ LockPins = {} /\ {p \in Pins : gpios[p].direction = "in"} = {}
  BY <1>2 DEF IoPins, LockPins, Closed
<1>6. Held
  BY <1>2, <1>4, <1>5 DEF Held
<1>7. Counted
  BY <1>2, <1>4, <1>5, FS_EmptySet DEF Counted
<1> QED BY <1>3, <1>6, <1>7 DEF GpioInv

\* Every step keeps the invariant.
LEMMA GpioStep ==
  ASSUME GpioInv, [Next]_gvars
  PROVE  GpioInv'
<1>1. CASE Start \/ Run \/ Destroyed \/ Terminate
  BY <1>1, PlaceKeeps
<1>2. CASE Create
  BY <1>2, CreateIo, CreateSwitch DEF Create
<1>3. CASE Refused
  BY <1>3, EmptyKeeps DEF Refused, GpioInv, Typed, TypeOK
<1>4. CASE Configure
  BY <1>4, ConfigureKeeps
<1>5. CASE (\E p \in Pins : Toggle(p)) \/ Poll \/ Term
           \/ (\E c \in Running, l \in Levels : Action(c, l))
  BY <1>5, LoopKeeps
<1>6. CASE Destroy
  BY <1>6, DestroyIo, DestroySwitch DEF Destroy
<1>7. CASE Crash
  <2>1. moves' \in 0 .. MaxMoves
    BY <1>7, GpioAssumption DEF Crash, Move, GpioInv, Typed, TypeOK
  <2> QED BY <1>7, <2>1, EmptyKeeps DEF Crash
<1>8. CASE UNCHANGED gvars
  <2>1. UNCHANGED <<kernel, pc, i, config, gpios, refcount, monitors, ready, reopened,
                    shared, attribute, moves>>
    BY <1>8 DEF gvars, pins
  <2>2. Typed'
    BY <2>1 DEF GpioInv, Typed, TypeOK
  <2>3. AliveAt' = AliveAt
    BY <2>1 DEF AliveAt
  <2> QED BY <2>1, <2>2, <2>3, Steady DEF GpioInv, Counted
<1> QED BY <1>1, <1>2, <1>3, <1>4, <1>5, <1>6, <1>7, <1>8 DEF Next

\* The invariant of the accounts: it adds to the counts that every open pin is held by one
\* component that is alive (comp_manager.c, gpio_manager.c), without which the close of one
\* component could close the pin of another.
THEOREM GpioInductive == Spec => []GpioInv
<1>1. Init => GpioInv
  BY GpioBegins
<1>2. GpioInv /\ [Next]_gvars => GpioInv'
  BY GpioStep
<1> QED BY <1>1, <1>2, PTL DEF Spec

\* Types, of the pins of comp_gpioin.c, comp_gpioout.c, comp_rcswitch.c and their drivers.
THEOREM GpioTypes == Spec => []TypeOK
<1>1. GpioInv => TypeOK
  BY DEF GpioInv, Typed
<1> QED BY <1>1, GpioInductive, PTL

\* gpio_manager.c, gpio_io.c and comp_rcswitch.c count the same pins and users, at every step
\* of every start, end and crash.
THEOREM BooksAgree == Spec => []BooksBalance
<1>1. ASSUME GpioInv PROVE BooksBalance
  BY <1>1, SwitchesAlive DEF BooksBalance, GpioInv, Held, Counted, IoPins, LockPins
<1> QED BY <1>1, GpioInductive, PTL

\* What gpio_terminate and the terminations of its drivers assert: all is closed.
THEOREM NothingLeft == Spec => []EndsClean
<1>1. ASSUME GpioInv, pc = "terminate"
      PROVE  /\ \A p \in Pins : ~IsOpen(p)
             /\ refcount["io"] = 0 /\ refcount["lock"] = 0 /\ monitors = {}
  <2>1. AliveAt = {} /\ Switches = {}
    BY <1>1 DEF AliveAt, Switches
  <2>2. shared.usage = 0 /\ shared.pin = Null
    BY <1>1, <2>1, FS_EmptySet DEF GpioInv, Counted, Held
  <2>3. IoPins = {} /\ LockPins = {}
    BY <1>1, <2>1, <2>2 DEF GpioInv, Held
  <2>4. \A p \in Pins : gpios[p] = Closed
    <3>1. \A p \in Pins : gpios[p] \in OpenPin \cup {Closed, Locked}
      BY <1>1 DEF GpioInv, Typed
    <3>2. \A p \in Pins : gpios[p].type # "io" /\ gpios[p].type # "lock"
      BY <2>3 DEF IoPins, LockPins
    <3>3. Locked.type = "lock" /\ \A q \in OpenPin : q.type = "io"
      BY DEF Locked, Closed, OpenPin
    <3> QED BY <3>1, <3>2, <3>3
  <2>5. \A p \in Pins : ~IsOpen(p)
    BY <2>4 DEF IsOpen
  <2>6. monitors = {}
    BY <1>1, <2>4 DEF GpioInv, Counted, Closed
  <2> QED BY <1>1, <2>3, <2>5, <2>6, FS_EmptySet DEF GpioInv, Counted
<1>2. GpioInv => EndsClean
  BY <1>1 DEF EndsClean
<1> QED BY <1>2, GpioInductive, PTL

-----------------------------------------------------------------------------
(* What inputs and outputs publish                                         *)

\* The places of the components that are set up and run.
SetUpAt == IF pc \in {"create", "configure", "loop"} THEN 1 .. i - 1 ELSE {}

\* The edges of a pin are told, unless it is an output that was exported before.
Fed(p) == IF kernel[p].direction = "in" THEN kernel[p].edge ELSE p \in reopened

\* An output publishes what it drives; an input what its pin has, or it will be told.
Tells(j) ==
  LET c == config[j] IN
  /\ c.kind = "gpioout" =>
       kernel[c.pin].direction = "out" /\ kernel[c.pin].level = attribute[c.id]
  /\ c.kind = "gpioin" =>
       /\ Fed(c.pin)
       /\ c.pin \in monitors /\ gpios[c.pin].listener = c.id
       /\ kernel[c.pin].level = attribute[c.id] \/ c.pin \in ready

\* Who is called when a pin is read is the input set up on it.
Listened ==
  pc \in {"create", "configure", "loop"} =>
    \A p \in IoPins : gpios[p].listener # Null =>
      \E j \in SetUpAt : /\ config[j].kind = "gpioin" /\ config[j].pin = p
                         /\ config[j].id = gpios[p].listener

\* A pin that was opened and not set up yet is taken for an input and will be read.
Opened ==
  pc = "configure" /\ UsesIo(New) =>
    gpios[New.pin].direction = "in" /\ Fed(New.pin) /\ New.pin \in ready

Told == (\A j \in SetUpAt : Tells(j)) /\ Listened /\ Opened

\* A pin that is open is exported, and one that is not exported is not driven.
Exported ==
  \A p \in Pins : /\ gpios[p].type = "io" => kernel[p].exported
                  /\ kernel[p].exported \/ kernel[p].direction = "in"

\* The components set up are alive, at places of the configuration.
LEMMA SetUpAlive ==
  ASSUME GpioInv
  PROVE  /\ SetUpAt \subseteq AliveAt
         /\ \A j \in SetUpAt : config[j] \in Component
         /\ \A j \in SetUpAt : UsesIo(config[j]) => config[j].pin \in IoPins
         /\ \A j \in SetUpAt : config[j].kind \in {"gpioin", "gpioout"} => UsesIo(config[j])
<1>1. i \in Nat
  BY ConfigFacts DEF GpioInv
<1>2. SetUpAt \subseteq AliveAt
  BY <1>1 DEF SetUpAt, AliveAt
<1> QED BY <1>2, ConfigFacts DEF GpioInv, Held, UsesIo

\* A component of which nothing changed tells the truth as before.
LEMMA StillTells ==
  ASSUME NEW j, Tells(j), config'[j] = config[j],
         UsesIo(config[j]) =>
           LET c == config[j] IN
           /\ kernel'[c.pin] = kernel[c.pin] /\ attribute'[c.id] = attribute[c.id]
           /\ gpios'[c.pin].listener = gpios[c.pin].listener
           /\ c.pin \in monitors => c.pin \in monitors'
           /\ c.pin \in ready => c.pin \in ready'
           /\ c.pin \in reopened => c.pin \in reopened'
  PROVE  Tells(j)'
<1>1. CASE UsesIo(config[j])
  BY <1>1 DEF Tells, Fed
<1>2. CASE ~UsesIo(config[j])
  BY <1>2 DEF Tells, UsesIo
<1> QED BY <1>1, <1>2

\* Steps after which nobody is set up.
LEMMA NobodyTells ==
  ASSUME pc' \notin {"create", "configure", "loop"}
  PROVE  Told'
BY DEF Told, SetUpAt, Listened, Opened

\* A component gets its pin: those set up have others.
LEMMA CreateTells ==
  ASSUME GpioInv, Told, Exported, Create
  PROVE  Told'
<1>0. /\ pc = "create" /\ pc' = "configure" /\ i' = i /\ config' = config
      /\ attribute' = attribute /\ i \in Nat /\ SetUpAt' = SetUpAt
      /\ gpios \in [Pins -> OpenPin \cup {Closed, Locked}] /\ kernel \in [Pins -> KernelPin]
  BY ConfigFacts DEF Create, GpioInv, Typed, TypeOK, SetUpAt
<1>1. CASE New.kind # "rcswitch" /\ Openable(New.pin) /\ IoOpen(New.pin)
  <2> DEFINE p == New.pin
  <2>1. p \in Pins /\ gpios[p] = Closed /\ Closed.type = "none" /\ p \notin IoPins
    BY <1>1 DEF Openable, IsOpen, Closed, IoPins
  <2>2. /\ \A r \in Pins : r # p => gpios'[r] = gpios[r] /\ kernel'[r] = kernel[r]
        /\ gpios'[p].listener = Null /\ gpios'[p].direction = "in"
        /\ kernel'[p].direction = kernel[p].direction
        /\ kernel[p].direction = "in" => kernel'[p].edge
    BY <1>0, <1>1, <2>1 DEF IoOpen, KernelPin
  <2>3. /\ monitors \subseteq monitors' /\ ready \subseteq ready' /\ p \in ready'
        /\ reopened \subseteq reopened' /\ (kernel[p].exported => p \in reopened')
    BY <1>1 DEF IoOpen, Export, Monitor
  <2>fed. IF kernel'[p].direction = "in" THEN kernel'[p].edge ELSE p \in reopened'
    <3>1. kernel[p].direction = "in" \/ kernel[p].exported
      BY <2>1 DEF Exported
    <3> QED BY <2>2, <2>3, <3>1
  <2> HIDE DEF p
  <2>4. ASSUME NEW j \in SetUpAt' PROVE Tells(j)'
    <3>1. j \in SetUpAt /\ Tells(j)
      BY <1>0, <2>4 DEF Told
    <3>2. UsesIo(config[j]) => config[j].pin \in Pins /\ config[j].pin # p
      BY <2>1, <3>1, SetUpAlive DEF IoPins
    <3> QED BY <1>0, <2>2, <2>3, <3>1, <3>2, StillTells
  <2>5. Listened'
    <3>1. \A r \in IoPins' : r # p => r \in IoPins /\ gpios'[r] = gpios[r]
      BY <2>2 DEF IoPins
    <3> QED BY <1>0, <2>2, <3>1 DEF Listened, Told
  <2>6. Opened'
    <3>1. New' = New
      BY <1>0 DEF New
    <3> QED BY <2>2, <2>3, <2>fed, <3>1 DEF Opened, Fed, p
  <2> QED BY <2>4, <2>5, <2>6 DEF Told
<1>2. CASE New.kind = "rcswitch"
  <2>1. /\ UNCHANGED <<kernel, monitors, ready, reopened>>
        /\ (LockOpen(New.pin) /\ Openable(New.pin)) \/ gpios' = gpios
    BY <1>2 DEF Create, LockOpen, pins
  <2>2. \A r \in Pins : gpios'[r] = gpios[r] \/ (r \notin IoPins /\ gpios'[r] = Locked)
    BY <1>0, <2>1 DEF LockOpen, Openable, IsOpen, IoPins, Closed
  <2>3. ASSUME NEW j \in SetUpAt' PROVE Tells(j)'
    <3>1. j \in SetUpAt /\ Tells(j)
      BY <1>0, <2>3 DEF Told
    <3>2. UsesIo(config[j]) => config[j].pin \in Pins /\ config[j].pin \in IoPins
      BY <3>1, SetUpAlive DEF IoPins
    <3> QED BY <1>0, <2>1, <2>2, <3>1, <3>2, StillTells
  <2>4. Listened'
    <3>1. \A r \in IoPins' : r \in IoPins /\ gpios'[r] = gpios[r]
      BY <2>2 DEF IoPins, Locked, Closed
    <3> QED BY <1>0, <3>1 DEF Listened, Told
  <2>5. Opened'
    BY <1>0, <1>2 DEF Opened, New, UsesIo
  <2> QED BY <2>3, <2>4, <2>5 DEF Told
<1> QED BY <1>1, <1>2 DEF Create

\* A component is set up: it tells the truth from now on, and the others as before.
LEMMA ConfigureTells ==
  ASSUME GpioInv, Told, Configure
  PROVE  Told'
<1>0. /\ pc = "configure" /\ pc' = "create" /\ i' = i + 1 /\ config' = config
      /\ i \in Nat /\ i \in AliveAt /\ SetUpAt = 1 .. i - 1 /\ SetUpAt' = SetUpAt \cup {i}
      /\ gpios \in [Pins -> OpenPin \cup {Closed, Locked}] /\ kernel \in [Pins -> KernelPin]
      /\ attribute \in [Ids -> Levels \cup {Null}] /\ New = config[i] /\ New \in Component
      /\ monitors = {r \in Pins : gpios[r].direction = "in"} /\ i \notin SetUpAt
      /\ reopened' = reopened
  <2>1. i \in Nat /\ i \in 1 .. Len(config)
    BY ConfigFacts DEF Configure, GpioInv, Typed
  <2> QED BY <2>1, ConfigFacts DEF Configure, GpioInv, Typed, TypeOK, Counted, SetUpAt, AliveAt, New
<1>here. PICK k \in Nat : k = i
  BY <1>0
<1> DEFINE p == New.pin
<1>1. ASSUME NEW j \in SetUpAt
      PROVE  /\ Tells(j) /\ config[j].id # New.id
             /\ UsesIo(config[j]) => config[j].pin \in Pins
             /\ UsesIo(config[j]) /\ UsesIo(New) => config[j].pin # p
  <2>1. j \in AliveAt /\ j # i
    BY <1>0, <1>1, SetUpAlive
  <2> QED BY <1>0, <1>1, <2>1, SetUpAlive DEF GpioInv, Held, Told, IoPins
<1>2. UsesIo(New) => p \in Pins /\ gpios[p] \in OpenPin /\ p \in IoPins
  BY <1>0, PinIsOpen DEF GpioInv, Held
<1>3. New.id \in Ids
  BY <1>0 DEF Component
\* What is shared by the two kinds that have a pin.
<1>4. ASSUME UsesIo(New), NEW q,
             gpios' = [gpios EXCEPT ![p] = q], q.type = "io",
             \A r \in Pins : r # p => kernel'[r] = kernel[r],
             \A id \in Ids : id # New.id => attribute'[id] = attribute[id],
             monitors \ {p} \subseteq monitors', ready \ {p} \subseteq ready',
             Tells(k)',
             q.listener # Null => New.kind = "gpioin" /\ q.listener = New.id
      PROVE  Told'
  <2>1. \A r \in Pins : gpios'[r] = IF r = p THEN q ELSE gpios[r]
    BY <1>0, <1>4
  <2>2. ASSUME NEW j \in SetUpAt PROVE Tells(j)'
    <3>1. config[j].id \in Ids
      BY <2>2, SetUpAlive DEF Component
    <3> QED BY <1>0, <1>1, <1>4, <2>1, <2>2, <3>1, StillTells
  <2>3. Listened'
    <3>1. \A r \in IoPins' : r # p => r \in IoPins /\ gpios'[r] = gpios[r]
      BY <2>1 DEF IoPins
    <3>2. gpios'[p] = q
      BY <1>2, <1>4, <2>1
    <3> QED BY <1>0, <1>4, <3>1, <3>2 DEF Listened, Told
  <2>4. Opened'
    BY <1>0 DEF Opened
  <2> QED BY <1>0, <1>here, <1>4, <2>2, <2>3, <2>4 DEF Told
<1>5. CASE ConfigureInput
  <2> DEFINE q == [gpios[p] EXCEPT !.listener = New.id]
  <2>0. New.kind = "gpioin" /\ UsesIo(New) /\ UNCHANGED <<kernel, monitors, ready>>
    BY <1>5 DEF ConfigureInput, UsesIo
  <2>1. gpios' = [gpios EXCEPT ![p] = q] /\ q.type = "io" /\ q.listener = New.id
    BY <1>0, <1>2, <1>5, <2>0 DEF ConfigureInput, OpenPin
  <2>2. attribute' = [attribute EXCEPT ![New.id] = gpios[p].value]
    BY <1>5 DEF ConfigureInput
  <2>3. /\ IF kernel'[p].direction = "in" THEN kernel'[p].edge ELSE p \in reopened'
        /\ p \in monitors' /\ p \in ready'
    <3>1. gpios[p].direction = "in" /\ Fed(p) /\ p \in ready
      BY <1>0, <2>0 DEF Told, Opened
    <3> QED BY <1>0, <1>2, <2>0, <3>1 DEF Fed
  <2>4. gpios'[p] = q
    BY <1>0, <1>2, <2>0, <2>1
  <2> HIDE DEF q
  <2>5. config'[k] = New
    BY <1>0, <1>here
  <2>6. Tells(k)'
    BY <2>0, <2>1, <2>3, <2>4, <2>5 DEF Tells, Fed
  <2> QED BY <1>0, <1>3, <1>4, <2>0, <2>1, <2>2, <2>6
<1>6. CASE ConfigureOutput
  <2> DEFINE q == [gpios[p] EXCEPT !.direction = "out", !.value = "off"]
  <2>0. New.kind = "gpioout" /\ UsesIo(New)
    BY <1>6 DEF ConfigureOutput, UsesIo
  <2>1. gpios' = [gpios EXCEPT ![p] = q] /\ q.type = "io" /\ q.listener = gpios[p].listener
    BY <1>0, <1>2, <1>6, <2>0 DEF ConfigureOutput, OpenPin
  <2>2. attribute' = [attribute EXCEPT ![New.id] = "off"]
    BY <1>6 DEF ConfigureOutput
  <2>3. /\ \A r \in Pins : r # p => kernel'[r] = kernel[r]
        /\ kernel'[p].direction = "out" /\ kernel'[p].level = "off"
        /\ monitors \ {p} \subseteq monitors' /\ ready \ {p} \subseteq ready'
    <3> DEFINE w == [kernel[p] EXCEPT !.direction = "out", !.level = "off"]
    <3>1. kernel' = [kernel EXCEPT ![p] = Driven(w, "off")]
      <4>1. gpios[p].direction = "in"
        BY <1>0, <2>0 DEF Told, Opened
      <4> QED BY <1>6, <4>1 DEF ConfigureOutput
    <3>2. kernel \in [Pins -> KernelPin] /\ p \in Pins /\ kernel[p] \in KernelPin
      BY <1>0, <1>2, <2>0
    <3>3. w \in KernelPin /\ w.direction = "out" /\ "off" \in Levels
      BY <3>2, OutputWritten
    <3> HIDE DEF w
    <3>4. /\ \A r \in Pins : r # p => kernel'[r] = kernel[r]
          /\ kernel'[p].direction = "out" /\ kernel'[p].level = "off"
      BY <3>1, <3>2, <3>3, PinWritten
    <3>5. monitors \ {p} \subseteq monitors' /\ ready \ {p} \subseteq ready'
      BY <1>6 DEF ConfigureOutput, Unmonitor
    <3> QED BY <3>4, <3>5
  \* Nobody listens to a pin that was just opened: who would has another.
  <2>4. gpios[p].listener = Null
    <3>1. \A j \in SetUpAt : config[j].kind = "gpioin" => config[j].pin # p
      BY <1>1, <2>0 DEF UsesIo
    <3> QED BY <1>0, <1>2, <2>0, <3>1 DEF Told, Listened
  <2> HIDE DEF q
  <2>5. Tells(k)'
    BY <1>0, <1>here, <1>3, <2>0, <2>2, <2>3 DEF Tells
  <2> QED BY <1>0, <1>3, <1>4, <2>0, <2>1, <2>2, <2>3, <2>4, <2>5
<1>7. CASE ConfigureSwitch
  <2>1. New.kind = "rcswitch" /\ UNCHANGED <<kernel, gpios, monitors, ready>>
        /\ attribute' = [attribute EXCEPT ![New.id] = "off"]
    BY <1>7 DEF ConfigureSwitch
  <2>2. ASSUME NEW j \in SetUpAt PROVE Tells(j)'
    <3>1. config[j].id \in Ids
      BY <2>2, SetUpAlive DEF Component
    <3> QED BY <1>0, <1>1, <2>1, <2>2, <3>1, StillTells
  <2>3. Tells(k)'
    BY <1>0, <1>here, <2>1 DEF Tells
  <2>4. Listened'
    BY <1>0, <2>1 DEF Listened, Told, IoPins
  <2>5. Opened'
    BY <1>0 DEF Opened
  <2> QED BY <1>0, <1>here, <2>2, <2>3, <2>4, <2>5 DEF Told
<1> QED BY <1>5, <1>6, <1>7 DEF Configure

\* What an input has changes: the kernel tells, since it was asked to.
LEMMA ToggleTells ==
  ASSUME GpioInv, Told, NEW p \in Pins, Toggle(p)
  PROVE  Told'
<1>0. /\ UNCHANGED <<pc, i, config, gpios, monitors, reopened, attribute>>
      /\ SetUpAt' = SetUpAt
      /\ kernel[p].direction = "in" /\ kernel \in [Pins -> KernelPin]
      /\ ready' = IF kernel[p].edge /\ p \in monitors THEN ready \cup {p} ELSE ready
  BY DEF Toggle, SetUpAt, GpioInv, Typed, TypeOK
<1>1. /\ \A r \in Pins : r # p => kernel'[r] = kernel[r]
      /\ kernel'[p].direction = "in" /\ kernel'[p].edge = kernel[p].edge
  BY <1>0 DEF Toggle, KernelPin
<1>2. ASSUME NEW j \in SetUpAt PROVE Tells(j)'
  <2>0. Tells(j) /\ (UsesIo(config[j]) => config[j].pin \in Pins)
    BY <1>2, SetUpAlive DEF Told, IoPins
  <2>1. CASE UsesIo(config[j]) => config[j].pin # p
    BY <1>0, <1>1, <2>0, <2>1, StillTells
  <2>2. CASE UsesIo(config[j]) /\ config[j].pin = p
    BY <1>0, <1>1, <2>0, <2>2 DEF Tells, Fed
  <2> QED BY <2>1, <2>2
<1>3. Listened'
  BY <1>0 DEF Listened, Told, IoPins
<1>4. Opened'
  <2>1. pc' = "configure" /\ UsesIo(New)' => New' = New /\ New.pin \in Pins /\ pc = "configure"
    <3>1. New' = New /\ (UsesIo(New)' <=> UsesIo(New)) /\ pc' = pc
      BY <1>0 DEF New, UsesIo
    <3>2. pc = "configure" /\ UsesIo(New) => New.pin \in Pins
      <4>1. pc = "configure" => i \in AliveAt
        BY ConfigFacts DEF AliveAt, GpioInv, Typed
      <4> QED BY <4>1, PinIsOpen DEF New
    <3> QED BY <3>1, <3>2
  <2>2. UsesIo(New)' <=> UsesIo(New)
    BY <1>0 DEF New, UsesIo
  <2>3. \A r \in Pins : /\ kernel'[r].direction = kernel[r].direction
                        /\ kernel'[r].edge = kernel[r].edge
                        /\ r \in ready => r \in ready'
    BY <1>0, <1>1
  <2> QED BY <1>0, <2>1, <2>2, <2>3 DEF Opened, Told, Fed
<1> QED BY <1>0, <1>2, <1>3, <1>4 DEF Told

\* What is ready is read: the input on it publishes what its pin has, and nobody else is
\* called.
LEMMA PollTells ==
  ASSUME GpioInv, Told, Poll
  PROVE  Told'
<1>0. /\ UNCHANGED <<kernel, pc, i, config, monitors, reopened>>
      /\ SetUpAt' = SetUpAt /\ pc = "loop"
      /\ Read(ready) /\ ready \subseteq monitors /\ ready' = {}
      /\ monitors = {r \in Pins : gpios[r].direction = "in"}
      /\ gpios \in [Pins -> OpenPin \cup {Closed, Locked}]
  BY DEF Poll, Read, SetUpAt, GpioInv, Typed, TypeOK, Counted
<1>1. /\ \A r \in Pins : gpios'[r].type = gpios[r].type
      /\ \A r \in Pins : gpios'[r].listener = gpios[r].listener
  <2>1. \A r \in Pins : gpios'[r] = IF r \in ready
                                    THEN [gpios[r] EXCEPT !.value = kernel[r].level] ELSE gpios[r]
    BY <1>0 DEF Read
  <2>2. \A r \in ready : r \in Pins /\ gpios[r] \in OpenPin
    BY <1>0 DEF Closed, Locked
  <2> QED BY <2>1, <2>2 DEF OpenPin
<1>2. ready \subseteq IoPins
  BY <1>0 DEF IoPins, OpenPin, Closed, Locked
\* The pin of which the listener is a component that is set up is that of an input.
<1>3. ASSUME NEW j \in SetUpAt, NEW r \in ready, gpios[r].listener = config[j].id
      PROVE  config[j].kind = "gpioin" /\ config[j].pin = r
  <2>1. config[j].id \in Ids /\ config[j].id # Null
    BY SetUpAlive, GpioAssumption DEF Component
  <2>2. PICK k \in SetUpAt : /\ config[k].kind = "gpioin" /\ config[k].pin = r
                             /\ config[k].id = gpios[r].listener
    BY <1>0, <1>2, <1>3, <2>1 DEF Told, Listened
  <2>3. j = k
    BY <1>3, <2>2, SetUpAlive DEF GpioInv, Held
  <2> QED BY <2>2, <2>3
<1>4. ASSUME NEW j \in SetUpAt PROVE Tells(j)'
  <2> DEFINE p == config[j].pin
  <2> DEFINE n == config[j].id
  <2>0. Tells(j) /\ n \in Ids /\ (UsesIo(config[j]) => p \in Pins)
    BY <1>4, SetUpAlive DEF Told, IoPins, Component
  <2>1. attribute'[n] = IF \E r \in ready : gpios[r].listener = n
                        THEN kernel[CHOOSE r \in ready : gpios[r].listener = n].level
                        ELSE attribute[n]
    BY <1>0, <2>0 DEF Read
  <2>2. CASE config[j].kind = "gpioin" /\ p \in ready
    <3>1. gpios[p].listener = n
      BY <2>0, <2>2 DEF Tells
    <3>2. (CHOOSE r \in ready : gpios[r].listener = n) = p
      BY <1>3, <2>2, <3>1
    <3>3. attribute'[n] = kernel'[p].level
      BY <1>0, <2>1, <2>2, <3>1, <3>2
    <3> QED BY <1>0, <1>1, <2>0, <2>2, <3>3 DEF Tells, UsesIo, Fed
  <2>3. CASE ~(config[j].kind = "gpioin" /\ p \in ready)
    <3>1. \A r \in ready : gpios[r].listener # n
      BY <1>3, <2>3
    <3>2. attribute'[n] = attribute[n]
      BY <2>1, <3>1
    <3>3. UsesIo(config[j]) => gpios'[p].listener = gpios[p].listener
      BY <1>1, <2>0
    <3> QED BY <1>0, <2>0, <2>3, <3>2, <3>3 DEF Tells, UsesIo, Fed
  <2> QED BY <2>2, <2>3
<1>5. Listened'
  <2>1. \A r \in IoPins' : r \in IoPins /\ gpios'[r].listener = gpios[r].listener
    BY <1>1 DEF IoPins
  <2> QED BY <1>0, <2>1 DEF Listened, Told
<1>6. Opened'
  BY <1>0 DEF Opened
<1> QED BY <1>0, <1>4, <1>5, <1>6 DEF Told

\* An output is driven and published; nothing else is.
LEMMA ActionTells ==
  ASSUME GpioInv, Told, NEW c \in Running, NEW l \in Levels, Action(c, l)
  PROVE  Told'
<1>0. /\ UNCHANGED <<pc, i, config, monitors, ready, reopened>>
      /\ SetUpAt' = SetUpAt /\ pc = "loop"
      /\ c.kind \in {"gpioout", "rcswitch"} /\ kernel \in [Pins -> KernelPin]
      /\ attribute' = [attribute EXCEPT ![c.id] = l]
      /\ attribute \in [Ids -> Levels \cup {Null}]
      /\ gpios \in [Pins -> OpenPin \cup {Closed, Locked}]
  BY DEF Action, SetUpAt, GpioInv, Typed, TypeOK
<1>1. PICK k \in SetUpAt : c = config[k]
  BY <1>0, ConfigFacts DEF Running, SetUpAt, GpioInv, Typed
<1>2. c.id \in Ids /\ (UsesIo(c) => c.pin \in IoPins /\ c.pin \in Pins /\ gpios[c.pin] \in OpenPin)
  BY <1>1, SetUpAlive, PinIsOpen DEF Component, IoPins
<1>3. /\ \A r \in Pins : (UsesIo(c) /\ r = c.pin) \/ kernel'[r] = kernel[r]
      /\ UsesIo(c) => kernel'[c.pin] = Driven(kernel[c.pin], l)
      /\ \A r \in Pins : gpios'[r].listener = gpios[r].listener /\ gpios'[r].type = gpios[r].type
  <2>1. CASE c.kind = "gpioout"
    BY <1>0, <1>2, <2>1 DEF Action, UsesIo, OpenPin
  <2>2. CASE c.kind # "gpioout"
    BY <1>0, <2>2 DEF Action, UsesIo
  <2> QED BY <2>1, <2>2
<1>4. ASSUME NEW j \in SetUpAt PROVE Tells(j)'
  <2>0. Tells(j) /\ config[j].id \in Ids /\ (UsesIo(config[j]) => config[j].pin \in Pins)
    BY <1>4, SetUpAlive DEF Told, IoPins, Component
  <2>1. CASE j = k
    <3>1. CASE c.kind = "gpioout"
      <4>1. c.pin \in Pins /\ kernel[c.pin] \in KernelPin /\ kernel[c.pin].direction = "out"
        BY <1>0, <1>1, <1>2, <2>0, <2>1, <3>1 DEF UsesIo, Tells
      <4>2. Driven(kernel[c.pin], l).direction = "out" /\ Driven(kernel[c.pin], l).level = l
        BY <4>1, PinWritten
      <4> QED BY <1>0, <1>1, <1>2, <1>3, <2>1, <3>1, <4>2 DEF Tells, UsesIo
    <3>2. CASE c.kind # "gpioout"
      BY <1>0, <1>1, <2>1, <3>2 DEF Tells
    <3> QED BY <3>1, <3>2
  <2>2. CASE j # k
    <3>1. config[j].id # c.id /\ (UsesIo(config[j]) /\ UsesIo(c) => config[j].pin # c.pin)
      BY <1>1, <2>2, SetUpAlive DEF GpioInv, Held
    <3> QED BY <1>0, <1>3, <2>0, <3>1, StillTells
  <2> QED BY <2>1, <2>2
<1>5. Listened'
  <2>1. \A r \in IoPins' : r \in IoPins /\ gpios'[r].listener = gpios[r].listener
    BY <1>3 DEF IoPins
  <2> QED BY <1>0, <2>1 DEF Listened, Told
<1>6. Opened'
  BY <1>0 DEF Opened
<1> QED BY <1>0, <1>4, <1>5, <1>6 DEF Told

\* Every step keeps it.
LEMMA ToldStep ==
  ASSUME GpioInv, Told, Exported, [Next]_gvars
  PROVE  Told'
<1>1. CASE Start
  <2>1. AliveAt = {} /\ IoPins = {} /\ IoPins' = IoPins
    <3>1. AliveAt = {}
      BY <1>1 DEF Start, AliveAt
    <3> QED BY <1>1, <3>1 DEF GpioInv, Held, Start, pins, IoPins
  <2>2. SetUpAt' = {} /\ pc' = "create"
    BY <1>1 DEF Start, SetUpAt
  <2> QED BY <2>1, <2>2 DEF Told, Listened, Opened
<1>2. CASE Create
  BY <1>2, CreateTells
<1>3. CASE Configure
  BY <1>3, ConfigureTells
<1>4. CASE Run \/ UNCHANGED gvars
  <2>1. /\ UNCHANGED <<kernel, i, config, gpios, monitors, ready, reopened, attribute>>
        /\ pc' = pc \/ (pc = "create" /\ pc' = "loop")
    BY <1>4 DEF Run, gvars, pins
  <2>2. SetUpAt' = SetUpAt
    BY <2>1 DEF SetUpAt
  <2>3. \A j \in SetUpAt : Tells(j)'
    BY <2>1 DEF Told, Tells, Fed
  <2>4. Listened' /\ Opened'
    BY <2>1, <2>2 DEF Told, Listened, Opened, IoPins, New, UsesIo, Fed
  <2> QED BY <2>2, <2>3, <2>4 DEF Told
<1>5. CASE \E p \in Pins : Toggle(p)
  BY <1>5, ToggleTells
<1>6. CASE Poll
  BY <1>6, PollTells
<1>7. CASE \E c \in Running, l \in Levels : Action(c, l)
  BY <1>7, ActionTells
<1>8. CASE Refused \/ Term \/ Destroy \/ Destroyed \/ Terminate \/ Crash
  BY <1>8, NobodyTells DEF Refused, Term, Destroy, Destroyed, Terminate, Crash
<1> QED BY <1>1, <1>2, <1>3, <1>4, <1>5, <1>6, <1>7, <1>8 DEF Next

\* A pin is exported before it is driven, and an input before it is exported no longer.
LEMMA ExportedStep ==
  ASSUME GpioInv, Exported, [Next]_gvars
  PROVE  Exported'
<1>0. kernel \in [Pins -> KernelPin] /\ gpios \in [Pins -> OpenPin \cup {Closed, Locked}]
      /\ Closed.type = "none" /\ Locked.type = "lock"
  BY DEF GpioInv, Typed, TypeOK, Closed, Locked
<1> SUFFICES ASSUME NEW p \in Pins
             PROVE  /\ gpios'[p].type = "io" => kernel'[p].exported
                    /\ kernel'[p].exported \/ kernel'[p].direction = "in"
  BY DEF Exported
<1>1. /\ kernel[p] \in KernelPin /\ kernel[p].direction \in {"in", "out"}
      /\ gpios[p].type = "io" => kernel[p].exported
      /\ kernel[p].exported \/ kernel[p].direction = "in"
  BY <1>0 DEF Exported, KernelPin
\* A step that leaves the pin as it is, or closed.
<1>2. CASE kernel'[p] = kernel[p] /\ (gpios'[p].type = gpios[p].type \/ gpios'[p].type # "io")
  BY <1>1, <1>2
<1>3. CASE Create
  <2>1. CASE UNCHANGED <<kernel, pins>>
    BY <1>2, <2>1 DEF pins
  <2>2. CASE IoOpen(New.pin)
    BY <1>0, <1>1, <2>2 DEF IoOpen, KernelPin
  <2>3. CASE LockOpen(New.pin)
    BY <1>0, <1>2, <2>3 DEF LockOpen
  <2> QED BY <1>3, <2>1, <2>2, <2>3 DEF Create
<1>4. CASE Configure
  <2> DEFINE w == [kernel[p] EXCEPT !.direction = "out", !.level = "off"]
  <2>1. CASE ConfigureInput \/ ConfigureSwitch
    <3>1. kernel' = kernel
      BY <2>1 DEF ConfigureInput, ConfigureSwitch
    <3>2. gpios'[p].type = gpios[p].type
      BY <1>0, <2>1 DEF ConfigureInput, ConfigureSwitch, OpenPin, Closed, Locked
    <3> QED BY <1>2, <3>1, <3>2
  <2>2. CASE ConfigureOutput /\ p # New.pin
    BY <1>0, <1>1, <2>2 DEF ConfigureOutput
  <2>3. CASE ConfigureOutput /\ p = New.pin
    <3>1. i \in AliveAt /\ UsesIo(config[i]) /\ p = config[i].pin
      BY <1>4, <2>3, ConfigFacts
      DEF Configure, ConfigureOutput, AliveAt, GpioInv, Typed, New, UsesIo
    <3>2. kernel[p].exported
      BY <1>1, <3>1 DEF GpioInv, Held, IoPins
    <3>3. w \in KernelPin /\ w.exported = kernel[p].exported /\ "off" \in Levels
      BY <1>1, OutputWritten
    <3>4. kernel'[p] = Driven(w, "off") \/ kernel'[p] = Driven(kernel[p], "off")
      BY <1>0, <2>3 DEF ConfigureOutput
    <3> HIDE DEF w
    <3>5. /\ Driven(w, "off").exported = w.exported
          /\ Driven(kernel[p], "off").exported = kernel[p].exported
      BY <1>1, <3>3, PinWritten
    <3>6. kernel'[p].exported
      BY <3>2, <3>3, <3>4, <3>5
    <3> QED BY <3>6
  <2> QED BY <1>4, <2>1, <2>2, <2>3 DEF Configure
<1>5. ASSUME NEW q \in Pins, Toggle(q) PROVE Exported'
  <2>1. gpios' = gpios /\ \A r \in Pins : /\ kernel'[r].exported = kernel[r].exported
                                      /\ kernel'[r].direction = kernel[r].direction
    BY <1>0, <1>5 DEF Toggle, KernelPin
  <2> QED BY <2>1 DEF Exported
<1>6. CASE Poll \/ Term
  <2>1. kernel' = kernel /\ \E S \in SUBSET monitors : Read(S)
    BY <1>6 DEF Poll, Term, GpioInv, Typed, TypeOK
  <2>2. gpios'[p].type = gpios[p].type
    BY <2>1, ReadKeeps
  <2> QED BY <1>2, <2>1, <2>2
<1>7. ASSUME NEW c \in Running, NEW l \in Levels, Action(c, l) PROVE Exported'
  <2> SUFFICES ASSUME NEW r \in Pins
               PROVE  /\ gpios'[r].type = "io" => kernel'[r].exported
                      /\ kernel'[r].exported \/ kernel'[r].direction = "in"
    BY DEF Exported
  <2>1. /\ kernel[r] \in KernelPin
        /\ gpios[r].type = "io" => kernel[r].exported
        /\ kernel[r].exported \/ kernel[r].direction = "in"
    BY <1>0 DEF Exported
  <2>2. kernel'[r] = kernel[r] \/ kernel'[r] = Driven(kernel[r], l)
    BY <1>0, <1>7 DEF Action
  <2>3. gpios'[r].type = gpios[r].type
    BY <1>0, <1>7 DEF Action, OpenPin, Closed, Locked
  <2> QED BY <2>1, <2>2, <2>3, PinWritten
<1>8. CASE Destroy
  <2>1. CASE UNCHANGED <<kernel, pins>>
    BY <1>2, <2>1 DEF pins
  <2>2. CASE LockClose(shared.pin)
    BY <1>0, <1>2, <2>2 DEF LockClose
  <2>3. CASE IoClose(New.pin)
    <3>1. CASE p = New.pin
      BY <1>0, <1>1, <2>3, <3>1, PinClosed DEF IoClose
    <3>2. CASE p # New.pin
      BY <1>0, <1>2, <2>3, <3>2 DEF IoClose
    <3> QED BY <3>1, <3>2
  <2> QED BY <1>8, <2>1, <2>2, <2>3 DEF Destroy, Release
<1>9. CASE Refused \/ Crash
  BY <1>0, <1>2, <1>9 DEF Refused, Crash, Empty
<1>10. CASE Start \/ Run \/ Destroyed \/ Terminate \/ UNCHANGED gvars
  BY <1>2, <1>10 DEF Start, Run, Destroyed, Terminate, gvars, pins
<1>11. (\E q \in Pins : Toggle(q)) \/ (\E c \in Running, l \in Levels : Action(c, l)) => Exported'
  BY <1>5, <1>7
<1> QED BY <1>3, <1>4, <1>6, <1>8, <1>9, <1>10, <1>11 DEF Next, Exported

\* What components publish is true, or will be read: GpioInv with what was told.
THEOREM ToldInductive == Spec => [](GpioInv /\ Exported /\ Told)
<1>1. Init => GpioInv /\ Exported /\ Told
  <2>1. ASSUME Init PROVE Told /\ Exported
    BY <2>1 DEF Init, Told, SetUpAt, Listened, Opened, Exported, Closed
  <2> QED BY <2>1, GpioBegins
<1>2. GpioInv /\ Exported /\ Told /\ [Next]_gvars => (GpioInv /\ Exported /\ Told)'
  BY GpioStep, ExportedStep, ToldStep
<1> QED BY <1>1, <1>2, PTL DEF Spec

\* When the loop runs every place of the configuration is set up.
LEMMA AllSetUp ==
  ASSUME GpioInv, pc = "loop"
  PROVE  \A c \in Running : \E j \in SetUpAt : c = config[j]
BY ConfigFacts DEF GpioInv, Typed, SetUpAt, Running

\* comp_gpioout.c: what an output publishes is what its pin does.
THEOREM OutputsAreTrue == Spec => []OutputsTrue
<1>1. GpioInv /\ Told => OutputsTrue
  BY AllSetUp DEF Told, Tells, OutputsTrue
<1> QED BY <1>1, ToldInductive, PTL

\* comp_gpioin.c, gpio_io.c: what an input publishes is what its pin has, or is about to be
\* read.
THEOREM NoEdgeLost == Spec => []EdgesKept
<1>1. GpioInv /\ Told => EdgesKept
  BY AllSetUp DEF Told, Tells, EdgesKept, Fed
<1> QED BY <1>1, ToldInductive, PTL

=============================================================================
