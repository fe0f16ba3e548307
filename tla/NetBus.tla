------------------------------- MODULE NetBus -------------------------------
(***************************************************************************)
(* The bus of the core: an attribute that is set runs its links, a link    *)
(* runs an action of its destination, and the plugin behind the action     *)
(* sets attributes in turn (netobject.js, links.js, plugins/*.js).  All of *)
(* it is done depth first in the stack of one event, which is modelled as  *)
(* what is left to do.  Events are nicks of hardware, and messages of      *)
(* users to plugins.                                                       *)
(*                                                                         *)
(* Links are what the designer lets a user draw, cycles included.  All     *)
(* attributes are booleans; a nick holds a value of its type.              *)
(*                                                                         *)
(* A definition introduced as a slip is a wrong variant of the next one.   *)
(***************************************************************************)
EXTENDS Naturals, Sequences, FiniteSets

CONSTANTS
  Hardware,     \* each with the attribute value, and some with the action setvalue
  Plugins,      \* each with the attribute output
  Kind,         \* the type of each plugin
  LinkChoices,  \* sets of links, as sequences in order of creation
  On, Off,
  Null,         \* value of hardware that is off line
  Current,      \* no value given with an event
  MaxDepth,     \* the size of the stack
  MaxMoves      \* bound on the events

Kinds == {"hub", "switch", "button", "relay"}

Values == {On, Off, Null}

\* The actions of a plugin, with their number of arguments.
Arity(k) ==
  CASE k = "relay"  -> [input |-> 1, on |-> 1, off |-> 1]
    [] k = "button" -> [input |-> 0]
    [] OTHER        -> [input |-> 1]

Components == Hardware \cup Plugins

Link == [source : Components, destination : Components,
         action : {"setvalue", "input", "on", "off"}]

ASSUME BusAssumption ==
  /\ Hardware \cap Plugins = {} /\ IsFiniteSet(Plugins)
  /\ Kind \in [Plugins -> Kinds]
  /\ On # Off /\ Null \notin {On, Off} /\ Current \notin Values
  /\ LinkChoices \subseteq Seq(Link)
  /\ \A choice \in LinkChoices : \A j \in DOMAIN choice :
       \/ choice[j].destination \in Hardware /\ choice[j].action = "setvalue"
       \/ /\ choice[j].destination \in Plugins
          /\ choice[j].action \in DOMAIN Arity(Kind[choice[j].destination])
  /\ MaxDepth \in Nat
  /\ MaxMoves \in Nat

VARIABLES
  links,   \* the links, which do not change
  up,      \* the core runs
  value,   \* the attribute of each component
  nick,    \* of each plugin, the value in the nick last sent
  orders,  \* of each hardware, the last order sent
  stack,   \* what is left to do for the event
  root,    \* the kind of event: what throws is caught in a message, not in a nick
  told,    \* observed only: the last value each link gave, Current if it gave none
  thrown,  \* observed only: since it started, something threw
  moves

bvars == <<links, up, value, nick, orders, stack, root, told, thrown, moves>>

\* What is left to do; of an event that is emitted, after which listener.
Frame == [do : {"set", "emit", "announce"}, comp : Components,
          value : Values \cup {Current}, at : Nat]

SetTo(c, v) == [do |-> "set", comp |-> c, value |-> v, at |-> 0]
Emit(c, v) == [do |-> "emit", comp |-> c, value |-> v, at |-> 0]
Announce(c, v) == [do |-> "announce", comp |-> c, value |-> v, at |-> 0]

\* Types.
TypeOK ==
  /\ links \in LinkChoices
  /\ up \in BOOLEAN
  /\ value \in [Components -> Values]
  /\ nick \in [Plugins -> Values]
  /\ orders \in [Hardware -> Values \cup {Current}]
  /\ stack \in Seq(Frame)
  /\ \A j \in DOMAIN stack : stack[j].do = "set" => stack[j].value # Current
  /\ root \in {"nick", "message"}
  /\ told \in [DOMAIN links -> Values \cup {Current}]
  /\ thrown \in BOOLEAN
  /\ moves \in 0 .. MaxMoves

AtStart == [c \in Components |-> IF c \in Plugins THEN Off ELSE Null]

Init ==
  /\ links \in LinkChoices
  /\ up = TRUE
  /\ value = AtStart
  /\ nick = [p \in Plugins |-> Off]
  /\ orders = [h \in Hardware |-> Current]
  /\ stack = <<>> /\ root = "nick"
  /\ told = [j \in DOMAIN links |-> Current]
  /\ thrown = FALSE
  /\ moves = 0

-----------------------------------------------------------------------------
(* Links and plugins                                                       *)

\* A slip: a link is run by either end.
ListenersEither(c, n) ==
  {j \in DOMAIN links : n < j /\ c \in {links[j].source, links[j].destination}}

\* The links that listen to a component, after the n-th link.
Listeners(c, n) == {j \in DOMAIN links : n < j /\ links[j].source = c}

\* What each type of plugin does on an action.
Effects(p, a, v) ==
  CASE Kind[p] = "hub" -> <<SetTo(p, v)>>
    [] Kind[p] \in {"switch", "button"} -> <<SetTo(p, On), SetTo(p, Off)>>
    [] a = "input" /\ v = On -> <<SetTo(p, IF value[p] = On THEN Off ELSE On)>>
    [] a = "on" /\ v = On /\ value[p] # On -> <<SetTo(p, On)>>
    [] a = "off" /\ v = On /\ value[p] # Off -> <<SetTo(p, Off)>>
    [] OTHER -> <<>>

\* An exception.  The message handler of a plugin catches it; nothing else does, and
\* the process ends.
Throw ==
  /\ stack' = <<>>
  /\ thrown' = TRUE
  /\ up' = (root = "message")

\* Goes on with frames, then rest, if the stack can hold them.
Continue(frames, rest) ==
  IF Len(frames) + Len(rest) > MaxDepth
  THEN Throw
  ELSE stack' = frames \o rest /\ UNCHANGED <<thrown, up>>

Doing(what) == up /\ stack # <<>> /\ Head(stack).do = what

\* setAttribute: the links run, then the nick of a plugin is sent.
SetAttribute ==
  /\ Doing("set")
  /\ LET f == Head(stack) IN
       /\ value' = [value EXCEPT ![f.comp] = f.value]
       /\ Continue(<<Emit(f.comp, f.value)>>
                     \o (IF f.comp \in Plugins
                         THEN <<Announce(f.comp, f.value)>> ELSE <<>>),
                   Tail(stack))
  /\ UNCHANGED <<links, nick, orders, root, told, moves>>

\* The handler of a link: executeAction with one argument.  Links run in the order of
\* their creation.
RunLink ==
  /\ Doing("emit")
  /\ LET f == Head(stack)
         v == IF f.value = Current THEN value[f.comp] ELSE f.value
     IN \E j \in Listeners(f.comp, f.at) :
       LET l == links[j]
           rest == <<[f EXCEPT !.at = j]>> \o Tail(stack)
       IN
         /\ \A i \in Listeners(f.comp, f.at) : j <= i
         /\ told' = [told EXCEPT ![j] = v]
         /\ IF l.destination \in Hardware
            THEN /\ orders' = [orders EXCEPT ![l.destination] = v]
                 /\ stack' = rest
                 /\ UNCHANGED <<thrown, up>>
            ELSE /\ UNCHANGED orders
                 /\ IF Arity(Kind[l.destination])[l.action] = 1
                    THEN Continue(Effects(l.destination, l.action, v), rest)
                    ELSE Throw
  /\ UNCHANGED <<links, value, nick, root, moves>>

Emitted ==
  /\ Doing("emit") /\ Listeners(Head(stack).comp, Head(stack).at) = {}
  /\ stack' = Tail(stack)
  /\ UNCHANGED <<links, up, value, nick, orders, root, told, thrown, moves>>

\* A slip: the nick holds the value of the event.
AttributeChangedGiven ==
  /\ Doing("announce")
  /\ nick' = [nick EXCEPT ![Head(stack).comp] = Head(stack).value]
  /\ stack' = Tail(stack)
  /\ UNCHANGED <<links, up, value, orders, root, told, thrown, moves>>

\* attributeChanged: the nick holds the value of now.
AttributeChanged ==
  /\ Doing("announce")
  /\ nick' = [nick EXCEPT ![Head(stack).comp] = value[Head(stack).comp]]
  /\ stack' = Tail(stack)
  /\ UNCHANGED <<links, up, value, orders, root, told, thrown, moves>>

-----------------------------------------------------------------------------
(* Events                                                                  *)

Rest == up /\ stack = <<>>

Event(r, frames) ==
  /\ Rest
  /\ moves < MaxMoves /\ moves' = moves + 1
  /\ root' = r
  /\ stack' = frames
  /\ UNCHANGED <<links, up, nick, orders, told, thrown>>

\* nickChanged.
Change(h, v) == value[h] # Null /\ Event("nick", <<SetTo(h, v)>>) /\ UNCHANGED value

\* nickOnline: the attributes are set, then connected runs the links again.
Online(h, v) ==
  /\ value[h] = Null
  /\ Event("nick", <<SetTo(h, v), Emit(h, Current)>>)
  /\ UNCHANGED value

\* A slip: the attributes are emptied behind the back of their links.
OfflineSilent(h) ==
  /\ value[h] # Null
  /\ Event("nick", <<>>)
  /\ value' = [value EXCEPT ![h] = Null]

\* nickOffline.
Offline(h) ==
  /\ value[h] # Null
  /\ Event("nick", <<SetTo(h, Null)>>)
  /\ UNCHANGED value

\* message: a user's action with the right number of arguments.  (With another number
\* it is refused with a notice.)
Message(p, a, v) == Event("message", Effects(p, a, v)) /\ UNCHANGED value

\* The process that ended is started again.
Restart ==
  /\ ~up
  /\ up' = TRUE
  /\ value' = AtStart
  /\ nick' = [p \in Plugins |-> Off]
  /\ orders' = [h \in Hardware |-> Current]
  /\ told' = [j \in DOMAIN links |-> Current]
  /\ thrown' = FALSE
  /\ UNCHANGED <<links, stack, root, moves>>

-----------------------------------------------------------------------------
Next ==
  \/ SetAttribute \/ RunLink \/ Emitted \/ AttributeChanged
  \/ \E h \in Hardware, v \in {On, Off} : Change(h, v)
  \/ \E h \in Hardware, v \in {On, Off} : Online(h, v)
  \/ \E h \in Hardware : Offline(h)
  \/ \E p \in Plugins, v \in {On, Off} :
       \E a \in DOMAIN Arity(Kind[p]) : Message(p, a, v)
  \/ Restart

Spec == Init /\ [][Next]_bvars

-----------------------------------------------------------------------------
(* Properties                                                              *)

\* No plugin drives itself, through others or not.
Acyclic ==
  \E rank \in [Plugins -> 1 .. Cardinality(Plugins)] :
    \A j \in DOMAIN links :
      {links[j].source, links[j].destination} \subseteq Plugins =>
        rank[links[j].source] < rank[links[j].destination]

\* At rest the nick of a plugin says what its attribute is, even if the attribute was
\* set again while its links ran (a cycle), unless something threw.
NickIsValue == Rest /\ ~thrown => \A p \in Plugins : nick[p] = value[p]

\* At rest the last word of each link is the value of its source; a link that said
\* nothing has a source that was not touched.  In a cycle an outer run of the links
\* gives the older value last (links.js:19-26), so this is for graphs without one.
LinksTold ==
  Rest /\ ~thrown /\ Acyclic =>
    \A j \in DOMAIN links :
      LET c == links[j].source IN
        told[j] = value[c] \/ (told[j] = Current /\ value[c] = AtStart[c])

\* Without a cycle an event leaves at most three calls to return from for each plugin
\* it reaches and two of its own, however many links there are.
StackIsSmall == Acyclic /\ ~thrown => Len(stack) <= 3 * Cardinality(Plugins) + 2

\* Without a cycle nothing overflows the stack, and the core lives.
SafeIfAcyclic ==
  (Acyclic /\ \A j \in DOMAIN links :
                links[j].destination \in Plugins => Kind[links[j].destination] # "button")
    => up /\ ~thrown

=============================================================================
