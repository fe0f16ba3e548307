---------------------------- MODULE HardwareMirror ----------------------------
(***************************************************************************)
(* What the core knows of the components of other hosts.  A component of   *)
(* the daemon (net_repository.c) is an IRC client whose nick holds its id  *)
(* and the values of its attributes; the watcher of the core               *)
(* (netobject.js) is one IRC client that listens on their channel and      *)
(* copies the nicks into the objects of the hardware added to the core.    *)
(*                                                                         *)
(* The server and the two client libraries are modelled from their use:    *)
(* the server sends the watcher, in order, what happens on the channel     *)
(* while the watcher is on it, and a lost connection loses the tail.       *)
(* A definition introduced as a slip is a wrong variant of the next one.   *)
(* All hardware is published on one channel (hardware.js:13).  The values  *)
(* of a component are one value here.  Actions sent to a component change  *)
(* nothing of this state but through its nick (SetAttribute).              *)
(***************************************************************************)
EXTENDS Naturals, Sequences, FiniteSets

CONSTANTS
  Hardware,        \* ids of components
  Values,          \* what the nick of a component says of its attributes
  Null,            \* the value of an attribute not known
  NamesGivesArray, \* 'names' hands over an array of nicks, as netobject.js
                   \* reads it; FALSE: an object keyed by nick, as gateway.js
                   \* reads it, whose length is undefined
  MaxMoves         \* bound on what users, hosts and the network do

ASSUME MirrorAssumption ==
  /\ Null \notin Values
  /\ IsFiniteSet(Hardware)
  /\ NamesGivesArray \in BOOLEAN
  /\ MaxMoves \in Nat

Maybe == Values \cup {Null}

Messages ==
  [type : {"join", "nick"}, id : Hardware, value : Values]
    \cup [type : {"quit", "kick"}, id : Hardware]
    \cup [type : {"names"}, nicks : [Hardware -> Maybe]]
    \cup [type : {"registered", "closed"}]

VARIABLES
  objects,   \* the watcher's table of objects: the ids published
  channels,  \* the watcher's count of users of the channel
  watcher,   \* the watcher exists
  online,    \* the watcher's flag
  mirror,    \* the attribute values of each object in the core
  conn,      \* the watcher's connection: "none", being made, or registered
  asked,     \* the watcher sent JOIN on this connection
  joined,    \* the server holds the watcher as a member of the channel
  inbox,     \* sent by the server, not yet handled by the watcher
  comp,      \* each component: off, connecting, on the channel, kicked off it
  nick,      \* what the nick of a component says
  moves      \* moves done so far

coreSide == <<objects, channels, watcher, online, mirror>>
wire     == <<conn, asked, joined, inbox>>
hosts    == <<comp, nick>>
mvars    == <<coreSide, wire, hosts, moves>>

\* Types, and a count of the channel that never exceeds the hardware there is
\* (netobject.js, addChannel and removeChannel).
TypeOK ==
  /\ objects \subseteq Hardware
  /\ channels \in 0 .. Cardinality(Hardware)
  /\ watcher \in BOOLEAN
  /\ online \in BOOLEAN
  /\ mirror \in [Hardware -> Maybe]
  /\ conn \in {"none", "out", "in"}
  /\ asked \in BOOLEAN
  /\ joined \in BOOLEAN
  /\ inbox \in Seq(Messages)
  /\ comp \in [Hardware -> {"off", "connecting", "here", "kicked"}]
  /\ nick \in [Hardware -> Maybe]
  /\ moves \in 0 .. MaxMoves

Dark == [h \in Hardware |-> Null]

Init ==
  /\ objects = {}
  /\ channels = 0
  /\ watcher = FALSE
  /\ online = FALSE
  /\ mirror = Dark
  /\ conn = "none"
  /\ asked = FALSE
  /\ joined = FALSE
  /\ inbox = <<>>
  /\ comp = [h \in Hardware |-> "off"]
  /\ nick = Dark
  /\ moves = 0

Move == moves < MaxMoves /\ moves' = moves + 1

-----------------------------------------------------------------------------
(* Publishing hardware: publishRemote and its destroy                      *)

\* A new watcher opens its connection; an old one is used as it is.
LoadWatcher ==
  /\ watcher' = TRUE
  /\ conn' = IF watcher THEN conn ELSE "out"

\* Only the first user of a channel makes the watcher join it.
AddChannel ==
  /\ channels' = channels + 1
  /\ asked' = (asked \/ (channels = 0 /\ online /\ conn = "in"))

Publish(h) ==
  /\ Move
  /\ h \notin objects
  /\ LoadWatcher
  /\ AddChannel
  /\ objects' = objects \cup {h}
  /\ UNCHANGED <<online, mirror, joined, inbox, hosts>>

\* removeChannel: one user of the channel less...
UsersLeft == IF channels > 1 THEN channels - 1 ELSE 0

\* A slip: every user that goes leaves the channel for all.
PartsEarly == online

\* ... and the last one leaves it.
Parts == channels <= 1 /\ online

\* The object is forgotten; the last one takes the watcher and its connection
\* with it, and nobody hears what that connection still receives.
Unpublish(h) ==
  /\ Move
  /\ h \in objects
  /\ objects' = objects \ {h}
  /\ mirror' = [mirror EXCEPT ![h] = Null]
  /\ channels' = UsersLeft
  /\ \/ /\ objects' # {}
        /\ asked' = (asked /\ ~Parts)
        /\ joined' = (joined /\ ~Parts)
        /\ UNCHANGED <<watcher, online, conn, inbox>>
     \/ /\ objects' = {}
        /\ watcher' = FALSE
        /\ online' = FALSE
        /\ conn' = "none"
        /\ asked' = FALSE
        /\ joined' = FALSE
        /\ inbox' = <<>>
  /\ UNCHANGED hosts

-----------------------------------------------------------------------------
(* The server and the network                                              *)

Closing == \E i \in DOMAIN inbox : inbox[i].type = "closed"

\* The library connects again once the end of the last connection is dealt with.
Register ==
  /\ conn = "out"
  /\ ~Closing
  /\ conn' = "in"
  /\ inbox' = Append(inbox, [type |-> "registered"])
  /\ UNCHANGED <<coreSide, asked, joined, hosts, moves>>

Drop ==
  /\ Move
  /\ conn = "in"
  /\ conn' = "out"
  /\ asked' = FALSE
  /\ joined' = FALSE
  /\ \E received \in 0 .. Len(inbox) :
       inbox' = Append(SubSeq(inbox, 1, received), [type |-> "closed"])
  /\ UNCHANGED <<coreSide, hosts>>

Here(h) == comp[h] = "here"

\* The server answers JOIN with the nicks of those that are on the channel.
ServerJoin ==
  /\ asked
  /\ ~joined
  /\ joined' = TRUE
  /\ inbox' = Append(inbox, [type  |-> "names",
                             nicks |-> [h \in Hardware |-> IF Here(h) THEN nick[h] ELSE Null]])
  /\ UNCHANGED <<coreSide, conn, asked, hosts, moves>>

\* What happens on the channel reaches the watcher if it is on it.
Tell(message) ==
  /\ inbox' = IF joined THEN Append(inbox, message) ELSE inbox
  /\ UNCHANGED <<coreSide, conn, asked, joined>>

-----------------------------------------------------------------------------
(* A component of a host: net_repository.c                                 *)

\* local_register: the nick is made of the values of the moment.
Connect(h) ==
  /\ Move
  /\ comp[h] = "off"
  /\ comp' = [comp EXCEPT ![h] = "connecting"]
  /\ \E v \in Values : nick' = [nick EXCEPT ![h] = v]
  /\ UNCHANGED <<coreSide, wire>>

\* local_event_connect joins the channel.
Join(h) ==
  /\ comp[h] = "connecting"
  /\ comp' = [comp EXCEPT ![h] = "here"]
  /\ Tell([type |-> "join", id |-> h, value |-> nick[h]])
  /\ UNCHANGED <<nick, moves>>

\* local_attribute_changed: a new nick, told to those who share the channel.  A
\* change before the connection is made sends nothing: the nick stays as it was.
SetAttribute(h) ==
  /\ Move
  /\ comp[h] \in {"here", "kicked"}
  /\ \E v \in Values \ {nick[h]} :
       /\ nick' = [nick EXCEPT ![h] = v]
       /\ IF Here(h) THEN Tell([type |-> "nick", id |-> h, value |-> v])
                     ELSE UNCHANGED <<coreSide, wire>>
  /\ UNCHANGED comp

\* The component is unregistered, or its daemon ends: with the connection of
\* one session (irc_assert) or in any other way.  There is no reconnection.
Quit(h) ==
  /\ Move
  /\ comp[h] # "off"
  /\ comp' = [comp EXCEPT ![h] = "off"]
  /\ nick' = [nick EXCEPT ![h] = Null]
  /\ IF Here(h) THEN Tell([type |-> "quit", id |-> h])
                ELSE UNCHANGED <<coreSide, wire>>

\* Nothing in the daemon joins again after a kick.  Nobody kicks the watcher.
Kick(h) ==
  /\ Move
  /\ Here(h)
  /\ comp' = [comp EXCEPT ![h] = "kicked"]
  /\ Tell([type |-> "kick", id |-> h])
  /\ UNCHANGED nick

-----------------------------------------------------------------------------
(* The watcher's handlers, on the oldest message                           *)

Handle(types) ==
  /\ inbox # <<>>
  /\ Head(inbox).type \in types
  /\ inbox' = Tail(inbox)
  /\ UNCHANGED <<objects, channels, watcher, conn, joined, hosts, moves>>

\* Once registered, the channels in use are joined.
HandleRegistered ==
  /\ Handle({"registered"})
  /\ online' = TRUE
  /\ asked' = (channels > 0 /\ conn = "in")
  /\ UNCHANGED mirror

\* nickOnline and nickChanged: the values of an object the watcher knows.
SetAttributes(h, v) == IF h \in objects THEN [mirror EXCEPT ![h] = v] ELSE mirror

\* A slip: only a join is listened to.
NickIgnored ==
  /\ Handle({"join", "nick"})
  /\ LET m == Head(inbox) IN
     mirror' = IF m.type = "join" THEN SetAttributes(m.id, m.value) ELSE mirror
  /\ UNCHANGED <<online, asked>>

HandleNick ==
  /\ Handle({"join", "nick"})
  /\ LET m == Head(inbox) IN mirror' = SetAttributes(m.id, m.value)
  /\ UNCHANGED <<online, asked>>

\* nickOffline, for 'quit' and 'kick' alike.
HandleOffline ==
  /\ Handle({"quit", "kick"})
  /\ mirror' = SetAttributes(Head(inbox).id, Null)
  /\ UNCHANGED <<online, asked>>

\* nickOnline for each nick, if there is something to count.
HandleNames ==
  /\ Handle({"names"})
  /\ mirror' = IF NamesGivesArray
                 THEN [h \in Hardware |->
                        IF h \in objects /\ Head(inbox).nicks[h] # Null
                          THEN Head(inbox).nicks[h] ELSE mirror[h]]
                 ELSE mirror
  /\ UNCHANGED <<online, asked>>

\* A slip: the values outlive the connection they came by.
ClosedQuietly ==
  /\ Handle({"closed"})
  /\ online' = FALSE
  /\ UNCHANGED <<mirror, asked>>

\* connectionClosed: every object goes off line, once.
HandleClosed ==
  /\ Handle({"closed"})
  /\ online' = FALSE
  /\ mirror' = IF online THEN Dark ELSE mirror
  /\ UNCHANGED asked

-----------------------------------------------------------------------------
Watcher == HandleRegistered \/ HandleNick \/ HandleOffline \/ HandleNames \/ HandleClosed

Next ==
  \/ \E h \in Hardware : Publish(h) \/ Unpublish(h)
  \/ Register \/ Drop \/ ServerJoin
  \/ \E h \in Hardware : Connect(h) \/ Join(h) \/ SetAttribute(h) \/ Quit(h) \/ Kick(h)
  \/ Watcher

Spec == Init /\ [][Next]_mvars

-----------------------------------------------------------------------------
(* Properties                                                              *)

\* A core cut off from the server believes nothing: connectionClosed, and a
\* new object of publish, leave no value that nobody would take back.
DarkWhenOffline == ~online => mirror = Dark

\* As long as one hardware is published, a registered watcher is on the channel
\* or on its way: neither addChannel/removeChannel by several objects nor a
\* reconnection between two of them leaves it deaf.
Listening == (objects # {} /\ online /\ conn = "in" /\ ~Closing) => asked

\* No ghosts: a watcher that has handled all it was sent shows no value but the
\* one the component's nick has now, and none for a component that left, was
\* kicked, or changed while the watcher was away.
CaughtUp == inbox = <<>> =>
              \A h \in Hardware : mirror[h] # Null => Here(h) /\ mirror[h] = nick[h]

-----------------------------------------------------------------------------
(* The strengthening that makes the three inductive                        *)

\* What only a member of the channel is sent.
ChannelTypes == {"join", "nick", "quit", "kick", "names"}

\* The order of a connection: it registers, then talks, then closes, and the
\* next one waits for that.  What the watcher believes of its connection is what
\* the connection was before the messages still to be handled.
InOrder ==
  /\ joined => asked
  /\ asked => online /\ conn = "in"
  /\ conn = "in" => ~Closing
  /\ conn # "in" /\ ~Closing => ~online /\ inbox = <<>>
  /\ \A i \in DOMAIN inbox :
       /\ inbox[i].type = "closed" => i = Len(inbox)
       /\ inbox[i].type = "registered" => ~online /\ i = 1
       /\ inbox[i].type \in ChannelTypes => online

\* The channel is counted once for each object.
Counted ==
  /\ channels = Cardinality(objects)
  /\ watcher <=> objects # {}
  /\ watcher <=> conn # "none"
  /\ conn = "none" => ~Closing

\* Only objects of the core have values.
Known == \A h \in Hardware : mirror[h] # Null => h \in objects

Named == \A h \in Hardware : comp[h] # "off" => nick[h] \in Values

\* The messages that say something of h, and the value they leave.
Tells(m, h) ==
  \/ m.type \in {"join", "nick", "quit", "kick"} /\ m.id = h
  \/ m.type = "names" /\ NamesGivesArray /\ m.nicks[h] # Null
  \/ m.type = "closed"

Left(m, h) ==
  IF m.type \in {"join", "nick"} THEN m.value
  ELSE IF m.type = "names" THEN m.nicks[h] ELSE Null

Told(h) == {i \in DOMAIN inbox : Tells(inbox[i], h)}

\* A value that the watcher will show when the inbox is empty is the component's.
Stands(h, v) == v # Null => joined /\ Here(h) /\ nick[h] = v

TrueAtLast ==
  \A h \in Hardware :
    /\ Told(h) = {} => Stands(h, mirror[h])
    /\ \A i \in Told(h) : (\A j \in Told(h) : j <= i) => Stands(h, Left(inbox[i], h))

\* All of it, an invariant on its own: each of the above as the code's handlers
\* need it to hold before and after every one of them.
MirrorInv ==
  /\ TypeOK /\ InOrder /\ Counted /\ Known /\ Named
  /\ DarkWhenOffline /\ Listening /\ TrueAtLast
=============================================================================
