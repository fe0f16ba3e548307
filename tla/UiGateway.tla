----------------------------- MODULE UiGateway -----------------------------
(***************************************************************************)
(* What a browser of the ui shows of the components on its channel.  For   *)
(* each browser the server has an irc client of its own, whose events it   *)
(* passes on through the browser's socket (gateway.js); the browser keeps  *)
(* the attributes of every nick (public/app/net.js).  Irc connection and   *)
(* socket come and go, each without the other.                             *)
(*                                                                         *)
(* A component that comes back before the server has noticed that it left  *)
(* has two nicks for a time, with other values.                            *)
(*                                                                         *)
(* The nicks of gateways have no attributes.  Of these the module keeps    *)
(* the one of the browser's own gateway, not those of other browsers or of *)
(* its sockets before.                                                     *)
(*                                                                         *)
(* A definition introduced as a slip is a wrong variant of the next one.   *)
(***************************************************************************)
EXTENDS Naturals, Sequences, FiniteSets, SequencesExt

CONSTANTS
  Ids,      \* the components of the ui channel
  Self,     \* the id of the gateway's own nick, which the browser shows as well
  Values,   \* values of the attributes of a component, as a whole
  Absent,   \* no component; no value
  MaxMoves  \* bound on what components, networks and servers do

ASSUME UiAssumption ==
  /\ Self \notin Ids
  /\ Absent \notin Values
  /\ IsFiniteSet([id : Ids, value : Values])
  /\ MaxMoves \in Nat

VARIABLES
  present,    \* the nicks of components on the channel
  gateway,    \* the irc client of the last socket: none, joining or joined
  inbox,      \* what the irc server sent and the gateway did not handle
  socket,     \* the browser's socket is open
  wire,       \* what the gateway emitted and the browser did not handle
  net,        \* the browser: the attributes of each id
  connected,  \* the browser: connected
  doubled,    \* observed only: ids that had two nicks since the gateway joined
  moves

uvars == <<present, gateway, inbox, socket, wire, net, connected, doubled, moves>>

Nick == [id : Ids, value : Values]
SelfNick == [id |-> Self, value |-> Absent]
AnyNick == Nick \cup {SelfNick}

Message(k, n) == [kind |-> k, nick |-> n]

\* Types.
TypeOK ==
  /\ present \subseteq Nick
  /\ gateway \in {"none", "joining", "joined"}
  /\ \A j \in DOMAIN inbox :
       inbox[j].kind \in {"join", "part", "nick", "names", "close"}
  /\ socket \in BOOLEAN
  /\ \A j \in DOMAIN wire :
       /\ wire[j].kind \in {"join", "part", "changed", "partall", "disconnect"}
       /\ wire[j].nick \in AnyNick
  /\ net \in [Ids \cup {Self} -> Values \cup {Absent, SelfNick}]
  /\ connected \in BOOLEAN
  /\ doubled \subseteq Ids
  /\ moves \in 0 .. MaxMoves

\* The page is loaded; its socket is not yet open.
Init ==
  /\ present \in {S \in SUBSET Nick : \A a, b \in S : a.id = b.id => a = b}
  /\ gateway = "none" /\ inbox = <<>>
  /\ socket = FALSE /\ wire = <<>>
  /\ net = [i \in Ids \cup {Self} |-> Absent]
  /\ connected = FALSE
  /\ doubled = {}
  /\ moves = 0

Move == moves < MaxMoves /\ moves' = moves + 1

-----------------------------------------------------------------------------
(* The channel                                                             *)

\* The server tells the gateway if it is on the channel.
Told(m) == inbox' = IF gateway = "joined" THEN Append(inbox, m) ELSE inbox

Doubles(S) == {i \in Ids : Cardinality({n \in S : n.id = i}) > 1}

Channel(S) ==
  /\ Move
  /\ present' = S
  /\ doubled' = doubled \cup Doubles(S)
  /\ UNCHANGED <<gateway, socket, wire, net, connected>>

Arrive(n) ==
  n \notin present /\ Channel(present \cup {n}) /\ Told(Message("join", n))

\* A part, kick, kill or quit.
Leave(n) ==
  n \in present /\ Channel(present \ {n}) /\ Told(Message("part", n))

Rename(n, v) ==
  LET new == [n EXCEPT !.value = v] IN
    /\ n \in present /\ new \notin present
    /\ Channel((present \ {n}) \cup {new})
    /\ Told(Message("nick", new))

-----------------------------------------------------------------------------
(* The gateway                                                             *)

\* create: a socket opens, and an irc client is made for it.  The client of the socket
\* before may still be there, if the server was not told that this one closed: what it
\* emits is lost from now on.
Open ==
  /\ ~socket /\ wire = <<>>
  /\ socket' = TRUE
  /\ gateway' = "joining" /\ inbox' = <<>>
  /\ UNCHANGED <<present, wire, net, connected, doubled, moves>>

\* The client connects, again if it has to, and joins.
Joined ==
  /\ gateway = "joining" /\ inbox = <<>>
  /\ gateway' = "joined"
  /\ inbox' = <<Message("join", SelfNick), Message("names", present \cup {SelfNick})>>
  /\ doubled' = Doubles(present)
  /\ UNCHANGED <<present, socket, wire, net, connected, moves>>

\* emit, lost on a socket that is closed.
EmitAll(s) == wire' = IF socket THEN wire \o s ELSE wire

Handling(kind) ==
  /\ inbox # <<>> /\ Head(inbox).kind = kind
  /\ inbox' = Tail(inbox)
  /\ UNCHANGED <<present, gateway, socket, net, connected, doubled, moves>>

OnJoin == Handling("join") /\ EmitAll(<<Head(inbox)>>)

OnPart == Handling("part") /\ EmitAll(<<Head(inbox)>>)

OnNick == Handling("nick") /\ EmitAll(<<[Head(inbox) EXCEPT !.kind = "changed"]>>)

\* names: a join for each user, in any order.
OnNames ==
  /\ Handling("names")
  /\ \E s \in SetToSeqs(Head(inbox).nick) :
       EmitAll([j \in DOMAIN s |-> Message("join", s[j])])

OnClose == Handling("close") /\ EmitAll(<<Message("partall", SelfNick)>>)

\* The irc connection is lost: what the server sent last is, too.
IrcLost ==
  /\ gateway = "joined"
  /\ Move
  /\ gateway' = "joining"
  /\ \E n \in 0 .. Len(inbox) :
       inbox' = Append(SubSeq(inbox, 1, n), Message("close", SelfNick))
  /\ UNCHANGED <<present, socket, wire, net, connected, doubled>>

\* The socket is lost, with what was emitted last.
SocketLost ==
  /\ socket
  /\ Move
  /\ socket' = FALSE
  /\ \E n \in 0 .. Len(wire) :
       wire' = Append(SubSeq(wire, 1, n), Message("disconnect", SelfNick))
  /\ UNCHANGED <<present, gateway, inbox, net, connected, doubled>>

\* The gateway's end of it, unless another socket has opened before: disconnect.
OnDisconnect ==
  /\ ~socket /\ gateway # "none"
  /\ gateway' = "none"
  /\ inbox' = <<>>
  /\ UNCHANGED <<present, socket, wire, net, connected, doubled, moves>>

-----------------------------------------------------------------------------
(* The browser                                                             *)

Receiving(kinds) ==
  /\ wire # <<>> /\ Head(wire).kind \in kinds
  /\ wire' = Tail(wire)
  /\ UNCHANGED <<present, gateway, inbox, socket, doubled, moves>>

Nobody == [i \in Ids \cup {Self} |-> Absent]

\* A slip: the mark is left to the connect event of the socket.
JoinUnmarked ==
  /\ Receiving({"join"})
  /\ LET n == Head(wire).nick IN
       net' = [net EXCEPT ![n.id] = IF n = SelfNick THEN n ELSE n.value]
  /\ UNCHANGED connected

\* join: no attributes for the gateway's own nick, which has no more parts.
Join ==
  /\ Receiving({"join"})
  /\ LET n == Head(wire).nick IN
       net' = [net EXCEPT ![n.id] = IF n = SelfNick THEN n ELSE n.value]
  /\ connected' = TRUE

Part ==
  /\ Receiving({"part"})
  /\ net' = [net EXCEPT ![Head(wire).nick.id] = Absent]
  /\ UNCHANGED connected

\* A slip: a component keeps the attributes it came with.
ChangedIgnored == Receiving({"changed"}) /\ UNCHANGED <<net, connected>>

\* changed: of an id that is not known it throws, which $apply catches.
Changed ==
  /\ Receiving({"changed"})
  /\ LET n == Head(wire).nick IN
       net' = IF net[n.id] = Absent THEN net ELSE [net EXCEPT ![n.id] = n.value]
  /\ UNCHANGED connected

\* A slip: what was known stays.
PartAllKept ==
  /\ Receiving({"partall", "disconnect"})
  /\ connected' = FALSE
  /\ UNCHANGED net

\* partall and disconnect.
PartAll ==
  /\ Receiving({"partall", "disconnect"})
  /\ net' = Nobody
  /\ connected' = FALSE

-----------------------------------------------------------------------------
Browser == Join \/ Part \/ Changed \/ PartAll

Next ==
  \/ \E n \in Nick : Arrive(n)
  \/ \E n \in present : Leave(n)
  \/ \E n \in present, v \in Values : Rename(n, v)
  \/ Open \/ Joined \/ IrcLost \/ SocketLost
  \/ OnJoin \/ OnPart \/ OnNick \/ OnNames \/ OnClose \/ OnDisconnect
  \/ Join \/ Part \/ Changed \/ PartAll

Spec == Init /\ [][Next]_uvars

-----------------------------------------------------------------------------
(* Properties                                                              *)

\* The value on the channel of an id that has one nick at most.
OnChannel(i) ==
  IF \E n \in present : n.id = i THEN (CHOOSE n \in present : n.id = i).value ELSE Absent

\* When all is delivered the browser shows what is on the channel: whoever came first,
\* whatever was lost on the way.  Not of an id that had two nicks: the departure of the
\* older hides the newer, and its changes then throw (net.js:58 and 63).
Shown ==
  gateway = "joined" /\ socket /\ inbox = <<>> /\ wire = <<>> =>
    \A i \in Ids \ doubled : net[i] = OnChannel(i)

\* A browser that is not connected shows nothing: nothing stale is left to act on.
DarkWhenDisconnected == ~connected => net = Nobody

\* In the end, when nothing moves any more, the browser is connected again (by the
\* gateway's own nick, if nobody else is there).
Recovers == <>[](connected /\ inbox = <<>> /\ wire = <<>>)
=============================================================================
