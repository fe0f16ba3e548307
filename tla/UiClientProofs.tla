--------------------------- MODULE UiClientProofs ---------------------------
(***************************************************************************)
(* Theorems about UiClient, for all components, values and moves: what the *)
(* browser shows, what a button executes, and what is said of it on the    *)
(* channel.                                                                *)
(***************************************************************************)
EXTENDS UiClient, SequenceTheorems, FiniteSetTheorems, TLAPS

InboxMessages ==
  [kind : {"join", "part", "close"}, nick : AnyNick] \cup [kind : {"nick"}, nick : Nick]
    \cup [kind : {"names"}, nick : SUBSET AnyNick]

WireMessages ==
  [kind : {"join", "part", "changed", "partall", "disconnect"}, nick : AnyNick]

\* The invariant of gateway and browser: typing, with what the messages carry.
ShownInv ==
  /\ TypeOK
  /\ inbox \in Seq(InboxMessages)
  /\ wire \in Seq(WireMessages)
  /\ DarkWhenDisconnected

LEMMA FiniteNicks == IsFiniteSet(AnyNick)
<1>1. IsFiniteSet(Nick) /\ IsFiniteSet({SelfNick})
  BY UiAssumption, FS_Singleton DEF Nick
<1> QED BY <1>1, FS_Union, Zenon DEF AnyNick

\* Of finitely many nicks there are finite sequences.
LEMMA NamesInSequence ==
  ASSUME NEW S \in SUBSET AnyNick, NEW s \in SetToSeqs(S)
  PROVE  [j \in DOMAIN s |-> Message("join", s[j])] \in Seq(WireMessages)
<1>1. IsFiniteSet(AnyNick)
  BY FiniteNicks
<1>2. Cardinality(S) \in Nat
  BY <1>1, FS_Subset, FS_CardinalityType
<1>3. s \in [1 .. Cardinality(S) -> S]
  BY DEF SetToSeqs
<1>4. \A j \in 1 .. Cardinality(S) : Message("join", s[j]) \in WireMessages
  BY <1>3 DEF Message, WireMessages
<1>5. DOMAIN s = 1 .. Cardinality(S)
  BY <1>3
<1> QED BY <1>2, <1>4, <1>5, IsASeq

\* Messages typed so are typed as the type invariant says.
LEMMA MessagesTyped ==
  ASSUME NEW i \in Seq(InboxMessages), NEW w \in Seq(WireMessages)
  PROVE  /\ \A j \in DOMAIN i : i[j].kind \in {"join", "part", "nick", "names", "close"}
         /\ \A j \in DOMAIN w :
              /\ w[j].kind \in {"join", "part", "changed", "partall", "disconnect"}
              /\ w[j].nick \in AnyNick
<1>1. ASSUME NEW j \in DOMAIN i
      PROVE  i[j].kind \in {"join", "part", "nick", "names", "close"}
  <2>1. i[j] \in InboxMessages
    OBVIOUS
  <2> QED BY <2>1 DEF InboxMessages
<1>2. ASSUME NEW j \in DOMAIN w
      PROVE  /\ w[j].kind \in {"join", "part", "changed", "partall", "disconnect"}
             /\ w[j].nick \in AnyNick
  <2>1. w[j] \in WireMessages
    OBVIOUS
  <2> QED BY <2>1 DEF WireMessages
<1> QED BY <1>1, <1>2

\* It holds when the page is loaded.
LEMMA ShownBegins ==
  ASSUME Init
  PROVE  ShownInv
<1>1. 0 \in 0 .. MaxMoves
  BY UiAssumption
<1>2. inbox = <<>> /\ wire = <<>>
  BY DEF Init
<1>3. net \in [Ids \cup {Self} -> Values \cup {Absent, SelfNick}]
  BY DEF Init
<1>4. present \subseteq Nick
  BY DEF Init
<1>5. inbox \in Seq(InboxMessages) /\ wire \in Seq(WireMessages)
  BY <1>2
<1>6. TypeOK
  <2>1. gateway = "none" /\ socket = FALSE /\ connected = FALSE /\ doubled = {} /\ moves = 0
    BY DEF Init
  <2> QED BY <1>1, <1>3, <1>4, <1>5, <2>1, MessagesTyped, Zenon DEF TypeOK
<1>7. DarkWhenDisconnected
  BY DEF Init, DarkWhenDisconnected, Nobody
<1> QED BY <1>5, <1>6, <1>7 DEF ShownInv

\* What a gateway's handler emits reaches the wire, or nothing does.
LEMMA EmitTyped ==
  ASSUME wire \in Seq(WireMessages), NEW s \in Seq(WireMessages), EmitAll(s)
  PROVE  wire' \in Seq(WireMessages)
  BY DEF EmitAll

\* A move on the channel, of which the gateway is told.
LEMMA ChannelStep ==
  ASSUME ShownInv, NEW S \in SUBSET Nick, Channel(S), NEW m \in InboxMessages, Told(m)
  PROVE  ShownInv'
<1>1. inbox' \in Seq(InboxMessages)
  BY DEF Told, ShownInv
<1>2. moves' \in 0 .. MaxMoves
  BY UiAssumption DEF Channel, Move, ShownInv, TypeOK
<1>3. present' \subseteq Nick /\ doubled' \subseteq Ids
  BY DEF Channel, Doubles, ShownInv, TypeOK
<1>4. UNCHANGED <<gateway, socket, wire, net, connected>>
  BY DEF Channel
<1> QED BY <1>1, <1>2, <1>3, <1>4, MessagesTyped
        DEF ShownInv, TypeOK, DarkWhenDisconnected, Nobody
\* What a handler of the gateway does: it takes the first message and emits.
LEMMA HandlerStep ==
  ASSUME ShownInv, NEW k, Handling(k), NEW s \in Seq(WireMessages), EmitAll(s)
  PROVE  ShownInv'
<1>1. inbox' \in Seq(InboxMessages) /\ wire' \in Seq(WireMessages)
  BY EmitTyped DEF Handling, ShownInv
<1>2. UNCHANGED <<present, gateway, socket, net, connected, doubled, moves>>
  BY DEF Handling
<1> QED BY <1>1, <1>2, MessagesTyped DEF ShownInv, TypeOK, DarkWhenDisconnected, Nobody

\* The first message of a kind carries what messages of that kind do.
LEMMA FirstMessage ==
  ASSUME ShownInv
  PROVE  /\ \A k : Handling(k) => Head(inbox) \in InboxMessages /\ Head(inbox).kind = k
         /\ \A K : Receiving(K) => Head(wire).nick \in AnyNick
<1>1. ASSUME inbox # <<>> PROVE Head(inbox) \in InboxMessages
  BY <1>1 DEF ShownInv
<1>2. ASSUME wire # <<>> PROVE Head(wire).nick \in AnyNick
  <2>1. Head(wire) \in WireMessages
    BY <1>2 DEF ShownInv
  <2> QED BY <2>1 DEF WireMessages
<1> QED BY <1>1, <1>2 DEF Handling, Receiving

\* Every handler of the gateway keeps the invariant.
LEMMA GatewayKeeps ==
  ASSUME ShownInv, OnJoin \/ OnPart \/ OnNick \/ OnNames \/ OnClose
  PROVE  ShownInv'
<1> DEFINE m == Head(inbox)
<1>1. ASSUME NEW k \in {"join", "part"}, Handling(k), EmitAll(<<m>>)
      PROVE  ShownInv'
  <2>1. m \in WireMessages
    BY <1>1, FirstMessage DEF InboxMessages, WireMessages
  <2>2. <<m>> \in Seq(WireMessages)
    BY <2>1
  <2> QED BY <1>1, <2>2, HandlerStep
<1>2. CASE OnNick
  <2>1. [m EXCEPT !.kind = "changed"] \in WireMessages
    BY <1>2, FirstMessage DEF OnNick, InboxMessages, WireMessages, AnyNick
  <2>2. <<[m EXCEPT !.kind = "changed"]>> \in Seq(WireMessages)
    BY <2>1
  <2> QED BY <1>2, <2>2, HandlerStep DEF OnNick
<1>3. CASE OnNames
  <2>1. m.nick \in SUBSET AnyNick
    BY <1>3, FirstMessage DEF OnNames, InboxMessages
  <2>2. PICK s \in SetToSeqs(m.nick) : EmitAll([j \in DOMAIN s |-> Message("join", s[j])])
    BY <1>3 DEF OnNames
  <2>3. [j \in DOMAIN s |-> Message("join", s[j])] \in Seq(WireMessages)
    BY <2>1, NamesInSequence
  <2> QED BY <1>3, <2>2, <2>3, HandlerStep DEF OnNames
<1>4. CASE OnClose
  <2>1. <<Message("partall", SelfNick)>> \in Seq(WireMessages)
    BY DEF Message, WireMessages, AnyNick
  <2> QED BY <1>4, <2>1, HandlerStep DEF OnClose
<1> QED BY <1>1, <1>2, <1>3, <1>4 DEF OnJoin, OnPart

\* Every handler of the browser keeps it.
LEMMA BrowserKeeps ==
  ASSUME ShownInv, Browser
  PROVE  ShownInv'
<1> DEFINE n == Head(wire).nick
<1>1. n \in AnyNick /\ n.id \in Ids \cup {Self}
      /\ n.value \in Values \cup {Absent}
  BY FirstMessage DEF Browser, Join, Part, Changed, PartAll, AnyNick, Nick, SelfNick
<1>2. wire' \in Seq(WireMessages) /\ UNCHANGED <<present, gateway, inbox, socket, doubled, moves>>
  BY DEF Browser, Join, Part, Changed, PartAll, Receiving, ShownInv
<1>3. net' \in [Ids \cup {Self} -> Values \cup {Absent, SelfNick}] /\ connected' \in BOOLEAN
  <2>1. CASE Join
    BY <1>1, <2>1 DEF Join, ShownInv, TypeOK
  <2>2. CASE Part
    BY <1>1, <2>2 DEF Part, ShownInv, TypeOK
  <2>3. CASE Changed
    BY <1>1, <2>3 DEF Changed, ShownInv, TypeOK
  <2>4. CASE PartAll
    BY <2>4 DEF PartAll, Nobody
  <2> QED BY <2>1, <2>2, <2>3, <2>4 DEF Browser
<1>4. DarkWhenDisconnected'
  <2>1. CASE Join
    BY <2>1 DEF Join, DarkWhenDisconnected
  <2>2. CASE Part
    BY <1>1, <2>2 DEF Part, ShownInv, TypeOK, DarkWhenDisconnected, Nobody
  <2>3. CASE Changed
    BY <1>1, <2>3 DEF Changed, ShownInv, TypeOK, DarkWhenDisconnected, Nobody
  <2>4. CASE PartAll
    BY <2>4 DEF PartAll, DarkWhenDisconnected, Nobody
  <2> QED BY <2>1, <2>2, <2>3, <2>4 DEF Browser
<1> QED BY <1>2, <1>3, <1>4, MessagesTyped DEF ShownInv, TypeOK

\* So do the connections, as they come and go.
LEMMA ConnectionsKeep ==
  ASSUME ShownInv, Open \/ Joined \/ IrcLost \/ SocketLost \/ OnDisconnect
  PROVE  ShownInv'
<1>1. moves' \in 0 .. MaxMoves
  BY UiAssumption DEF Open, Joined, IrcLost, SocketLost, OnDisconnect, Move, ShownInv, TypeOK
<1>2. wire' \in Seq(WireMessages)
  <2>1. CASE SocketLost
    <3>1. PICK k \in 0 .. Len(wire) :
            wire' = Append(SubSeq(wire, 1, k), Message("disconnect", SelfNick))
      BY <2>1 DEF SocketLost
    <3>2. SubSeq(wire, 1, k) \in Seq(WireMessages)
      BY DEF ShownInv
    <3>3. Message("disconnect", SelfNick) \in WireMessages
      BY DEF Message, WireMessages, AnyNick
    <3> QED BY <3>1, <3>2, <3>3
  <2> QED BY <2>1 DEF Open, Joined, IrcLost, OnDisconnect, ShownInv
<1>3. inbox' \in Seq(InboxMessages)
  <2>1. CASE IrcLost
    <3>1. PICK k \in 0 .. Len(inbox) :
            inbox' = Append(SubSeq(inbox, 1, k), Message("close", SelfNick))
      BY <2>1 DEF IrcLost
    <3>2. SubSeq(inbox, 1, k) \in Seq(InboxMessages)
      BY DEF ShownInv
    <3>3. Message("close", SelfNick) \in InboxMessages
      BY DEF Message, InboxMessages, AnyNick
    <3> QED BY <3>1, <3>2, <3>3
  <2>2. CASE Joined
    <3>1. /\ Message("join", SelfNick) \in InboxMessages
          /\ Message("names", present \cup {SelfNick}) \in InboxMessages
      BY DEF Message, InboxMessages, AnyNick, ShownInv, TypeOK
    <3>2. <<Message("join", SelfNick), Message("names", present \cup {SelfNick})>>
            \in Seq(InboxMessages)
      BY <3>1
    <3> QED BY <2>2, <3>2 DEF Joined
  <2>3. CASE Open \/ SocketLost \/ OnDisconnect
    <3>1. inbox' = inbox \/ inbox' = <<>>
      BY <2>3 DEF Open, SocketLost, OnDisconnect
    <3>2. inbox \in Seq(InboxMessages) /\ <<>> \in Seq(InboxMessages)
      BY DEF ShownInv
    <3> QED BY <3>1, <3>2
  <2> QED BY <2>1, <2>2, <2>3
<1>4. /\ gateway' \in {"none", "joining", "joined"} /\ socket' \in BOOLEAN
      /\ UNCHANGED <<present, net, connected>> /\ doubled' \subseteq Ids
  BY DEF Open, Joined, IrcLost, SocketLost, OnDisconnect, Doubles, ShownInv, TypeOK
<1> QED BY <1>1, <1>2, <1>3, <1>4, MessagesTyped
        DEF ShownInv, TypeOK, DarkWhenDisconnected, Nobody
-----------------------------------------------------------------------------
(* The client as a gateway and a button                                    *)

\* Every step of the gateway's module keeps the invariant.
LEMMA ShownStep ==
  ASSUME ShownInv, [Next]_uvars
  PROVE  ShownInv'
<1>1. ASSUME NEW n \in Nick, Arrive(n) PROVE ShownInv'
  <2>1. /\ present \cup {n} \in SUBSET Nick
        /\ Message("join", n) \in InboxMessages
    BY DEF Message, InboxMessages, AnyNick, ShownInv, TypeOK
  <2> QED BY <1>1, <2>1, ChannelStep DEF Arrive
<1>2. ASSUME NEW n \in present, Leave(n) PROVE ShownInv'
  <2>1. /\ present \ {n} \in SUBSET Nick
        /\ Message("part", n) \in InboxMessages
    BY DEF Message, InboxMessages, AnyNick, ShownInv, TypeOK
  <2> QED BY <1>2, <2>1, ChannelStep DEF Leave
<1>3. ASSUME NEW n \in present, NEW v \in Values, Rename(n, v) PROVE ShownInv'
  <2> DEFINE new == [n EXCEPT !.value = v]
  <2>1. new \in Nick
    BY DEF Nick, ShownInv, TypeOK
  <2>2. /\ (present \ {n}) \cup {new} \in SUBSET Nick
        /\ Message("nick", new) \in InboxMessages
    BY <2>1 DEF Message, InboxMessages, ShownInv, TypeOK
  <2> QED BY <1>3, <2>2, ChannelStep DEF Rename
<1>4. CASE UNCHANGED uvars
  BY <1>4, MessagesTyped DEF uvars, ShownInv, TypeOK, DarkWhenDisconnected, Nobody
<1> QED BY <1>1, <1>2, <1>3, <1>4, GatewayKeeps, BrowserKeeps, ConnectionsKeep
        DEF Next, Browser

\* Every step of the client is one of the gateway and its browser, or nothing to them.
LEMMA ClientIsGateway ==
  ASSUME [CNext]_cvars
  PROVE  [Next]_uvars
<1>1. CASE ComponentStep
  BY <1>1 DEF ComponentStep, Next
<1>2. CASE GatewayStep
  BY <1>2 DEF GatewayStep, Next
<1>3. CASE BrowserStep
  BY <1>3 DEF BrowserStep, Browser, Next
<1>4. CASE Mouse \/ Execute \/ Say
  BY <1>4 DEF Mouse, Execute, Say, OnMsg
<1>5. CASE SocketOpens \/ SocketFails \/ IrcFails \/ Disconnect
  BY <1>5 DEF SocketOpens, SocketFails, IrcFails, Disconnect, Next
<1>6. CASE UNCHANGED cvars
  BY <1>6 DEF cvars
<1> QED BY <1>1, <1>2, <1>3, <1>4, <1>5, <1>6 DEF CNext

\* It is also one of the button's.
LEMMA ClientIsButton ==
  ASSUME [CNext]_cvars
  PROVE  [Button!Next]_bvars
<1>1. CASE Mouse
  BY <1>1 DEF Mouse, OnButton, OffButton, Button!Next
<1>2. CASE Execute
  BY <1>2 DEF Execute, Button!Next
<1>3. CASE ComponentStep \/ GatewayStep \/ BrowserStep \/ Say
  BY <1>3 DEF ComponentStep, GatewayStep, BrowserStep, Say, OnMsg
<1>4. CASE SocketOpens \/ SocketFails \/ IrcFails \/ Disconnect
  BY <1>4 DEF SocketOpens, SocketFails, IrcFails, Disconnect
<1>5. CASE UNCHANGED cvars
  BY <1>5 DEF cvars
<1> QED BY <1>1, <1>2, <1>3, <1>4, <1>5 DEF CNext

\* A client behaves as the gateway's module says: what holds of that holds of it.
THEOREM ClientRefinesGateway == CSpec => Spec
<1>1. CInit => Init
  BY DEF CInit
<1>2. [CNext]_cvars => [Next]_uvars
  BY ClientIsGateway
<1> QED BY <1>1, <1>2, PTL DEF CSpec, Spec

\* The inductive invariant of gateway and browser.
THEOREM ShownInductive == Spec => []ShownInv
<1>1. Init => ShownInv
  BY ShownBegins
<1>2. ShownInv /\ [Next]_uvars => ShownInv'
  BY ShownStep
<1> QED BY <1>1, <1>2, PTL DEF Spec

\* The type invariant of gateway and browser.
THEOREM GatewayTypes == CSpec => []TypeOK
<1>1. ShownInv => TypeOK
  BY DEF ShownInv
<1> QED BY <1>1, ClientRefinesGateway, ShownInductive, PTL

\* A browser without connection shows nothing: net.js partall, disconnect.
THEOREM DisconnectedIsDark == CSpec => []DarkWhenDisconnected
<1>1. ShownInv => DarkWhenDisconnected
  BY DEF ShownInv
<1> QED BY <1>1, ClientRefinesGateway, ShownInductive, PTL
-----------------------------------------------------------------------------
(* The button                                                              *)

\* What was gathered are the presses made here, until one crosses.
GatheredInv ==
  /\ eventStack \in Seq(Button!Press)
  /\ executed \in Seq(Seq(Button!Press))
  /\ ~crossed => eventStack = made

\* Every step of the button keeps it.
LEMMA GatheredStep ==
  ASSUME GatheredInv, [Button!Next]_bvars
  PROVE  GatheredInv'
<1> USE DEF GatheredInv
<1>1. CASE Button!Down \/ Button!DownAway
  BY <1>1 DEF Button!Down, Button!DownAway
<1>2. ASSUME NEW p \in Button!Press, Button!Up(p) PROVE GatheredInv'
  BY <1>2 DEF Button!Up
<1>3. CASE Button!UpAlone
  <2>1. eventStack' = <<>> \/ \E p \in Button!Press : eventStack' = Append(eventStack, p)
    BY <1>3 DEF Button!UpAlone
  <2>2. eventStack' \in Seq(Button!Press)
    <3>1. /\ <<>> \in Seq(Button!Press)
          /\ \A p \in Button!Press : Append(eventStack, p) \in Seq(Button!Press)
      OBVIOUS
    <3> QED BY <2>1, <3>1, Zenon
  <2> QED BY <1>3, <2>2 DEF Button!UpAlone
<1>4. CASE Button!UpAway
  BY <1>4 DEF Button!UpAway
<1>5. CASE Button!End
  BY <1>5 DEF Button!End
<1>6. CASE UNCHANGED bvars
  BY <1>6 DEF bvars
<1> QED BY <1>1, <1>2, <1>3, <1>4, <1>5, <1>6 DEF Button!Next

\* What is executed is what was gathered.
LEMMA ExecutedAsMade ==
  ASSUME GatheredInv, [Button!Next]_bvars, executed' # executed, ~crossed
  PROVE  executed'[Len(executed')] = made
<1>1. Button!End
  BY DEF Button!Next, Button!Down, Button!DownAway, Button!Up, Button!UpAlone, Button!UpAway, bvars
<1> QED BY <1>1 DEF Button!End, GatheredInv

\* A button executes the presses made on it: uihelper.js executeEvents.
THEOREM PressesExecuted == CSpec => AsMade
<1>1. CInit => GatheredInv
  BY DEF CInit, Button!Init, GatheredInv
<1>2. GatheredInv /\ [CNext]_cvars => GatheredInv'
  BY ClientIsButton, GatheredStep
<1>3. GatheredInv /\ [CNext]_cvars =>
        [executed' # executed /\ ~crossed => executed'[Len(executed')] = made]_(Button!ivars)
  BY ClientIsButton, ExecutedAsMade
<1> QED BY <1>1, <1>2, <1>3, PTL DEF CSpec, AsMade, Button!AsMade

\* What was gathered waits for its end, or goes on, unless a press crossed.
GatheredWaits == eventStack # <<>> /\ ~crossed /\ mouse # "here" => endWait

\* No press is left that nothing will execute, unless one began or ended elsewhere: the end
\* of the input is pending whenever something was gathered and no press goes on
\* (input-manager.js up and down).
THEOREM GatheredEnds == CSpec => []GatheredWaits
<1> USE DEF GatheredWaits
<1>1. CInit => GatheredWaits
  BY DEF CInit, Button!Init
<1>2. GatheredWaits /\ [Button!Next]_bvars => GatheredWaits'
  <2> SUFFICES ASSUME GatheredWaits, [Button!Next]_bvars PROVE GatheredWaits'
    OBVIOUS
  <2>1. CASE Button!Down \/ Button!DownAway
    BY <2>1 DEF Button!Down, Button!DownAway
  <2>2. ASSUME NEW p \in Button!Press, Button!Up(p) PROVE GatheredWaits'
    BY <2>2 DEF Button!Up
  <2>3. CASE Button!UpAlone
    BY <2>3 DEF Button!UpAlone
  <2>4. CASE Button!UpAway
    BY <2>4 DEF Button!UpAway
  <2>5. CASE Button!End
    BY <2>5 DEF Button!End
  <2>6. CASE UNCHANGED bvars
    BY <2>6 DEF bvars
  <2> QED BY <2>1, <2>2, <2>3, <2>4, <2>5, <2>6 DEF Button!Next
<1>3. GatheredWaits /\ [CNext]_cvars => GatheredWaits'
  BY <1>2, ClientIsButton
<1> QED BY <1>1, <1>3, PTL DEF CSpec

-----------------------------------------------------------------------------
(* The way of an action                                                    *)

Rising(s) == \A j, k \in DOMAIN s : j < k => s[j] < s[k]

Below(s, t) == \A j \in DOMAIN s, k \in DOMAIN t : s[j] < t[k]

UpTo(s, n) == \A j \in DOMAIN s : s[j] <= n

Spoken == [socket : Nat, action : Nat]

\* What was heard as h, and is or may be followed by an action n of a socket k: n is the
\* newer unless h came from a later socket.
Apart(h, k, n) == IF h.socket <= k THEN h.action < n ELSE h.action > n

\* Actions are numbered in order of execution: on every socket, those of a socket before
\* those of the next, and all before those kept.
Numbered ==
  /\ sent \in Seq(Seq(Nat)) /\ kept \in Seq(Nat)
  /\ Rising(kept) /\ UpTo(kept, Len(executed))
  /\ \A k \in DOMAIN sent :
       Rising(sent[k]) /\ UpTo(sent[k], Len(executed)) /\ Below(sent[k], kept)
  /\ \A k, l \in DOMAIN sent : k < l => Below(sent[k], sent[l])

\* Of what was heard nothing is to come again, and nothing that it may not overtake.
Ordered ==
  /\ heard \in Seq(Spoken)
  /\ \A j \in DOMAIN heard :
       /\ heard[j].socket <= Len(sent) /\ heard[j].action <= Len(executed)
       /\ \A k \in DOMAIN kept : heard[j].action < kept[k]
       /\ \A k \in DOMAIN sent : \A l \in DOMAIN sent[k] : Apart(heard[j], k, sent[k][l])
  /\ \A j, k \in DOMAIN heard : j < k => Apart(heard[j], heard[k].socket, heard[k].action)

\* What is owed has not met an obstacle.
Owing ==
  /\ socket => kept = <<>> /\ sent # <<>>
  /\ owed # {} => socket /\ gateway = "joined"
  /\ \A n \in owed : \/ \E j \in DOMAIN heard : heard[j].action = n
                     \/ \E j \in DOMAIN sent[Len(sent)] : sent[Len(sent)][j] = n

\* The invariant of an action's way.
SaidInv == Numbered /\ Ordered /\ Owing

\* A new action is the highest.
LEMMA AppendHighest ==
  ASSUME NEW s \in Seq(Nat), NEW n \in Nat, Rising(s), UpTo(s, n)
  PROVE  LET t == Append(s, n + 1)
         IN /\ t \in Seq(Nat) /\ Rising(t) /\ UpTo(t, n + 1)
            /\ \A j \in DOMAIN t : t[j] = n + 1 \/ (j \in DOMAIN s /\ t[j] = s[j])
            /\ \A j \in DOMAIN s : j \in DOMAIN t /\ t[j] = s[j]
            /\ \E j \in DOMAIN t : t[j] = n + 1
<1> DEFINE t == Append(s, n + 1)
<1>1. /\ t \in Seq(Nat) /\ Len(t) = Len(s) + 1
      /\ DOMAIN t = 1 .. Len(s) + 1 /\ DOMAIN s = 1 .. Len(s)
      /\ t[Len(s) + 1] = n + 1
      /\ \A j \in 1 .. Len(s) : t[j] = s[j]
  OBVIOUS
<1>2. \A j \in DOMAIN s : s[j] \in Nat /\ s[j] <= n
  BY DEF UpTo
<1>3. Len(s) \in Nat
  OBVIOUS
<1>4. Rising(t)
  BY <1>1, <1>2, <1>3 DEF Rising
<1>5. UpTo(t, n + 1)
  BY <1>1, <1>2, <1>3 DEF UpTo
<1>6. /\ \A j \in DOMAIN t : t[j] = n + 1 \/ (j \in DOMAIN s /\ t[j] = s[j])
      /\ \A j \in DOMAIN s : j \in DOMAIN t /\ t[j] = s[j]
      /\ \E j \in DOMAIN t : t[j] = n + 1
  <2> HIDE DEF t
  <2>1. Len(s) + 1 \in DOMAIN t
    BY <1>1, <1>3
  <2> QED BY <1>1, <1>3, <2>1
<1> QED BY <1>1, <1>4, <1>5, <1>6, Zenon

\* Without its first a sequence rises too, and above the first.
LEMMA TailRises ==
  ASSUME NEW s \in Seq(Nat), s # <<>>, Rising(s)
  PROVE  /\ Tail(s) \in Seq(Nat) /\ Head(s) \in Nat /\ Rising(Tail(s))
         /\ 1 \in DOMAIN s /\ Head(s) = s[1]
         /\ \A j \in DOMAIN Tail(s) : j + 1 \in DOMAIN s /\ Tail(s)[j] = s[j + 1] /\ s[1] < s[j + 1]
         /\ \A j \in DOMAIN s : j = 1 \/ (j - 1 \in DOMAIN Tail(s) /\ Tail(s)[j - 1] = s[j])
<1>1. /\ Tail(s) \in Seq(Nat) /\ Head(s) = s[1] /\ Len(s) \in Nat /\ Len(s) > 0
      /\ DOMAIN s = 1 .. Len(s) /\ DOMAIN Tail(s) = 1 .. Len(s) - 1
      /\ \A j \in 1 .. Len(s) - 1 : Tail(s)[j] = s[j + 1]
  OBVIOUS
<1>2. \A j \in DOMAIN s : s[j] \in Nat
  OBVIOUS
<1>3. \A j \in DOMAIN Tail(s) : j \in Nat /\ j + 1 \in DOMAIN s /\ 1 < j + 1
  BY <1>1
<1>4. 1 \in DOMAIN s
  BY <1>1
<1>5. \A j, k \in DOMAIN s : j < k => s[j] < s[k]
  BY DEF Rising
<1>6. Rising(Tail(s))
  BY <1>1, <1>3, <1>5 DEF Rising
<1>7. \A j \in DOMAIN Tail(s) : Tail(s)[j] = s[j + 1] /\ s[1] < s[j + 1]
  BY <1>1, <1>3, <1>4, <1>5
<1>8. ASSUME NEW j \in DOMAIN s, j # 1
      PROVE  j - 1 \in DOMAIN Tail(s) /\ Tail(s)[j - 1] = s[j]
  BY <1>1, <1>8
<1> QED BY <1>1, <1>2, <1>3, <1>4, <1>6, <1>7, <1>8

\* So does a beginning of it.
LEMMA PrefixRises ==
  ASSUME NEW s \in Seq(Nat), Rising(s), NEW n \in 0 .. Len(s)
  PROVE  /\ SubSeq(s, 1, n) \in Seq(Nat) /\ Rising(SubSeq(s, 1, n))
         /\ \A j \in DOMAIN SubSeq(s, 1, n) : j \in DOMAIN s /\ SubSeq(s, 1, n)[j] = s[j]
<1>1. /\ SubSeq(s, 1, n) \in Seq(Nat)
      /\ DOMAIN SubSeq(s, 1, n) = 1 .. n /\ DOMAIN s = 1 .. Len(s)
      /\ \A j \in 1 .. n : SubSeq(s, 1, n)[j] = s[j]
  OBVIOUS
<1> QED BY <1>1 DEF Rising

\* What is ordered in one way is ordered so when the sequences lose some of their members.
LEMMA StillOrdered ==
  ASSUME SaidInv, heard' = heard, Len(executed') = Len(executed),
         Len(sent') = Len(sent), sent' \in Seq(Seq(Nat)), kept' = kept,
         \A k \in DOMAIN sent :
           /\ Rising(sent'[k])
           /\ \A j \in DOMAIN sent'[k] : \E l \in DOMAIN sent[k] : sent'[k][j] = sent[k][l]
  PROVE  (Numbered /\ Ordered)'
<1>1. DOMAIN sent' = DOMAIN sent
  BY DEF SaidInv, Numbered
<1>2. \A k \in DOMAIN sent : UpTo(sent'[k], Len(executed)) /\ Below(sent'[k], kept)
  BY DEF SaidInv, Numbered, UpTo, Below
<1>3. ASSUME NEW k \in DOMAIN sent, NEW l \in DOMAIN sent, k < l
      PROVE  Below(sent'[k], sent'[l])
  <2>1. Below(sent[k], sent[l])
    BY <1>3 DEF SaidInv, Numbered
  <2>2. /\ \A i \in DOMAIN sent'[k] : \E j \in DOMAIN sent[k] : sent'[k][i] = sent[k][j]
        /\ \A i \in DOMAIN sent'[l] : \E j \in DOMAIN sent[l] : sent'[l][i] = sent[l][j]
    OBVIOUS
  <2> QED BY ONLY <2>1, <2>2 DEF Below
<1>4. \A j \in DOMAIN heard : \A k \in DOMAIN sent : \A l \in DOMAIN sent'[k] :
        Apart(heard[j], k, sent'[k][l])
  BY DEF SaidInv, Ordered
<1> QED BY <1>1, <1>2, <1>3, <1>4 DEF SaidInv, Numbered, Ordered, UpTo

\* The gateway's own steps do not touch the way, and stop owing where it is broken.
LEMMA StillSaid ==
  ASSUME SaidInv, UNCHANGED <<executed, heard, sent, kept>>, socket' = socket,
         \/ owed' = {}
         \/ owed' = owed /\ (gateway' = gateway \/ owed = {})
  PROVE  SaidInv'
  BY DEF SaidInv, Numbered, Ordered, Owing, Rising, Below, UpTo, Apart

\* An action is emitted: on the socket, or kept, or lost.
LEMMA ExecuteSays ==
  ASSUME GatheredInv, SaidInv, Execute
  PROVE  SaidInv'
<1> DEFINE n == Len(executed)
           c == Len(sent)
<1>0. UNCHANGED <<socket, gateway, wire, heard>>
  BY DEF Execute, uvars
<1>1. n \in Nat /\ Len(executed') = n + 1
  BY DEF Execute, Button!End, GatheredInv
<1>2. ASSUME NEW s \in Seq(Nat), UpTo(s, n) PROVE UpTo(s, n + 1)
  BY <1>1, <1>2 DEF UpTo
<1>3. /\ sent \in Seq(Seq(Nat)) /\ kept \in Seq(Nat) /\ heard \in Seq(Spoken)
      /\ \A k \in DOMAIN sent : sent[k] \in Seq(Nat) /\ UpTo(sent[k], n) /\ UpTo(sent[k], n + 1)
      /\ UpTo(kept, n) /\ UpTo(kept, n + 1)
      /\ \A j \in DOMAIN heard : heard[j] \in Spoken /\ heard[j].action <= n
  BY <1>2 DEF SaidInv, Numbered, Ordered
<1>4. \A j \in DOMAIN heard : heard[j].action < n + 1 /\ heard[j].action <= n + 1
  BY <1>1, <1>3 DEF Spoken
<1>5. CASE UNCHANGED <<kept, sent, owed>>
  BY <1>0, <1>1, <1>3, <1>4, <1>5 DEF SaidInv, Numbered, Ordered, Owing
<1>6. CASE Emit(n + 1) /\ socket
  <2>1. /\ sent' = [sent EXCEPT ![c] = Append(@, n + 1)] /\ kept' = kept /\ kept = <<>>
        /\ c \in DOMAIN sent /\ DOMAIN sent' = DOMAIN sent /\ Len(sent') = c
        /\ sent'[c] = Append(sent[c], n + 1)
        /\ \A k \in DOMAIN sent : k # c => sent'[k] = sent[k]
    BY <1>3, <1>6 DEF Emit, SaidInv, Owing
  <2>2. /\ sent'[c] \in Seq(Nat) /\ Rising(sent'[c]) /\ UpTo(sent'[c], n + 1)
        /\ \A j \in DOMAIN sent'[c] :
             sent'[c][j] = n + 1 \/ (j \in DOMAIN sent[c] /\ sent'[c][j] = sent[c][j])
        /\ \A j \in DOMAIN sent[c] : j \in DOMAIN sent'[c] /\ sent'[c][j] = sent[c][j]
        /\ \E j \in DOMAIN sent'[c] : sent'[c][j] = n + 1
    <3>1. sent[c] \in Seq(Nat) /\ Rising(sent[c]) /\ UpTo(sent[c], n)
      BY <1>3, <2>1 DEF SaidInv, Numbered
    <3> QED BY ONLY <1>1, <2>1, <3>1, AppendHighest
  <2>3. \A k \in DOMAIN sent : k \in Nat /\ (k # c => k < c)
    BY <1>3
  <2>4. Numbered'
    <3>1. sent' \in Seq(Seq(Nat))
      BY <1>3, <2>1, <2>2
    <3>2. ASSUME NEW k \in DOMAIN sent
          PROVE  Rising(sent'[k]) /\ UpTo(sent'[k], n + 1) /\ Below(sent'[k], kept')
      <4>1. Below(sent'[k], kept')
        BY <2>1 DEF Below
      <4>2. CASE k = c
        BY <2>2, <4>1, <4>2
      <4>3. CASE k # c
        BY <1>3, <2>1, <4>1, <4>3 DEF SaidInv, Numbered
      <4> QED BY <4>2, <4>3
    <3>3. ASSUME NEW k \in DOMAIN sent, NEW l \in DOMAIN sent, k < l
          PROVE  Below(sent'[k], sent'[l])
      <4>1. Below(sent[k], sent[l]) /\ k # c /\ sent'[k] = sent[k]
        BY <2>1, <2>3, <3>3 DEF SaidInv, Numbered
      <4>2. CASE l # c
        BY <2>1, <4>1, <4>2
      <4>3. CASE l = c
        <5> SUFFICES ASSUME NEW i \in DOMAIN sent[k], NEW j \in DOMAIN sent'[c]
                     PROVE  sent[k][i] < sent'[c][j]
          BY <4>1, <4>3 DEF Below
        <5>1. sent[k][i] \in Nat /\ sent[k][i] <= n
          <6>1. sent[k] \in Seq(Nat) /\ UpTo(sent[k], n)
            BY <1>3
          <6> QED BY ONLY <6>1, i \in DOMAIN sent[k] DEF UpTo
        <5>2. CASE sent'[c][j] = n + 1
          BY <1>1, <5>1, <5>2
        <5>3. CASE j \in DOMAIN sent[c] /\ sent'[c][j] = sent[c][j]
          BY <4>1, <4>3, <5>3 DEF Below
        <5> QED BY <2>2, <5>2, <5>3
      <4> QED BY <4>2, <4>3
    <3>4. Rising(kept') /\ UpTo(kept', n + 1) /\ kept' \in Seq(Nat)
      BY <2>1 DEF Rising, UpTo
    <3> QED BY <1>1, <2>1, <3>1, <3>2, <3>3, <3>4 DEF Numbered
  <2>5. Ordered'
    <3>1. ASSUME NEW j \in DOMAIN heard, NEW k \in DOMAIN sent, NEW l \in DOMAIN sent'[k]
          PROVE  Apart(heard[j], k, sent'[k][l])
      <4>1. CASE l \in DOMAIN sent[k] /\ sent'[k][l] = sent[k][l]
        BY <4>1 DEF SaidInv, Ordered
      <4>2. CASE k = c /\ sent'[k][l] = n + 1
        BY <1>4, <4>2 DEF Apart, SaidInv, Ordered
      <4> QED BY <2>1, <2>2, <4>1, <4>2
    <3> QED BY <1>0, <1>1, <1>4, <2>1, <3>1 DEF SaidInv, Ordered
  <2>6. Owing'
    <3>1. owed' \subseteq owed \cup {n + 1} /\ (owed' # {} => socket /\ gateway = "joined")
      BY <1>6 DEF Emit, SaidInv, Owing
    <3>2. ASSUME NEW m \in owed'
          PROVE  \/ \E j \in DOMAIN heard : heard[j].action = m
                 \/ \E j \in DOMAIN sent'[c] : sent'[c][j] = m
      <4>1. CASE m = n + 1
        BY <2>2, <4>1
      <4>2. CASE m \in owed
        BY <2>2, <4>2 DEF SaidInv, Owing
      <4> QED BY <3>1, <4>1, <4>2
    <3>3. sent' # <<>>
      BY <1>3, <2>1
    <3> QED BY <1>0, <2>1, <3>1, <3>2, <3>3 DEF Owing
  <2> QED BY <2>4, <2>5, <2>6 DEF SaidInv
<1>7. CASE Emit(n + 1) /\ ~socket
  <2>1. sent' = sent /\ owed' = owed /\ owed = {} /\ kept' \in {kept, Append(kept, n + 1)}
    BY <1>7 DEF Emit, SaidInv, Owing
  <2>2. CASE kept' = kept
    BY <1>0, <1>5, <2>1, <2>2
  <2>3. CASE kept' = Append(kept, n + 1)
    <3>1. /\ kept' \in Seq(Nat) /\ Rising(kept') /\ UpTo(kept', n + 1)
          /\ \A j \in DOMAIN kept' : kept'[j] = n + 1 \/ (j \in DOMAIN kept /\ kept'[j] = kept[j])
      <4>1. Rising(kept)
        BY DEF SaidInv, Numbered
      <4> QED BY ONLY <1>1, <1>3, <2>3, <4>1, AppendHighest
    <3>2. ASSUME NEW k \in DOMAIN sent PROVE Below(sent[k], kept')
      <4> SUFFICES ASSUME NEW i \in DOMAIN sent[k], NEW j \in DOMAIN kept'
                   PROVE  sent[k][i] < kept'[j]
        BY DEF Below
      <4>1. sent[k][i] \in Nat /\ sent[k][i] <= n
        <5>1. sent[k] \in Seq(Nat) /\ UpTo(sent[k], n)
          BY <1>3
        <5> QED BY ONLY <5>1, i \in DOMAIN sent[k] DEF UpTo
      <4>2. CASE kept'[j] = n + 1
        BY <1>1, <4>1, <4>2
      <4>3. CASE j \in DOMAIN kept /\ kept'[j] = kept[j]
        BY <4>3 DEF SaidInv, Numbered, Below
      <4> QED BY <3>1, <4>2, <4>3
    <3>3. \A j \in DOMAIN heard : \A k \in DOMAIN kept' : heard[j].action < kept'[k]
      BY <1>4, <3>1 DEF SaidInv, Ordered
    <3>4. Numbered'
      BY <1>1, <1>3, <2>1, <3>1, <3>2 DEF SaidInv, Numbered
    <3>5. Ordered'
      BY <1>0, <1>1, <1>4, <2>1, <3>3 DEF SaidInv, Ordered
    <3>6. Owing'
      BY <1>0, <1>7, <2>1 DEF Owing
    <3> QED BY <3>4, <3>5, <3>6 DEF SaidInv
  <2> QED BY <2>1, <2>2, <2>3
<1> QED BY <1>1, <1>5, <1>6, <1>7 DEF Execute

\* A gateway takes the first action of its socket, and says it if it has joined.
LEMMA MsgSays ==
  ASSUME SaidInv, NEW k \in DOMAIN sent, OnMsg(k)
  PROVE  SaidInv'
<1> DEFINE n == sent[k][1]
           c == Len(sent)
<1>0. UNCHANGED <<socket, gateway, executed, kept, owed>> /\ sent[k] # <<>>
  BY DEF OnMsg, uvars, bvars
<1>1. /\ sent \in Seq(Seq(Nat)) /\ heard \in Seq(Spoken) /\ sent[k] \in Seq(Nat) /\ k \in 1 .. c
      /\ c \in Nat
      /\ \A l \in DOMAIN sent : l \in 1 .. c
      /\ \A j \in DOMAIN heard : heard[j] \in Spoken
      /\ \A l \in DOMAIN sent : \A i \in DOMAIN sent[l] : sent[l][i] \in Nat
  <2>1. sent \in Seq(Seq(Nat)) /\ heard \in Seq(Spoken)
    BY DEF SaidInv, Numbered, Ordered
  <2>2. \A l \in DOMAIN sent : sent[l] \in Seq(Nat)
    BY ONLY <2>1
  <2>3. ASSUME NEW l \in DOMAIN sent, NEW i \in DOMAIN sent[l] PROVE sent[l][i] \in Nat
    BY ONLY <2>2
  <2>4. k \in 1 .. c /\ c \in Nat /\ DOMAIN sent = 1 .. c
    BY ONLY <2>1
  <2> QED BY <2>1, <2>2, <2>3, <2>4
<1>2. /\ sent' = [sent EXCEPT ![k] = Tail(@)] /\ DOMAIN sent' = DOMAIN sent /\ Len(sent') = c
      /\ sent'[k] = Tail(sent[k])
      /\ \A l \in DOMAIN sent : l # k => sent'[l] = sent[l]
  BY <1>1 DEF OnMsg
<1>3. /\ Tail(sent[k]) \in Seq(Nat) /\ n \in Nat /\ Rising(Tail(sent[k]))
      /\ 1 \in DOMAIN sent[k] /\ Head(sent[k]) = n
      /\ \A j \in DOMAIN Tail(sent[k]) :
           /\ j + 1 \in DOMAIN sent[k] /\ Tail(sent[k])[j] = sent[k][j + 1]
           /\ n < sent[k][j + 1]
      /\ \A j \in DOMAIN sent[k] :
           j = 1 \/ (j - 1 \in DOMAIN Tail(sent[k]) /\ Tail(sent[k])[j - 1] = sent[k][j])
  <2>1. Rising(sent[k])
    BY DEF SaidInv, Numbered
  <2> QED BY ONLY <1>0, <1>1, <2>1, TailRises
<1>4. sent' \in Seq(Seq(Nat))
  BY <1>1, <1>2, <1>3
<1>5. \A l \in DOMAIN sent :
        /\ Rising(sent'[l])
        /\ \A j \in DOMAIN sent'[l] : \E i \in DOMAIN sent[l] : sent'[l][j] = sent[l][i]
  BY <1>2, <1>3 DEF SaidInv, Numbered
<1>6. PICK joined \in IF k = c THEN {gateway = "joined"} ELSE BOOLEAN :
        heard' = IF joined THEN Append(heard, [socket |-> k, action |-> n]) ELSE heard
  BY <1>3 DEF OnMsg
<1>7. CASE ~joined
  <2>1. heard' = heard /\ (k = c => owed = {})
    BY <1>6, <1>7 DEF SaidInv, Owing
  <2>2. (Numbered /\ Ordered)'
    BY <1>0, <1>2, <1>4, <1>5, <2>1, StillOrdered
  <2>3. Owing'
    <3>1. k # c => sent'[c] = sent[c]
      BY <1>1, <1>2
    <3>2. sent # <<>> => sent' # <<>>
      BY <1>1, <1>2, <1>4
    <3> QED BY <1>0, <1>2, <2>1, <3>1, <3>2 DEF SaidInv, Owing
  <2> QED BY <2>2, <2>3 DEF SaidInv
<1>8. CASE joined
  <2> DEFINE h == [socket |-> k, action |-> n]
             p == Len(heard) + 1
  <2>1. /\ heard' = Append(heard, h) /\ h \in Spoken
    BY <1>1, <1>3, <1>6, <1>8 DEF Spoken
  <2>2. /\ heard' \in Seq(Spoken) /\ Len(heard) \in Nat
        /\ DOMAIN heard' = 1 .. p /\ DOMAIN heard = 1 .. Len(heard)
        /\ heard'[p] = h
        /\ \A j \in 1 .. Len(heard) : heard'[j] = heard[j]
    BY <1>1, <2>1
  <2>3. \A j \in DOMAIN heard' : j = p \/ (j \in DOMAIN heard /\ heard'[j] = heard[j])
    BY ONLY <2>2
  <2>4. Numbered'
    <3>1. \A l \in DOMAIN sent : UpTo(sent'[l], Len(executed)) /\ Below(sent'[l], kept)
      BY <1>5 DEF SaidInv, Numbered, UpTo, Below
    <3>2. ASSUME NEW l \in DOMAIN sent, NEW m \in DOMAIN sent, l < m
          PROVE  Below(sent'[l], sent'[m])
      <4>1. Below(sent[l], sent[m])
        BY <3>2 DEF SaidInv, Numbered
      <4>2. /\ \A i \in DOMAIN sent'[l] : \E j \in DOMAIN sent[l] : sent'[l][i] = sent[l][j]
            /\ \A i \in DOMAIN sent'[m] : \E j \in DOMAIN sent[m] : sent'[m][i] = sent[m][j]
        BY <1>5
      <4> QED BY ONLY <4>1, <4>2 DEF Below
    <3> QED BY <1>0, <1>2, <1>4, <1>5, <3>1, <3>2 DEF SaidInv, Numbered
  <2>5. /\ h.socket <= c /\ h.action <= Len(executed)
        /\ \A l \in DOMAIN kept : h.action < kept[l]
    BY <1>1, <1>3 DEF SaidInv, Numbered, UpTo, Below
  <2>6. ASSUME NEW l \in DOMAIN sent, NEW i \in DOMAIN sent'[l]
        PROVE  Apart(h, l, sent'[l][i])
    <3>1. CASE l = k
      BY <1>1, <1>2, <1>3, <3>1 DEF Apart
    <3>2. CASE k < l
      <4>1. Below(sent[k], sent[l]) /\ sent'[l] = sent[l]
        BY <1>1, <1>2, <3>2 DEF SaidInv, Numbered
      <4>2. n < sent'[l][i] /\ k <= l
        BY <1>1, <1>3, <3>2, <4>1 DEF Below
      <4> QED BY <4>2 DEF Apart
    <3>3. CASE l < k
      <4>1. Below(sent[l], sent[k]) /\ sent'[l] = sent[l]
        BY <1>1, <1>2, <3>3 DEF SaidInv, Numbered
      <4>2. sent'[l][i] < n /\ sent'[l][i] \in Nat
        BY <1>1, <1>3, <4>1 DEF Below
      <4>3. n > sent'[l][i] /\ ~(k <= l)
        BY <1>1, <1>3, <3>3, <4>2
      <4> QED BY <4>3 DEF Apart
    <3> QED BY <1>1, <3>1, <3>2, <3>3
  <2>7. ASSUME NEW j \in DOMAIN heard
        PROVE  /\ Apart(heard[j], h.socket, h.action)
               /\ \A l \in DOMAIN sent : \A i \in DOMAIN sent'[l] : Apart(heard[j], l, sent'[l][i])
    BY <1>3, <1>5 DEF SaidInv, Ordered
  <2>8. ASSUME NEW j \in DOMAIN heard', NEW i \in DOMAIN heard', j < i
        PROVE  Apart(heard'[j], heard'[i].socket, heard'[i].action)
    <3>1. j \in DOMAIN heard /\ heard'[j] = heard[j]
      BY <2>2, <2>8
    <3>2. CASE i = p
      BY <2>2, <2>7, <3>1, <3>2
    <3>3. CASE i \in DOMAIN heard /\ heard'[i] = heard[i]
      BY <2>8, <3>1, <3>3 DEF SaidInv, Ordered
    <3> QED BY <2>3, <3>2, <3>3
  <2>9. Ordered'
    <3>1. ASSUME NEW j \in DOMAIN heard'
          PROVE  /\ heard'[j].socket <= c /\ heard'[j].action <= Len(executed)
                 /\ \A l \in DOMAIN kept : heard'[j].action < kept[l]
                 /\ \A l \in DOMAIN sent : \A i \in DOMAIN sent'[l] :
                      Apart(heard'[j], l, sent'[l][i])
      <4>1. CASE j = p
        BY <2>2, <2>5, <2>6, <4>1
      <4>2. CASE j \in DOMAIN heard /\ heard'[j] = heard[j]
        BY <2>7, <4>2 DEF SaidInv, Ordered
      <4> QED BY <2>3, <4>1, <4>2
    <3> QED BY <1>0, <1>2, <2>2, <2>8, <3>1 DEF Ordered
  <2>10. Owing'
    <3>1. ASSUME NEW m \in owed
          PROVE  \/ \E j \in DOMAIN heard' : heard'[j].action = m
                 \/ \E j \in DOMAIN sent'[c] : sent'[c][j] = m
      <4>1. CASE \E j \in DOMAIN heard : heard[j].action = m
        <5>1. PICK j \in DOMAIN heard : heard[j].action = m
          BY <4>1
        <5>2. j \in DOMAIN heard' /\ heard'[j] = heard[j]
          BY ONLY <2>2
        <5> QED BY <5>1, <5>2
      <4>2. CASE \E j \in DOMAIN sent[c] : sent[c][j] = m
        <5>1. PICK j \in DOMAIN sent[c] : sent[c][j] = m
          BY <4>2
        <5>2. CASE k # c
          BY <1>1, <1>2, <5>1, <5>2
        <5>3. CASE k = c /\ j = 1
          <6>1. p \in DOMAIN heard'
            BY ONLY <2>2
          <6> QED BY <2>2, <5>1, <5>3, <6>1
        <5>4. CASE k = c /\ j # 1
          BY <1>2, <1>3, <5>1, <5>4
        <5> QED BY <5>2, <5>3, <5>4
      <4> QED BY <4>1, <4>2 DEF SaidInv, Owing
    <3>2. sent # <<>> => sent' # <<>>
      BY <1>1, <1>2, <1>4
    <3> QED BY <1>0, <1>2, <3>1, <3>2 DEF SaidInv, Owing
  <2> QED BY <2>4, <2>9, <2>10 DEF SaidInv
<1> QED BY <1>6, <1>7, <1>8

\* A socket opens, and what was kept is sent; or it is lost, with actions on it.
LEMMA SocketSays ==
  ASSUME SaidInv, SocketOpens \/ SocketFails
  PROVE  SaidInv'
<1> DEFINE c == Len(sent)
<1>1. UNCHANGED <<executed, heard>>
  BY DEF SocketOpens, SocketFails, bvars
<1>2. /\ sent \in Seq(Seq(Nat)) /\ kept \in Seq(Nat) /\ c \in Nat /\ DOMAIN sent = 1 .. c
      /\ heard \in Seq(Spoken) /\ \A j \in DOMAIN heard : heard[j] \in Spoken
  BY DEF SaidInv, Numbered, Ordered
<1>3. CASE SocketOpens
  <2>1. sent' = Append(sent, kept) /\ kept' = <<>> /\ owed' = owed /\ owed = {}
    BY <1>3 DEF SocketOpens, Open, SaidInv, Owing
  <2>2. /\ sent' \in Seq(Seq(Nat)) /\ Len(sent') = c + 1 /\ DOMAIN sent' = 1 .. c + 1
        /\ sent'[c + 1] = kept /\ \A k \in 1 .. c : sent'[k] = sent[k]
    BY <1>2, <2>1
  <2>3. \A k \in DOMAIN sent' : k \in Nat /\ (k = c + 1 \/ k \in DOMAIN sent)
    BY ONLY <1>2, <2>2
  <2>4. Numbered'
    <3>1. kept' \in Seq(Nat) /\ Rising(kept') /\ UpTo(kept', Len(executed))
      BY <2>1 DEF Rising, UpTo
    <3>2. ASSUME NEW k \in DOMAIN sent'
          PROVE  Rising(sent'[k]) /\ UpTo(sent'[k], Len(executed)) /\ Below(sent'[k], kept')
      <4>1. Below(sent'[k], kept')
        BY <2>1 DEF Below
      <4> QED BY <1>2, <2>2, <2>3, <4>1 DEF SaidInv, Numbered
    <3>3. ASSUME NEW k \in DOMAIN sent', NEW l \in DOMAIN sent', k < l
          PROVE  Below(sent'[k], sent'[l])
      <4>1. k \in DOMAIN sent /\ sent'[k] = sent[k]
        <5>1. k \in 1 .. c + 1 /\ l \in 1 .. c + 1
          BY <2>2
        <5>2. k \in 1 .. c
          BY ONLY <1>2, <3>3, <5>1
        <5> QED BY <1>2, <2>2, <5>2
      <4>2. CASE l = c + 1
        BY <2>2, <4>1, <4>2 DEF SaidInv, Numbered
      <4>3. CASE l \in DOMAIN sent
        BY <1>2, <2>2, <3>3, <4>1, <4>3 DEF SaidInv, Numbered
      <4> QED BY <2>3, <4>2, <4>3
    <3> QED BY <1>1, <2>2, <3>1, <3>2, <3>3 DEF Numbered
  <2>5. Ordered'
    <3>1. ASSUME NEW j \in DOMAIN heard
          PROVE  /\ heard[j].socket <= c + 1
                 /\ \A k \in DOMAIN sent' : \A l \in DOMAIN sent'[k] :
                      Apart(heard[j], k, sent'[k][l])
      <4>1. heard[j].socket \in Nat /\ heard[j].socket <= c /\ heard[j].socket <= c + 1
        BY <1>2 DEF SaidInv, Ordered, Spoken
      <4>2. ASSUME NEW k \in DOMAIN sent', NEW l \in DOMAIN sent'[k]
            PROVE  Apart(heard[j], k, sent'[k][l])
        <5>1. CASE k = c + 1
          BY <2>2, <4>1, <5>1 DEF SaidInv, Ordered, Apart
        <5>2. CASE k \in DOMAIN sent
          BY <1>2, <2>2, <5>2 DEF SaidInv, Ordered
        <5> QED BY <2>3, <5>1, <5>2
      <4> QED BY <4>1, <4>2
    <3>2. DOMAIN kept' = {}
      BY <2>1
    <3> QED BY <1>1, <2>2, <3>1, <3>2 DEF SaidInv, Ordered
  <2>6. Owing'
    <3>1. sent' # <<>>
      BY ONLY <1>2, <2>2
    <3> QED BY <2>1, <3>1 DEF Owing
  <2> QED BY <2>4, <2>5, <2>6 DEF SaidInv
<1>4. CASE SocketFails
  <2>1. c \in DOMAIN sent /\ Last(sent) = sent[c]
    BY <1>2, <1>4 DEF SocketFails, SocketLost, SaidInv, Owing, Last
  <2>2. PICK m \in 0 .. Len(sent[c]) : sent' = [sent EXCEPT ![c] = SubSeq(@, 1, m)]
    BY <1>4, <2>1 DEF SocketFails
  <2>3. /\ SubSeq(sent[c], 1, m) \in Seq(Nat) /\ Rising(SubSeq(sent[c], 1, m))
        /\ \A j \in DOMAIN SubSeq(sent[c], 1, m) :
             j \in DOMAIN sent[c] /\ SubSeq(sent[c], 1, m)[j] = sent[c][j]
    <3>1. sent[c] \in Seq(Nat) /\ Rising(sent[c])
      <4>1. sent[c] \in Seq(Nat)
        BY ONLY <1>2, <2>1
      <4> QED BY <2>1, <4>1 DEF SaidInv, Numbered
    <3>2. m \in 0 .. Len(sent[c])
      OBVIOUS
    <3> QED BY ONLY <3>1, <3>2, PrefixRises
  <2>4. /\ Len(sent') = c /\ sent' \in Seq(Seq(Nat))
        /\ \A k \in DOMAIN sent : sent'[k] = IF k = c THEN SubSeq(sent[c], 1, m) ELSE sent[k]
    BY <1>2, <2>1, <2>2, <2>3
  <2>5. \A k \in DOMAIN sent :
          /\ Rising(sent'[k])
          /\ \A j \in DOMAIN sent'[k] : \E l \in DOMAIN sent[k] : sent'[k][j] = sent[k][l]
    BY <2>3, <2>4 DEF SaidInv, Numbered
  <2>6. ~socket' /\ owed' = {} /\ kept' = kept
    BY <1>4 DEF SocketFails, SocketLost
  <2>7. (Numbered /\ Ordered)'
    BY <1>1, <2>4, <2>5, <2>6, StillOrdered
  <2> QED BY <2>6, <2>7 DEF SaidInv, Owing
<1> QED BY <1>3, <1>4

\* Every step keeps the invariant of the way.
LEMMA SaidStep ==
  ASSUME GatheredInv, SaidInv, [CNext]_cvars
  PROVE  SaidInv'
<1>1. CASE Execute
  BY <1>1, ExecuteSays
<1>2. CASE Say
  BY <1>2, MsgSays DEF Say
<1>3. CASE SocketOpens \/ SocketFails
  BY <1>3, SocketSays
<1>4. CASE ComponentStep \/ BrowserStep
  <2>1. UNCHANGED <<executed, heard, sent, kept, owed, socket, gateway>>
    BY <1>4 DEF ComponentStep, BrowserStep, bvars, path, Arrive, Leave, Rename, Channel,
                Browser, Join, Part, Changed, PartAll, Receiving
  <2> QED BY <2>1, StillSaid DEF SaidInv
<1>5. CASE GatewayStep
  <2>1. UNCHANGED <<executed, heard, sent, kept, owed, socket>>
    BY <1>5 DEF GatewayStep, bvars, path, OnJoin, OnPart, OnNick, OnNames, OnClose, Joined,
                Handling
  <2>2. gateway' = gateway \/ (gateway = "joining" /\ gateway' = "joined")
    BY <1>5 DEF GatewayStep, OnJoin, OnPart, OnNick, OnNames, OnClose, Joined, Handling
  <2> QED BY <2>1, <2>2, StillSaid DEF SaidInv, Owing
<1>6. CASE Mouse
  <2>1. UNCHANGED <<heard, sent, kept, owed, socket, gateway>>
    BY <1>6 DEF Mouse, path, uvars
  <2>2. executed' = executed
    BY <1>6 DEF Mouse, OnButton, OffButton, Button!Down, Button!Up, Button!UpAlone,
                Button!DownAway, Button!UpAway
  <2> QED BY <2>1, <2>2, StillSaid DEF SaidInv, Owing
<1>7. CASE IrcFails
  <2>1. UNCHANGED <<executed, heard, sent, kept, socket>> /\ owed' = {} /\ gateway' = "joining"
    BY <1>7 DEF IrcFails, IrcLost, bvars
  <2> QED BY <2>1, StillSaid
<1>8. CASE Disconnect
  <2>1. UNCHANGED <<executed, heard, sent, kept, owed, socket>> /\ ~socket
    BY <1>8 DEF Disconnect, OnDisconnect, bvars, path
  <2>2. owed = {}
    BY <2>1 DEF SaidInv, Owing
  <2> QED BY <2>1, <2>2, StillSaid
<1>9. CASE UNCHANGED cvars
  <2>1. UNCHANGED <<executed, heard, sent, kept, owed, socket, gateway>>
    BY <1>9 DEF cvars, uvars, bvars, path
  <2> QED BY <2>1, StillSaid DEF SaidInv
<1> QED BY <1>1, <1>2, <1>3, <1>4, <1>5, <1>6, <1>7, <1>8, <1>9 DEF CNext

\* An action is said once, in order on its socket, unless a connection is lost: net.action,
\* gateway.js msg, ui/main.js.
THEOREM ActionsSaid == CSpec => []SaidOnce
<1>1. CInit => GatheredInv /\ SaidInv
  <2> SUFFICES ASSUME CInit PROVE GatheredInv /\ SaidInv
    OBVIOUS
  <2>1. sent = <<>> /\ kept = <<>> /\ heard = <<>> /\ owed = {} /\ ~socket
    BY DEF CInit, Init
  <2>2. GatheredInv
    BY DEF CInit, Button!Init, GatheredInv
  <2> QED BY <2>1, <2>2 DEF SaidInv, Numbered, Ordered, Owing, Rising, Below, UpTo
<1>2. GatheredInv /\ SaidInv /\ [CNext]_cvars => (GatheredInv /\ SaidInv)'
  BY ClientIsButton, GatheredStep, SaidStep
<1>3. SaidInv => SaidOnce
  <2> SUFFICES ASSUME SaidInv PROVE SaidOnce
    OBVIOUS
  <2>1. \A n \in owed : Last(sent) = sent[Len(sent)]
    BY DEF SaidInv, Numbered, Owing, Last
  <2> QED BY <2>1 DEF SaidInv, Ordered, Owing, SaidOnce, Apart
<1> QED BY <1>1, <1>2, <1>3, PTL DEF CSpec
-----------------------------------------------------------------------------
(* What is on its way to the browser                                       *)

Attributes == Values \cup {Absent, SelfNick}

\* A message that empties the browser, from the gateway or to the browser.
Emptying == {"close", "partall", "disconnect"}

\* By message m what is shown of i goes from v to w.
Leads(i, m, v, w) ==
  /\ m.kind \in Emptying => w = Absent
  /\ m.kind = "names" =>
       /\ \A n \in m.nick : n.id = i => w = n.value
       /\ (\A n \in m.nick : n.id # i) => w = v
  /\ m.kind \in {"join", "part", "changed", "nick"} =>
       /\ m.nick.id # i => w = v
       /\ m.nick.id = i =>
            w = IF m.kind = "part" \/ (m.kind \in {"changed", "nick"} /\ v = Absent)
                  THEN Absent ELSE m.nick.value

\* Along messages s, from the one after a on, f is what is shown of i.
Path(i, s, a, f) == \A j \in DOMAIN s : j > a => Leads(i, s[j], f[j - 1], f[j])

\* A path on the wire starts at what is shown, or at a message that empties.
StartsAt(i, a, f) ==
  IF a = 0 THEN f[0] = net[i] ELSE wire[a].kind \in Emptying /\ f[a] = Absent

\* What a browser must show of i.
MustShow(i, w) ==
  /\ \A n \in present : n.id = i => w = n.value
  /\ (\A n \in present : n.id # i) => w = Absent

\* What is on the wire, and then what the gateway has to handle, leads to that.
Coming(i) ==
  \E a \in 0 .. Len(wire), f, g \in [Nat -> Attributes] :
    /\ StartsAt(i, a, f) /\ Path(i, wire, a, f)
    /\ g[0] = f[Len(wire)] /\ Path(i, inbox, 0, g)
    /\ MustShow(i, g[Len(inbox)])

\* The browser is empty, or the last that it will hear empties it.
Empties == IF wire = <<>> THEN net = Nobody ELSE wire[Len(wire)].kind \in Emptying

\* The invariant: what the browser shows when all is delivered.
ComingInv ==
  /\ ShownInv
  /\ gateway = "none" => ~socket /\ inbox = <<>>
  /\ ~socket => Empties
  /\ gateway = "joining" /\ socket =>
       IF inbox = <<>> THEN Empties ELSE inbox[Len(inbox)].kind = "close"
  /\ gateway = "joined" => Doubles(present) \subseteq doubled
  /\ gateway = "joined" /\ socket => \A i \in Ids \ doubled : Coming(i)

\* An id that has not two nicks has one at most.
LEMMA Alone ==
  ASSUME NEW S \in SUBSET Nick, NEW i \in Ids \ Doubles(S), NEW a \in S, NEW b \in S,
         a.id = i, b.id = i
  PROVE  a = b
<1> DEFINE T == {n \in S : n.id = i}
<1>1. IsFiniteSet(T) /\ Cardinality(T) \in Nat
  BY UiAssumption, FS_Subset, FS_CardinalityType DEF Nick
<1>2. ~ (Cardinality(T) > 1)
  BY DEF Doubles
<1>3. ASSUME a # b PROVE FALSE
  <2>1. {a, b} \subseteq T
    OBVIOUS
  <2>2. Cardinality({a, b}) = 2
    <3>1. IsFiniteSet({a}) /\ Cardinality({a}) = 1
      BY FS_Singleton
    <3>2. Cardinality({a} \cup {b}) = Cardinality({a}) + 1
      <4>1. b \notin {a}
        BY <1>3
      <4> QED BY <3>1, <4>1, FS_AddElement
    <3>3. {a, b} = {a} \cup {b}
      OBVIOUS
    <3> QED BY <3>1, <3>2, <3>3
  <2>3. Cardinality({a, b}) <= Cardinality(T)
    BY <1>1, <2>1, FS_Subset
  <2> QED BY <1>1, <1>2, <2>2, <2>3
<1> QED BY <1>3

\* What follows the first message.
LEMMA TailAt ==
  ASSUME NEW M, NEW s \in Seq(M), s # <<>>, NEW j \in DOMAIN Tail(s), NEW a \in Nat,
         NEW b \in Nat, a <= b + 1
  PROVE  /\ j \in Nat \ {0} /\ j + 1 \in DOMAIN s /\ Tail(s)[j] = s[j + 1]
         /\ j > b => j + 1 > a
<1>1. Len(s) \in Nat \ {0} /\ DOMAIN s = 1 .. Len(s)
  OBVIOUS
<1>2. Len(Tail(s)) = Len(s) - 1 /\ DOMAIN Tail(s) = 1 .. Len(s) - 1
  OBVIOUS
<1>3. j \in 1 .. Len(s) - 1 /\ Tail(s)[j] = s[j + 1]
  BY <1>1, <1>2
<1> QED BY <1>1, <1>3

\* The first message taken away, the path goes on from the second.
LEMMA PathTail ==
  ASSUME NEW i, NEW M, NEW s \in Seq(M), s # <<>>, NEW a \in Nat, NEW b \in Nat, a <= b + 1,
         NEW f, NEW ff, ff = [k \in Nat |-> f[k + 1]], Path(i, s, a, f)
  PROVE  Path(i, Tail(s), b, ff)
<1>1. ASSUME NEW j \in DOMAIN Tail(s), j > b
      PROVE  Leads(i, Tail(s)[j], ff[j - 1], ff[j])
  <2>1. j \in Nat \ {0} /\ j + 1 \in DOMAIN s /\ Tail(s)[j] = s[j + 1] /\ j + 1 > a
    BY <1>1, TailAt
  <2>2. Leads(i, s[j + 1], f[(j + 1) - 1], f[j + 1])
    BY <2>1 DEF Path
  <2>3. ff[j - 1] = f[(j + 1) - 1] /\ ff[j] = f[j + 1]
    <3>1. j - 1 \in Nat /\ j \in Nat /\ (j - 1) + 1 = (j + 1) - 1
      BY <2>1
    <3> QED BY <3>1
  <2> QED BY <2>1, <2>2, <2>3
<1> QED BY <1>1 DEF Path

\* A handler of the gateway passes on what it was told: what it emits leads where the
\* message did.
LEMMA PassedOn ==
  ASSUME ShownInv, NEW i \in Ids, Coming(i), inbox # <<>>, inbox' = Tail(inbox),
         NEW s \in Seq(WireMessages), wire' = wire \o s, UNCHANGED <<present, net>>,
         \A v, w \in Attributes : Leads(i, Head(inbox), v, w) =>
           \E h \in [Nat -> Attributes] : h[0] = v /\ h[Len(s)] = w /\ Path(i, s, 0, h)
  PROVE  Coming(i)'
<1>1. PICK a \in 0 .. Len(wire), f \in [Nat -> Attributes], g \in [Nat -> Attributes] :
        /\ StartsAt(i, a, f) /\ Path(i, wire, a, f)
        /\ g[0] = f[Len(wire)] /\ Path(i, inbox, 0, g)
        /\ MustShow(i, g[Len(inbox)])
  BY DEF Coming
<1>2. inbox \in Seq(InboxMessages) /\ wire \in Seq(WireMessages)
  BY DEF ShownInv
<1>3. 1 \in DOMAIN inbox /\ Head(inbox) = inbox[1]
  BY <1>2
<1>4. Leads(i, Head(inbox), g[0], g[1])
  <2>1. Leads(i, inbox[1], g[1 - 1], g[1])
    <3>1. 1 > 0
      OBVIOUS
    <3> QED BY <1>1, <1>3, <3>1, Zenon DEF Path
  <2> QED BY <1>3, <2>1
<1>5. g[0] \in Attributes /\ g[1] \in Attributes
  BY <1>1
<1>6. PICK h \in [Nat -> Attributes] : h[0] = g[0] /\ h[Len(s)] = g[1] /\ Path(i, s, 0, h)
  BY <1>4, <1>5
<1>. PICK L \in Nat : L = Len(wire)
  BY <1>2
<1> DEFINE ff == [k \in Nat |-> IF k <= L THEN f[k] ELSE h[k - L]]
           gg == [k \in Nat |-> g[k + 1]]
<1>7. L = Len(wire) /\ Len(s) \in Nat /\ Len(inbox) \in Nat \ {0}
  BY <1>2
<1>8. ff \in [Nat -> Attributes] /\ gg \in [Nat -> Attributes]
  BY <1>1, <1>6, <1>7
<1>9. a \in 0 .. Len(wire') /\ Len(wire') = L + Len(s)
  BY <1>2, <1>7
<1>10. \A k \in Nat : /\ k <= L => ff[k] = f[k]
                      /\ k >= L => ff[k] = h[k - L]
  BY <1>1, <1>6, <1>7
<1>11. StartsAt(i, a, ff)'
  <2>1. CASE a = 0
    BY <1>1, <1>7, <1>10, <2>1 DEF StartsAt
  <2>2. CASE a # 0
    <3>1. wire'[a] = wire[a]
      BY <1>2, <2>2
    <3> QED BY <1>1, <1>7, <1>10, <2>2, <3>1 DEF StartsAt
  <2> QED BY <2>1, <2>2
<1>12. Path(i, wire', a, ff)
  <2>1. ASSUME NEW j \in DOMAIN wire', j > a
        PROVE  Leads(i, wire'[j], ff[j - 1], ff[j])
    <3>1. CASE j <= L
      <4>1. j \in DOMAIN wire /\ wire'[j] = wire[j]
        BY <1>2, <1>7, <2>1, <3>1
      <4>2. ff[j - 1] = f[j - 1] /\ ff[j] = f[j]
        BY <1>2, <1>10, <2>1, <3>1
      <4>3. Leads(i, wire[j], f[j - 1], f[j])
        BY <1>1, <2>1, <4>1 DEF Path
      <4> QED BY <4>1, <4>2, <4>3
    <3>2. CASE j > L
      <4>1. j - L \in DOMAIN s /\ wire'[j] = s[j - L] /\ j - L > 0
        BY <1>2, <1>7, <2>1, <3>2
      <4>2. ff[j - 1] = h[j - L - 1] /\ ff[j] = h[j - L]
        BY <1>2, <1>7, <1>10, <2>1, <3>2
      <4>3. Leads(i, s[j - L], h[(j - L) - 1], h[j - L])
        BY <1>6, <4>1 DEF Path
      <4>4. j - L - 1 = (j - L) - 1
        BY <1>2, <1>7, <2>1
      <4> QED BY <4>1, <4>2, <4>3, <4>4
    <3> QED BY <1>2, <1>7, <2>1, <3>1, <3>2
  <2> QED BY <2>1 DEF Path
<1>13. gg[0] = ff[Len(wire')]
  BY <1>6, <1>7, <1>9, <1>10
<1>14. Path(i, inbox', 0, gg)
  <2>1. 0 \in Nat /\ 0 <= 0 + 1
    OBVIOUS
  <2>2. gg = [k \in Nat |-> g[k + 1]]
    OBVIOUS
  <2> HIDE DEF gg
  <2>3. Path(i, Tail(inbox), 0, gg)
    BY <1>1, <1>2, <2>1, <2>2, PathTail
  <2> QED BY <2>3
<1>15. gg[Len(inbox')] = g[Len(inbox)]
  BY <1>2, <1>7
<1>16. MustShow(i, gg[Len(inbox)])'
  BY <1>1, <1>15 DEF MustShow
<1> QED BY <1>8, <1>9, <1>11, <1>12, <1>13, <1>14, <1>16 DEF Coming

\* One message passed on as one.
LEMMA OnePassedOn ==
  ASSUME ShownInv, NEW i \in Ids, Coming(i), inbox # <<>>, inbox' = Tail(inbox),
         NEW m \in WireMessages, wire' = wire \o <<m>>, UNCHANGED <<present, net>>,
         \A v, w \in Attributes : Leads(i, Head(inbox), v, w) => Leads(i, m, v, w)
  PROVE  Coming(i)'
<1>1. ASSUME NEW v \in Attributes, NEW w \in Attributes, Leads(i, Head(inbox), v, w)
      PROVE  \E h \in [Nat -> Attributes] :
               h[0] = v /\ h[Len(<<m>>)] = w /\ Path(i, <<m>>, 0, h)
  <2> DEFINE h == [k \in Nat |-> IF k = 0 THEN v ELSE w]
  <2>1. h \in [Nat -> Attributes] /\ h[0] = v /\ h[1] = w
    OBVIOUS
  <2>2. Leads(i, m, h[0], h[1])
    BY <1>1, <2>1
  <2>3. Path(i, <<m>>, 0, h)
    <3>1. ASSUME NEW j \in DOMAIN <<m>>
          PROVE  Leads(i, <<m>>[j], h[j - 1], h[j])
      <4>1. j = 1 /\ <<m>>[j] = m /\ j - 1 = 0
        OBVIOUS
      <4> QED BY <2>2, <4>1
    <3> QED BY <3>1 DEF Path
  <2> QED BY <2>1, <2>3
<1>2. <<m>> \in Seq(WireMessages)
  OBVIOUS
<1> QED BY <1>1, <1>2, PassedOn

\* A join for each name leads where the names lead, in any order.
LEMMA NamesPassedOn ==
  ASSUME NEW i \in Ids, NEW S \in SUBSET AnyNick, NEW s \in SetToSeqs(S),
         NEW m \in InboxMessages, m.kind = "names", m.nick = S,
         NEW v \in Attributes, NEW w \in Attributes, Leads(i, m, v, w)
  PROVE  LET t == [j \in DOMAIN s |-> Message("join", s[j])] IN
           \E h \in [Nat -> Attributes] : h[0] = v /\ h[Len(t)] = w /\ Path(i, t, 0, h)
<1> DEFINE t == [j \in DOMAIN s |-> Message("join", s[j])]
           h == [k \in Nat |-> IF \E j \in 1 .. k : s[j].id = i THEN w ELSE v]
<1>1. PICK N \in Nat : N = Cardinality(S) /\ IsFiniteSet(S)
  <2>1. IsFiniteSet(AnyNick)
    BY FiniteNicks
  <2> QED BY <2>1, FS_Subset, FS_CardinalityType
<1>2. s \in [1 .. N -> S] /\ \A n \in S : \E j \in 1 .. N : s[j] = n
  <2>1. s \in Injection(1 .. N, S)
    BY <1>1 DEF SetToSeqs, Injection, IsInjective
  <2>2. Cardinality(1 .. N) = N
    BY FS_Interval
  <2>3. s \in Surjection(1 .. N, S)
    BY <1>1, <2>1, <2>2, FS_Injection
  <2> QED BY <2>1, <2>3 DEF Injection, Surjection
<1>3. DOMAIN t = 1 .. N /\ Len(t) = N /\ \A j \in 1 .. N : t[j] = Message("join", s[j])
  <2>1. DOMAIN t = 1 .. N /\ \A j \in 1 .. N : t[j] = Message("join", s[j])
    BY <1>2
  <2>2. t \in Seq({Message("join", n) : n \in S})
    BY <1>2, <2>1, IsASeq
  <2> QED BY <2>1, <2>2, LenProperties
<1>4. h \in [Nat -> Attributes] /\ h[0] = v
  OBVIOUS
<1>5. /\ \A n \in S : n.id = i => w = n.value
      /\ (\A n \in S : n.id # i) => w = v
  BY DEF Leads
<1>6. h[N] = w
  BY <1>2, <1>5
<1>7. ASSUME NEW j \in 1 .. N
      PROVE  Leads(i, Message("join", s[j]), h[j - 1], h[j])
  <2>1. j \in Nat /\ j - 1 \in Nat /\ 1 .. j = 1 .. j - 1 \cup {j}
    OBVIOUS
  <2>2. CASE s[j].id = i
    <3>1. h[j] = w /\ w = s[j].value
      BY <1>2, <1>5, <2>1, <2>2
    <3> QED BY <2>2, <3>1 DEF Leads, Message, Emptying
  <2>3. CASE s[j].id # i
    <3>1. h[j] = h[j - 1]
      BY <2>1, <2>3
    <3> QED BY <2>3, <3>1 DEF Leads, Message, Emptying
  <2> QED BY <2>2, <2>3
<1>8. Path(i, t, 0, h)
  BY <1>3, <1>7, Zenon DEF Path
<1> QED BY <1>3, <1>4, <1>6, <1>8

\* Every handler of the gateway passes on what it was told.
LEMMA HandlersPassOn ==
  ASSUME ShownInv, socket, NEW i \in Ids, Coming(i),
         OnJoin \/ OnPart \/ OnNick \/ OnNames \/ OnClose
  PROVE  Coming(i)'
<1> DEFINE m == Head(inbox)
<1>1. ASSUME NEW k, Handling(k)
      PROVE  /\ inbox # <<>> /\ inbox' = Tail(inbox) /\ UNCHANGED <<present, net>>
             /\ m \in InboxMessages /\ m.kind = k
  BY <1>1, FirstMessage DEF Handling
<1>2. ASSUME NEW k \in {"join", "part"}, Handling(k), EmitAll(<<m>>)
      PROVE  Coming(i)'
  <2>1. m \in WireMessages
    BY <1>1, <1>2 DEF InboxMessages, WireMessages
  <2>2. wire' = wire \o <<m>>
    BY <1>2 DEF EmitAll
  <2> QED BY <1>1, <1>2, <2>1, <2>2, OnePassedOn
<1>3. CASE OnNick
  <2> DEFINE c == [m EXCEPT !.kind = "changed"]
  <2>1. m \in [kind : {"nick"}, nick : Nick]
    BY <1>1, <1>3 DEF OnNick, InboxMessages
  <2>2. c \in WireMessages /\ c.kind = "changed" /\ c.nick = m.nick /\ m.kind = "nick"
    BY <2>1 DEF WireMessages, AnyNick
  <2>3. wire' = wire \o <<c>>
    BY <1>3 DEF OnNick, EmitAll
  <2>4. \A v, w \in Attributes : Leads(i, m, v, w) => Leads(i, c, v, w)
    BY <2>2 DEF Leads, Emptying
  <2> HIDE DEF c
  <2> QED BY <1>1, <1>3, <2>2, <2>3, <2>4, OnePassedOn DEF OnNick
<1>4. CASE OnClose
  <2> DEFINE c == Message("partall", SelfNick)
  <2>1. c \in WireMessages /\ c.kind = "partall" /\ m.kind = "close"
    BY <1>1, <1>4 DEF OnClose, Message, WireMessages, AnyNick
  <2>2. wire' = wire \o <<c>>
    BY <1>4 DEF OnClose, EmitAll
  <2>3. \A v, w \in Attributes : Leads(i, m, v, w) => Leads(i, c, v, w)
    BY <2>1 DEF Leads, Emptying
  <2> HIDE DEF c
  <2> QED BY <1>1, <1>4, <2>1, <2>2, <2>3, OnePassedOn DEF OnClose
<1>5. CASE OnNames
  <2>1. m \in InboxMessages /\ m.kind = "names" /\ m.nick \in SUBSET AnyNick
    BY <1>1, <1>5 DEF OnNames, InboxMessages
  <2>2. PICK s \in SetToSeqs(m.nick) : EmitAll([j \in DOMAIN s |-> Message("join", s[j])])
    BY <1>5 DEF OnNames
  <2> DEFINE t == [j \in DOMAIN s |-> Message("join", s[j])]
  <2>3. t \in Seq(WireMessages)
    BY <2>1, NamesInSequence
  <2>4. ASSUME NEW v \in Attributes, NEW w \in Attributes, Leads(i, m, v, w)
        PROVE  \E h \in [Nat -> Attributes] : h[0] = v /\ h[Len(t)] = w /\ Path(i, t, 0, h)
    BY <2>1, <2>4, NamesPassedOn
  <2>5. wire' = wire \o t
    BY <2>2 DEF EmitAll
  <2> HIDE DEF t
  <2> QED BY <1>1, <1>5, <2>3, <2>4, <2>5, PassedOn DEF OnNames
<1> QED BY <1>2, <1>3, <1>4, <1>5 DEF OnJoin, OnPart

\* They keep the invariant.
LEMMA GatewayComing ==
  ASSUME ComingInv, OnJoin \/ OnPart \/ OnNick \/ OnNames \/ OnClose
  PROVE  ComingInv'
<1>1. ShownInv'
  BY GatewayKeeps DEF ComingInv
<1>2. /\ inbox # <<>> /\ inbox' = Tail(inbox) /\ gateway # "none"
      /\ UNCHANGED <<present, gateway, socket, net, doubled>>
  BY DEF OnJoin, OnPart, OnNick, OnNames, OnClose, Handling, ComingInv
<1>3. inbox \in Seq(InboxMessages) /\ wire \in Seq(WireMessages)
  BY DEF ComingInv, ShownInv
<1>4. ~socket => Empties'
  <2>1. ~socket => wire' = wire
    BY DEF OnJoin, OnPart, OnNick, OnNames, OnClose, EmitAll
  <2> QED BY <1>2, <2>1 DEF ComingInv, Empties, Nobody
<1>5. ASSUME gateway = "joining", socket
      PROVE  IF inbox' = <<>> THEN Empties' ELSE (inbox[Len(inbox)].kind = "close")'
  <2>1. inbox[Len(inbox)].kind = "close"
    BY <1>2, <1>5 DEF ComingInv
  <2>2. CASE inbox' = <<>>
    <3>1. Len(inbox) = 1 /\ Head(inbox) = inbox[1]
      <4>1. Len(inbox) \in Nat /\ Len(Tail(inbox)) = Len(inbox) - 1
        BY <1>2, <1>3
      <4>2. Len(Tail(inbox)) = 0
        <5>1. Len(<<>>) = 0
          OBVIOUS
        <5> QED BY <1>2, <2>2, <5>1, Zenon
      <4>3. Len(inbox) = 1
        BY <4>1, <4>2
      <4>4. Head(inbox) = inbox[1]
        BY <1>2, <1>3
      <4> QED BY <4>3, <4>4
    <3>2. OnClose
      BY <2>1, <3>1 DEF OnJoin, OnPart, OnNick, OnNames, OnClose, Handling
    <3>3. wire' = wire \o <<Message("partall", SelfNick)>>
      BY <1>5, <3>2 DEF OnClose, EmitAll
    <3>4. wire' # <<>> /\ wire'[Len(wire')] = Message("partall", SelfNick)
      BY <1>3, <3>3
    <3> QED BY <2>2, <3>4 DEF Empties, Emptying, Message
  <2>3. CASE inbox' # <<>>
    <3>1. inbox'[Len(inbox')] = inbox[Len(inbox)]
      BY <1>2, <1>3, <2>3
    <3> QED BY <2>1, <2>3, <3>1
  <2> QED BY <2>2, <2>3
<1>6. gateway = "joined" /\ socket => \A i \in Ids \ doubled : Coming(i)'
  BY HandlersPassOn DEF ComingInv
<1>7. gateway = "joined" => Doubles(present)' \subseteq doubled
  BY <1>2 DEF ComingInv, Doubles
<1> QED BY <1>1, <1>2, <1>4, <1>5, <1>6, <1>7 DEF ComingInv

-----------------------------------------------------------------------------
(* What happens on the channel, and in the browser                         *)

\* What the gateway is told leads from what was to be shown to what is.
LEMMA ToldOn ==
  ASSUME ShownInv, NEW i \in Ids, Coming(i), NEW m \in InboxMessages,
         inbox' = Append(inbox, m), UNCHANGED <<wire, net>>,
         \A v \in Attributes : MustShow(i, v) =>
           \E w \in Attributes : Leads(i, m, v, w) /\ MustShow(i, w)'
  PROVE  Coming(i)'
<1>1. PICK a \in 0 .. Len(wire), f \in [Nat -> Attributes], g \in [Nat -> Attributes] :
        /\ StartsAt(i, a, f) /\ Path(i, wire, a, f)
        /\ g[0] = f[Len(wire)] /\ Path(i, inbox, 0, g)
        /\ MustShow(i, g[Len(inbox)])
  BY DEF Coming
<1>2. inbox \in Seq(InboxMessages)
  BY DEF ShownInv
<1>3. PICK L \in Nat : L = Len(inbox)
  BY <1>2
<1>4. g[L] \in Attributes
  BY <1>1, <1>3
<1>5. PICK w \in Attributes : Leads(i, m, g[L], w) /\ MustShow(i, w)'
  BY <1>1, <1>3, <1>4
<1> DEFINE gg == [k \in Nat |-> IF k <= L THEN g[k] ELSE w]
<1>6. gg \in [Nat -> Attributes] /\ gg[0] = g[0] /\ gg[L + 1] = w
  BY <1>1, <1>3
<1>7. Len(inbox') = L + 1 /\ DOMAIN inbox' = 1 .. L + 1
      /\ inbox'[L + 1] = m /\ \A j \in 1 .. L : inbox'[j] = inbox[j]
  BY <1>2, <1>3
<1>8. Path(i, inbox', 0, gg)
  <2>1. ASSUME NEW j \in DOMAIN inbox'
        PROVE  Leads(i, inbox'[j], gg[j - 1], gg[j])
    <3>1. CASE j = L + 1
      <4>1. gg[j - 1] = g[L] /\ gg[j] = w
        BY <1>3, <3>1
      <4> QED BY <1>5, <1>7, <3>1, <4>1
    <3>2. CASE j # L + 1
      <4>1. j \in 1 .. L /\ j \in DOMAIN inbox /\ inbox'[j] = inbox[j] /\ j > 0
        BY <1>2, <1>3, <1>7, <3>2
      <4>2. gg[j - 1] = g[j - 1] /\ gg[j] = g[j]
        BY <1>3, <4>1
      <4>3. Leads(i, inbox[j], g[j - 1], g[j])
        BY <1>1, <4>1 DEF Path
      <4> QED BY <4>1, <4>2, <4>3
    <3> QED BY <3>1, <3>2
  <2> QED BY <2>1 DEF Path
<1>9. StartsAt(i, a, f)' /\ Path(i, wire, a, f)'
  BY <1>1 DEF StartsAt, Path
<1>10. wire' = wire
  OBVIOUS
<1> HIDE DEF gg
<1>11. gg[0] = f[Len(wire')] /\ MustShow(i, gg[Len(inbox)])'
  BY <1>1, <1>5, <1>6, <1>7, <1>10
<1> QED BY <1>1, <1>6, <1>8, <1>9, <1>10, <1>11 DEF Coming

\* A move on the channel keeps the invariant, if what is told of it says what it does.
LEMMA ChannelComing ==
  ASSUME ComingInv, NEW S \in SUBSET Nick, Channel(S), NEW m \in InboxMessages, Told(m),
         \A i \in Ids \ doubled' : \A v \in Attributes : MustShow(i, v) =>
           \E w \in Attributes : Leads(i, m, v, w) /\ MustShow(i, w)'
  PROVE  ComingInv'
<1>1. ShownInv'
  BY ChannelStep DEF ComingInv
<1>2. /\ UNCHANGED <<gateway, socket, wire, net>>
      /\ doubled \subseteq doubled' /\ Doubles(present)' \subseteq doubled'
  BY DEF Channel, Doubles
<1>3. gateway = "joined" /\ socket => \A i \in Ids \ doubled' : Coming(i)'
  <2>1. ASSUME gateway = "joined", socket, NEW i \in Ids \ doubled'
        PROVE  Coming(i)'
    <3>1. Coming(i)
      BY <1>2, <2>1 DEF ComingInv
    <3>2. inbox' = Append(inbox, m)
      BY <2>1 DEF Told
    <3>3. \A v \in Attributes : MustShow(i, v) =>
            \E w \in Attributes : Leads(i, m, v, w) /\ MustShow(i, w)'
      OBVIOUS
    <3> QED BY <1>2, <3>1, <3>2, <3>3, ToldOn DEF ComingInv
  <2> QED BY <2>1
<1>4. gateway # "joined" => inbox' = inbox
  BY DEF Told
<1>5. (~socket => Empties)' /\ (Empties => Empties')
  BY <1>2 DEF ComingInv, Empties, Nobody
<1>6. (gateway = "none" => ~socket /\ inbox = <<>>)'
  BY <1>2, <1>4 DEF ComingInv
<1>7. (gateway = "joining" /\ socket =>
         IF inbox = <<>> THEN Empties ELSE inbox[Len(inbox)].kind = "close")'
  BY <1>2, <1>4, <1>5 DEF ComingInv
<1> QED BY <1>1, <1>2, <1>3, <1>5, <1>6, <1>7 DEF ComingInv

\* What comes, leaves or changes its nick is told as it is.
LEMMA ComponentsComing ==
  ASSUME ComingInv,
         \/ \E n \in Nick : Arrive(n)
         \/ \E n \in present : Leave(n)
         \/ \E n \in present, v \in Values : Rename(n, v)
  PROVE  ComingInv'
<1>1. present \subseteq Nick /\ (gateway = "joined" => Doubles(present) \subseteq doubled)
  BY DEF ComingInv, ShownInv, TypeOK
<1>2. \A n \in Nick : n.id \in Ids /\ n.value \in Values /\ n.value \in Attributes
                    /\ n.value # Absent
  BY UiAssumption DEF Nick, Attributes
<1>3. Absent \in Attributes
  BY DEF Attributes
<1>4. ASSUME gateway # "joined", NEW S \in SUBSET Nick, Channel(S), NEW m \in InboxMessages,
             Told(m)
      PROVE  ComingInv'
  <2>1. ShownInv'
    BY <1>4, ChannelStep DEF ComingInv
  <2>2. UNCHANGED <<gateway, socket, wire, net, inbox>>
    BY <1>4 DEF Channel, Told
  <2> QED BY <1>4, <2>1, <2>2 DEF ComingInv, Empties, Nobody
<1>5. ASSUME NEW n \in Nick, Arrive(n) PROVE ComingInv'
  <2> DEFINE S == present \cup {n}
             m == Message("join", n)
  <2>1. S \in SUBSET Nick /\ m \in InboxMessages /\ Channel(S) /\ Told(m)
    BY <1>1, <1>5 DEF Arrive, Message, InboxMessages, AnyNick
  <2>2. present' = S /\ Doubles(S) \subseteq doubled'
    BY <2>1 DEF Channel
  <2>3. ASSUME NEW i \in Ids \ doubled', NEW v \in Attributes, MustShow(i, v)
        PROVE  \E w \in Attributes : Leads(i, m, v, w) /\ MustShow(i, w)'
    <3>1. CASE n.id = i
      <4>1. \A o \in S : o.id = i => o = n
        BY <2>1, <2>2, <2>3, <3>1, Alone
      <4>2. MustShow(i, n.value)'
        BY <2>2, <3>1, <4>1 DEF MustShow
      <4>3. Leads(i, m, v, n.value)
        BY <3>1 DEF Leads, Message, Emptying
      <4> QED BY <1>2, <4>2, <4>3
    <3>2. CASE n.id # i
      <4>1. MustShow(i, v)'
        BY <2>2, <2>3, <3>2 DEF MustShow
      <4>2. Leads(i, m, v, v)
        BY <3>2 DEF Leads, Message, Emptying
      <4> QED BY <2>3, <4>1, <4>2
    <3> QED BY <3>1, <3>2
  <2> HIDE DEF S, m
  <2> QED BY <2>1, <2>3, ChannelComing
<1>6. ASSUME NEW n \in present, Leave(n) PROVE ComingInv'
  <2> DEFINE S == present \ {n}
             m == Message("part", n)
  <2>1. S \in SUBSET Nick /\ m \in InboxMessages /\ Channel(S) /\ Told(m) /\ n \in Nick
    BY <1>1, <1>6 DEF Leave, Message, InboxMessages, AnyNick
  <2>2. present' = S /\ doubled \subseteq doubled'
    BY <2>1 DEF Channel
  <2>3. ASSUME gateway = "joined", NEW i \in Ids \ doubled', NEW v \in Attributes, MustShow(i, v)
        PROVE  \E w \in Attributes : Leads(i, m, v, w) /\ MustShow(i, w)'
    <3>1. CASE n.id = i
      <4>1. \A o \in present : o.id = i => o = n
        BY <1>1, <2>2, <2>3, <3>1, Alone
      <4>2. MustShow(i, Absent)'
        BY <2>2, <4>1 DEF MustShow
      <4>3. Leads(i, m, v, Absent)
        BY <3>1 DEF Leads, Message, Emptying
      <4> QED BY <1>3, <4>2, <4>3
    <3>2. CASE n.id # i
      <4>1. MustShow(i, v)'
        BY <2>2, <2>3, <3>2 DEF MustShow
      <4>2. Leads(i, m, v, v)
        BY <3>2 DEF Leads, Message, Emptying
      <4> QED BY <2>3, <4>1, <4>2
    <3> QED BY <3>1, <3>2
  <2> HIDE DEF S, m
  <2>4. CASE gateway = "joined"
    BY <2>1, <2>3, <2>4, ChannelComing
  <2> QED BY <1>4, <2>1, <2>4
<1>7. ASSUME NEW n \in present, NEW u \in Values, Rename(n, u) PROVE ComingInv'
  <2> DEFINE o == [n EXCEPT !.value = u]
             S == (present \ {n}) \cup {o}
             m == Message("nick", o)
  <2>1. n \in Nick /\ o \in Nick /\ o.id = n.id
    BY <1>1 DEF Nick
  <2>2. S \in SUBSET Nick /\ m \in InboxMessages /\ Channel(S) /\ Told(m)
    BY <1>1, <1>7, <2>1 DEF Rename, Message, InboxMessages
  <2>3. present' = S /\ Doubles(S) \subseteq doubled' /\ doubled \subseteq doubled'
    BY <2>2 DEF Channel
  <2> HIDE DEF o
  <2>4. ASSUME gateway = "joined", NEW i \in Ids \ doubled', NEW v \in Attributes, MustShow(i, v)
        PROVE  \E w \in Attributes : Leads(i, m, v, w) /\ MustShow(i, w)'
    <3>1. CASE n.id = i
      <4>1. \A p \in S : p.id = i => p = o
        BY <2>1, <2>2, <2>3, <2>4, <3>1, Alone
      <4>2. MustShow(i, o.value)'
        BY <2>1, <2>3, <3>1, <4>1 DEF MustShow
      <4>3. v = n.value /\ v # Absent
        BY <1>2, <2>1, <2>4, <3>1 DEF MustShow
      <4>4. Leads(i, m, v, o.value)
        BY <2>1, <3>1, <4>3 DEF Leads, Message, Emptying
      <4> QED BY <1>2, <2>1, <4>2, <4>4
    <3>2. CASE n.id # i
      <4>1. MustShow(i, v)'
        BY <2>1, <2>3, <2>4, <3>2 DEF MustShow
      <4>2. Leads(i, m, v, v)
        BY <2>1, <3>2 DEF Leads, Message, Emptying
      <4> QED BY <2>4, <4>1, <4>2
    <3> QED BY <3>1, <3>2
  <2> HIDE DEF S, m
  <2>5. CASE gateway = "joined"
    BY <2>2, <2>4, <2>5, ChannelComing
  <2> QED BY <1>4, <2>2, <2>5
<1> QED BY <1>5, <1>6, <1>7

\* The handlers of the browser go along the path.
LEMMA Received ==
  ASSUME ShownInv, NEW i \in Ids, Coming(i), Browser
  PROVE  Coming(i)'
<1> DEFINE m == Head(wire)
<1>1. PICK a \in 0 .. Len(wire), f \in [Nat -> Attributes], g \in [Nat -> Attributes] :
        /\ StartsAt(i, a, f) /\ Path(i, wire, a, f)
        /\ g[0] = f[Len(wire)] /\ Path(i, inbox, 0, g)
        /\ MustShow(i, g[Len(inbox)])
  BY DEF Coming
<1>2. /\ wire # <<>> /\ wire' = Tail(wire) /\ UNCHANGED <<present, inbox>>
      /\ m.kind \in {"join", "part", "changed", "partall", "disconnect"}
  BY DEF Browser, Join, Part, Changed, PartAll, Receiving
<1>3. wire \in Seq(WireMessages) /\ m = wire[1] /\ m.nick \in AnyNick
  <2>1. wire \in Seq(WireMessages)
    BY DEF ShownInv
  <2>2. m = wire[1] /\ m \in WireMessages
    BY <1>2, <2>1
  <2> QED BY <2>1, <2>2 DEF WireMessages
<1>4. PICK L \in Nat \ {0} : L = Len(wire) /\ Len(wire') = L - 1
  BY <1>2, <1>3
<1>5. /\ net \in [Ids \cup {Self} -> Attributes] /\ i # Self
      /\ \A n \in AnyNick : n.id = i => n # SelfNick
  <2>1. net \in [Ids \cup {Self} -> Values \cup {Absent, SelfNick}]
    BY DEF ShownInv, TypeOK
  <2>2. i # Self /\ SelfNick.id = Self
    BY UiAssumption DEF SelfNick
  <2> QED BY <2>1, <2>2 DEF Attributes
<1>6. ASSUME Leads(i, m, net[i], f[1])
      PROVE  net'[i] = f[1]
  <2>1. CASE Join
    BY <1>3, <1>5, <1>6, <2>1 DEF Join, Receiving, Leads, AnyNick, Nick, SelfNick, Emptying
  <2>2. CASE Part
    BY <1>3, <1>5, <1>6, <2>2 DEF Part, Receiving, Leads, AnyNick, Nick, SelfNick, Emptying
  <2>3. CASE Changed
    BY <1>3, <1>5, <1>6, <2>3 DEF Changed, Receiving, Leads, AnyNick, Nick, SelfNick, Emptying
  <2>4. CASE PartAll
    BY <1>6, <2>4 DEF PartAll, Receiving, Nobody, Leads, Emptying
  <2> QED BY <2>1, <2>2, <2>3, <2>4 DEF Browser
<1> DEFINE ff == [k \in Nat |-> f[k + 1]]
<1>7. PICK b \in Nat : b = IF a = 0 THEN 0 ELSE a - 1
  OBVIOUS
<1>8. b \in 0 .. L - 1 /\ a <= b + 1
  BY <1>1, <1>4, <1>7
<1>9. ff \in [Nat -> Attributes] /\ ff[L - 1] = f[L] /\ ff[0] = f[1]
  <2>1. L - 1 \in Nat /\ (L - 1) + 1 = L /\ 0 + 1 = 1
    BY <1>4
  <2> QED BY <1>1, <2>1
<1>10. StartsAt(i, b, ff)'
  <2>1. CASE a = 0
    <3>1. Leads(i, wire[1], f[1 - 1], f[1])
      <4>1. 1 \in DOMAIN wire /\ 1 > 0
        BY <1>3, <1>4
      <4> QED BY <1>1, <2>1, <4>1, Zenon DEF Path
    <3>2. f[1 - 1] = net[i]
      BY <1>1, <2>1 DEF StartsAt
    <3>3. net'[i] = f[1]
      BY <1>3, <1>6, <3>1, <3>2
    <3> QED BY <1>7, <1>9, <2>1, <3>3 DEF StartsAt
  <2>2. CASE a = 1
    <3>1. m.kind \in Emptying /\ f[1] = Absent
      BY <1>1, <1>3, <2>2 DEF StartsAt
    <3>2. PartAll
      BY <3>1 DEF Browser, Join, Part, Changed, PartAll, Receiving, Emptying
    <3>3. net'[i] = Absent
      BY <3>2 DEF PartAll, Nobody
    <3> QED BY <1>7, <1>9, <2>2, <3>1, <3>3 DEF StartsAt
  <2>3. CASE a > 1
    <3>1. wire[a].kind \in Emptying /\ f[a] = Absent
      BY <1>1, <2>3 DEF StartsAt
    <3>2. b = a - 1 /\ b # 0 /\ wire'[b] = wire[a] /\ ff[b] = f[a]
      BY <1>1, <1>2, <1>3, <1>4, <1>7, <2>3
    <3> HIDE DEF ff
    <3>3. wire'[b].kind \in Emptying /\ ff[b] = Absent
      BY <3>1, <3>2
    <3> QED BY <3>2, <3>3 DEF StartsAt
  <2> QED BY <1>1, <2>1, <2>2, <2>3
<1>11. Path(i, Tail(wire), b, ff)
  <2>1. ff = [k \in Nat |-> f[k + 1]] /\ a \in Nat
    BY <1>1, <1>4
  <2> HIDE DEF ff
  <2> QED BY <1>1, <1>2, <1>3, <1>8, <2>1, PathTail
<1>12. Path(i, wire', b, ff) /\ Path(i, inbox', 0, g)
  BY <1>1, <1>2, <1>11
<1>13. MustShow(i, g[Len(inbox)])'
  BY <1>1, <1>2 DEF MustShow
<1> HIDE DEF ff
<1>14. b \in 0 .. Len(wire') /\ g[0] = ff[Len(wire')]
  BY <1>1, <1>4, <1>8, <1>9
<1> QED BY <1>1, <1>2, <1>9, <1>10, <1>12, <1>13, <1>14 DEF Coming

\* They keep the invariant.
LEMMA BrowserComing ==
  ASSUME ComingInv, Browser
  PROVE  ComingInv'
<1>1. ShownInv'
  BY BrowserKeeps DEF ComingInv
<1>2. /\ wire # <<>> /\ wire' = Tail(wire)
      /\ UNCHANGED <<present, gateway, inbox, socket, doubled>>
  BY DEF Browser, Join, Part, Changed, PartAll, Receiving
<1>3. wire \in Seq(WireMessages)
  BY DEF ComingInv, ShownInv
<1>4. Empties => Empties'
  <2>1. ASSUME Empties PROVE wire[Len(wire)].kind \in Emptying
    BY <1>2, <2>1 DEF Empties
  <2>2. CASE Empties /\ wire' = <<>>
    <3>1. Len(Tail(wire)) = Len(wire) - 1 /\ Head(wire) = wire[1] /\ Len(wire) \in Nat
      BY <1>2, <1>3
    <3>2. Tail(wire) = <<>> /\ Len(<<>>) = 0
      BY <1>2, <2>2, Zenon, EmptySeq
    <3>3. Head(wire).kind \in Emptying
      <4>1. Len(wire) - 1 = 0
        BY ONLY <3>1, <3>2
      <4>2. Len(wire) = 1
        BY ONLY <3>1, <4>1
      <4> QED BY <2>1, <2>2, <3>1, <4>2
    <3>4. PartAll
      BY <3>3 DEF Browser, Join, Part, Changed, PartAll, Receiving, Emptying
    <3> QED BY <2>2, <3>4 DEF PartAll, Empties, Nobody
  <2>3. CASE Empties /\ wire' # <<>>
    <3>1. wire'[Len(wire')] = wire[Len(wire)]
      BY <1>2, <1>3, <2>3
    <3> QED BY <2>1, <2>3, <3>1 DEF Empties
  <2> QED BY <2>2, <2>3
<1>5. gateway = "joined" /\ socket => \A i \in Ids \ doubled : Coming(i)'
  BY Received DEF ComingInv
<1>6. Doubles(present)' = Doubles(present)
  BY <1>2 DEF Doubles
<1> QED BY <1>1, <1>2, <1>4, <1>5, <1>6 DEF ComingInv

\* So do connecting, joining and losing a connection.
LEMMA ConnectionsComing ==
  ASSUME ComingInv, Open \/ Joined \/ IrcLost \/ SocketLost \/ OnDisconnect
  PROVE  ComingInv'
<1>1. ShownInv'
  BY ConnectionsKeep DEF ComingInv
<1>2. inbox \in Seq(InboxMessages) /\ wire \in Seq(WireMessages) /\ present \subseteq Nick
  BY DEF ComingInv, ShownInv, TypeOK
<1>3. CASE Open
  BY <1>1, <1>3 DEF Open, ComingInv, Empties, Nobody
<1>4. CASE Joined
  <2>1. gateway' = "joined" /\ UNCHANGED <<present, socket, wire, net>>
        /\ doubled' = Doubles(present)
        /\ inbox' = <<Message("join", SelfNick), Message("names", present \cup {SelfNick})>>
    BY <1>4 DEF Joined
  <2>2. ASSUME socket, NEW i \in Ids \ doubled'
        PROVE  Coming(i)'
    <3>1. Empties
      BY <1>4, <2>2 DEF Joined, ComingInv
    <3>2. PICK w \in Attributes : MustShow(i, w)
      <4>1. CASE \E n \in present : n.id = i
        <5>1. PICK n \in present : n.id = i
          BY <4>1
        <5>2. \A o \in present : o.id = i => o = n
          BY <1>2, <2>1, <2>2, <5>1, Alone
        <5>3. n.value \in Attributes
          BY <1>2 DEF Nick, Attributes
        <5>4. MustShow(i, n.value)
          BY <5>1, <5>2 DEF MustShow
        <5> QED BY <5>3, <5>4
      <4>2. CASE \A n \in present : n.id # i
        <5>1. MustShow(i, Absent) /\ Absent \in Attributes
          BY <4>2 DEF MustShow, Attributes
        <5> QED BY <5>1
      <4> QED BY <4>1, <4>2
    <3> DEFINE f == [k \in Nat |-> Absent]
               g == [k \in Nat |-> IF k < 2 THEN Absent ELSE w]
    <3>3. PICK a \in Nat : a = Len(wire)
      BY <1>2
    <3>4. /\ f \in [Nat -> Attributes] /\ \A k \in Nat : f[k] = Absent
          /\ g \in [Nat -> Attributes] /\ g[0] = Absent /\ g[1] = Absent /\ g[2] = w
      BY DEF Attributes
    <3> HIDE DEF f, g
    <3>5. StartsAt(i, a, f)
      <4>1. CASE a = 0
        <5>1. wire = <<>>
          BY <1>2, <3>3, <4>1, EmptySeq
        <5> QED BY <3>1, <3>4, <4>1, <5>1 DEF StartsAt, Empties, Nobody
      <4>2. CASE a # 0
        <5>1. wire # <<>>
          BY <3>3, <4>2
        <5> QED BY <3>1, <3>3, <3>4, <4>2, <5>1 DEF StartsAt, Empties
      <4> QED BY <4>1, <4>2
    <3>6. Path(i, wire, a, f)
      BY <1>2, <3>3 DEF Path
    <3>7. Leads(i, Message("join", SelfNick), g[0], g[1])
      BY <3>4, UiAssumption DEF Leads, Message, SelfNick, Emptying
    <3>8. Leads(i, Message("names", present \cup {SelfNick}), g[1], g[2])
      BY <3>2, <3>4, UiAssumption DEF Leads, Message, SelfNick, Emptying, MustShow
    <3>9. Path(i, inbox', 0, g)
      <4>1. ASSUME NEW j \in DOMAIN inbox'
            PROVE  Leads(i, inbox'[j], g[j - 1], g[j])
        <5>1. j = 1 \/ j = 2
          BY <2>1
        <5>2. CASE j = 1
          <6>1. inbox'[j] = Message("join", SelfNick) /\ j - 1 = 0
            BY <2>1, <5>2
          <6> QED BY <3>7, <5>2, <6>1
        <5>3. CASE j = 2
          <6>1. inbox'[j] = Message("names", present \cup {SelfNick}) /\ j - 1 = 1
            BY <2>1, <5>3
          <6> QED BY <3>8, <5>3, <6>1
        <5> QED BY <5>1, <5>2, <5>3
      <4> QED BY <4>1 DEF Path
    <3>10. Len(inbox') = 2
      BY <2>1
    <3>11. StartsAt(i, a, f)' /\ Path(i, wire', a, f) /\ MustShow(i, w)'
      BY <2>1, <3>2, <3>5, <3>6 DEF StartsAt, MustShow
    <3>12. a \in 0 .. Len(wire') /\ g[0] = f[Len(wire')] /\ g[Len(inbox')] = w
      BY <2>1, <3>3, <3>4, <3>10
    <3>13. MustShow(i, g[Len(inbox)])'
      BY <3>11, <3>12
    <3> QED BY <3>4, <3>9, <3>11, <3>12, <3>13 DEF Coming
  <2>3. ~socket => Empties'
    BY <2>1 DEF ComingInv, Empties, Nobody
  <2>4. Doubles(present)' \subseteq doubled'
    BY <2>1 DEF Doubles
  <2> QED BY <1>1, <2>1, <2>2, <2>3, <2>4 DEF ComingInv
<1>5. CASE IrcLost
  <2>1. /\ gateway' = "joining" /\ UNCHANGED <<socket, wire, net>>
        /\ \E n \in 0 .. Len(inbox) :
             inbox' = Append(SubSeq(inbox, 1, n), Message("close", SelfNick))
    BY <1>5 DEF IrcLost
  <2>2. inbox' # <<>> /\ inbox'[Len(inbox')] = Message("close", SelfNick)
    <3>1. PICK n \in 0 .. Len(inbox) :
            inbox' = Append(SubSeq(inbox, 1, n), Message("close", SelfNick))
      BY <2>1
    <3>2. SubSeq(inbox, 1, n) \in Seq(InboxMessages)
      BY <1>2
    <3> HIDE DEF Message
    <3> QED BY <3>1, <3>2
  <2>3. (inbox[Len(inbox)].kind = "close")'
    BY <2>2 DEF Message
  <2>4. Empties' = Empties
    BY <2>1 DEF Empties, Nobody
  <2> QED BY <1>1, <2>1, <2>2, <2>3, <2>4 DEF ComingInv
<1>6. CASE SocketLost
  <2>1. /\ socket' = FALSE /\ UNCHANGED <<present, gateway, inbox, net, doubled>>
        /\ \E n \in 0 .. Len(wire) :
             wire' = Append(SubSeq(wire, 1, n), Message("disconnect", SelfNick))
    BY <1>6 DEF SocketLost
  <2>2. wire' # <<>> /\ wire'[Len(wire')] = Message("disconnect", SelfNick)
    <3>1. PICK n \in 0 .. Len(wire) :
            wire' = Append(SubSeq(wire, 1, n), Message("disconnect", SelfNick))
      BY <2>1
    <3>2. SubSeq(wire, 1, n) \in Seq(WireMessages)
      BY <1>2
    <3> QED BY <3>1, <3>2
  <2>3. Empties'
    BY <2>2 DEF Empties, Emptying, Message
  <2>4. Doubles(present)' = Doubles(present)
    BY <2>1 DEF Doubles
  <2> QED BY <1>1, <2>1, <2>3, <2>4 DEF ComingInv
<1>7. CASE OnDisconnect
  <2>1. Empties'
    BY <1>7 DEF OnDisconnect, ComingInv, Empties, Nobody
  <2> QED BY <1>1, <1>7, <2>1 DEF OnDisconnect, ComingInv
<1> QED BY <1>3, <1>4, <1>5, <1>6, <1>7

\* The inductive invariant of what is on its way.
THEOREM ComingInductive == Spec => []ComingInv
<1>1. Init => ComingInv
  <2> SUFFICES ASSUME Init PROVE ComingInv
    OBVIOUS
  <2>1. ShownInv
    BY ShownBegins
  <2>2. gateway = "none" /\ ~socket /\ inbox = <<>> /\ Empties
    BY DEF Init, Empties, Nobody
  <2> QED BY <2>1, <2>2 DEF ComingInv
<1>2. ComingInv /\ [Next]_uvars => ComingInv'
  <2> SUFFICES ASSUME ComingInv, [Next]_uvars PROVE ComingInv'
    OBVIOUS
  <2>1. CASE UNCHANGED uvars
    <3>1. ShownInv'
      BY <2>1, ShownStep DEF ComingInv
    <3>2. \A i \in Ids : Coming(i)' = Coming(i)
      BY <2>1 DEF uvars, Coming, StartsAt, Path, MustShow
    <3>3. Doubles(present)' = Doubles(present) /\ Empties' = Empties
      BY <2>1 DEF uvars, Doubles, Empties, Nobody
    <3> QED BY <2>1, <3>1, <3>2, <3>3 DEF uvars, ComingInv
  <2> QED BY <2>1, ComponentsComing, GatewayComing, BrowserComing, ConnectionsComing
          DEF Next, Browser
<1> QED BY <1>1, <1>2, PTL DEF Spec

\* When all is delivered the browser shows what is on the channel, whatever was lost:
\* gateway.js, net.js.
THEOREM ChannelShown == CSpec => []Shown
<1>1. ComingInv => Shown
  <2> SUFFICES ASSUME ComingInv, gateway = "joined", socket, inbox = <<>>, wire = <<>>,
                      NEW i \in Ids \ doubled
               PROVE  net[i] = OnChannel(i)
    BY DEF Shown
  <2>1. PICK a \in 0 .. Len(wire), f \in [Nat -> Attributes], g \in [Nat -> Attributes] :
          StartsAt(i, a, f) /\ g[0] = f[Len(wire)] /\ MustShow(i, g[Len(inbox)])
    BY DEF ComingInv, Coming
  <2>2. a = 0 /\ Len(wire) = 0 /\ Len(inbox) = 0
    OBVIOUS
  <2>3. MustShow(i, net[i])
    BY <2>1, <2>2 DEF StartsAt
  <2> QED BY <2>3 DEF MustShow, OnChannel
<1> QED BY <1>1, ClientRefinesGateway, ComingInductive, PTL
-----------------------------------------------------------------------------
(* A browser that is connected again                                       *)

\* What tells a browser that it is not connected.
Parting == {"partall", "disconnect"}

\* A browser that is connected or not, as c says, is connected when it has received s.
Reaches(c, s) ==
  \/ \E a \in DOMAIN s :
       s[a].kind = "join" /\ \A j \in DOMAIN s : j > a => s[j].kind \notin Parting
  \/ c /\ \A j \in DOMAIN s : s[j].kind \notin Parting

\* The gateway's own join is still to be passed on, or the browser is connected by what is
\* on the wire; and nothing is on its way to the gateway that would undo it.
ReachesInv ==
  socket /\ gateway = "joined" =>
    /\ \A j \in DOMAIN inbox : inbox[j].kind # "close"
    /\ (\E j \in DOMAIN inbox : inbox[j].kind = "join") \/ Reaches(connected, wire)

\* What does not part the browser may follow.
LEMMA ReachesOn ==
  ASSUME NEW M, NEW s \in Seq(M), NEW e \in Seq(M), NEW t, t = s \o e, NEW c,
         Reaches(c, s), \A j \in DOMAIN e : e[j].kind \notin Parting
  PROVE  Reaches(c, t)
<1>1. /\ Len(s) \in Nat /\ Len(e) \in Nat
      /\ DOMAIN s = 1 .. Len(s) /\ DOMAIN e = 1 .. Len(e) /\ DOMAIN t = 1 .. Len(s) + Len(e)
      /\ \A j \in 1 .. Len(s) + Len(e) :
           t[j] = IF j <= Len(s) THEN s[j] ELSE e[j - Len(s)]
  BY ConcatProperties, LenProperties
<1>2. \A j \in DOMAIN t :
        \/ j \in DOMAIN s /\ t[j] = s[j]
        \/ t[j].kind \notin Parting
  <2>1. ASSUME NEW j \in DOMAIN t, j > Len(s)
        PROVE  t[j].kind \notin Parting
    <3>1. j - Len(s) \in DOMAIN e /\ t[j] = e[j - Len(s)]
      BY ONLY <1>1, <2>1
    <3> QED BY <3>1
  <2>2. ASSUME NEW j \in DOMAIN t, ~(j > Len(s))
        PROVE  j \in DOMAIN s /\ t[j] = s[j]
    BY ONLY <1>1, <2>2
  <2> QED BY ONLY <2>1, <2>2
<1>3. \A j \in DOMAIN s : j \in DOMAIN t /\ t[j] = s[j]
  BY ONLY <1>1
<1> QED BY ONLY <1>2, <1>3, Reaches(c, s) DEF Reaches

\* A join connects, whatever came before it.
LEMMA JoinReaches ==
  ASSUME NEW M, NEW s \in Seq(M), NEW m \in M, m.kind = "join", NEW t, t = s \o <<m>>, NEW c
  PROVE  Reaches(c, t)
<1>1. Len(t) \in Nat /\ DOMAIN t = 1 .. Len(t) /\ Len(t) = Len(s) + 1 /\ Len(s) \in Nat
      /\ t[Len(s) + 1] = m
  OBVIOUS
<1>2. Len(t) \in DOMAIN t /\ t[Len(t)].kind = "join" /\ ~\E j \in DOMAIN t : j > Len(t)
  BY ONLY <1>1, m.kind = "join"
<1> QED BY ONLY <1>2 DEF Reaches

\* What the first message does to the browser it does not do to what follows.
LEMMA ReachesTail ==
  ASSUME NEW M, NEW s \in Seq(M), s # <<>>, NEW c, Reaches(c, s), NEW d,
         \/ Head(s).kind = "join" /\ d
         \/ Head(s).kind \in Parting
         \/ Head(s).kind \notin Parting \cup {"join"} /\ (c => d)
  PROVE  Reaches(d, Tail(s))
<1>1. Len(s) \in Nat \ {0} /\ DOMAIN s = 1 .. Len(s) /\ Head(s) = s[1]
  OBVIOUS
<1>2. DOMAIN Tail(s) = 1 .. Len(s) - 1 /\ \A j \in 1 .. Len(s) - 1 : Tail(s)[j] = s[j + 1]
  OBVIOUS
<1>3. \A j \in DOMAIN Tail(s) : j \in Nat /\ j + 1 \in DOMAIN s /\ Tail(s)[j] = s[j + 1]
  BY ONLY <1>1, <1>2
<1>4. 1 \in DOMAIN s
  BY ONLY <1>1
<1>5. CASE \E a \in DOMAIN s :
             s[a].kind = "join" /\ \A j \in DOMAIN s : j > a => s[j].kind \notin Parting
  <2>1. PICK a \in DOMAIN s :
               s[a].kind = "join" /\ \A j \in DOMAIN s : j > a => s[j].kind \notin Parting
    BY <1>5
  <2>2. CASE a = 1
    <3>1. d
      BY <1>1, <2>1, <2>2 DEF Parting
    <3>2. \A j \in DOMAIN Tail(s) : Tail(s)[j].kind \notin Parting
      <4>1. ASSUME NEW j \in DOMAIN Tail(s)
            PROVE  j + 1 \in DOMAIN s /\ j + 1 > a /\ Tail(s)[j] = s[j + 1]
        BY ONLY <1>2, <1>1, <2>2
      <4> QED BY ONLY <2>1, <4>1
    <3> QED BY <3>1, <3>2 DEF Reaches
  <2>3. CASE a # 1
    <3>1. a - 1 \in DOMAIN Tail(s) /\ Tail(s)[a - 1] = s[a]
      BY ONLY <1>1, <1>2, <2>1, <2>3
    <3>2. ASSUME NEW j \in DOMAIN Tail(s), j > a - 1
          PROVE  Tail(s)[j].kind \notin Parting
      <4>1. j + 1 \in DOMAIN s /\ j + 1 > a /\ Tail(s)[j] = s[j + 1]
        BY ONLY <1>1, <1>2, <2>1, <3>2
      <4> QED BY ONLY <2>1, <4>1
    <3> QED BY ONLY <2>1, <3>1, <3>2 DEF Reaches
  <2> QED BY <2>2, <2>3
<1>6. CASE c /\ \A j \in DOMAIN s : s[j].kind \notin Parting
  <2>1. d
    BY <1>1, <1>4, <1>6
  <2>2. \A j \in DOMAIN Tail(s) : Tail(s)[j].kind \notin Parting
    BY ONLY <1>3, <1>6
  <2> QED BY ONLY <2>1, <2>2 DEF Reaches
<1> QED BY ONLY <1>5, <1>6, Reaches(c, s) DEF Reaches

\* What is left after the first message, and what that was.
LEMMA FirstTaken ==
  ASSUME NEW M, NEW s \in Seq(M), s # <<>>
  PROVE  /\ \A j \in DOMAIN Tail(s) : \E k \in DOMAIN s : Tail(s)[j] = s[k]
         /\ \A k \in DOMAIN s : s[k] = Head(s) \/ \E j \in DOMAIN Tail(s) : Tail(s)[j] = s[k]
<1>1. Len(s) \in Nat \ {0} /\ DOMAIN s = 1 .. Len(s) /\ Head(s) = s[1]
  OBVIOUS
<1>2. DOMAIN Tail(s) = 1 .. Len(s) - 1 /\ \A j \in 1 .. Len(s) - 1 : Tail(s)[j] = s[j + 1]
  OBVIOUS
<1>3. ASSUME NEW j \in DOMAIN Tail(s)
      PROVE  j + 1 \in DOMAIN s /\ Tail(s)[j] = s[j + 1]
  BY ONLY <1>1, <1>2
<1>4. ASSUME NEW k \in DOMAIN s, k # 1
      PROVE  k - 1 \in DOMAIN Tail(s) /\ Tail(s)[k - 1] = s[k]
  BY ONLY <1>1, <1>2, <1>4
<1> QED BY <1>1, <1>3, <1>4

\* A handler of the gateway passes on what does not part the browser, and a join as a join.
LEMMA HandlersReach ==
  ASSUME ShownInv, ReachesInv, OnJoin \/ OnPart \/ OnNick \/ OnNames \/ OnClose
  PROVE  ReachesInv'
<1> DEFINE m == Head(inbox)
<1> SUFFICES ASSUME socket, gateway = "joined"
             PROVE  /\ \A j \in DOMAIN inbox' : inbox'[j].kind # "close"
                    /\ (\E j \in DOMAIN inbox' : inbox'[j].kind = "join") \/ Reaches(connected, wire')
  BY DEF OnJoin, OnPart, OnNick, OnNames, OnClose, Handling, ReachesInv
<1>1. /\ inbox # <<>> /\ inbox' = Tail(inbox)
      /\ inbox \in Seq(InboxMessages) /\ wire \in Seq(WireMessages)
  BY DEF OnJoin, OnPart, OnNick, OnNames, OnClose, Handling, ShownInv
<1>2. /\ \A j \in DOMAIN inbox : inbox[j].kind # "close"
      /\ (\E j \in DOMAIN inbox : inbox[j].kind = "join") \/ Reaches(connected, wire)
  BY DEF ReachesInv
<1>3. \A j \in DOMAIN inbox' : inbox'[j].kind # "close"
  BY <1>1, <1>2, FirstTaken
<1>4. m = inbox[1] /\ 1 \in DOMAIN inbox
  BY <1>1
<1>5. ASSUME NEW e \in Seq(WireMessages), wire' = wire \o e, m.kind # "join",
             \A j \in DOMAIN e : e[j].kind \notin Parting
      PROVE  (\E j \in DOMAIN inbox' : inbox'[j].kind = "join") \/ Reaches(connected, wire')
  <2>1. CASE \E j \in DOMAIN inbox : inbox[j].kind = "join"
    <3>1. PICK k \in DOMAIN inbox : inbox[k].kind = "join"
      BY <2>1
    <3>2. \E j \in DOMAIN inbox' : inbox'[j] = inbox[k]
      BY <1>1, <1>5, <3>1, FirstTaken
    <3> QED BY <3>1, <3>2
  <2>2. CASE Reaches(connected, wire)
    BY ONLY <1>1, <1>5, <2>2, ReachesOn
  <2> QED BY <1>2, <2>1, <2>2
<1>6. CASE OnJoin
  <2>1. m \in WireMessages /\ m.kind = "join"
    BY <1>6, FirstMessage DEF OnJoin, InboxMessages, WireMessages
  <2>2. wire' = wire \o <<m>>
    BY <1>6 DEF OnJoin, EmitAll
  <2> QED BY ONLY <1>1, <1>3, <2>1, <2>2, JoinReaches
<1>7. ASSUME NEW x \in WireMessages, wire' = wire \o <<x>>, m.kind # "join",
             x.kind \notin Parting
      PROVE  (\E j \in DOMAIN inbox' : inbox'[j].kind = "join") \/ Reaches(connected, wire')
  <2>1. <<x>> \in Seq(WireMessages) /\ \A j \in DOMAIN <<x>> : <<x>>[j] = x
    OBVIOUS
  <2> QED BY ONLY <1>5, <1>7, <2>1
<1>8. CASE OnPart
  <2>1. m \in WireMessages /\ m.kind = "part"
    BY <1>8, FirstMessage DEF OnPart, InboxMessages, WireMessages
  <2>2. wire' = wire \o <<m>>
    BY <1>8 DEF OnPart, EmitAll
  <2> QED BY <1>3, <1>7, <2>1, <2>2 DEF Parting
<1>9. CASE OnNick
  <2>1. /\ [m EXCEPT !.kind = "changed"] \in WireMessages
        /\ m.kind = "nick" /\ [m EXCEPT !.kind = "changed"].kind = "changed"
    BY <1>9, FirstMessage DEF OnNick, InboxMessages, WireMessages, AnyNick
  <2>2. wire' = wire \o <<[m EXCEPT !.kind = "changed"]>>
    BY <1>9 DEF OnNick, EmitAll
  <2> QED BY <1>3, <1>7, <2>1, <2>2 DEF Parting
<1>10. CASE OnNames
  <2>1. m.nick \in SUBSET AnyNick /\ m.kind = "names"
    BY <1>10, FirstMessage DEF OnNames, InboxMessages
  <2>2. PICK s \in SetToSeqs(m.nick) :
               wire' = wire \o [j \in DOMAIN s |-> Message("join", s[j])]
    BY <1>10 DEF OnNames, EmitAll
  <2> DEFINE e == [j \in DOMAIN s |-> Message("join", s[j])]
  <2>3. e \in Seq(WireMessages)
    BY <2>1, NamesInSequence
  <2>4. \A j \in DOMAIN e : e[j].kind \notin Parting
    BY DEF Message, Parting
  <2>5. wire' = wire \o e
    BY <2>2
  <2> HIDE DEF e
  <2>6. m.kind # "join"
    BY <2>1
  <2> QED BY ONLY <1>3, <1>5, <2>3, <2>4, <2>5, <2>6
<1>11. ~OnClose
  BY <1>2, <1>4 DEF OnClose, Handling
<1> QED BY <1>6, <1>8, <1>9, <1>10, <1>11

\* What the browser receives has its effect.
LEMMA BrowserReaches ==
  ASSUME ShownInv, ReachesInv, Browser
  PROVE  ReachesInv'
<1>1. /\ wire # <<>> /\ wire' = Tail(wire) /\ wire \in Seq(WireMessages)
      /\ UNCHANGED <<gateway, inbox, socket>>
  BY DEF Browser, Join, Part, Changed, PartAll, Receiving, ShownInv
<1>2. \/ Head(wire).kind = "join" /\ connected'
      \/ Head(wire).kind \in Parting
      \/ Head(wire).kind \notin Parting \cup {"join"} /\ (connected => connected')
  BY DEF Browser, Join, Part, Changed, PartAll, Receiving, Parting
<1>3. Reaches(connected, wire) => Reaches(connected', wire')
  BY ONLY <1>1, <1>2, ReachesTail
<1> QED BY <1>1, <1>3 DEF ReachesInv

\* A message of the channel follows what is on its way.
LEMMA ToldReaches ==
  ASSUME ShownInv, ReachesInv, NEW S, Channel(S), NEW m \in InboxMessages, m.kind # "close",
         Told(m)
  PROVE  ReachesInv'
<1> SUFFICES ASSUME socket, gateway = "joined"
             PROVE  /\ \A j \in DOMAIN inbox' : inbox'[j].kind # "close"
                    /\ (\E j \in DOMAIN inbox' : inbox'[j].kind = "join") \/ Reaches(connected, wire)
  BY DEF Channel, ReachesInv
<1>1. inbox' = Append(inbox, m) /\ inbox \in Seq(InboxMessages)
  BY DEF Told, ShownInv
<1>2. /\ \A j \in DOMAIN inbox' : inbox'[j] = m \/ (j \in DOMAIN inbox /\ inbox'[j] = inbox[j])
      /\ \A j \in DOMAIN inbox : j \in DOMAIN inbox' /\ inbox'[j] = inbox[j]
  BY <1>1
<1> QED BY <1>2 DEF ReachesInv

\* Connections come with a join, or go.
LEMMA ConnectionsReach ==
  ASSUME ShownInv, ReachesInv, Open \/ Joined \/ IrcLost \/ SocketLost \/ OnDisconnect
  PROVE  ReachesInv'
<1>1. CASE Joined
  <2>1. inbox' = <<Message("join", SelfNick), Message("names", present \cup {SelfNick})>>
    BY <1>1 DEF Joined
  <2>2. /\ DOMAIN inbox' = {1, 2}
        /\ inbox'[1].kind = "join" /\ inbox'[2].kind = "names"
    BY <2>1 DEF Message
  <2> QED BY <2>2 DEF ReachesInv
<1>2. CASE ~Joined
  BY <1>2 DEF Open, IrcLost, SocketLost, OnDisconnect, ReachesInv
<1> QED BY <1>1, <1>2

\* At rest a browser whose socket is open and whose gateway has joined is connected:
\* gateway.js emits a join for its own nick and net.js marks the connection by it, and no
\* partall or disconnect from before overtakes it.
THEOREM RestIsConnected ==
  CSpec => [](socket /\ gateway = "joined" /\ inbox = <<>> /\ wire = <<>> => connected)
<1>1. Init => ReachesInv
  BY DEF Init, ReachesInv
<1>2. ShownInv /\ ReachesInv /\ [Next]_uvars => ReachesInv'
  <2> SUFFICES ASSUME ShownInv, ReachesInv, [Next]_uvars PROVE ReachesInv'
    OBVIOUS
  <2>1. ASSUME NEW n \in Nick, Arrive(n) PROVE ReachesInv'
    <3>1. Message("join", n) \in InboxMessages /\ Message("join", n).kind # "close"
      BY DEF Message, InboxMessages, AnyNick
    <3> QED BY <2>1, <3>1, ToldReaches DEF Arrive
  <2>2. ASSUME NEW n \in present, Leave(n) PROVE ReachesInv'
    <3>1. Message("part", n) \in InboxMessages /\ Message("part", n).kind # "close"
      BY DEF Message, InboxMessages, AnyNick, ShownInv, TypeOK
    <3> QED BY <2>2, <3>1, ToldReaches DEF Leave
  <2>3. ASSUME NEW n \in present, NEW v \in Values, Rename(n, v) PROVE ReachesInv'
    <3> DEFINE new == [n EXCEPT !.value = v]
    <3>1. new \in Nick
      BY DEF Nick, ShownInv, TypeOK
    <3>2. Message("nick", new) \in InboxMessages /\ Message("nick", new).kind # "close"
      BY <3>1 DEF Message, InboxMessages
    <3> QED BY <2>3, <3>2, ToldReaches DEF Rename
  <2>4. CASE UNCHANGED uvars
    BY <2>4 DEF uvars, ReachesInv, Reaches
  <2> QED BY <2>1, <2>2, <2>3, <2>4, HandlersReach, BrowserReaches, ConnectionsReach
          DEF Next, Browser
<1>3. ReachesInv => (socket /\ gateway = "joined" /\ inbox = <<>> /\ wire = <<>> => connected)
  BY DEF ReachesInv, Reaches
<1>4. Spec => []ReachesInv
  BY <1>1, <1>2, ShownInductive, PTL DEF Spec
<1> QED BY <1>3, <1>4, ClientRefinesGateway, PTL
=============================================================================
