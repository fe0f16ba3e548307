------------------------------ MODULE UiClient ------------------------------
(***************************************************************************)
(* A browser of the ui as a whole: what it shows (UiGateway), the button   *)
(* that is pressed (InputManager), and the way of an action from the       *)
(* button through the socket and the gateway to the channel.               *)
(*                                                                         *)
(* The button is there only while the browser is connected.  What is       *)
(* emitted on a socket known to be closed is kept by socket.io and sent    *)
(* when it opens again; what is emitted before that is known is lost.      *)
(*                                                                         *)
(* A socket may open before the server has handled what came on the one    *)
(* before: each has a gateway of its own, and they say what they are sent  *)
(* without regard to one another.                                          *)
(*                                                                         *)
(* A definition introduced as a slip is a wrong variant of the next one.   *)
(***************************************************************************)
EXTENDS UiGateway

VARIABLES lastDown, eventStack, endWait, executed, mouse, made, crossed, presses

Button == INSTANCE InputManager WITH MaxPresses <- MaxMoves

VARIABLES
  kept,   \* actions emitted while the socket was known to be closed
  sent,   \* of each socket so far: actions on it that its gateway did not handle
  heard,  \* actions said on the channel, and the socket they came from; an action is
          \* the number of its execution
  owed    \* observed only: actions emitted while nothing stood in their way

bvars == <<lastDown, eventStack, endWait, executed, mouse, made, crossed, presses>>
path == <<kept, sent, heard, owed>>
cvars == <<uvars, bvars, path>>

CInit ==
  /\ Init /\ Button!Init
  /\ kept = <<>> /\ sent = <<>> /\ heard = <<>> /\ owed = {}

-----------------------------------------------------------------------------
(* The button                                                              *)

\* The window's presses: s is the primary action, l and ss the secondary one.
Bound == {<<"s">>, <<"l">>, <<"s", "s">>}

\* A slip: no action for a browser that is not connected yet.
EmitShown(n) ==
  /\ sent' = IF socket /\ connected THEN [sent EXCEPT ![Len(sent)] = Append(@, n)] ELSE sent
  /\ owed' = IF socket /\ gateway = "joined" THEN owed \cup {n} ELSE owed
  /\ UNCHANGED kept

\* net.action.
Emit(n) ==
  /\ sent' = IF socket THEN [sent EXCEPT ![Len(sent)] = Append(@, n)] ELSE sent
  /\ kept' = IF ~socket /\ wire = <<>> THEN Append(kept, n) ELSE kept
  /\ owed' = IF socket /\ gateway = "joined" THEN owed \cup {n} ELSE owed

OnButton == Button!Down \/ (\E p \in Button!Press : Button!Up(p)) \/ Button!UpAlone

OffButton == Button!DownAway \/ Button!UpAway

Mouse ==
  /\ (connected /\ OnButton) \/ OffButton
  /\ UNCHANGED <<uvars, path>>

Execute ==
  /\ Button!End
  /\ IF eventStack \in Bound THEN Emit(Len(executed')) ELSE UNCHANGED <<kept, sent, owed>>
  /\ UNCHANGED <<uvars, heard>>

-----------------------------------------------------------------------------
(* The way to the channel                                                  *)

\* A slip: what was kept is sent at every opening.
SocketOpensAgain ==
  /\ Open
  /\ sent' = Append(sent, kept)
  /\ UNCHANGED <<bvars, kept, heard, owed>>

SocketOpens ==
  /\ Open
  /\ sent' = Append(sent, kept) /\ kept' = <<>>
  /\ UNCHANGED <<bvars, heard, owed>>

\* With the actions emitted last.
SocketFails ==
  /\ SocketLost
  /\ \E n \in 0 .. Len(Last(sent)) :
       sent' = [sent EXCEPT ![Len(sent)] = SubSeq(@, 1, n)]
  /\ owed' = {}
  /\ UNCHANGED <<bvars, kept, heard>>

IrcFails == IrcLost /\ owed' = {} /\ UNCHANGED <<bvars, kept, sent, heard>>

\* msg: say on the channel, which nobody hears before the client has joined; an older
\* client may have.
OnMsg(k) ==
  /\ sent[k] # <<>>
  /\ sent' = [sent EXCEPT ![k] = Tail(@)]
  /\ \E joined \in IF k = Len(sent) THEN {gateway = "joined"} ELSE BOOLEAN :
       heard' = IF joined
                THEN Append(heard, [socket |-> k, action |-> Head(sent[k])])
                ELSE heard
  /\ UNCHANGED <<uvars, bvars, kept, owed>>

Say == \E k \in DOMAIN sent : OnMsg(k)

\* After all that arrived on the socket.
Disconnect == OnDisconnect /\ Last(sent) = <<>> /\ UNCHANGED <<bvars, path>>

GatewayStep ==
  /\ OnJoin \/ OnPart \/ OnNick \/ OnNames \/ OnClose \/ Joined
  /\ UNCHANGED <<bvars, path>>

BrowserStep == Browser /\ UNCHANGED <<bvars, path>>

ComponentStep ==
  /\ \/ \E n \in Nick : Arrive(n)
     \/ \E n \in present : Leave(n)
     \/ \E n \in present, v \in Values : Rename(n, v)
  /\ UNCHANGED <<bvars, path>>

CNext ==
  /\ \/ ComponentStep \/ GatewayStep \/ BrowserStep
     \/ Mouse \/ Execute \/ Say
     \/ SocketOpens \/ SocketFails \/ IrcFails \/ Disconnect
  /\ moves' + presses' <= MaxMoves

CSpec == CInit /\ [][CNext]_cvars

\* As in the components; a handler of the gateway is not starved by its others.
FairCSpec ==
  /\ CSpec
  /\ WF_cvars(GatewayStep) /\ WF_cvars(Disconnect) /\ WF_cvars(Say)
  /\ WF_cvars(BrowserStep) /\ WF_cvars(SocketOpens) /\ WF_cvars(Execute)

-----------------------------------------------------------------------------
(* Properties                                                              *)

\* Of each connected piece: see UiGateway and InputManager.
AsMade == Button!AsMade

NoneForgotten == Button!NoneForgotten

\* An action is never said twice, and overtaken by no other than one of a later socket,
\* whose gateway does not wait for the older; one emitted while the gateway had joined is
\* said, unless a connection is lost meanwhile: net.action, gateway.js msg, ui/main.js.
SaidOnce ==
  /\ \A j, k \in DOMAIN heard : j < k =>
       IF heard[j].socket <= heard[k].socket
       THEN heard[j].action < heard[k].action
       ELSE heard[j].action > heard[k].action
  /\ \A n \in owed : \/ \E j \in DOMAIN heard : heard[j].action = n
                     \/ \E j \in DOMAIN Last(sent) : Last(sent)[j] = n
=============================================================================
