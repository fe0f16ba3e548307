------------------------------- MODULE CompMpd -------------------------------
(***************************************************************************)
(* The music component of the daemon (comp_mpd.c) in the daemon's loop     *)
(* (loop.c) and its one connection to MPD.  The component waits in MPD's   *)
(* "idle", a request that MPD answers when something has changed; to say   *)
(* anything else it must first leave idle and read its answer.             *)
(*                                                                         *)
(* The daemon has one thread: pc is where it is, inside one turn of the    *)
(* loop or one call that talks to MPD.  MPD, its other clients and SIGTERM *)
(* act between any two steps.  MPD is modelled from the calls made to its  *)
(* library: it keeps what has changed until an answer of idle says so, may *)
(* accept an order that has no effect, and may close the connection, which *)
(* the daemon opens once only.                                             *)
(*                                                                         *)
(* A definition introduced as a slip is a wrong variant of the next one.   *)
(***************************************************************************)
EXTENDS Naturals

CONSTANTS
  States,   \* states of a player: stop, play, pause
  Volumes,
  Unknown,  \* the value "unknown", which the type of setstate declares too
  Null,     \* an attribute never set; no order
  MaxMoves  \* bound on orders, changes by other clients, signals and the end of MPD

ASSUME MpdAssumption ==
  /\ Unknown \notin States
  /\ Null \notin States \cup Volumes
  /\ MaxMoves \in Nat

Status == [state : States, volume : Volumes]

\* MPD_IDLE_PLAYER and MPD_IDLE_MIXER, by the field they tell of.
Fields == {"state", "volume"}

\* setstate and setvolume with the values their types allow.
Orders == [field : {"state"}, value : States \cup {Unknown}]
            \cup [field : {"volume"}, value : Volumes]

VARIABLES
  player,   \* MPD: state and volume
  changes,  \* MPD: fields changed and not yet told to the component
  server,   \* MPD: "idle" or "ready" for a command of this connection, or "gone"
  answer,   \* the socket: the fields told by an answer not yet read
  fields,   \* the component: what it takes the player to be
  attribute,\* the values published
  pc,       \* where the daemon is
  order,    \* the action being executed
  running,  \* loop.c: no SIGTERM yet
  missed,   \* observed only: the fields whose change the component threw away,
            \* that was lost with the connection, or whose order had no effect,
            \* since its last look at the player
  moves

theirs == <<player, changes, server, answer>>
ours   == <<fields, attribute, missed>>
pvars  == <<theirs, ours, pc, order, running, moves>>

Places == {"select", "io", "read", "arm", "irc", "noidle", "run", "rearm", "publish",
           "stopped", "lost", "fatal"}

\* Types; what is published is always of the type declared for it.
TypeOK ==
  /\ player \in Status
  /\ changes \subseteq Fields
  /\ server \in {"idle", "ready", "gone"}
  /\ answer \subseteq Fields
  /\ fields \in Status
  /\ attribute \in [state : States \cup {Null}, volume : Volumes \cup {Null}]
  /\ pc \in Places
  /\ order = Null \/ order \in Orders
  /\ running \in BOOLEAN
  /\ missed \subseteq Fields
  /\ moves \in 0 .. MaxMoves

Move == moves < MaxMoves /\ moves' = moves + 1

\* creator has connected and is about to read the status.  malloc leaves the two
\* fields as they are: any value.
Init ==
  /\ player \in Status
  /\ changes = {}
  /\ server = "ready"
  /\ answer = {}
  /\ fields \in Status
  /\ attribute = [state |-> Null, volume |-> Null]
  /\ pc = "read"
  /\ order = Null
  /\ running = TRUE
  /\ missed = Fields
  /\ moves = 0

-----------------------------------------------------------------------------
(* MPD and its other clients                                               *)

OtherClient ==
  /\ Move
  /\ \E p \in Status :
       /\ player' = p
       /\ changes' = changes \cup {f \in Fields : p[f] # player[f]}
  /\ UNCHANGED <<server, answer, ours, pc, order, running>>

Answer ==
  /\ server = "idle"
  /\ changes # {}
  /\ answer' = changes
  /\ changes' = {}
  /\ server' = "ready"
  /\ UNCHANGED <<player, ours, pc, order, running, moves>>

\* MPD ends, or closes the connection; what was not read yet may be lost with it.
Gone ==
  /\ Move
  /\ server # "gone"
  /\ server' = "gone"
  /\ answer' \in {answer, {}}
  /\ missed' = missed \cup (answer \ answer')
  /\ UNCHANGED <<player, changes, fields, attribute, pc, order, running>>

-----------------------------------------------------------------------------
(* The loop                                                                *)

\* A turn: the component's listener if there is something to read, be it the end of the
\* connection, then the listener of its IRC session, registered after it.
Select ==
  /\ pc = "select"
  /\ running
  /\ pc' = IF answer # {} \/ server = "gone" THEN "io" ELSE "irc"
  /\ UNCHANGED <<theirs, ours, order, running, moves>>

\* A signal ends select with EINTR.  safe_select calls that no error, and the sets still
\* hold every descriptor that was asked for: the listener tells the library of an error,
\* which gives the connection up.  Idle cannot be sent, and the assertion on it ends the
\* daemon.
Interrupted ==
  /\ Move
  /\ pc = "select"
  /\ running
  /\ running' = FALSE
  /\ pc' = "lost"
  /\ UNCHANGED <<theirs, ours, order>>

\* A signal at any other place is seen at the end of the turn.
Signal ==
  /\ Move
  /\ running
  /\ pc \notin {"select", "stopped", "lost", "fatal"}
  /\ running' = FALSE
  /\ UNCHANGED <<theirs, ours, pc, order>>

\* What the connection is after a request was sent.
Sent(s) == IF server = "gone" THEN "gone" ELSE s

\* The last turn is over: the destructor leaves idle and closes.
Stop ==
  /\ pc = "select"
  /\ ~running
  /\ pc' = "stopped"
  /\ server' = Sent("ready")
  /\ answer' = {}
  /\ UNCHANGED <<player, changes, ours, order, running, moves>>

EndTurn ==
  /\ pc = "irc"
  /\ pc' = "select"
  /\ UNCHANGED <<theirs, ours, order, running, moves>>

-----------------------------------------------------------------------------
(* The listener of the connection                                          *)

\* A slip: an answer is taken to be of the player only.
IoPlayerOnly ==
  /\ pc = "io"
  /\ answer # {}
  /\ answer' = {}
  /\ pc' = IF "state" \in answer THEN "read" ELSE "arm"
  /\ UNCHANGED <<player, changes, server, ours, order, running, moves>>

\* mpd_recv_idle.
Io ==
  /\ pc = "io"
  /\ answer # {}
  /\ answer' = {}
  /\ pc' = "read"
  /\ UNCHANGED <<player, changes, server, ours, order, running, moves>>

\* An assertion on a request to an MPD that is gone fails.  A request of which no answer
\* is awaited, idle or the noidle of the destructor, may still be sent.
Lose ==
  /\ server = "gone"
  /\ \/ pc = "io" /\ answer = {}
     \/ pc \in {"read", "arm", "noidle", "run", "rearm"}
     \/ pc = "select" /\ ~running
  /\ pc' = "lost"
  /\ UNCHANGED <<theirs, ours, order, running, moves>>

\* A slip: a change of volume is published and not kept.
ChangeStateKept(s) ==
  /\ fields' = [fields EXCEPT !.state = s.state]
  /\ attribute' = [f \in Fields |-> IF fields[f] # s[f] THEN s[f] ELSE attribute[f]]

\* change_status: what differs from the fields is published.
ChangeStatus(s) ==
  /\ fields' = s
  /\ attribute' = [f \in Fields |-> IF fields[f] # s[f] THEN s[f] ELSE attribute[f]]

ReadStatus ==
  /\ pc = "read"
  /\ server # "gone"
  /\ ChangeStatus(player)
  /\ missed' = {}
  /\ pc' = "arm"
  /\ UNCHANGED <<theirs, order, running, moves>>

Arm ==
  /\ pc = "arm"
  /\ server' = Sent("idle")
  /\ pc' = "irc"
  /\ UNCHANGED <<player, changes, answer, ours, order, running, moves>>

-----------------------------------------------------------------------------
(* The actions: setstate_handler and setvolume_handler                     *)

\* An order arrives by IRC.  "unknown" is a value of the type and not of the
\* handler.
Order(o) ==
  /\ Move
  /\ pc = "irc"
  /\ order' = o
  /\ pc' = IF o.value = Unknown THEN "fatal" ELSE "noidle"
  /\ UNCHANGED <<theirs, ours, running>>

\* A slip: the order is sent to an MPD that may still be idle.
NoIdleUnread ==
  /\ pc = "noidle"
  /\ server # "gone"
  /\ server' = IF answer = {} THEN "ready" ELSE server
  /\ pc' = "run"
  /\ UNCHANGED <<player, changes, answer, ours, order, running, moves>>

\* Leaves idle.  MPD answers with the changes it holds; if it had already
\* answered, that is what is read.  Either way the result is thrown away.
NoIdle ==
  /\ pc = "noidle"
  /\ server # "gone"
  /\ server' = "ready"
  /\ answer' = {}
  /\ changes' = IF answer = {} THEN {} ELSE changes
  /\ missed' = missed \cup IF answer = {} THEN changes ELSE answer
  /\ pc' = "run"
  /\ UNCHANGED <<player, fields, attribute, order, running, moves>>

\* MPD accepts the order, which may have no effect (a pause of what is stopped).
Run ==
  /\ pc = "run"
  /\ server # "gone"
  /\ pc' = "rearm"
  /\ \/ /\ player' = [player EXCEPT ![order.field] = order.value]
        /\ changes' = IF player' # player THEN changes \cup {order.field} ELSE changes
        /\ missed' = missed \ {order.field}
     \/ /\ player[order.field] # order.value
        /\ missed' = missed \cup {order.field}
        /\ UNCHANGED <<player, changes>>
  /\ UNCHANGED <<server, answer, fields, attribute, order, running, moves>>

Rearm ==
  /\ pc = "rearm"
  /\ server' = Sent("idle")
  /\ pc' = "publish"
  /\ UNCHANGED <<player, changes, answer, ours, order, running, moves>>

\* What was ordered is published, and taken to be so.
Publish ==
  /\ pc = "publish"
  /\ ChangeStatus([fields EXCEPT ![order.field] = order.value])
  /\ order' = Null
  /\ pc' = "irc"
  /\ UNCHANGED <<theirs, missed, running, moves>>

-----------------------------------------------------------------------------
Daemon ==
  \/ Select \/ Stop \/ EndTurn \/ Io \/ Lose \/ ReadStatus \/ Arm
  \/ NoIdle \/ Run \/ Rearm \/ Publish

Next ==
  \/ OtherClient \/ Answer \/ Gone
  \/ Interrupted \/ Signal
  \/ \E o \in Orders : Order(o)
  \/ Daemon

Spec == Init /\ [][Next]_pvars

\* The daemon runs on, and MPD answers; others owe nothing.
FairSpec == Spec /\ WF_pvars(Daemon) /\ WF_pvars(Answer)

-----------------------------------------------------------------------------
(* Properties                                                              *)

\* Turns are taken: nothing is sent to an MPD that is idle or whose answer is
\* still in the socket (read_status, mpd_run_..., mpd_send_idle_mask).
TakesTurns ==
  /\ answer # {} => server # "idle"
  /\ pc \in {"read", "arm", "run", "rearm"} => server # "idle" /\ answer = {}

\* Never deaf: where the daemon waits, or is about to, MPD is idle, has answered or is
\* gone, so a change made now or before will wake it.
NeverDeaf ==
  pc \in {"select", "io", "irc", "noidle", "publish"} =>
    server \in {"idle", "gone"} \/ answer # {}

\* What is published is what the component believes, or was never set.
PublishedIsBelieved == \A f \in Fields : attribute[f] \in {Null, fields[f]}

\* What MPD has nothing more to tell of, the component is right about, unless a change of
\* it was thrown away by NoIdle or lost with the connection, or an order for it had no
\* effect.  An order obeyed makes up for a change thrown away.
RightIfToldAll ==
  pc \in {"select", "irc"} =>
    \A f \in Fields \ (changes \cup answer \cup missed) : fields[f] = player[f]

\* The handler's order is one MPD can be given.
OrderKnown ==
  pc \in {"noidle", "run", "rearm", "publish"} => order \in Orders /\ order.value # Unknown

\* The same at every place: between an order and its publication, the order tells.
BelievesOrKnows ==
  pc \notin {"read", "stopped", "lost"} =>
    \A f \in Fields \ (changes \cup answer \cup missed) :
      player[f] = IF pc \in {"rearm", "publish"} /\ order.field = f
                  THEN order.value ELSE fields[f]

\* The inductive invariant of DaemonProofs.
MpdInv ==
  /\ TypeOK
  /\ TakesTurns
  /\ NeverDeaf
  /\ PublishedIsBelieved
  /\ OrderKnown
  /\ BelievesOrKnows

\* Every change is heard: when the others calm down, a daemon that runs on has its MPD and
\* takes for true what is, but for what was thrown away.  It does not live on without the
\* connection that it never opens again: its assertions end it.
Heard ==
  <>[](running /\ pc \notin {"lost", "fatal"} =>
         server # "gone" /\ \A f \in Fields \ missed : fields[f] = player[f])

=============================================================================
