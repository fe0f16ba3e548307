------------------------------ MODULE MusicLoop ------------------------------
(***************************************************************************)
(* The music plugin of the core (plugins/music.js) tied to a player by two *)
(* links: the state of the plugin is ordered from the player, the state of *)
(* the player is set in the plugin.  Each follows the other, and what      *)
(* keeps an old value from chasing a new one round the loop is that the    *)
(* plugin waits five seconds before it follows.  The volume goes the same  *)
(* way.                                                                    *)
(*                                                                         *)
(* Time is abstracted to what the delay is compared with: a message is old *)
(* when it, or the message it answers, was under way when the delay began. *)
(* The assumption on the network is that five seconds are enough for a     *)
(* message and the answer to it: the delay does not end before old ones    *)
(* have arrived.  New ones may cross it.                                   *)
(*                                                                         *)
(* A definition introduced as a slip is a wrong variant of the next one.   *)
(***************************************************************************)
EXTENDS Naturals, Sequences

CONSTANTS
  Stop, Play, Pause,
  Null,      \* no value: of a player off line, of a plugin that follows it
  MaxMoves   \* bound on what users, other clients and the player's host do

States == {Stop, Play, Pause}

ASSUME MusicAssumption ==
  /\ Play # Pause
  /\ Null \notin States
  /\ MaxMoves \in Nat

VARIABLES
  music,     \* the plugin: attribute state
  waiting,   \* the plugin: a delay runs
  next,      \* the plugin: the value it will set at the end of the delay
  player,    \* the daemon: the state of the player, Null when it is off line
  orders,    \* messages from the core to the player
  news,      \* nicks of the player on their way to the core
  expected,  \* observed only: what a user asked for when all was at rest, and
             \* nobody touched anything since
  sent,      \* observed only: number of orders sent
  moves

mvars == <<music, waiting, next, player, orders, news, expected, sent, moves>>

Message == [value : States \cup {Null}, old : BOOLEAN]

\* Types.
TypeOK ==
  /\ music \in States \cup {Null}
  /\ waiting \in BOOLEAN
  /\ next \in States \cup {Null}
  /\ player \in States \cup {Null}
  /\ orders \in Seq(Message)
  /\ news \in Seq(Message)
  /\ expected \in States \cup {Null}
  /\ sent \in Nat
  /\ moves \in 0 .. MaxMoves

New(v) == [value |-> v, old |-> FALSE]
Aged(s) == [j \in DOMAIN s |-> [s[j] EXCEPT !.old = TRUE]]

Rest == ~waiting /\ orders = <<>> /\ news = <<>>

\* Whoever moves makes what a user asked for before no longer expected.
Move(e) == moves < MaxMoves /\ moves' = moves + 1 /\ expected' = e

\* The core starts, links the two and finds the player on its channel.
Init ==
  /\ music = Stop
  /\ waiting = FALSE /\ next = Null
  /\ player \in States
  /\ orders = <<>>
  /\ news = <<New(player)>>
  /\ expected = Null
  /\ sent = 0
  /\ moves = 0

-----------------------------------------------------------------------------
(* The core                                                                *)

\* setAttribute runs the link from the plugin, whether the value changes or not.
SetAttribute(v) ==
  /\ music' = v
  /\ orders' = Append(orders, New(v))
  /\ sent' = sent + 1

\* A user: stop, play, pause, or state-switch.
Press(v) ==
  /\ Move(IF Rest /\ player # Null THEN v ELSE Null)
  /\ SetAttribute(v)
  /\ UNCHANGED <<waiting, next, player, news>>

StateSwitch == Press(IF music = Play THEN Pause ELSE Play)

\* A slip: the plugin follows at once.
SetStateNow(v) ==
  /\ SetAttribute(v)
  /\ news' = Tail(news)
  /\ UNCHANGED <<waiting, next>>

\* A slip: the delay that runs is left to end as it will.
SetStateKept(v) ==
  /\ waiting' = TRUE
  /\ next' = IF waiting THEN next ELSE v
  /\ orders' = IF waiting THEN orders ELSE Aged(orders)
  /\ news' = IF waiting THEN Tail(news) ELSE Aged(Tail(news))
  /\ UNCHANGED <<music, sent>>

\* action#setstate: the delay begins, again if it has begun.
SetState(v) ==
  /\ waiting' = TRUE
  /\ next' = v
  /\ orders' = Aged(orders)
  /\ news' = Aged(Tail(news))
  /\ UNCHANGED <<music, sent>>

\* A nick of the player sets its attributes, which runs the link to the plugin.  (At
\* its first nick 'connected' runs it again, to the same effect.)
HandleNews ==
  /\ news # <<>>
  /\ SetState(Head(news).value)
  /\ UNCHANGED <<player, expected, moves>>

NoOld(s) == \A j \in DOMAIN s : ~s[j].old

\* A slip: the value is forgotten before it is set.
ExpireForgets ==
  /\ waiting
  /\ NoOld(orders) /\ NoOld(news)
  /\ SetAttribute(Null)
  /\ waiting' = FALSE /\ next' = Null
  /\ UNCHANGED <<player, news, expected, moves>>

\* The delay ends.
Expire ==
  /\ waiting
  /\ NoOld(orders) /\ NoOld(news)
  /\ SetAttribute(next)
  /\ waiting' = FALSE /\ next' = Null
  /\ UNCHANGED <<player, news, expected, moves>>

-----------------------------------------------------------------------------
(* The player                                                              *)

\* setstate_handler: what changes is published.  An order to a player that is off line
\* is lost; one with no value is refused.
Obey ==
  /\ orders # <<>>
  /\ LET o == Head(orders) IN
       IF player \notin {Null, o.value} /\ o.value # Null
       THEN player' = o.value /\ news' = Append(news, o)
       ELSE UNCHANGED <<player, news>>
  /\ orders' = Tail(orders)
  /\ UNCHANGED <<music, waiting, next, expected, sent, moves>>

\* Another client of the player; or its volume changes, and the state goes with it.
OtherClient ==
  /\ player # Null
  /\ Move(Null)
  /\ \E v \in States : player' = v /\ news' = Append(news, New(v))
  /\ UNCHANGED <<music, waiting, next, orders, sent>>

\* The player leaves: nickOffline sets its attributes to no value.
Leave ==
  /\ player # Null
  /\ Move(Null)
  /\ player' = Null
  /\ news' = Append(news, New(Null))
  /\ UNCHANGED <<music, waiting, next, orders, sent>>

\* A slip: who comes back says nothing before it changes.
ReturnUnseen ==
  /\ player = Null
  /\ Move(Null)
  /\ player' \in States
  /\ UNCHANGED <<music, waiting, next, orders, news, sent>>

Return ==
  /\ player = Null
  /\ Move(Null)
  /\ \E v \in States : player' = v /\ news' = Append(news, New(v))
  /\ UNCHANGED <<music, waiting, next, orders, sent>>

-----------------------------------------------------------------------------
System == HandleNews \/ Expire \/ Obey

Next ==
  \/ \E v \in States : Press(v)
  \/ StateSwitch
  \/ OtherClient \/ Leave \/ Return
  \/ System

Spec == Init /\ [][Next]_mvars

\* Messages arrive and delays end; nobody need do anything.
FairSpec == Spec /\ WF_mvars(HandleNews) /\ WF_mvars(Obey) /\ WF_mvars(Expire)

-----------------------------------------------------------------------------
(* Properties                                                              *)

\* No flood: a user costs two orders, anything else one ("pour éviter les
\* boucles/flood", music.js:40 and 51); the start costs one.
NoFlood == sent <= 2 * moves + 1

\* What a user asks of a system at rest is what is, once it is at rest again.
AskedIsDone == Rest /\ expected # Null => music = expected /\ player = expected

\* At rest the two agree: no delay and no message is left behind with an older value,
\* whatever crossed on the way, and nothing stays empty after a player that came back.
AgreeAtRest == Rest /\ player # Null => music = player

\* The loop dies out.
Converges == <>[](Rest /\ (player # Null => music = player))
=============================================================================
