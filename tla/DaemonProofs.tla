---------------------------- MODULE DaemonProofs ----------------------------
(***************************************************************************)
(* Theorems about the component daemon.  CompMpd, for all states, volumes  *)
(* and moves: the daemon and MPD take turns and nothing that MPD tells is  *)
(* missed unnoticed.  DaemonMain, for every number of shells, pids and     *)
(* commands: without racing starts there is one daemon, and its pid is in  *)
(* the file.                                                               *)
(***************************************************************************)
EXTENDS CompMpd, DaemonMain, TLAPS

-----------------------------------------------------------------------------
(* The music player                                                        *)

\* The status that change_status is called with after an order is a status.
LEMMA OrderedStatus ==
  ASSUME NEW s \in Status, NEW o \in Orders, o.value # Unknown
  PROVE  /\ [s EXCEPT ![o.field] = o.value] \in Status
         /\ o.field \in Fields
         /\ [s EXCEPT ![o.field] = o.value][o.field] = o.value
         /\ \A f \in Fields \ {o.field} : [s EXCEPT ![o.field] = o.value][f] = s[f]
<1>1. CASE o \in [field : {"state"}, value : States \cup {Unknown}]
  BY <1>1 DEF Status, Fields
<1>2. CASE o \in [field : {"volume"}, value : Volumes]
  BY <1>2 DEF Status, Fields
<1> QED BY <1>1, <1>2 DEF Orders

\* change_status keeps what is published equal to what is believed.
LEMMA ChangeStatusPublishes ==
  ASSUME TypeOK, PublishedIsBelieved, NEW s \in Status, ChangeStatus(s)
  PROVE  /\ fields' = s
         /\ attribute' \in [state : States \cup {Null}, volume : Volumes \cup {Null}]
         /\ PublishedIsBelieved'
<1>1. fields' = s /\ attribute' = [f \in Fields |-> IF fields[f] # s[f] THEN s[f] ELSE attribute[f]]
  BY DEF ChangeStatus
<1>2. attribute' \in [state : States \cup {Null}, volume : Volumes \cup {Null}]
  <2>1. DOMAIN attribute' = {"state", "volume"}
    BY <1>1 DEF Fields
  <2>2. attribute'["state"] \in States \cup {Null}
    BY <1>1 DEF Fields, TypeOK, Status
  <2>3. attribute'["volume"] \in Volumes \cup {Null}
    BY <1>1 DEF Fields, TypeOK, Status
  <2> QED BY <1>1, <2>1, <2>2, <2>3 DEF Fields
<1>3. PublishedIsBelieved'
  BY <1>1 DEF PublishedIsBelieved
<1> QED BY <1>1, <1>2, <1>3

\* A move stays within the bound.
LEMMA MoveBounded ==
  ASSUME TypeOK, Move
  PROVE  moves' \in 0 .. MaxMoves
BY MpdAssumption DEF TypeOK, Move

\* A daemon just connected is in order.
THEOREM InitMpd == Init => MpdInv
<1> SUFFICES ASSUME Init PROVE MpdInv
  OBVIOUS
<1>1. TypeOK
  BY MpdAssumption DEF Init, TypeOK, Places, Fields
<1>2. TakesTurns /\ NeverDeaf /\ OrderKnown /\ BelievesOrKnows
  BY DEF Init, TakesTurns, NeverDeaf, OrderKnown, BelievesOrKnows
<1>3. PublishedIsBelieved
  BY DEF Init, PublishedIsBelieved, Fields
<1> QED BY <1>1, <1>2, <1>3 DEF MpdInv

\* Each step of MPD and of the daemon keeps the invariant; the proof looks at the
\* parts that the action can disturb.
THEOREM StepMpd == MpdInv /\ [Next]_pvars => MpdInv'
<1> SUFFICES ASSUME MpdInv, [Next]_pvars PROVE MpdInv'
  OBVIOUS
<1> USE DEF theirs, ours
<1>0. TypeOK /\ TakesTurns /\ NeverDeaf /\ PublishedIsBelieved /\ OrderKnown /\ BelievesOrKnows
  BY DEF MpdInv
<1>1. CASE OtherClient
  <2>1. PICK p \in Status :
          player' = p /\ changes' = changes \cup {f \in Fields : p[f] # player[f]}
    BY <1>1 DEF OtherClient
  <2>2. TypeOK'
    BY <1>0, <1>1, <2>1, MoveBounded DEF OtherClient, TypeOK
  <2>3. BelievesOrKnows'
    BY <1>0, <1>1, <2>1 DEF OtherClient, BelievesOrKnows
  <2>4. TakesTurns' /\ NeverDeaf' /\ OrderKnown' /\ PublishedIsBelieved'
    BY <1>0, <1>1 DEF OtherClient, TakesTurns, NeverDeaf, OrderKnown, PublishedIsBelieved
  <2> QED BY <2>2, <2>3, <2>4 DEF MpdInv
<1>2. CASE Answer
  <2>1. TypeOK'
    BY <1>0, <1>2 DEF Answer, TypeOK
  <2>2. TakesTurns' /\ NeverDeaf' /\ OrderKnown' /\ PublishedIsBelieved' /\ BelievesOrKnows'
    BY <1>0, <1>2 DEF Answer, TakesTurns, NeverDeaf, OrderKnown, PublishedIsBelieved,
                      BelievesOrKnows
  <2> QED BY <2>1, <2>2 DEF MpdInv
<1>13. CASE Gone
  <2>1. TypeOK'
    BY <1>0, <1>13, MoveBounded DEF Gone, TypeOK
  <2>2. BelievesOrKnows'
    \* What is not read is missed.
    BY <1>0, <1>13 DEF Gone, BelievesOrKnows
  <2>3. TakesTurns' /\ NeverDeaf' /\ OrderKnown' /\ PublishedIsBelieved'
    BY <1>0, <1>13 DEF Gone, TakesTurns, NeverDeaf, OrderKnown, PublishedIsBelieved
  <2> QED BY <2>1, <2>2, <2>3 DEF MpdInv
<1>3. CASE Interrupted \/ Signal \/ Lose \/ Select \/ EndTurn
  <2>1. TypeOK'
    <3>1. moves' \in 0 .. MaxMoves
      BY <1>0, <1>3, MoveBounded DEF Interrupted, Signal, Lose, Select, EndTurn, TypeOK
    <3> QED
      BY <1>0, <1>3, <3>1 DEF Interrupted, Signal, Lose, Select, EndTurn, TypeOK, Places
  <2>2. TakesTurns' /\ NeverDeaf' /\ OrderKnown'
    BY <1>0, <1>3 DEF Interrupted, Signal, Lose, Select, EndTurn,
                      TakesTurns, NeverDeaf, OrderKnown
  <2>3. PublishedIsBelieved' /\ BelievesOrKnows'
    BY <1>0, <1>3 DEF Interrupted, Signal, Lose, Select, EndTurn,
                      PublishedIsBelieved, BelievesOrKnows
  <2> QED BY <2>1, <2>2, <2>3 DEF MpdInv
<1>4. CASE Stop
  <2>1. TypeOK'
    BY <1>0, <1>4 DEF Stop, Sent, TypeOK, Places
  <2>2. TakesTurns' /\ NeverDeaf' /\ OrderKnown' /\ PublishedIsBelieved' /\ BelievesOrKnows'
    BY <1>0, <1>4 DEF Stop, Sent, TakesTurns, NeverDeaf, OrderKnown, PublishedIsBelieved,
                      BelievesOrKnows
  <2> QED BY <2>1, <2>2 DEF MpdInv
<1>5. CASE Io
  <2>1. TypeOK'
    BY <1>0, <1>5 DEF Io, TypeOK, Places
  <2>2. TakesTurns'
    \* An answer in the socket was given by an MPD that left idle for it.
    BY <1>0, <1>5 DEF Io, TakesTurns, NeverDeaf
  <2>3. NeverDeaf' /\ OrderKnown' /\ PublishedIsBelieved' /\ BelievesOrKnows'
    BY <1>0, <1>5 DEF Io, NeverDeaf, OrderKnown, PublishedIsBelieved, BelievesOrKnows
  <2> QED BY <2>1, <2>2, <2>3 DEF MpdInv
<1>6. CASE ReadStatus
  <2>1. player \in Status /\ ChangeStatus(player)
    BY <1>0, <1>6 DEF ReadStatus, TypeOK
  <2>2. /\ fields' = player
        /\ attribute' \in [state : States \cup {Null}, volume : Volumes \cup {Null}]
        /\ PublishedIsBelieved'
    BY <1>0, <2>1, ChangeStatusPublishes
  <2>3. TypeOK'
    BY <1>0, <1>6, <2>1, <2>2 DEF ReadStatus, TypeOK, Places
  <2>4. TakesTurns' /\ NeverDeaf' /\ OrderKnown' /\ BelievesOrKnows'
    BY <1>0, <1>6, <2>2 DEF ReadStatus, TakesTurns, NeverDeaf, OrderKnown, BelievesOrKnows
  <2> QED BY <2>2, <2>3, <2>4 DEF MpdInv
<1>7. CASE Arm \/ Rearm
  <2>1. TypeOK'
    BY <1>0, <1>7 DEF Arm, Rearm, Sent, TypeOK, Places
  <2>2. TakesTurns' /\ NeverDeaf' /\ OrderKnown' /\ PublishedIsBelieved' /\ BelievesOrKnows'
    BY <1>0, <1>7 DEF Arm, Rearm, Sent, TakesTurns, NeverDeaf, OrderKnown, PublishedIsBelieved,
                      BelievesOrKnows
  <2> QED BY <2>1, <2>2 DEF MpdInv
<1>8. ASSUME NEW o \in Orders, Order(o) PROVE MpdInv'
  <2>1. TypeOK'
    <3>1. moves' \in 0 .. MaxMoves
      BY <1>0, <1>8, MoveBounded DEF Order
    <3> QED BY <1>0, <1>8, <3>1 DEF Order, TypeOK, Places
  <2>2. TakesTurns' /\ NeverDeaf' /\ OrderKnown' /\ PublishedIsBelieved' /\ BelievesOrKnows'
    BY <1>0, <1>8 DEF Order, TakesTurns, NeverDeaf, OrderKnown, PublishedIsBelieved,
                      BelievesOrKnows
  <2> QED BY <2>1, <2>2 DEF MpdInv
<1>9. CASE NoIdle
  <2>1. TypeOK'
    BY <1>0, <1>9 DEF NoIdle, TypeOK, Places
  <2>2. TakesTurns' /\ NeverDeaf' /\ OrderKnown' /\ PublishedIsBelieved'
    BY <1>0, <1>9 DEF NoIdle, TakesTurns, NeverDeaf, OrderKnown, PublishedIsBelieved
  <2>3. BelievesOrKnows'
    BY <1>0, <1>9 DEF NoIdle, BelievesOrKnows
  <2> QED BY <2>1, <2>2, <2>3 DEF MpdInv
<1>10. CASE Run
  <2>1. order \in Orders /\ order.value # Unknown /\ player \in Status
    BY <1>0, <1>10 DEF Run, OrderKnown, TypeOK
  <2> DEFINE obeyed == [player EXCEPT ![order.field] = order.value]
  <2>2. /\ obeyed \in Status /\ order.field \in Fields /\ obeyed[order.field] = order.value
        /\ \A f \in Fields \ {order.field} : obeyed[f] = player[f]
    BY <2>1, OrderedStatus
  <2>3. /\ pc' = "rearm"
        /\ \/ player' = obeyed /\ changes \subseteq changes' /\ missed' = missed \ {order.field}
           \/ player' = player /\ changes' = changes /\ missed' = missed \cup {order.field}
        /\ changes' \subseteq changes \cup {order.field}
    BY <1>10 DEF Run
  <2>4. UNCHANGED <<server, answer, fields, attribute, order, running, moves>>
    BY <1>10 DEF Run
  <2> HIDE DEF obeyed
  <2>5. TypeOK'
    BY <1>0, <2>2, <2>3, <2>4 DEF TypeOK, Places
  <2>6. BelievesOrKnows'
    BY <1>0, <1>10, <2>2, <2>3, <2>4 DEF Run, BelievesOrKnows
  <2>7. TakesTurns' /\ NeverDeaf' /\ OrderKnown' /\ PublishedIsBelieved'
    BY <1>0, <1>10, <2>3, <2>4 DEF Run, TakesTurns, NeverDeaf, OrderKnown, PublishedIsBelieved
  <2> QED BY <2>5, <2>6, <2>7 DEF MpdInv
<1>11. CASE Publish
  <2>1. order \in Orders /\ order.value # Unknown /\ fields \in Status
    BY <1>0, <1>11 DEF Publish, OrderKnown, TypeOK
  <2> DEFINE ordered == [fields EXCEPT ![order.field] = order.value]
  <2>2. /\ ordered \in Status /\ order.field \in Fields /\ ordered[order.field] = order.value
        /\ \A f \in Fields \ {order.field} : ordered[f] = fields[f]
    BY <2>1, OrderedStatus
  <2>3. ChangeStatus(ordered)
    BY <1>11 DEF Publish
  <2> HIDE DEF ordered
  <2>4. /\ fields' = ordered
        /\ attribute' \in [state : States \cup {Null}, volume : Volumes \cup {Null}]
        /\ PublishedIsBelieved'
    BY <1>0, <2>2, <2>3, ChangeStatusPublishes
  <2>5. TypeOK'
    BY <1>0, <1>11, <2>2, <2>4 DEF Publish, TypeOK, Places
  <2>6. BelievesOrKnows'
    BY <1>0, <1>11, <2>2, <2>4 DEF Publish, BelievesOrKnows
  <2>7. TakesTurns' /\ NeverDeaf' /\ OrderKnown'
    BY <1>0, <1>11 DEF Publish, TakesTurns, NeverDeaf, OrderKnown
  <2> QED BY <2>4, <2>5, <2>6, <2>7 DEF MpdInv
<1>12. CASE UNCHANGED pvars
  BY <1>0, <1>12 DEF pvars, MpdInv, TypeOK, TakesTurns, NeverDeaf, PublishedIsBelieved,
                     OrderKnown, BelievesOrKnows
<1> QED
  BY <1>1, <1>2, <1>3, <1>4, <1>5, <1>6, <1>7, <1>8, <1>9, <1>10, <1>11, <1>12, <1>13
  DEF Next, Daemon

\* The invariant of the component and its connection.
THEOREM MpdInductive == Spec => []MpdInv
BY InitMpd, StepMpd, PTL DEF Spec

\* Nothing is sent to an MPD that is idle or has an answer to be read, so none of
\* the assertions on a request can fail for that reason.
THEOREM TurnsTaken == Spec => []TakesTurns
<1>1. MpdInv => TakesTurns
  BY DEF MpdInv
<1> QED BY <1>1, MpdInductive, PTL

\* Where the daemon waits, MPD is there to wake it.
THEOREM AlwaysHears == Spec => []NeverDeaf
<1>1. MpdInv => NeverDeaf
  BY DEF MpdInv
<1> QED BY <1>1, MpdInductive, PTL

\* A wait with nothing to be told and nothing thrown away is a wait with the
\* truth.
THEOREM ToldIsRight == Spec => []RightIfToldAll
<1>1. MpdInv => RightIfToldAll
  BY DEF MpdInv, BelievesOrKnows, RightIfToldAll
<1> QED BY <1>1, MpdInductive, PTL

\* States and volumes, orders and places stay what they are declared to be; what is
\* published has the type that the component declares.
THEOREM MpdTypes == Spec => []TypeOK
<1>1. MpdInv => TypeOK
  BY DEF MpdInv
<1> QED BY <1>1, MpdInductive, PTL

\* What is published is what the component believes, malloc's leftovers included.
THEOREM NeverAhead == Spec => []PublishedIsBelieved
<1>1. MpdInv => PublishedIsBelieved
  BY DEF MpdInv
<1> QED BY <1>1, MpdInductive, PTL

-----------------------------------------------------------------------------
(* The commands and the pid file                                           *)

\* The start: no daemon and no command.
LEMMA InitInv == MainInit => MainInv
<1> SUFFICES ASSUME MainInit PROVE MainInv
  OBVIOUS
<1>1. \A p \in Pids : process[p] = "free"
  BY DEF MainInit
<1>2. \A s \in Shells : shell[s].command = "none" /\ shell[s].pc = "idle"
  BY DEF MainInit, Idle, At
<1>3. MainTypeOK
  <2>1. process \in [Pids -> Daemons \cup {"free", "ended", "stranger"}]
    BY DEF MainInit
  <2>2. shell \in [Shells -> [command : {"none", "start", "stop", "status"},
                             pc : {"idle", "read", "act", "wait"},
                             pid : Pids \cup {NoPid}]]
    BY DEF MainInit, Idle, At
  <2>3. \A s \in Shells : shell[s].pc # "wait"
    BY <1>2
  <2>4. commands \in 0 .. MaxCommands
    BY MainAssumption DEF MainInit, MainAssumption
  <2> QED
    BY <2>1, <2>2, <2>3, <2>4 DEF MainInit, MainTypeOK
<1>4. OneDaemon /\ Recorded
  BY <1>1 DEF OneDaemon, Recorded, Living, Is, Daemons
<1>5. OneStart
  BY <1>1, <1>2 DEF OneStart, Is
<1> QED
  BY <1>3, <1>4, <1>5 DEF MainInv

\* Every step keeps the types.
LEMMA MainTypeStep ==
  ASSUME MainTypeOK, [MainNext]_nvars
  PROVE  MainTypeOK'
<1> USE MainAssumption DEF MainTypeOK, MainAssumption
<1>1. ASSUME NEW s \in Shells, NEW c \in {"start", "stop", "status"}, Begin(s, c)
      PROVE  MainTypeOK'
  BY <1>1 DEF Begin, At, Idle
<1>2. ASSUME NEW s \in Shells, ReadPid(s)
      PROVE  MainTypeOK'
  BY <1>2 DEF ReadPid
<1>3. ASSUME NEW s \in Shells, DoStatus(s)
      PROVE  MainTypeOK'
  BY <1>3 DEF DoStatus, Acting, Idle, At
<1>4. ASSUME NEW s \in Shells, DoStart(s)
      PROVE  MainTypeOK'
  BY <1>4 DEF DoStart, Acting, Idle, At, Daemons
<1>5. ASSUME NEW s \in Shells, DoStop(s)
      PROVE  MainTypeOK'
  BY <1>5 DEF DoStop, Acting, Idle, At, Exists, Daemons
<1>6. ASSUME NEW s \in Shells, Stopped(s)
      PROVE  MainTypeOK'
  BY <1>6 DEF Stopped, Idle, At
<1>7. ASSUME NEW p \in Pids, WriteOpen(p) \/ WritePid(p) \/ EnterLoop(p) \/ Die(p) \/ Reuse(p)
      PROVE  MainTypeOK'
  BY <1>7 DEF WriteOpen, WritePid, EnterLoop, Die, Reuse, Becomes, Daemons
<1>8. CASE UNCHANGED nvars
  BY <1>8 DEF nvars
<1> QED
  BY <1>1, <1>2, <1>3, <1>4, <1>5, <1>6, <1>7, <1>8 DEF MainNext

\* Every step keeps the rest of the invariant.
LEMMA StepInv ==
  ASSUME MainInv, [MainNext]_nvars, ~raced'
  PROVE  (OneDaemon /\ Recorded /\ OneStart)'
<1>0. ~raced
  BY DEF MainNext, nvars, Begin, ReadPid, DoStatus, DoStart, DoStop, Stopped, Acting,
         WriteOpen, WritePid, EnterLoop, Die, Reuse
<1>a. MainTypeOK /\ OneStart /\ (\A p, q \in Living : p = q)
        /\ \A p \in Pids : Is(p, {"init", "loop", "ending"}) => file = p
  BY <1>0 DEF MainInv, OneDaemon, Recorded
<1> USE MainAssumption DEF OneDaemon, Recorded, OneStart, MainTypeOK, Living, Is, Daemons
<1>1. ASSUME NEW s \in Shells, NEW c \in {"start", "stop", "status"}, Begin(s, c)
      PROVE  (OneDaemon /\ Recorded /\ OneStart)'
  BY <1>1, <1>a DEF Begin, At, Idle, Starting
<1>2. ASSUME NEW s \in Shells, ReadPid(s)
      PROVE  (OneDaemon /\ Recorded /\ OneStart)'
  BY <1>2, <1>a DEF ReadPid
<1>3. ASSUME NEW s \in Shells, DoStatus(s)
      PROVE  (OneDaemon /\ Recorded /\ OneStart)'
  BY <1>3, <1>a DEF DoStatus, Acting, Idle, At
<1>4. ASSUME NEW s \in Shells, DoStart(s)
      PROVE  (OneDaemon /\ Recorded /\ OneStart)'
  <2>1. \A t \in Shells : shell[t].command = "start" => t = s
    BY <1>4, <1>a DEF DoStart, Acting
  <2>2. \A t \in Shells : shell'[t].command # "start"
    BY <1>4, <1>a, <2>1 DEF DoStart, Acting, Idle, At
  <2>3. CASE Exists(shell[s].pid)
    BY <1>4, <1>a, <2>2, <2>3 DEF DoStart, Acting
  <2>4. CASE ~Exists(shell[s].pid)
    <3>1. PICK p \in Pids : process' = [process EXCEPT ![p] = "forked"]
      BY <1>4, <2>4 DEF DoStart
    <3>2. Living = {}
      BY <1>4, <1>a, <2>4 DEF DoStart, Acting, Exists
    <3> QED
      BY <1>4, <1>a, <2>2, <3>1, <3>2 DEF DoStart, Acting
  <2> QED
    BY <2>3, <2>4
<1>5. ASSUME NEW s \in Shells, DoStop(s)
      PROVE  (OneDaemon /\ Recorded /\ OneStart)'
  BY <1>5, <1>a DEF DoStop, Acting, Idle, At, Exists
<1>6. ASSUME NEW s \in Shells, Stopped(s)
      PROVE  (OneDaemon /\ Recorded /\ OneStart)'
  BY <1>6, <1>a DEF Stopped, Idle, At
<1>7. ASSUME NEW p \in Pids, WriteOpen(p) \/ WritePid(p)
      PROVE  (OneDaemon /\ Recorded /\ OneStart)'
  BY <1>7, <1>a DEF WriteOpen, WritePid, Becomes
<1>8. ASSUME NEW p \in Pids, EnterLoop(p) \/ Die(p) \/ Reuse(p)
      PROVE  (OneDaemon /\ Recorded /\ OneStart)'
  BY <1>8, <1>a DEF EnterLoop, Die, Reuse, Becomes
<1>9. CASE UNCHANGED nvars
  BY <1>9, <1>a DEF nvars
<1> QED
  BY <1>1, <1>2, <1>3, <1>4, <1>5, <1>6, <1>7, <1>8, <1>9 DEF MainNext

\* The inductive invariant (main.c:170-191, write_pid and read_pid).
THEOREM MainInductive == MainSpec => []MainInv
<1>1. MainInit => MainInv
  BY InitInv
<1>2. MainInv /\ [MainNext]_nvars => MainInv'
  BY MainTypeStep, StepInv DEF MainInv, OneDaemon, Recorded
<1> QED
  BY <1>1, <1>2, PTL DEF MainSpec

\* Starts that do not race make one daemon at most.
THEOREM OnlyOne == MainSpec => []OneDaemon
<1>1. MainInv => OneDaemon
  BY DEF MainInv
<1> QED
  BY <1>1, MainInductive, PTL

\* A daemon that wrote its pid can be found by it.
THEOREM CanBeStopped == MainSpec => []Recorded
<1>1. MainInv => Recorded
  BY DEF MainInv
<1> QED
  BY <1>1, MainInductive, PTL

\* Processes, file and shells stay what they are declared to be.
THEOREM MainTypes == MainSpec => []MainTypeOK
<1>1. MainInv => MainTypeOK
  BY DEF MainInv
<1> QED
  BY <1>1, MainInductive, PTL
=============================================================================
