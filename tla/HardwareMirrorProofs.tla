------------------------- MODULE HardwareMirrorProofs -------------------------
(***************************************************************************)
(* Theorems about HardwareMirror, for all sets of hardware and values and  *)
(* any number of moves: the inductive invariant, and that a core off line  *)
(* believes nothing, that it keeps listening, and that it shows no ghosts. *)
(***************************************************************************)
EXTENDS HardwareMirror, FiniteSetTheorems, TLAPS

(***************************************************************************)
(* Messages and the inbox.                                                 *)
(***************************************************************************)

\* The messages that the server may send.
LEMMA MessageTypes ==
  /\ \A t \in {"join", "nick"}, h \in Hardware, v \in Values :
       [type |-> t, id |-> h, value |-> v] \in Messages
  /\ \A t \in {"quit", "kick"}, h \in Hardware : [type |-> t, id |-> h] \in Messages
  /\ \A f \in [Hardware -> Maybe] : [type |-> "names", nicks |-> f] \in Messages
  /\ \A t \in {"registered", "closed"} : [type |-> t] \in Messages
  BY DEF Messages

\* What the fields of a message hold, by its type.
LEMMA MessageFields ==
  ASSUME NEW m \in Messages
  PROVE  /\ m.type \in ChannelTypes \cup {"registered", "closed"}
         /\ m.type \in {"join", "nick"} => m.id \in Hardware /\ m.value \in Values
         /\ m.type \in {"quit", "kick"} => m.id \in Hardware
         /\ m.type = "names" => m.nicks \in [Hardware -> Maybe]
  BY DEF Messages, ChannelTypes

\* The value a message leaves is one the mirror can hold.
LEMMA LeftType ==
  ASSUME NEW m \in Messages, NEW h \in Hardware
  PROVE  Left(m, h) \in Maybe
  BY MessageFields DEF Left, Maybe

\* A message at the end of the inbox that says something of h has the last word.
LEMMA AppendTells ==
  ASSUME NEW h \in Hardware, NEW m \in Messages, inbox \in Seq(Messages),
         inbox' = Append(inbox, m), Tells(m, h)
  PROVE  /\ Told(h)' # {}
         /\ \A i \in Told(h)' : (\A j \in Told(h)' : j <= i) => inbox'[i] = m
<1>1. Len(inbox) + 1 \in Told(h)'
  BY DEF Told
<1>2. \A i \in Told(h)' : i <= Len(inbox) + 1 /\ i \in Nat
  BY DEF Told
<1>3. inbox'[Len(inbox) + 1] = m
  OBVIOUS
<1> QED BY <1>1, <1>2, <1>3

\* Any other message changes nothing of what is said of h.
LEMMA AppendSilent ==
  ASSUME NEW h \in Hardware, NEW m \in Messages, inbox \in Seq(Messages),
         inbox' = Append(inbox, m), ~Tells(m, h)
  PROVE  /\ Told(h)' = Told(h)
         /\ \A i \in Told(h) : inbox'[i] = inbox[i]
  BY DEF Told

\* Handling the oldest message moves the others one place.
LEMMA TailTold ==
  ASSUME NEW h \in Hardware, inbox \in Seq(Messages), inbox # <<>>,
         inbox' = Tail(inbox)
  PROVE  /\ Told(h)' = {i - 1 : i \in Told(h) \ {1}}
         /\ \A i \in Told(h) \ {1} : i > 1 /\ i \in Nat /\ inbox'[i - 1] = inbox[i]
<1>1. /\ Len(inbox') = Len(inbox) - 1
      /\ \A i \in 1 .. Len(inbox') : inbox'[i] = inbox[i + 1]
      /\ inbox' \in Seq(Messages)
  OBVIOUS
<1>2. \A i \in Told(h) \ {1} : i > 1 /\ i \in Nat /\ inbox'[i - 1] = inbox[i]
  BY <1>1 DEF Told
<1>3. Told(h)' \subseteq {i - 1 : i \in Told(h) \ {1}}
  <2> SUFFICES ASSUME NEW k \in Told(h)' PROVE k + 1 \in Told(h) \ {1} /\ k = (k + 1) - 1
    OBVIOUS
  <2> QED BY <1>1 DEF Told
<1>4. {i - 1 : i \in Told(h) \ {1}} \subseteq Told(h)'
  BY <1>1, <1>2 DEF Told
<1> QED BY <1>2, <1>3, <1>4

\* So what will stand after a handler is what stood before it.
LEMMA TailStands ==
  ASSUME NEW h \in Hardware, inbox \in Seq(Messages), inbox # <<>>,
         inbox' = Tail(inbox), UNCHANGED <<joined, comp, nick>>,
         \A i \in Told(h) : (\A j \in Told(h) : j <= i) => Stands(h, Left(inbox[i], h))
  PROVE  \A i \in Told(h)' :
           (\A j \in Told(h)' : j <= i) => Stands(h, Left(inbox[i], h))'
<1> SUFFICES ASSUME NEW k \in Told(h)', \A j \in Told(h)' : j <= k
             PROVE  Stands(h, Left(inbox[k], h))'
  OBVIOUS
<1>1. PICK i \in Told(h) \ {1} : k = i - 1
  BY TailTold
<1>2. i \in Nat /\ i > 1 /\ inbox'[k] = inbox[i]
  BY <1>1, TailTold
<1>3. \A j \in Told(h) : j <= i
  <2> SUFFICES ASSUME NEW j \in Told(h), j # 1 PROVE j <= i
    BY <1>2
  <2>1. j - 1 \in Told(h)' /\ j \in Nat
    BY TailTold
  <2> QED BY <2>1, <1>1, <1>2
<1>4. Stands(h, Left(inbox[i], h))
  BY <1>3
<1> QED BY <1>2, <1>4 DEF Stands, Here, Left

(***************************************************************************)
(* The users: publish and unpublish.                                       *)
(***************************************************************************)

\* The count of the channel when an object comes or goes.
LEMMA Counting ==
  ASSUME TypeOK, Counted, NEW h \in Hardware
  PROVE  /\ channels \in Nat
         /\ objects = {} <=> channels = 0
         /\ h \notin objects => /\ channels + 1 = Cardinality(objects \cup {h})
                                /\ channels + 1 \in 0 .. Cardinality(Hardware)
         /\ h \in objects => /\ channels > 0
                             /\ channels - 1 = Cardinality(objects \ {h})
                             /\ channels - 1 \in 0 .. Cardinality(Hardware)
                             /\ channels = 1 <=> objects \ {h} = {}
<1>1. IsFiniteSet(objects) /\ IsFiniteSet(Hardware)
  BY FS_Subset, MirrorAssumption DEF TypeOK
<1>2. Cardinality(objects) \in Nat /\ Cardinality(Hardware) \in Nat
  BY <1>1, FS_CardinalityType
<1>3. objects = {} <=> channels = 0
  BY <1>1, FS_EmptySet DEF Counted
<1>4. ASSUME h \notin objects
      PROVE  /\ channels + 1 = Cardinality(objects \cup {h})
             /\ channels + 1 \in 0 .. Cardinality(Hardware)
  <2>1. Cardinality(objects \cup {h}) = Cardinality(objects) + 1
    BY <1>1, <1>4, FS_AddElement
  <2>2. Cardinality(objects \cup {h}) <= Cardinality(Hardware)
    BY <1>1, FS_Subset DEF TypeOK
  <2> QED BY <1>2, <2>1, <2>2 DEF Counted
<1>5. ASSUME h \in objects
      PROVE  /\ channels > 0
             /\ channels - 1 = Cardinality(objects \ {h})
             /\ channels - 1 \in 0 .. Cardinality(Hardware)
             /\ channels = 1 <=> objects \ {h} = {}
  <2>1. Cardinality(objects \ {h}) = Cardinality(objects) - 1
    BY <1>1, <1>5, FS_RemoveElement
  <2>2. IsFiniteSet(objects \ {h})
    BY <1>1, FS_Subset
  <2>3. Cardinality(objects \ {h}) \in Nat /\ (Cardinality(objects \ {h}) = 0 <=> objects \ {h} = {})
    BY <2>2, FS_EmptySet, FS_CardinalityType
  <2> QED BY <1>2, <2>1, <2>3 DEF Counted, TypeOK
<1> QED BY <1>2, <1>3, <1>4, <1>5 DEF Counted

\* An object more: the watcher is made, or goes on as it was.
LEMMA PublishStep ==
  ASSUME MirrorInv, NEW h \in Hardware, Publish(h)
  PROVE  MirrorInv'
<1> USE DEF MirrorInv
<1>1. /\ channels' = channels + 1
      /\ channels' \in 0 .. Cardinality(Hardware)
      /\ objects' = objects \cup {h}
      /\ channels' = Cardinality(objects')
      /\ moves' \in 0 .. MaxMoves
  <2>1. /\ channels' = channels + 1
        /\ h \notin objects
        /\ objects' = objects \cup {h}
    BY DEF Publish, AddChannel
  <2>2. moves' \in 0 .. MaxMoves
    BY MirrorAssumption DEF Publish, Move, TypeOK
  <2> QED BY <2>1, <2>2, Counting
<1>2. /\ asked' = asked
      /\ UNCHANGED <<online, mirror, joined, inbox, comp, nick>>
      /\ watcher' = TRUE
      /\ conn' = IF watcher THEN conn ELSE "out"
  <2>1. channels = 0 => ~online
    BY Counting DEF Counted, InOrder, TypeOK
  <2> QED BY <2>1 DEF Publish, AddChannel, LoadWatcher, hosts, TypeOK
<1>3. TypeOK'
  BY <1>1, <1>2 DEF TypeOK
<1>4. InOrder' /\ Counted' /\ Known' /\ Named'
  BY <1>1, <1>2 DEF InOrder, Counted, Known, Named, Closing, TypeOK
<1>5. DarkWhenOffline' /\ Listening'
  BY <1>1, <1>2, Counting DEF DarkWhenOffline, Listening, Closing, Dark, Counted, InOrder
<1>6. TrueAtLast'
  BY <1>2 DEF TrueAtLast, Told, Stands, Here
<1> QED BY <1>3, <1>4, <1>5, <1>6

\* An object less: the others keep the watcher on the channel, the last one
\* takes it away with all it believed.
LEMMA UnpublishStep ==
  ASSUME MirrorInv, NEW h \in Hardware, Unpublish(h)
  PROVE  MirrorInv'
<1> USE DEF MirrorInv
<1>1. /\ channels' = channels - 1
      /\ channels' \in 0 .. Cardinality(Hardware)
      /\ channels' = Cardinality(objects')
      /\ objects' = objects \ {h}
      /\ mirror' = [mirror EXCEPT ![h] = Null]
      /\ moves' \in 0 .. MaxMoves
      /\ UNCHANGED <<comp, nick>>
  <2>1. /\ h \in objects
        /\ objects' = objects \ {h}
        /\ mirror' = [mirror EXCEPT ![h] = Null]
        /\ channels' = UsersLeft
        /\ UNCHANGED <<comp, nick>>
    BY DEF Unpublish, hosts
  <2>2. channels' = channels - 1
    <3>1. channels \in Nat /\ channels > 0
      BY <2>1, Counting
    <3> QED BY <2>1, <3>1 DEF UsersLeft
  <2>3. moves' \in 0 .. MaxMoves
    BY MirrorAssumption DEF Unpublish, Move, TypeOK
  <2> QED BY <2>1, <2>2, <2>3, Counting
<1>2. mirror' \in [Hardware -> Maybe] /\ (mirror = Dark => mirror' = Dark)
  BY <1>1 DEF TypeOK, Maybe, Dark
<1>3. CASE objects' # {}
  <2>1. UNCHANGED <<watcher, online, conn, inbox, asked, joined>>
    <3>1. h \in objects /\ objects \ {h} # {}
      BY <1>1, <1>3 DEF Unpublish
    <3>2. channels > 1
      <4>1. channels \in Nat /\ channels > 0
        BY <3>1, Counting
      <4>2. channels # 1
        BY <3>1, Counting
      <4> QED BY <4>1, <4>2
    <3>3. asked' = asked /\ joined' = joined
      BY <1>3, <3>2 DEF Unpublish, Parts, TypeOK
    <3> QED BY <1>3, <3>3 DEF Unpublish
  <2>2. TypeOK'
    BY <1>1, <1>2, <2>1 DEF TypeOK
  <2>3. InOrder' /\ Counted' /\ Known' /\ Named'
    BY <1>1, <1>3, <2>1 DEF InOrder, Counted, Known, Named, Closing, TypeOK
  <2>4. DarkWhenOffline' /\ Listening'
    BY <1>1, <1>2, <2>1 DEF DarkWhenOffline, Listening, Closing, Dark
  <2>5. TrueAtLast'
    BY <1>1, <2>1 DEF TrueAtLast, Told, Stands, Here, TypeOK
  <2> QED BY <2>2, <2>3, <2>4, <2>5
<1>4. CASE objects' = {}
  <2>1. /\ watcher' = FALSE /\ online' = FALSE /\ conn' = "none"
        /\ asked' = FALSE /\ joined' = FALSE /\ inbox' = <<>>
    BY <1>4 DEF Unpublish
  <2>2. TypeOK'
    <3>1. inbox' \in Seq(Messages)
      BY <2>1
    <3> QED BY <1>1, <1>2, <2>1, <3>1 DEF TypeOK
  <2>3. mirror' = Dark
    BY <1>1, <1>2, <1>4 DEF Known, Dark, TypeOK
  <2>4. InOrder' /\ Counted' /\ Known' /\ Named'
    BY <1>1, <1>4, <2>1, <2>3 DEF InOrder, Counted, Known, Named, Closing, Dark
  <2>5. DarkWhenOffline' /\ Listening'
    BY <1>4, <2>1, <2>3 DEF DarkWhenOffline, Listening, Dark
  <2>6. TrueAtLast'
    BY <2>1, <2>3 DEF TrueAtLast, Told, Stands, Dark
  <2> QED BY <2>2, <2>4, <2>5, <2>6
<1> QED BY <1>3, <1>4

(***************************************************************************)
(* The server and the network.                                             *)
(***************************************************************************)

\* What stands for a component goes on standing when nothing is said of it.
LEMMA KeptStands ==
  ASSUME NEW h \in Hardware, TrueAtLast, mirror'[h] = mirror[h],
         Told(h)' = Told(h), \A i \in Told(h) : inbox'[i] = inbox[i],
         joined /\ Here(h) => joined' /\ comp'[h] = comp[h] /\ nick'[h] = nick[h]
  PROVE  /\ (Told(h) = {} => Stands(h, mirror[h]))'
         /\ \A i \in Told(h)' : (\A j \in Told(h)' : j <= i)
              => Stands(h, Left(inbox[i], h))'
<1>1. ASSUME NEW v, Stands(h, v)
      PROVE  v # Null => joined' /\ Here(h)' /\ nick'[h] = v
  BY <1>1 DEF Stands, Here
<1>2. (Told(h) = {} => Stands(h, mirror[h]))'
  <2> SUFFICES ASSUME Told(h) = {} PROVE Stands(h, mirror[h])'
    OBVIOUS
  <2>1. Stands(h, mirror[h])
    BY DEF TrueAtLast
  <2> QED BY <1>1, <2>1 DEF Stands
<1>3. ASSUME NEW i \in Told(h)', \A j \in Told(h)' : j <= i
      PROVE  Stands(h, Left(inbox[i], h))'
  <2>1. Stands(h, Left(inbox[i], h))
    BY <1>3 DEF TrueAtLast
  <2>2. inbox'[i] = inbox[i]
    OBVIOUS
  <2>3. Left(inbox'[i], h) = Left(inbox[i], h)
    BY <2>2
  <2>4. Left(inbox[i], h) # Null => joined' /\ Here(h)' /\ nick'[h] = Left(inbox[i], h)
    BY <1>1, <2>1
  <2> QED BY <2>3, <2>4 DEF Stands
<1> QED BY <1>2, <1>3

\* A message that says nothing leaves what stands as it was.
LEMMA SilentStands ==
  ASSUME NEW m \in Messages, inbox \in Seq(Messages), inbox' = Append(inbox, m),
         \A h \in Hardware : ~Tells(m, h),
         UNCHANGED <<mirror, joined, comp, nick>>, TrueAtLast
  PROVE  TrueAtLast'
<1>1. ASSUME NEW h \in Hardware
      PROVE  /\ (Told(h) = {} => Stands(h, mirror[h]))'
             /\ \A i \in Told(h)' : (\A j \in Told(h)' : j <= i)
                  => Stands(h, Left(inbox[i], h))'
  BY AppendSilent, KeptStands
<1> QED BY <1>1 DEF TrueAtLast

\* A new connection starts with an empty inbox and a watcher that is off line.
LEMMA RegisterStep ==
  ASSUME MirrorInv, Register
  PROVE  MirrorInv'
<1> USE DEF MirrorInv
<1> DEFINE m == [type |-> "registered"]
<1>1. /\ inbox = <<>> /\ ~online /\ ~asked /\ ~joined
      /\ inbox' = Append(inbox, m) /\ conn' = "in"
      /\ UNCHANGED <<coreSide, asked, joined, hosts, moves>>
  BY DEF Register, InOrder
<1>2. m \in Messages
  BY MessageTypes
<1>3. inbox' \in Seq(Messages) /\ inbox' = <<m>> /\ Len(inbox') = 1 /\ ~Closing'
  BY <1>1, <1>2 DEF Closing
<1>4. TypeOK'
  BY <1>1, <1>3 DEF TypeOK, coreSide, hosts
<1>5. InOrder' /\ Counted' /\ Known' /\ Named'
  <2>1. InOrder'
    BY <1>1, <1>3 DEF InOrder, coreSide, ChannelTypes
  <2>2. conn # "none"
    BY DEF Register
  <2> QED BY <1>1, <1>3, <2>1, <2>2 DEF Counted, Known, Named, coreSide, hosts
<1>6. DarkWhenOffline' /\ Listening'
  BY <1>1 DEF DarkWhenOffline, Listening, coreSide
<1>7. TrueAtLast'
  BY <1>1, <1>2, SilentStands DEF Tells, TypeOK, coreSide, hosts
<1> QED BY <1>4, <1>5, <1>6, <1>7

\* A lost connection leaves its end as the last word on every component.
LEMMA DropStep ==
  ASSUME MirrorInv, Drop
  PROVE  MirrorInv'
<1> USE DEF MirrorInv
<1> DEFINE m == [type |-> "closed"]
<1>1. PICK n \in 0 .. Len(inbox) : inbox' = Append(SubSeq(inbox, 1, n), m)
  BY DEF Drop
<1>2. /\ conn = "in" /\ conn' = "out" /\ asked' = FALSE /\ joined' = FALSE
      /\ UNCHANGED <<objects, channels, watcher, online, mirror, comp, nick>>
  BY DEF Drop, coreSide, hosts
<1>3. m \in Messages
  BY MessageTypes
<1>4. /\ SubSeq(inbox, 1, n) \in Seq(Messages)
      /\ Len(SubSeq(inbox, 1, n)) = n
      /\ \A i \in 1 .. n : SubSeq(inbox, 1, n)[i] = inbox[i]
  BY DEF TypeOK
<1>5. /\ inbox' \in Seq(Messages)
      /\ Len(inbox') = n + 1
      /\ \A i \in 1 .. n : inbox'[i] = inbox[i] /\ i \in DOMAIN inbox
      /\ inbox'[n + 1] = m
  BY <1>1, <1>3, <1>4 DEF TypeOK
<1>6. TypeOK'
  <2>1. moves' \in 0 .. MaxMoves
    BY MirrorAssumption DEF Drop, Move, TypeOK
  <2> QED BY <1>2, <1>5, <2>1 DEF TypeOK
<1>7. Closing' /\ ~Closing
  <2>1. n + 1 \in DOMAIN inbox' /\ inbox'[n + 1].type = "closed"
    BY <1>5 DEF TypeOK
  <2> QED BY <1>2, <2>1 DEF Closing, InOrder
<1>8. InOrder'
  <2> SUFFICES ASSUME NEW i \in DOMAIN inbox'
               PROVE  /\ inbox'[i].type = "closed" => i = Len(inbox')
                      /\ inbox'[i].type = "registered" => ~online' /\ i = 1
                      /\ inbox'[i].type \in ChannelTypes => online'
    BY <1>2, <1>7 DEF InOrder
  <2>1. CASE i = n + 1
    BY <1>5, <2>1 DEF ChannelTypes
  <2>2. CASE i # n + 1
    <3>1. i \in 1 .. n
      BY <1>5, <2>2 DEF TypeOK
    <3> QED BY <1>2, <1>5, <1>7, <3>1 DEF InOrder, Closing
  <2> QED BY <2>1, <2>2
<1>9. Counted' /\ Known' /\ Named' /\ DarkWhenOffline' /\ Listening'
  BY <1>2 DEF Counted, Known, Named, DarkWhenOffline, Listening
<1>10. TrueAtLast'
  <2> SUFFICES ASSUME NEW h \in Hardware
               PROVE  /\ Told(h)' # {}
                      /\ \A i \in Told(h)' : (\A j \in Told(h)' : j <= i)
                           => Stands(h, Left(inbox[i], h))'
    BY DEF TrueAtLast
  <2>1. n + 1 \in Told(h)'
    BY <1>5 DEF Told, Tells, TypeOK
  <2>2. \A i \in Told(h)' : i <= n + 1 /\ i \in Nat
    BY <1>5 DEF Told, TypeOK
  <2>3. Left(m, h) = Null
    BY DEF Left
  <2>4. Stands(h, Left(inbox[n + 1], h))'
    BY <1>5, <2>3 DEF Stands, Left
  <2>5. \A i \in Told(h)' : (\A j \in Told(h)' : j <= i) => i = n + 1
    BY <2>1, <2>2
  <2> QED BY <2>1, <2>4, <2>5
<1> QED BY <1>6, <1>8, <1>9, <1>10

\* A message of the channel finds the watcher on line, its end not in sight.
LEMMA ChannelMessage ==
  ASSUME TypeOK, InOrder, joined, NEW m \in Messages, m.type \in ChannelTypes,
         inbox' = Append(inbox, m), UNCHANGED <<online, conn, asked, joined>>
  PROVE  InOrder' /\ ~Closing' /\ ~Closing /\ inbox' \in Seq(Messages)
<1>1. online /\ conn = "in" /\ asked /\ ~Closing
  BY DEF InOrder
<1>2. /\ inbox' \in Seq(Messages)
      /\ Len(inbox') = Len(inbox) + 1
      /\ \A i \in DOMAIN inbox : inbox'[i] = inbox[i]
      /\ inbox'[Len(inbox) + 1] = m
      /\ \A i \in DOMAIN inbox' : i = Len(inbox) + 1 \/ i \in DOMAIN inbox
  BY DEF TypeOK
<1>3. m.type # "closed" /\ m.type # "registered"
  BY DEF ChannelTypes
<1>4. \A i \in DOMAIN inbox : inbox[i].type # "closed" /\ inbox[i].type # "registered"
  BY <1>1 DEF Closing, InOrder
<1>5. \A i \in DOMAIN inbox' : inbox'[i].type # "closed" /\ inbox'[i].type # "registered"
  BY <1>2, <1>3, <1>4
<1> QED BY <1>1, <1>2, <1>5 DEF InOrder, Closing

\* The answer to JOIN gives every component's nick of the moment.
LEMMA ServerJoinStep ==
  ASSUME MirrorInv, ServerJoin
  PROVE  MirrorInv'
<1> USE DEF MirrorInv
<1> DEFINE nicks == [h \in Hardware |-> IF Here(h) THEN nick[h] ELSE Null]
           m == [type |-> "names", nicks |-> nicks]
<1>1. /\ asked /\ ~joined /\ joined' = TRUE /\ inbox' = Append(inbox, m)
      /\ UNCHANGED <<objects, channels, watcher, online, mirror, conn, asked, comp, nick, moves>>
  BY DEF ServerJoin, coreSide, hosts
<1>2. nicks \in [Hardware -> Maybe]
  BY DEF TypeOK, Maybe
<1>3. m \in Messages
  BY <1>2, MessageTypes
<1> HIDE DEF nicks
<1>4. online /\ conn = "in" /\ ~Closing
  BY <1>1 DEF InOrder
<1>5. /\ inbox' \in Seq(Messages)
      /\ Len(inbox') = Len(inbox) + 1
      /\ \A i \in DOMAIN inbox : inbox'[i] = inbox[i]
      /\ inbox'[Len(inbox) + 1] = m
      /\ \A i \in DOMAIN inbox' : i = Len(inbox) + 1 \/ i \in DOMAIN inbox
  BY <1>1, <1>3 DEF TypeOK
<1>6. \A i \in DOMAIN inbox : inbox[i].type # "closed" /\ inbox[i].type # "registered"
  BY <1>4 DEF Closing, InOrder
<1>7. \A i \in DOMAIN inbox' : inbox'[i].type # "closed" /\ inbox'[i].type # "registered"
  BY <1>5, <1>6
<1>8. TypeOK' /\ InOrder'
  BY <1>1, <1>4, <1>5, <1>7 DEF TypeOK, InOrder, Closing
<1>9. Counted' /\ Known' /\ Named' /\ DarkWhenOffline' /\ Listening'
  BY <1>1, <1>4, <1>7 DEF Counted, Known, Named, DarkWhenOffline, Listening, Closing
<1>10. TrueAtLast'
  <2> SUFFICES ASSUME NEW h \in Hardware
               PROVE  /\ (Told(h) = {} => Stands(h, mirror[h]))'
                      /\ \A i \in Told(h)' : (\A j \in Told(h)' : j <= i)
                           => Stands(h, Left(inbox[i], h))'
    BY DEF TrueAtLast
  <2>1. CASE Tells(m, h)
    <3>1. Left(m, h) = nicks[h]
      BY DEF Left
    <3>2. nicks[h] # Null => joined' /\ Here(h)' /\ nick'[h] = nicks[h]
      BY <1>1 DEF Here, nicks
    <3>3. Told(h)' # {} /\ \A i \in Told(h)' : (\A j \in Told(h)' : j <= i) => inbox'[i] = m
      BY <1>1, <1>3, <2>1, AppendTells DEF TypeOK
    <3>4. ASSUME NEW i \in Told(h)', inbox'[i] = m PROVE Stands(h, Left(inbox[i], h))'
      <4>1. Left(inbox'[i], h) = nicks[h]
        BY <3>1, <3>4
      <4> QED BY <3>2, <4>1 DEF Stands
    <3> QED BY <3>3, <3>4
  <2>2. CASE ~Tells(m, h)
    <3>1. Told(h)' = Told(h) /\ \A i \in Told(h) : inbox'[i] = inbox[i]
      BY <1>1, <1>3, <2>2, AppendSilent DEF TypeOK
    <3> QED BY <1>1, <3>1, KeptStands
  <2> QED BY <2>1, <2>2
<1> QED BY <1>8, <1>9, <1>10

(***************************************************************************)
(* The components.                                                         *)
(***************************************************************************)

\* A component of which the watcher is not told: none of its values stood.
LEMMA AwayStep ==
  ASSUME MirrorInv, NEW h \in Hardware, UNCHANGED <<coreSide, wire>>,
         comp' \in [Hardware -> {"off", "connecting", "here", "kicked"}],
         nick' \in [Hardware -> Maybe], moves' \in 0 .. MaxMoves,
         \A k \in Hardware \ {h} : comp'[k] = comp[k] /\ nick'[k] = nick[k],
         comp'[h] # "off" => nick'[h] \in Values,
         ~(joined /\ Here(h))
  PROVE  MirrorInv'
<1> USE DEF MirrorInv, coreSide, wire
<1>1. TypeOK'
  BY DEF TypeOK
<1>2. InOrder' /\ Counted' /\ Known' /\ Named' /\ DarkWhenOffline' /\ Listening'
  BY DEF InOrder, Counted, Known, Named, DarkWhenOffline, Listening, Closing
<1>3. \A k \in Hardware : \A v : Stands(k, v) => (v # Null => joined /\ comp'[k] = "here" /\ nick'[k] = v)
  BY DEF Stands, Here
<1>4. TrueAtLast'
  BY <1>3 DEF TrueAtLast, Told, Stands, Here
<1> QED BY <1>1, <1>2, <1>4

\* A component of which the watcher is told the state it takes.
LEMMA TellStep ==
  ASSUME MirrorInv, NEW h \in Hardware, NEW m \in Messages,
         m.type \in {"join", "nick", "quit", "kick"}, m.id = h, Tell(m),
         comp' \in [Hardware -> {"off", "connecting", "here", "kicked"}],
         nick' \in [Hardware -> Maybe], moves' \in 0 .. MaxMoves,
         \A k \in Hardware \ {h} : comp'[k] = comp[k] /\ nick'[k] = nick[k],
         comp'[h] # "off" => nick'[h] \in Values,
         Left(m, h) # Null => comp'[h] = "here" /\ nick'[h] = Left(m, h)
  PROVE  MirrorInv'
<1> USE DEF MirrorInv
<1>1. CASE ~joined
  BY <1>1, AwayStep DEF Tell, wire
<1>2. CASE joined
  <2>1. /\ inbox' = Append(inbox, m)
        /\ UNCHANGED <<objects, channels, watcher, online, mirror, conn, asked, joined>>
    BY <1>2 DEF Tell, coreSide
  <2>2. InOrder' /\ ~Closing' /\ ~Closing /\ inbox' \in Seq(Messages)
    BY <1>2, <2>1, ChannelMessage DEF ChannelTypes
  <2>3. TypeOK'
    BY <2>1, <2>2 DEF TypeOK
  <2>4. Counted' /\ Known' /\ Named' /\ DarkWhenOffline' /\ Listening'
    BY <2>1, <2>2 DEF Counted, Known, Named, DarkWhenOffline, Listening
  <2>5. TrueAtLast'
    <3> SUFFICES ASSUME NEW k \in Hardware
                 PROVE  /\ (Told(k) = {} => Stands(k, mirror[k]))'
                        /\ \A i \in Told(k)' : (\A j \in Told(k)' : j <= i)
                             => Stands(k, Left(inbox[i], k))'
      BY DEF TrueAtLast
    <3>1. CASE k = h
      <4>1. Tells(m, k)
        BY <3>1 DEF Tells
      <4>2. Told(k)' # {} /\ \A i \in Told(k)' : (\A j \in Told(k)' : j <= i) => inbox'[i] = m
        BY <2>1, <4>1, AppendTells DEF TypeOK
      <4>3. \A i \in Told(k)' : inbox'[i] = m => Stands(k, Left(inbox[i], k))'
        BY <1>2, <2>1, <3>1 DEF Stands, Here, Left
      <4> QED BY <4>2, <4>3
    <3>2. CASE k # h
      <4>1. ~Tells(m, k)
        BY <3>2 DEF Tells
      <4>2. Told(k)' = Told(k) /\ \A i \in Told(k) : inbox'[i] = inbox[i]
        BY <2>1, <4>1, AppendSilent DEF TypeOK
      <4> QED BY <2>1, <3>2, <4>2, KeptStands
    <3> QED BY <3>1, <3>2
  <2> QED BY <2>2, <2>3, <2>4, <2>5
<1> QED BY <1>1, <1>2

\* Every step of a component is one or the other.
LEMMA ComponentStep ==
  ASSUME MirrorInv, NEW h \in Hardware,
         Connect(h) \/ Join(h) \/ SetAttribute(h) \/ Quit(h) \/ Kick(h)
  PROVE  MirrorInv'
<1> USE DEF MirrorInv
<1>0. Move => moves' \in 0 .. MaxMoves
  BY MirrorAssumption DEF Move, TypeOK
<1>1. CASE Connect(h)
  <2>1. ~Here(h)
    BY <1>1 DEF Connect, Here
  <2> QED BY <1>0, <1>1, <2>1, AwayStep DEF Connect, TypeOK, Maybe
<1>2. CASE Join(h)
  <2> DEFINE m == [type |-> "join", id |-> h, value |-> nick[h]]
  <2>1. nick[h] \in Values /\ comp[h] = "connecting"
    BY <1>2 DEF Join, Named
  <2>2. m \in Messages /\ Left(m, h) = nick[h]
    BY <2>1, MessageTypes DEF Left
  <2>3. /\ comp' = [comp EXCEPT ![h] = "here"] /\ nick' = nick /\ moves' = moves /\ Tell(m)
    BY <1>2 DEF Join
  <2> QED BY <2>1, <2>2, <2>3, TellStep DEF TypeOK
<1>3. CASE SetAttribute(h)
  <2>1. PICK v \in Values :
          /\ nick' = [nick EXCEPT ![h] = v]
          /\ IF Here(h) THEN Tell([type |-> "nick", id |-> h, value |-> v])
                        ELSE UNCHANGED <<coreSide, wire>>
    BY <1>3 DEF SetAttribute
  <2> DEFINE m == [type |-> "nick", id |-> h, value |-> v]
  <2>2. m \in Messages /\ Left(m, h) = v
    BY MessageTypes DEF Left
  <2>3. comp' = comp /\ moves' \in 0 .. MaxMoves
    BY <1>0, <1>3 DEF SetAttribute
  <2>4. nick' \in [Hardware -> Maybe] /\ nick'[h] = v
    BY <2>1 DEF TypeOK, Maybe
  <2>5. CASE Here(h)
    BY <2>1, <2>2, <2>3, <2>4, <2>5, TellStep DEF TypeOK, Here
  <2>6. CASE ~Here(h)
    BY <2>1, <2>3, <2>4, <2>6, AwayStep DEF TypeOK
  <2> QED BY <2>5, <2>6
<1>4. CASE Quit(h)
  <2> DEFINE m == [type |-> "quit", id |-> h]
  <2>1. m \in Messages /\ Left(m, h) = Null
    BY MessageTypes DEF Left
  <2>2. /\ comp' = [comp EXCEPT ![h] = "off"] /\ nick' = [nick EXCEPT ![h] = Null]
        /\ moves' \in 0 .. MaxMoves
    BY <1>0, <1>4 DEF Quit
  <2>3. /\ nick' \in [Hardware -> Maybe] /\ comp'[h] = "off"
        /\ comp' \in [Hardware -> {"off", "connecting", "here", "kicked"}]
    BY <2>2 DEF TypeOK, Maybe
  <2>4. CASE Here(h)
    <3>1. Tell(m)
      BY <1>4, <2>4 DEF Quit
    <3> QED BY <2>1, <2>2, <2>3, <3>1, TellStep DEF TypeOK
  <2>5. CASE ~Here(h)
    <3>1. UNCHANGED <<coreSide, wire>>
      BY <1>4, <2>5 DEF Quit
    <3> QED BY <2>2, <2>3, <2>5, <3>1, AwayStep DEF TypeOK
  <2> QED BY <2>4, <2>5
<1>5. CASE Kick(h)
  <2> DEFINE m == [type |-> "kick", id |-> h]
  <2>1. m \in Messages /\ Left(m, h) = Null
    BY MessageTypes DEF Left
  <2>2. /\ comp' = [comp EXCEPT ![h] = "kicked"] /\ nick' = nick /\ Tell(m)
        /\ moves' \in 0 .. MaxMoves /\ nick[h] \in Values
    BY <1>0, <1>5 DEF Kick, Named, Here
  <2> QED BY <2>1, <2>2, TellStep DEF TypeOK
<1> QED BY <1>1, <1>2, <1>3, <1>4, <1>5

(***************************************************************************)
(* The watcher's handlers.                                                 *)
(***************************************************************************)

\* A handler that gives each object the value its message leaves, or none, keeps
\* what stands.
LEMMA HandledStands ==
  ASSUME TypeOK, TrueAtLast, inbox # <<>>, inbox' = Tail(inbox),
         UNCHANGED <<joined, comp, nick>>,
         \A h \in Hardware :
           \/ mirror'[h] = Null
           \/ Tells(inbox[1], h) /\ mirror'[h] = Left(inbox[1], h)
           \/ ~Tells(inbox[1], h) /\ mirror'[h] = mirror[h]
  PROVE  TrueAtLast'
<1> SUFFICES ASSUME NEW h \in Hardware
             PROVE  /\ (Told(h) = {} => Stands(h, mirror[h]))'
                    /\ \A i \in Told(h)' : (\A j \in Told(h)' : j <= i)
                         => Stands(h, Left(inbox[i], h))'
  BY DEF TrueAtLast
<1>1. \A i \in Told(h) : (\A j \in Told(h) : j <= i) => Stands(h, Left(inbox[i], h))
  BY DEF TrueAtLast
<1>2. \A i \in Told(h)' : (\A j \in Told(h)' : j <= i) => Stands(h, Left(inbox[i], h))'
  BY <1>1, TailStands DEF TypeOK
<1>3. ASSUME Told(h)' = {} PROVE Stands(h, mirror[h])'
  <2>1. Told(h) \subseteq {1}
    <3> SUFFICES ASSUME NEW i \in Told(h) \ {1} PROVE FALSE
      OBVIOUS
    <3>1. Told(h)' = {j - 1 : j \in Told(h) \ {1}}
      BY TailTold DEF TypeOK
    <3>2. i - 1 \in Told(h)'
      BY <3>1
    <3> QED BY <1>3, <3>2
  <2>2. ASSUME NEW v, Stands(h, v)
        PROVE  v # Null => joined' /\ Here(h)' /\ nick'[h] = v
    BY <2>2 DEF Stands, Here
  <2>3. CASE mirror'[h] = Null
    BY <2>3 DEF Stands
  <2>4. CASE Tells(inbox[1], h) /\ mirror'[h] = Left(inbox[1], h)
    <3>1. 1 \in DOMAIN inbox
      BY DEF TypeOK
    <3>2. 1 \in Told(h)
      BY <2>4, <3>1 DEF Told
    <3>3. Stands(h, Left(inbox[1], h))
      BY <1>1, <2>1, <3>2
    <3> QED BY <2>2, <2>4, <3>3 DEF Stands
  <2>5. CASE ~Tells(inbox[1], h) /\ mirror'[h] = mirror[h]
    <3>1. Told(h) = {}
      BY <2>1, <2>5 DEF Told
    <3>2. Stands(h, mirror[h])
      BY <3>1 DEF TrueAtLast
    <3> QED BY <2>2, <2>5, <3>2 DEF Stands
  <2> QED BY <2>3, <2>4, <2>5
<1> QED BY <1>2, <1>3

\* The message at the head, and those behind it.
LEMMA HandleFacts ==
  ASSUME MirrorInv, NEW types, Handle(types)
  PROVE  /\ inbox # <<>> /\ inbox[1] = Head(inbox) /\ inbox[1] \in Messages
         /\ inbox[1].type \in types
         /\ inbox' = Tail(inbox) /\ inbox' \in Seq(Messages)
         /\ Len(inbox') = Len(inbox) - 1 /\ Len(inbox) \in Nat /\ Len(inbox) >= 1
         /\ DOMAIN inbox' = 1 .. Len(inbox')
         /\ \A i \in DOMAIN inbox' : i + 1 \in DOMAIN inbox /\ inbox'[i] = inbox[i + 1]
         /\ \A i \in DOMAIN inbox : i # 1 => i - 1 \in DOMAIN inbox' /\ inbox'[i - 1] = inbox[i]
         /\ UNCHANGED <<objects, channels, watcher, conn, joined, comp, nick, moves>>
  BY DEF MirrorInv, TypeOK, Handle, hosts

\* A message of the channel is handled on line, and leaves the connection alone.
LEMMA ChannelHandled ==
  ASSUME MirrorInv, Handle(ChannelTypes), UNCHANGED <<online, asked>>,
         mirror' \in [Hardware -> Maybe], Known',
         \A h \in Hardware :
           \/ mirror'[h] = Null
           \/ Tells(inbox[1], h) /\ mirror'[h] = Left(inbox[1], h)
           \/ ~Tells(inbox[1], h) /\ mirror'[h] = mirror[h]
  PROVE  MirrorInv'
<1> USE DEF MirrorInv
<1>0. Handle(ChannelTypes) => inbox # <<>> /\ inbox[1].type \in ChannelTypes
  BY HandleFacts
<1>1. online /\ 1 \in DOMAIN inbox /\ inbox[1].type # "closed"
  BY <1>0 DEF InOrder, ChannelTypes, TypeOK
<1>2. Closing' <=> Closing
  <2>1. Closing' => Closing
    BY HandleFacts DEF Closing
  <2>2. ASSUME NEW i \in DOMAIN inbox, inbox[i].type = "closed" PROVE Closing'
    BY <1>1, <2>2, HandleFacts DEF Closing
  <2> QED BY <2>1, <2>2 DEF Closing
<1>3. TypeOK'
  BY HandleFacts DEF TypeOK
<1>4. InOrder'
  <2>1. ASSUME NEW i \in DOMAIN inbox'
        PROVE  /\ inbox'[i].type = "closed" => i = Len(inbox')
               /\ inbox'[i].type # "registered"
    BY <1>1, HandleFacts DEF InOrder
  <2> QED BY <1>1, <1>2, <2>1, HandleFacts DEF InOrder
<1>5. Counted' /\ Known' /\ Named' /\ DarkWhenOffline' /\ Listening'
  BY <1>1, <1>2, HandleFacts DEF Counted, Named, DarkWhenOffline, Listening
<1>6. TrueAtLast'
  BY HandleFacts, HandledStands
<1> QED BY <1>3, <1>4, <1>5, <1>6

\* A nick, or a departure, sets the values of the object it names.
LEMMA NickStep ==
  ASSUME MirrorInv, HandleNick \/ HandleOffline
  PROVE  MirrorInv'
<1> DEFINE m == inbox[1]
<1>1. PICK types \in {{"join", "nick"}, {"quit", "kick"}} :
        /\ Handle(types)
        /\ mirror' = SetAttributes(m.id, Left(m, m.id))
        /\ UNCHANGED <<online, asked>>
  <2>1. CASE HandleNick
    <3>1. Handle({"join", "nick"}) /\ UNCHANGED <<online, asked>>
      BY <2>1 DEF HandleNick
    <3>2. mirror' = SetAttributes(m.id, m.value) /\ m.type \in {"join", "nick"}
      BY <2>1, <3>1, HandleFacts DEF HandleNick
    <3> QED BY <3>1, <3>2 DEF Left
  <2>2. CASE HandleOffline
    <3>1. Handle({"quit", "kick"}) /\ UNCHANGED <<online, asked>>
      BY <2>2 DEF HandleOffline
    <3>2. mirror' = SetAttributes(m.id, Null) /\ m.type \in {"quit", "kick"}
      BY <2>2, <3>1, HandleFacts DEF HandleOffline
    <3> QED BY <3>1, <3>2 DEF Left
  <2> QED BY <2>1, <2>2
<1>2. m \in Messages /\ m.type \in {"join", "nick", "quit", "kick"}
  BY <1>1, HandleFacts
<1>3. m.id \in Hardware /\ Left(m, m.id) \in Maybe
  BY <1>2, MessageFields, LeftType
<1>4. Handle(ChannelTypes)
  BY <1>1, <1>2, HandleFacts DEF Handle, ChannelTypes
<1>5. mirror' \in [Hardware -> Maybe]
  BY <1>1, <1>3 DEF SetAttributes, MirrorInv, TypeOK
<1>6. Known'
  BY <1>1, <1>3, HandleFacts DEF SetAttributes, MirrorInv, TypeOK, Known
<1>7. ASSUME NEW h \in Hardware
      PROVE  \/ mirror'[h] = Null
             \/ Tells(m, h) /\ mirror'[h] = Left(m, h)
             \/ ~Tells(m, h) /\ mirror'[h] = mirror[h]
  <2>1. Tells(m, h) <=> m.id = h
    BY <1>2 DEF Tells
  <2>2. h \notin objects => mirror[h] = Null
    BY DEF MirrorInv, Known
  <2> QED BY <1>1, <1>3, <2>1, <2>2 DEF SetAttributes, MirrorInv, TypeOK
<1> QED BY <1>1, <1>4, <1>5, <1>6, <1>7, ChannelHandled

\* The list of nicks sets the values of the objects it can be read for.
LEMMA NamesStep ==
  ASSUME MirrorInv, HandleNames
  PROVE  MirrorInv'
<1> DEFINE m == inbox[1]
<1>1. Handle({"names"}) /\ UNCHANGED <<online, asked>>
  BY DEF HandleNames
<1>2. m \in Messages /\ m.type = "names" /\ m = Head(inbox)
  BY <1>1, HandleFacts
<1>3. m.nicks \in [Hardware -> Maybe]
  BY <1>2, MessageFields
<1>4. Handle(ChannelTypes)
  BY <1>1, <1>2 DEF Handle, ChannelTypes
<1>5. mirror' = IF NamesGivesArray
                  THEN [h \in Hardware |-> IF h \in objects /\ m.nicks[h] # Null
                                             THEN m.nicks[h] ELSE mirror[h]]
                  ELSE mirror
  BY <1>2 DEF HandleNames
<1>6. mirror' \in [Hardware -> Maybe]
  BY <1>3, <1>5 DEF MirrorInv, TypeOK
<1>7. Known'
  BY <1>1, <1>5, HandleFacts DEF MirrorInv, Known
<1>8. ASSUME NEW h \in Hardware
      PROVE  \/ mirror'[h] = Null
             \/ Tells(m, h) /\ mirror'[h] = Left(m, h)
             \/ ~Tells(m, h) /\ mirror'[h] = mirror[h]
  <2>1. Tells(m, h) <=> NamesGivesArray /\ m.nicks[h] # Null
    BY <1>2 DEF Tells
  <2>2. Left(m, h) = m.nicks[h]
    BY <1>2 DEF Left
  <2>3. h \notin objects => mirror[h] = Null
    BY DEF MirrorInv, Known
  <2> QED BY <1>5, <2>1, <2>2, <2>3
<1> QED BY <1>1, <1>4, <1>6, <1>7, <1>8, ChannelHandled

\* The watcher comes on line, joins, and cannot have come too late to know.
LEMMA RegisteredStep ==
  ASSUME MirrorInv, HandleRegistered
  PROVE  MirrorInv'
<1> USE DEF MirrorInv
<1>1. /\ Handle({"registered"}) /\ online' = TRUE /\ mirror' = mirror
      /\ asked' = (channels > 0 /\ conn = "in")
  BY DEF HandleRegistered
<1>2. 1 \in DOMAIN inbox /\ inbox[1].type = "registered" /\ ~online
  BY <1>1, HandleFacts DEF InOrder
<1>3. ~joined /\ mirror = Dark
  BY <1>2 DEF InOrder, DarkWhenOffline
<1>4. TypeOK'
  BY <1>1, HandleFacts DEF TypeOK
<1>5. Closing' <=> Closing
  <2>1. Closing' => Closing
    BY <1>1, HandleFacts DEF Closing
  <2>2. ASSUME NEW i \in DOMAIN inbox, inbox[i].type = "closed" PROVE Closing'
    BY <1>1, <1>2, <2>2, HandleFacts DEF Closing
  <2> QED BY <2>1, <2>2 DEF Closing
<1>6. InOrder'
  <2>1. ASSUME NEW i \in DOMAIN inbox'
        PROVE  /\ inbox'[i].type = "closed" => i = Len(inbox')
               /\ inbox'[i].type # "registered"
    BY <1>1, HandleFacts DEF InOrder
  <2>2. conn' # "in" => Closing'
    BY <1>1, <1>5, HandleFacts DEF InOrder
  <2> QED BY <1>1, <1>3, <1>5, <2>1, <2>2, HandleFacts DEF InOrder
<1>7. Counted' /\ Known' /\ Named' /\ DarkWhenOffline'
  BY <1>1, <1>5, HandleFacts DEF Counted, Known, Named, DarkWhenOffline
<1>8. Listening'
  <2>1. objects # {} => channels > 0
    <3>1. IsFiniteSet(objects)
      BY FS_Subset, MirrorAssumption DEF TypeOK
    <3>2. objects # {} => Cardinality(objects) # 0
      BY <3>1, FS_EmptySet
    <3>3. channels \in Nat
      BY <3>1, FS_CardinalityType DEF Counted
    <3> QED BY <3>2, <3>3 DEF Counted
  <2> QED BY <1>1, <2>1, HandleFacts DEF Listening
<1>9. TrueAtLast'
  <2>1. \A h \in Hardware : mirror'[h] = Null
    BY <1>1, <1>3 DEF Dark
  <2> QED BY <1>1, <2>1, HandleFacts, HandledStands
<1> QED BY <1>4, <1>6, <1>7, <1>8, <1>9

\* The end of a connection is the last thing it says: nothing is left to handle,
\* and nothing is believed.
LEMMA ClosedStep ==
  ASSUME MirrorInv, HandleClosed
  PROVE  MirrorInv'
<1> USE DEF MirrorInv
<1>1. /\ Handle({"closed"}) /\ online' = FALSE /\ asked' = asked
      /\ mirror' = IF online THEN Dark ELSE mirror
  BY DEF HandleClosed
<1>2. 1 \in DOMAIN inbox /\ inbox[1].type = "closed" /\ Len(inbox) = 1
  <2>1. /\ inbox[1].type \in {"closed"} /\ Len(inbox) \in Nat /\ Len(inbox) >= 1
        /\ inbox \in Seq(Messages)
    BY <1>1, HandleFacts DEF TypeOK
  <2>2. 1 \in DOMAIN inbox
    BY <2>1
  <2> QED BY <2>1, <2>2 DEF InOrder
<1>3. inbox' = <<>> /\ conn # "in" /\ ~asked /\ ~joined
  <2>1. Closing
    BY <1>2 DEF Closing
  <2> QED BY <1>1, <1>2, <2>1, HandleFacts DEF InOrder
<1>4. mirror' = Dark
  BY <1>1 DEF DarkWhenOffline
<1>5. TypeOK'
  BY <1>1, <1>4, HandleFacts DEF TypeOK, Dark, Maybe
<1>6. InOrder' /\ Counted' /\ Known' /\ Named' /\ DarkWhenOffline' /\ Listening'
  BY <1>1, <1>3, <1>4, HandleFacts
     DEF InOrder, Counted, Known, Named, DarkWhenOffline, Listening, Closing, Dark
<1>7. TrueAtLast'
  BY <1>3, <1>4 DEF TrueAtLast, Told, Stands, Dark
<1> QED BY <1>5, <1>6, <1>7

(***************************************************************************)
(* The theorems.                                                           *)
(***************************************************************************)

\* Nobody is connected, nothing is published.
LEMMA MirrorInit == Init => MirrorInv
<1> SUFFICES ASSUME Init PROVE MirrorInv
  OBVIOUS
<1>1. Cardinality({}) = 0 /\ 0 \in 0 .. Cardinality(Hardware) /\ 0 \in 0 .. MaxMoves
  BY FS_EmptySet, FS_CardinalityType, MirrorAssumption
<1>2. TypeOK
  <2>1. /\ inbox \in Seq(Messages)
        /\ mirror \in [Hardware -> Maybe] /\ nick \in [Hardware -> Maybe]
    BY DEF Init, Dark, Maybe
  <2> QED BY <1>1, <2>1 DEF Init, TypeOK
<1>3. InOrder /\ Counted /\ Known /\ Named /\ DarkWhenOffline /\ Listening
  BY <1>1 DEF Init, InOrder, Counted, Known, Named, DarkWhenOffline, Listening, Closing, Dark
<1>4. TrueAtLast
  BY DEF Init, TrueAtLast, Told, Stands, Dark
<1> QED BY <1>2, <1>3, <1>4 DEF MirrorInv

\* Each action keeps the inductive invariant.
LEMMA MirrorStep == MirrorInv /\ [Next]_mvars => MirrorInv'
<1> SUFFICES ASSUME MirrorInv, [Next]_mvars PROVE MirrorInv'
  OBVIOUS
<1>1. ASSUME NEW h \in Hardware, Publish(h) \/ Unpublish(h) PROVE MirrorInv'
  BY <1>1, PublishStep, UnpublishStep
<1>2. CASE Register \/ Drop \/ ServerJoin
  BY <1>2, RegisterStep, DropStep, ServerJoinStep
<1>3. ASSUME NEW h \in Hardware,
             Connect(h) \/ Join(h) \/ SetAttribute(h) \/ Quit(h) \/ Kick(h)
      PROVE  MirrorInv'
  BY <1>3, ComponentStep
<1>4. CASE Watcher
  BY <1>4, RegisteredStep, NickStep, NamesStep, ClosedStep DEF Watcher
<1>5. CASE UNCHANGED mvars
  BY <1>5 DEF mvars, coreSide, wire, hosts, MirrorInv, TypeOK, InOrder, Counted, Known, Named,
              DarkWhenOffline, Listening, Closing, TrueAtLast, Told, Stands, Here
<1> QED BY <1>1, <1>2, <1>3, <1>4, <1>5 DEF Next

\* The inductive invariant: the order of a connection's messages, the count of
\* the channel, and what each message left to handle says of each component.
THEOREM MirrorInductive == Spec => []MirrorInv
  BY MirrorInit, MirrorStep, PTL DEF Spec

\* A core off line believes nothing, whatever was lost or came late
\* (netobject.js, connectionClosed).
THEOREM OfflineIsDark == Spec => []DarkWhenOffline
<1>1. MirrorInv => DarkWhenOffline
  BY DEF MirrorInv
<1> QED BY <1>1, MirrorInductive, PTL

\* A registered watcher with hardware to mirror is on the channel or on its way,
\* through any order of publications and connections (netobject.js, addChannel,
\* removeChannel, 'registered').
THEOREM AlwaysListening == Spec => []Listening
<1>1. MirrorInv => Listening
  BY DEF MirrorInv
<1> QED BY <1>1, MirrorInductive, PTL

\* A watcher with nothing left to handle shows no ghosts: a value it shows is the
\* one in the nick of a component that is on the channel.
THEOREM NoGhosts == Spec => []CaughtUp
<1>1. MirrorInv => CaughtUp
  <2> SUFFICES ASSUME MirrorInv, inbox = <<>>, NEW h \in Hardware, mirror[h] # Null
               PROVE  Here(h) /\ mirror[h] = nick[h]
    BY DEF CaughtUp
  <2>1. Told(h) = {}
    BY DEF Told
  <2>2. Stands(h, mirror[h])
    BY <2>1 DEF MirrorInv, TrueAtLast
  <2> QED BY <2>2 DEF Stands
<1> QED BY <1>1, MirrorInductive, PTL

\* Every message on the connection is one of those the handlers know, the count of the
\* channel a number, and every value one that components have.
THEOREM MirrorTypes == Spec => []TypeOK
<1>1. MirrorInv => TypeOK
  BY DEF MirrorInv
<1> QED BY <1>1, MirrorInductive, PTL
=============================================================================
