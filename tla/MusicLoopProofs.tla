--------------------------- MODULE MusicLoopProofs ---------------------------
(***************************************************************************)
(* Theorems about MusicLoop, for any number of moves: the loop of the      *)
(* plugin and its player costs two orders for a user's action and one for  *)
(* anything else, what a user asks of a system at rest is what is, and the *)
(* two agree whenever they rest.                                           *)
(*                                                                         *)
(* The delay is what bounds the orders.  While it runs, what was under way *)
(* when it began comes in, and it cannot end before; so one delay answers  *)
(* everything that was under way, and the order at its end changes nothing *)
(* unless somebody moved meanwhile.                                        *)
(***************************************************************************)
EXTENDS MusicLoop, Integers, TLAPS

\* An order that the player will obey, and tell of.
Echoes(o) == player \notin {Null, o.value} /\ o.value # Null

AllOld(s) == \A j \in DOMAIN s : s[j].old

\* The delays that have still to end if nobody moves: the one that runs, and one for all
\* that crosses it; when none runs, one if the player will be heard of.
Pending ==
  IF waiting THEN IF AllOld(orders) /\ AllOld(news) THEN 1 ELSE 2
  ELSE IF news = <<>> /\ \A j \in DOMAIN orders : ~Echoes(orders[j]) THEN 0 ELSE 1

\* The last word of the player is what it is.
LastTold ==
  /\ news # <<>> => news[Len(news)].value = player
  /\ waiting /\ news = <<>> => next = player

\* Orders sent and to be sent.
FloodInv == TypeOK /\ LastTold /\ sent + Pending <= 2 * moves + 1

\* What was asked for is what the plugin holds, and all that is under way says it.
AskedInv ==
  expected # Null =>
    /\ music = expected /\ player # Null
    /\ waiting => next = expected
    /\ \A j \in DOMAIN orders : orders[j].value = expected
    /\ \A j \in DOMAIN news : news[j].value = expected
    /\ orders = <<>> => player = expected

\* The last order is what the plugin holds; and the plugin that nothing is going to change
\* holds what its player is.
AgreeInv ==
  /\ orders # <<>> => orders[Len(orders)].value = music
  /\ ~waiting /\ news = <<>> /\ player # Null =>
       music # Null /\ (orders = <<>> => music = player)

-----------------------------------------------------------------------------
(* Messages                                                                *)

\* The first message leaves, the others stay.
LEMMA TailOf ==
  ASSUME NEW s \in Seq(Message), s # <<>>
  PROVE  /\ Head(s) \in Message /\ Head(s) = s[1] /\ 1 \in DOMAIN s
         /\ Tail(s) \in Seq(Message) /\ Len(Tail(s)) = Len(s) - 1
         /\ DOMAIN s = 1 .. Len(s) /\ DOMAIN Tail(s) = 1 .. (Len(s) - 1)
         /\ \A j \in DOMAIN Tail(s) : j + 1 \in DOMAIN s /\ Tail(s)[j] = s[j + 1]
  OBVIOUS

\* A message comes after the others.
LEMMA AppendOf ==
  ASSUME NEW s \in Seq(Message), NEW m \in Message, NEW t, t = Append(s, m)
  PROVE  /\ t \in Seq(Message) /\ t # <<>>
         /\ Len(t) = Len(s) + 1 /\ t[Len(t)] = m
         /\ Len(t) \in DOMAIN t
         /\ \A j \in DOMAIN s : j \in DOMAIN t /\ t[j] = s[j]
         /\ \A j \in DOMAIN t : j = Len(t) \/ (j \in DOMAIN s /\ t[j] = s[j])
<1>1. t \in Seq(Message) /\ Len(t) = Len(s) + 1
  OBVIOUS
<1>2. DOMAIN s = 1 .. Len(s) /\ DOMAIN t = 1 .. Len(t) /\ Len(s) \in Nat
  BY <1>1
<1>3. t[Len(s) + 1] = m /\ \A j \in 1 .. Len(s) : t[j] = s[j]
  OBVIOUS
<1>4. t # <<>>
  BY <1>1, <1>2
<1>5. \A j \in 1 .. Len(s) : j \in 1 .. Len(t) /\ t[j] = s[j]
  BY <1>1, <1>2, <1>3
<1>6. \A j \in 1 .. Len(t) : j = Len(t) \/ j \in 1 .. Len(s)
  BY <1>1, <1>2
<1>7. Len(t) \in DOMAIN t /\ t[Len(t)] = m
  BY <1>1, <1>2, <1>3
<1>8. \A j \in DOMAIN s : j \in DOMAIN t /\ t[j] = s[j]
  BY <1>2, <1>5
<1>9. \A j \in DOMAIN t : j = Len(t) \/ (j \in DOMAIN s /\ t[j] = s[j])
  BY <1>2, <1>5, <1>6
<1> QED BY <1>1, <1>4, <1>7, <1>8, <1>9, Zenon

\* When a delay begins, messages become old and stay what they are.
LEMMA AgedOf ==
  ASSUME NEW s \in Seq(Message)
  PROVE  /\ Aged(s) \in Seq(Message) /\ Len(Aged(s)) = Len(s)
         /\ DOMAIN Aged(s) = DOMAIN s
         /\ Aged(s) = <<>> <=> s = <<>>
         /\ \A j \in DOMAIN s : Aged(s)[j].value = s[j].value /\ Aged(s)[j].old
<1> DEFINE a == Aged(s)
<1>1. DOMAIN s = 1 .. Len(s) /\ Len(s) \in Nat /\ \A j \in 1 .. Len(s) : s[j] \in Message
  OBVIOUS
<1>2. /\ a = [j \in 1 .. Len(s) |-> [s[j] EXCEPT !.old = TRUE]]
      /\ \A j \in 1 .. Len(s) : [s[j] EXCEPT !.old = TRUE] \in Message
  BY <1>1 DEF Aged, Message
<1>3. a \in Seq(Message) /\ Len(a) = Len(s) /\ DOMAIN a = 1 .. Len(s)
  BY <1>1, <1>2
<1>4. \A j \in DOMAIN s : a[j].value = s[j].value /\ a[j].old
  BY <1>1, <1>2 DEF Message
<1>5. a = <<>> <=> s = <<>>
  BY <1>1, <1>3
<1> QED BY <1>1, <1>3, <1>4, <1>5

LEMMA NewType ==
  ASSUME NEW v \in States \cup {Null}
  PROVE  New(v) \in Message /\ New(v).value = v /\ ~New(v).old
  BY DEF New, Message

-----------------------------------------------------------------------------
(* Types                                                                   *)

LEMMA MusicInit == Init => TypeOK /\ LastTold /\ sent + Pending <= 2 * moves + 1 /\ AskedInv
<1> SUFFICES ASSUME Init
             PROVE  TypeOK /\ LastTold /\ sent + Pending <= 2 * moves + 1 /\ AskedInv
  OBVIOUS
<1>1. New(player) \in Message /\ New(player).value = player
  BY NewType DEF Init
<1>2. /\ news = <<New(player)>> /\ news \in Seq(Message) /\ Len(news) = 1 /\ news[1] = New(player)
      /\ orders = <<>> /\ orders \in Seq(Message)
  BY <1>1 DEF Init
<1>3. TypeOK
  <2>1. 0 \in 0 .. MaxMoves /\ Stop \in States
    BY MusicAssumption DEF MusicAssumption, States
  <2> QED BY <1>2, <2>1 DEF Init, TypeOK
<1>4. LastTold
  BY <1>1, <1>2 DEF Init, LastTold
<1>5. Pending \in {0, 1} /\ sent = 0 /\ moves = 0
  BY DEF Init, Pending
<1> QED BY <1>3, <1>4, <1>5 DEF Init, AskedInv

\* Every step keeps the types.
LEMMA MusicTypeStep == TypeOK /\ [Next]_mvars => TypeOK'
<1> SUFFICES ASSUME TypeOK, [Next]_mvars PROVE TypeOK'
  OBVIOUS
<1> USE DEF TypeOK
<1>0. /\ \A s \in Seq(Message) : s # <<>> => Head(s) \in Message /\ Tail(s) \in Seq(Message)
      /\ \A s \in Seq(Message), m \in Message : Append(s, m) \in Seq(Message)
      /\ \A s \in Seq(Message) : Aged(s) \in Seq(Message)
      /\ \A v \in States \cup {Null} : New(v) \in Message
  BY AgedOf, NewType
<1>1. \A e \in States \cup {Null} : Move(e) => moves' \in 0 .. MaxMoves /\ expected' \in States \cup {Null}
  BY MusicAssumption DEF Move, MusicAssumption
<1>2. ASSUME NEW v \in States, Press(v) PROVE TypeOK'
  BY <1>0, <1>1, <1>2 DEF Press, SetAttribute
<1>3. ASSUME StateSwitch PROVE TypeOK'
  <2>1. Play \in States /\ Pause \in States
    BY DEF States
  <2> QED BY <1>2, <1>3, <2>1 DEF StateSwitch
<1>4. ASSUME OtherClient \/ Leave \/ Return PROVE TypeOK'
  BY <1>0, <1>1, <1>4 DEF OtherClient, Leave, Return
<1>5. ASSUME HandleNews PROVE TypeOK'
  <2>1. Head(news).value \in States \cup {Null}
    BY <1>0, <1>5 DEF HandleNews, Message
  <2> QED BY <1>0, <1>5, <2>1 DEF HandleNews, SetState
<1>6. ASSUME Expire PROVE TypeOK'
  <2>1. /\ music' = next /\ orders' = Append(orders, New(next)) /\ sent' = sent + 1
        /\ waiting' = FALSE /\ next' = Null /\ UNCHANGED <<player, news, expected, moves>>
    BY <1>6 DEF Expire, SetAttribute
  <2>2. next \in States \cup {Null} /\ orders \in Seq(Message) /\ sent \in Nat
    OBVIOUS
  <2>3. orders' \in Seq(Message) /\ sent' \in Nat
    BY <1>0, <2>1, <2>2
  <2> QED BY <2>1, <2>2, <2>3
<1>7. ASSUME Obey PROVE TypeOK'
  <2>1. Head(orders) \in Message /\ orders' \in Seq(Message)
    BY <1>0, <1>7 DEF Obey
  <2> QED BY <1>0, <1>7, <2>1 DEF Obey, Message
<1>8. CASE UNCHANGED mvars
  BY <1>8 DEF mvars
<1> QED BY <1>2, <1>3, <1>4, <1>5, <1>6, <1>7, <1>8 DEF Next, System

-----------------------------------------------------------------------------
(* No flood                                                                *)

LEMMA Budget ==
  ASSUME NEW s \in Int, NEW p \in Int, NEW m \in Int,
         NEW t \in Int, NEW q \in Int, NEW n \in Int, NEW d \in Int,
         s + p <= 2 * m + 1, q <= p + d, t + d + m + m <= s + n + n
  PROVE  t + q <= 2 * n + 1
<1>1. 2 * m = m + m /\ 2 * n = n + n
  OBVIOUS
<1>2. s + p <= m + m + 1
  BY <1>1
<1>3. t + q <= n + n + 1
  BY <1>2
<1> QED BY <1>1, <1>3

\* A step that does not move costs no order that was not pending; a user's costs two, and
\* anyone else's one.
LEMMA FloodStep == FloodInv /\ [Next]_mvars => FloodInv'
<1> SUFFICES ASSUME FloodInv, [Next]_mvars
             PROVE  LastTold' /\ (sent + Pending <= 2 * moves + 1)'
  BY MusicTypeStep DEF FloodInv
<1> DEFINE Kept == LastTold' /\ (sent + Pending <= 2 * moves + 1)'
<1>1. /\ TypeOK /\ LastTold /\ sent + Pending <= 2 * moves + 1 /\ TypeOK'
      /\ orders \in Seq(Message) /\ news \in Seq(Message)
      /\ sent \in Nat /\ moves \in Nat
      /\ music \in States \cup {Null} /\ next \in States \cup {Null}
      /\ player \in States \cup {Null} /\ waiting \in BOOLEAN
  BY MusicTypeStep DEF FloodInv, TypeOK
<1>a. ASSUME LastTold', NEW d \in Int, Pending' <= Pending + d, sent' + d + moves + moves <= sent + moves' + moves',
             sent' \in Nat, moves' \in Nat
      PROVE  Kept
  <2>1. Pending \in Int /\ Pending' \in Int
    BY DEF Pending
  <2>2. sent \in Int /\ moves \in Int /\ sent' \in Int /\ moves' \in Int
    BY <1>1, <1>a
  <2>3. sent' + Pending' <= 2 * moves' + 1
    BY <1>1, <1>a, <2>1, <2>2, Budget
  <2> QED BY <1>a, <2>3
<1>2. Pending \in 0 .. 2 /\ Pending' \in 0 .. 2
  BY DEF Pending
<1>3. /\ waiting => Pending \in {1, 2}
      /\ ~waiting' => Pending' \in {0, 1}
      /\ ~waiting => Pending \in {0, 1}
  BY DEF Pending
<1>4. ASSUME NEW v \in States, Press(v) PROVE Kept
  <2>1. sent' = sent + 1 /\ moves' = moves + 1 /\ UNCHANGED <<waiting, next, player, news>>
    BY <1>4 DEF Press, SetAttribute, Move
  <2>2. LastTold'
    BY <1>1, <2>1 DEF LastTold
  <2>3. Pending' <= Pending + 1
    BY <1>2, <1>3, <2>1
  <2> QED BY <1>a, <1>1, <2>1, <2>2, <2>3
<1>5. ASSUME StateSwitch PROVE Kept
  <2>1. Play \in States /\ Pause \in States
    BY DEF States
  <2> QED BY <1>4, <1>5, <2>1 DEF StateSwitch
<1>6. ASSUME OtherClient \/ Leave \/ Return PROVE Kept
  <2>1. /\ sent' = sent /\ moves' = moves + 1 /\ UNCHANGED <<waiting, next>>
        /\ \E v \in States \cup {Null} : player' = v /\ news' = Append(news, New(v))
    BY <1>6 DEF OtherClient, Leave, Return, Move
  <2>2. PICK v \in States \cup {Null} : player' = v /\ news' = Append(news, New(v))
    BY <2>1
  <2>3. news' # <<>> /\ news'[Len(news')].value = player'
    BY <1>1, <2>2, NewType, AppendOf
  <2>4. LastTold'
    BY <2>3 DEF LastTold
  <2>5. Pending' <= Pending + 1
    BY <1>2, <1>3, <2>1
  <2> QED BY <1>a, <1>1, <2>1, <2>4, <2>5
<1>7. ASSUME HandleNews PROVE Kept
  <2>1. /\ news # <<>> /\ waiting' /\ next' = Head(news).value /\ player' = player
        /\ orders' = Aged(orders) /\ news' = Aged(Tail(news))
        /\ sent' = sent /\ moves' = moves
    BY <1>7 DEF HandleNews, SetState
  <2>2. AllOld(orders') /\ AllOld(news')
    BY <1>1, <2>1, AgedOf, TailOf DEF AllOld
  <2>3. Pending' = 1 /\ Pending >= 1 /\ Pending' <= Pending + 0
    BY <2>1, <2>2 DEF Pending, AllOld
  <2>4. LastTold'
    <3>1. CASE Tail(news) = <<>>
      <4>0. Len(<<>>) = 0
        OBVIOUS
      <4>1. Len(Tail(news)) = 0
        BY <3>1, <4>0, Zenon
      <4>2. Len(news) = 1
        BY <1>1, <2>1, <4>1, TailOf
      <4> QED BY <1>1, <2>1, <3>1, <4>2, TailOf, AgedOf DEF LastTold
    <3>2. CASE Tail(news) # <<>>
      <4> DEFINE n == Len(news) - 1
      <4>0. /\ Tail(news) \in Seq(Message) /\ Len(Tail(news)) = n /\ n \in Nat /\ n # 0
            /\ DOMAIN Tail(news) = 1 .. n
        BY <1>1, <2>1, <3>2, TailOf
      <4>a. n \in DOMAIN Tail(news) /\ Len(news) \in Nat /\ n + 1 = Len(news)
        BY <1>1, <4>0
      <4>b. Len(news') = n /\ news'[n].value = Tail(news)[n].value
        BY <2>1, <4>0, <4>a, AgedOf
      <4>c. Tail(news)[n] = news[n + 1]
        BY <1>1, <2>1, <4>a, TailOf
      <4>1. news'[Len(news')].value = news[Len(news)].value
        BY <4>a, <4>b, <4>c
      <4>2. news' # <<>>
        BY <1>1, <2>1, <3>2, TailOf, AgedOf
      <4> QED BY <1>1, <2>1, <4>1, <4>2 DEF LastTold
    <3> QED BY <3>1, <3>2
  <2> QED BY <1>1, <1>2, <2>1, <2>3, <2>4
<1>8. ASSUME Expire PROVE Kept
  <2>1. /\ waiting /\ ~waiting' /\ NoOld(orders) /\ NoOld(news) /\ UNCHANGED <<player, news>>
        /\ orders' = Append(orders, New(next)) /\ sent' = sent + 1 /\ moves' = moves
    BY <1>8 DEF Expire, SetAttribute
  <2>2. LastTold'
    BY <1>1, <2>1 DEF LastTold
  <2>3. Pending' <= Pending + (-1)
    <3>1. CASE orders = <<>> /\ news = <<>>
      <4>1. next = player
        BY <1>1, <2>1, <3>1 DEF LastTold
      <4>2. \A j \in DOMAIN orders' : orders'[j].value = player
        BY <1>1, <2>1, <3>1, <4>1, AppendOf, NewType
      <4>3. Pending' = 0
        BY <2>1, <3>1, <4>2 DEF Pending, Echoes
      <4> QED BY <1>3, <2>1, <4>3
    <3>2. CASE orders # <<>> \/ news # <<>>
      <4>1. ~AllOld(orders) \/ ~AllOld(news)
        BY <1>1, <2>1, <3>2, TailOf DEF AllOld, NoOld
      <4>2. Pending = 2
        BY <2>1, <4>1 DEF Pending
      <4> QED BY <1>3, <2>1, <4>2
    <3> QED BY <3>1, <3>2
  <2> QED BY <1>a, <1>1, <2>1, <2>2, <2>3
<1>9. ASSUME Obey PROVE Kept
  <2> DEFINE o == Head(orders)
  <2>1. /\ orders # <<>> /\ orders' = Tail(orders) /\ o \in Message
        /\ UNCHANGED <<waiting, next, sent, moves>>
    BY <1>1, <1>9, TailOf DEF Obey
  <2>2. CASE Echoes(o)
    <3>1. player' = o.value /\ news' = Append(news, o)
      BY <1>9, <2>2 DEF Obey, Echoes
    <3>2. /\ news' # <<>> /\ news'[Len(news')].value = player'
          /\ \A j \in DOMAIN news' : news'[j] = o \/ (j \in DOMAIN news /\ news'[j] = news[j])
      BY <1>1, <2>1, <3>1, AppendOf
    <3>3. LastTold'
      BY <3>2 DEF LastTold
    <3>4. AllOld(orders) /\ AllOld(news) => AllOld(orders') /\ AllOld(news')
      BY <1>1, <2>1, <3>2, TailOf DEF AllOld
    <3>5. ~waiting => Pending = 1
      BY <1>1, <2>1, <2>2, TailOf DEF Pending
    <3>6. Pending' <= Pending + 0
      BY <1>2, <1>3, <2>1, <3>4, <3>5 DEF Pending
    <3> QED BY <1>a, <1>1, <2>1, <3>3, <3>6
  <2>3. CASE ~Echoes(o)
    <3>1. UNCHANGED <<player, news>>
      BY <1>9, <2>3 DEF Obey, Echoes
    <3>2. LastTold'
      BY <1>1, <2>1, <3>1 DEF LastTold
    <3>3. \A j \in DOMAIN orders' : \E k \in DOMAIN orders : orders'[j] = orders[k]
      BY <1>1, <2>1, TailOf
    <3>4. Pending' <= Pending + 0
      BY <1>2, <2>1, <3>1, <3>3 DEF Pending, AllOld, Echoes
    <3> QED BY <1>a, <1>1, <2>1, <3>2, <3>4
  <2> QED BY <2>2, <2>3
<1>10. CASE UNCHANGED mvars
  BY <1>1, <1>10 DEF mvars, LastTold, Pending, AllOld, Echoes
<1> QED BY <1>4, <1>5, <1>6, <1>7, <1>8, <1>9, <1>10 DEF Next, System

-----------------------------------------------------------------------------
(* What is asked for                                                       *)

\* As long as nobody else moves, all that travels round the loop is what was asked for.
LEMMA AskedStep == TypeOK /\ AskedInv /\ [Next]_mvars => AskedInv'
<1> SUFFICES ASSUME TypeOK, AskedInv, [Next]_mvars PROVE AskedInv'
  OBVIOUS
<1>1. /\ orders \in Seq(Message) /\ news \in Seq(Message)
      /\ music \in States \cup {Null} /\ next \in States \cup {Null}
      /\ player \in States \cup {Null} /\ waiting \in BOOLEAN
      /\ expected \in States \cup {Null}
  BY DEF TypeOK
<1>2. ASSUME expected' = Null PROVE AskedInv'
  BY <1>2 DEF AskedInv
<1>3. ASSUME NEW v \in States, Press(v) PROVE AskedInv'
  <2>1. /\ expected' = (IF Rest /\ player # Null THEN v ELSE Null)
        /\ music' = v /\ orders' = Append(orders, New(v))
        /\ UNCHANGED <<waiting, next, player, news>>
    BY <1>3 DEF Press, SetAttribute, Move
  <2>2. CASE Rest /\ player # Null
    <3>1. ~waiting /\ orders = <<>> /\ news = <<>>
      BY <2>2 DEF Rest
    <3>2. orders' # <<>> /\ \A j \in DOMAIN orders' : orders'[j].value = v
      BY <1>1, <2>1, <3>1, AppendOf, NewType
    <3> QED BY <2>1, <2>2, <3>1, <3>2 DEF AskedInv
  <2>3. CASE ~(Rest /\ player # Null)
    BY <1>2, <2>1, <2>3
  <2> QED BY <2>2, <2>3
<1>4. ASSUME StateSwitch PROVE AskedInv'
  <2>1. Play \in States /\ Pause \in States
    BY DEF States
  <2> QED BY <1>3, <1>4, <2>1 DEF StateSwitch
<1>5. ASSUME OtherClient \/ Leave \/ Return PROVE AskedInv'
  BY <1>2, <1>5 DEF OtherClient, Leave, Return, Move
<1>6. ASSUME HandleNews PROVE AskedInv'
  <2>1. /\ news # <<>> /\ next' = Head(news).value /\ waiting'
        /\ orders' = Aged(orders) /\ news' = Aged(Tail(news))
        /\ UNCHANGED <<music, player, expected>>
    BY <1>6 DEF HandleNews, SetState
  <2>2. SUFFICES ASSUME expected # Null PROVE AskedInv'
    BY <1>2, <2>1
  <2>3. next' = expected /\ \A j \in DOMAIN news' : news'[j].value = expected
    <3>1. next' = expected
      BY <1>1, <2>1, <2>2, TailOf DEF AskedInv
    <3>2. \A j \in DOMAIN Tail(news) : Tail(news)[j].value = expected
      BY <1>1, <2>1, <2>2, TailOf DEF AskedInv
    <3>3. Tail(news) \in Seq(Message)
      BY <1>1, <2>1, TailOf
    <3> QED BY <2>1, <3>1, <3>2, <3>3, AgedOf
  <2>4. /\ \A j \in DOMAIN orders' : orders'[j].value = expected
        /\ orders' = <<>> => orders = <<>>
    BY <1>1, <2>1, <2>2, AgedOf DEF AskedInv
  <2> QED BY <2>1, <2>2, <2>3, <2>4 DEF AskedInv
<1>7. ASSUME Expire PROVE AskedInv'
  <2>1. /\ waiting /\ ~waiting' /\ music' = next /\ orders' = Append(orders, New(next))
        /\ UNCHANGED <<player, news, expected>>
    BY <1>7 DEF Expire, SetAttribute
  <2>2. SUFFICES ASSUME expected # Null PROVE AskedInv'
    BY <1>2, <2>1
  <2>3. next = expected
    BY <2>1, <2>2 DEF AskedInv
  <2>4. orders' # <<>> /\ \A j \in DOMAIN orders' : orders'[j].value = expected
    BY <1>1, <2>1, <2>2, <2>3, AppendOf, NewType DEF AskedInv
  <2> QED BY <2>1, <2>2, <2>3, <2>4 DEF AskedInv
<1>8. ASSUME Obey PROVE AskedInv'
  <2>1. /\ orders # <<>> /\ orders' = Tail(orders) /\ Head(orders) \in Message
        /\ UNCHANGED <<music, waiting, next, expected>>
    BY <1>1, <1>8, TailOf DEF Obey
  <2>2. SUFFICES ASSUME expected # Null PROVE AskedInv'
    BY <1>2, <2>1
  <2>3. Head(orders).value = expected /\ \A j \in DOMAIN orders' : orders'[j].value = expected
    BY <1>1, <2>1, <2>2, TailOf DEF AskedInv
  <2>4. player' = expected /\ \A j \in DOMAIN news' : news'[j].value = expected
    <3>1. CASE player # expected
      <4>1. player' = expected /\ news' = Append(news, Head(orders))
        BY <1>8, <2>2, <2>3, <3>1 DEF Obey, AskedInv
      <4> QED BY <1>1, <2>1, <2>2, <2>3, <4>1, AppendOf DEF AskedInv
    <3>2. CASE player = expected
      <4>1. UNCHANGED <<player, news>>
        BY <1>8, <2>3, <3>2 DEF Obey
      <4> QED BY <2>2, <3>2, <4>1 DEF AskedInv
    <3> QED BY <3>1, <3>2
  <2> QED BY <2>1, <2>2, <2>3, <2>4 DEF AskedInv
<1>9. CASE UNCHANGED mvars
  BY <1>9 DEF mvars, AskedInv
<1> QED BY <1>3, <1>4, <1>5, <1>6, <1>7, <1>8, <1>9 DEF Next, System

-----------------------------------------------------------------------------
(* Agreement at rest                                                       *)

\* The last message stays the last, until it is the only one.
LEMMA LastOf ==
  ASSUME NEW s \in Seq(Message), s # <<>>
  PROVE  /\ Tail(s) # <<>> => Tail(s)[Len(Tail(s))] = s[Len(s)]
         /\ Tail(s) = <<>> => Head(s) = s[Len(s)]
         /\ Aged(s) # <<>> /\ Aged(s)[Len(Aged(s))].value = s[Len(s)].value
<1>1. /\ Tail(s) \in Seq(Message) /\ Len(Tail(s)) = Len(s) - 1 /\ Head(s) = s[1]
      /\ 1 \in DOMAIN s /\ DOMAIN s = 1 .. Len(s) /\ Len(s) \in Nat
      /\ \A j \in DOMAIN Tail(s) : Tail(s)[j] = s[j + 1]
  BY TailOf
<1>2. ASSUME Tail(s) # <<>> PROVE Tail(s)[Len(Tail(s))] = s[Len(s)]
  <2>1. Len(Tail(s)) \in DOMAIN Tail(s)
    <3>1. 1 \in DOMAIN Tail(s) /\ DOMAIN Tail(s) = 1 .. Len(Tail(s))
      BY <1>1, <1>2, TailOf
    <3> QED BY <3>1
  <2>2. Tail(s)[Len(Tail(s))] = s[Len(Tail(s)) + 1]
    BY <1>1, <2>1
  <2>3. Len(Tail(s)) + 1 = Len(s)
    BY <1>1
  <2> QED BY <2>2, <2>3
<1>3. ASSUME Tail(s) = <<>> PROVE Head(s) = s[Len(s)]
  <2>1. Len(<<>>) = 0
    OBVIOUS
  <2>2. Len(Tail(s)) = 0
    BY <1>3, <2>1, Zenon
  <2>3. Len(s) = 1
    BY <2>2, TailOf
  <2> QED BY <1>1, <2>3
<1>4. Aged(s) # <<>> /\ Aged(s)[Len(Aged(s))].value = s[Len(s)].value
  <2>1. Len(s) \in DOMAIN s
    BY <1>1
  <2> QED BY <2>1, AgedOf
<1> QED BY <1>2, <1>3, <1>4

\* A value that goes round leaves its word somewhere until the two agree.
LEMMA AgreeStep == FloodInv /\ AgreeInv /\ [Next]_mvars => AgreeInv'
<1> SUFFICES ASSUME FloodInv, AgreeInv, [Next]_mvars PROVE AgreeInv'
  OBVIOUS
<1>1. /\ orders \in Seq(Message) /\ news \in Seq(Message)
      /\ music \in States \cup {Null} /\ next \in States \cup {Null}
      /\ player \in States \cup {Null} /\ waiting \in BOOLEAN
      /\ waiting /\ news = <<>> => next = player
      /\ Null \notin States
  BY MusicAssumption DEF FloodInv, LastTold, TypeOK, MusicAssumption
<1>2. ASSUME NEW v \in States, Press(v) PROVE AgreeInv'
  <2>1. /\ music' = v /\ orders' = Append(orders, New(v))
        /\ UNCHANGED <<waiting, player, news>>
    BY <1>2 DEF Press, SetAttribute
  <2>2. orders' # <<>> /\ orders'[Len(orders')].value = v /\ v # Null
    BY <1>1, <2>1, AppendOf, NewType
  <2> QED BY <2>1, <2>2 DEF AgreeInv
<1>3. ASSUME StateSwitch PROVE AgreeInv'
  <2>1. Play \in States /\ Pause \in States
    BY DEF States
  <2> QED BY <1>2, <1>3, <2>1 DEF StateSwitch
<1>4. ASSUME OtherClient \/ Leave \/ Return PROVE AgreeInv'
  <2>1. /\ UNCHANGED <<music, orders>>
        /\ \E v \in States \cup {Null} : news' = Append(news, New(v))
    BY <1>4 DEF OtherClient, Leave, Return
  <2>2. news' # <<>>
    BY <1>1, <2>1, NewType, AppendOf
  <2> QED BY <2>1, <2>2 DEF AgreeInv
<1>5. ASSUME HandleNews PROVE AgreeInv'
  <2>1. waiting' /\ orders' = Aged(orders) /\ music' = music
    BY <1>5 DEF HandleNews, SetState
  <2>2. orders' # <<>> => orders # <<>> /\ orders'[Len(orders')].value = orders[Len(orders)].value
    BY <1>1, <2>1, AgedOf, LastOf
  <2> QED BY <2>1, <2>2 DEF AgreeInv
<1>6. ASSUME Expire PROVE AgreeInv'
  <2>1. /\ waiting /\ music' = next /\ orders' = Append(orders, New(next))
        /\ UNCHANGED <<player, news>>
    BY <1>6 DEF Expire, SetAttribute
  <2>2. orders' # <<>> /\ orders'[Len(orders')].value = next
    BY <1>1, <2>1, AppendOf, NewType
  <2> QED BY <1>1, <2>1, <2>2 DEF AgreeInv
<1>7. ASSUME Obey PROVE AgreeInv'
  <2> DEFINE o == Head(orders)
  <2>1. /\ orders # <<>> /\ orders' = Tail(orders) /\ o \in Message
        /\ UNCHANGED <<music, waiting, next>>
    BY <1>1, <1>7, TailOf DEF Obey
  <2>2. /\ orders' # <<>> => orders'[Len(orders')].value = music
        /\ orders' = <<>> => o.value = music
    BY <1>1, <2>1, LastOf DEF AgreeInv
  <2>3. CASE Echoes(o)
    <3>1. news' = Append(news, o)
      BY <1>7, <2>3 DEF Obey, Echoes
    <3>2. news' # <<>>
      BY <1>1, <2>1, <3>1, AppendOf
    <3> QED BY <2>1, <2>2, <3>2 DEF AgreeInv
  <2>4. CASE ~Echoes(o)
    <3>1. UNCHANGED <<player, news>>
      BY <1>7, <2>4 DEF Obey, Echoes
    <3>2. ASSUME ~waiting, news = <<>>, player # Null
          PROVE  music # Null /\ (orders' = <<>> => music = player)
      <4>1. music # Null
        BY <3>2 DEF AgreeInv
      <4>2. o.value \in {player, Null}
        BY <2>4, <3>2 DEF Echoes
      <4> QED BY <2>2, <4>1, <4>2
    <3> QED BY <2>1, <2>2, <3>1, <3>2 DEF AgreeInv
  <2> QED BY <2>3, <2>4
<1>8. CASE UNCHANGED mvars
  BY <1>8 DEF mvars, AgreeInv
<1> QED BY <1>2, <1>3, <1>4, <1>5, <1>6, <1>7, <1>8 DEF Next, System

-----------------------------------------------------------------------------
(* The theorems                                                            *)

\* The inductive invariant: what is pending, and what is under way.
THEOREM MusicInductive == Spec => [](FloodInv /\ AskedInv)
<1>1. Init => FloodInv /\ AskedInv
  BY MusicInit DEF FloodInv
<1>2. FloodInv /\ AskedInv /\ [Next]_mvars => FloodInv' /\ AskedInv'
  BY FloodStep, AskedStep DEF FloodInv
<1> QED BY <1>1, <1>2, PTL DEF Spec

\* Plugin, player and messages stay what they are declared to be.
THEOREM MusicTypes == Spec => []TypeOK
<1>1. FloodInv => TypeOK
  BY DEF FloodInv
<1> QED BY <1>1, MusicInductive, PTL

\* The delay of the plugin keeps the loop from flooding (music.js:40 and 51): whatever
\* users, other clients and the player do, and however messages cross the delay, a move
\* costs two orders at most.
THEOREM LoopDoesNotFlood == Spec => []NoFlood
<1>1. FloodInv => NoFlood
  <2> SUFFICES ASSUME FloodInv PROVE NoFlood
    OBVIOUS
  <2>1. Pending \in {0, 1, 2} /\ sent \in Int /\ moves \in Int /\ sent + Pending <= 2 * moves + 1
    BY DEF FloodInv, TypeOK, Pending
  <2>2. \A p \in {0, 1, 2}, n, b \in Int : n + p <= b => n <= b
    OBVIOUS
  <2>3. 2 * moves + 1 \in Int
    BY <2>1
  <2> QED BY <2>1, <2>2, <2>3 DEF NoFlood
<1> QED BY <1>1, MusicInductive, PTL

\* What a user asks for at rest is what plugin and player are when they rest again.
THEOREM AskedIsObeyed == Spec => []AskedIsDone
<1>1. AskedInv => AskedIsDone
  BY DEF AskedInv, AskedIsDone, Rest
<1> QED BY <1>1, MusicInductive, PTL

\* Whatever crossed on the way, plugin and player agree when nothing is under way.
THEOREM RestIsAgreement == Spec => []AgreeAtRest
<1>1. Init => AgreeInv
  <2>1. Init => news # <<>> /\ orders = <<>>
    BY DEF Init
  <2> QED BY <2>1 DEF AgreeInv
<1>2. FloodInv /\ AgreeInv /\ [Next]_mvars => AgreeInv'
  BY AgreeStep
<1>3. Spec => []FloodInv
  BY MusicInductive, PTL
<1>4. AgreeInv => AgreeAtRest
  BY DEF AgreeInv, AgreeAtRest, Rest
<1> QED BY <1>1, <1>2, <1>3, <1>4, PTL DEF Spec
-----------------------------------------------------------------------------
(* The loop dies out                                                       *)

\* What is left to do if nobody moves: an order still to be sent is sent, arrives and may
\* be answered, by three steps; one that was sent takes two, and a nick takes one.
LeftToDo == 3 * (2 * moves + 1 - sent) + 2 * Len(orders) + Len(news)

LEMMA Weights ==
  ASSUME NEW m \in Nat, NEW s \in Nat, NEW o \in Nat, NEW n \in Nat,
         NEW t \in Nat, NEW p \in Nat, NEW q \in Nat,
         t <= 2 * m + 1,
         \/ t = s /\ p + p + q + 1 <= o + o + n
         \/ t = s + 1 /\ p + p + q <= o + o + n + 2
  PROVE  /\ 3 * (2 * m + 1 - t) + 2 * p + q \in Nat
         /\ 3 * (2 * m + 1 - t) + 2 * p + q < 3 * (2 * m + 1 - s) + 2 * o + n
<1> DEFINE a == 2 * m + 1
<1>1. a \in Nat /\ a - t \in Nat /\ a - s \in Int
  OBVIOUS
<1>2. (a - t) + t = (a - s) + s
  BY <1>1
<1> HIDE DEF a
<1>3. /\ 3 * (a - t) = (a - t) + (a - t) + (a - t) /\ 3 * (a - s) = (a - s) + (a - s) + (a - s)
      /\ 2 * p = p + p /\ 2 * o = o + o
  BY <1>1
<1>4. 3 * (a - t) + 2 * p + q \in Nat
  BY <1>1, <1>3
<1>5. 3 * (a - t) + 2 * p + q < 3 * (a - s) + 2 * o + n
  BY <1>1, <1>2, <1>3
<1> QED BY <1>4, <1>5 DEF a

\* The system's own steps: a delay that ends sends an order; an order that arrives may be
\* answered; news that arrive are gone.
LEMMA SystemSteps ==
  ASSUME TypeOK, TypeOK', NoFlood', System
  PROVE  LeftToDo' \in Nat /\ LeftToDo' < LeftToDo
<1>1. /\ orders \in Seq(Message) /\ news \in Seq(Message) /\ sent \in Nat /\ moves \in Nat
      /\ orders' \in Seq(Message) /\ news' \in Seq(Message) /\ sent' \in Nat
      /\ next \in States \cup {Null}
  BY DEF TypeOK
<1>2. /\ Len(orders) \in Nat /\ Len(news) \in Nat /\ Len(orders') \in Nat /\ Len(news') \in Nat
  BY <1>1
<1>3. moves' = moves /\ sent' <= 2 * moves + 1
  BY DEF System, HandleNews, Expire, Obey, NoFlood
<1>4. CASE HandleNews
  <2>1. /\ news # <<>> /\ orders' = Aged(orders) /\ news' = Aged(Tail(news)) /\ sent' = sent
    BY <1>4 DEF HandleNews, SetState
  <2>2. Len(orders') = Len(orders) /\ Len(news') = Len(news) - 1
    BY <1>1, <2>1, AgedOf, TailOf
  <2>3. Len(orders') + Len(orders') + Len(news') + 1 <= Len(orders) + Len(orders) + Len(news)
    BY ONLY <1>2, <2>2
  <2> QED BY ONLY <1>1, <1>2, <1>3, <2>1, <2>3, Weights DEF LeftToDo
<1>5. CASE Expire
  <2>1. orders' = Append(orders, New(next)) /\ news' = news /\ sent' = sent + 1
    BY <1>5 DEF Expire, SetAttribute
  <2>2. Len(orders') = Len(orders) + 1
    BY <1>1, <2>1, NewType, AppendOf
  <2>3. Len(orders') + Len(orders') + Len(news') <= Len(orders) + Len(orders) + Len(news) + 2
    BY <1>2, <2>1, <2>2
  <2> QED BY ONLY <1>1, <1>2, <1>3, <2>1, <2>3, Weights DEF LeftToDo
<1>6. CASE Obey
  <2>1. /\ orders # <<>> /\ orders' = Tail(orders) /\ sent' = sent
        /\ news' = news \/ news' = Append(news, Head(orders))
    BY <1>6 DEF Obey
  <2>2. Len(orders') = Len(orders) - 1 /\ Head(orders) \in Message
    BY <1>1, <2>1, TailOf
  <2>3. Len(news') <= Len(news) + 1
    <3>1. CASE news' = news
      BY <1>2, <3>1
    <3>2. CASE news' = Append(news, Head(orders))
      <4>1. Len(news') = Len(news) + 1
        BY <1>1, <2>2, <3>2, AppendOf
      <4> QED BY <1>2, <4>1
    <3> QED BY <2>1, <3>1, <3>2
  <2>4. Len(orders') + Len(orders') + Len(news') + 1 <= Len(orders) + Len(orders) + Len(news)
    BY ONLY <1>2, <2>2, <2>3
  <2> QED BY ONLY <1>1, <1>2, <1>3, <2>1, <2>4, Weights DEF LeftToDo
<1> QED BY <1>4, <1>5, <1>6 DEF System

\* While nobody moves each step leaves less to do, so that the loop cannot run for ever
\* (music.js:40, "pour éviter les boucles/flood"): after the last move there are no more
\* steps than LeftToDo says, and RestIsAgreement says what is then.
THEOREM LoopRunsDry == Spec => [][moves' = moves => LeftToDo' \in Nat /\ LeftToDo' < LeftToDo]_mvars
<1>1. /\ TypeOK /\ TypeOK' /\ NoFlood' /\ [Next]_mvars =>
           [moves' = moves => LeftToDo' \in Nat /\ LeftToDo' < LeftToDo]_mvars
  <2> SUFFICES ASSUME TypeOK, TypeOK', NoFlood', Next, moves' = moves
               PROVE  LeftToDo' \in Nat /\ LeftToDo' < LeftToDo
    BY DEF mvars
  <2>1. moves' # moves + 1
    BY DEF TypeOK
  <2>2. System
    BY <2>1 DEF Next, Press, StateSwitch, OtherClient, Leave, Return, Move
  <2> QED BY <2>2, SystemSteps
<1> QED BY <1>1, MusicTypes, LoopDoesNotFlood, PTL DEF Spec
=============================================================================
