---------------------------- MODULE NetBusProofs ----------------------------
(***************************************************************************)
(* Theorems about NetBus, for any links, any plugins and any number of     *)
(* events.  What is left to do is a stack; a link puts what it does on     *)
(* top of the event that runs it, so without a cycle the stack is ordered  *)
(* by rank: what is above an event is about plugins that come later than   *)
(* its source.  Nothing above it can then set the source again, which is   *)
(* why the last word of a link is the value of its source, and each rank   *)
(* leaves at most three frames, which is why the stack does not overflow.  *)
(***************************************************************************)
EXTENDS NetBus, Integers, FiniteSetTheorems, TLAPS

Ranks == [Plugins -> 1 .. Cardinality(Plugins)]

\* Links go up in rank.  Acyclic says that there is such a rank.
Ranked(r) ==
  \A j \in DOMAIN links :
    {links[j].source, links[j].destination} \subseteq Plugins =>
      r[links[j].source] < r[links[j].destination]

\* Nothing drives hardware: a link to it ends in an order.
Rank(r, c) == IF c \in Plugins THEN r[c] ELSE 0

\* An event that carries its value.
Carries(f) == f.do = "emit" /\ f.value # Current

\* What is above an event is about components of a higher rank.
Nested(s, r) ==
  \A i, k \in DOMAIN s :
    i < k /\ Carries(s[k]) /\ s[i].do # "announce" =>
      Rank(r, s[k].comp) < Rank(r, s[i].comp)

\* The place of a frame above the bottom of the stack.
Room(r, f) ==
  3 * Rank(r, f.comp) + (IF f.comp \in Hardware \/ f.do = "emit" THEN 2 ELSE 1)

Shallow(s, r) == \A k \in DOMAIN s : Len(s) - k + 1 <= Room(r, s[k])

\* An event carries what its source still holds.
Fresh == \A k \in DOMAIN stack : Carries(stack[k]) => stack[k].value = value[stack[k].comp]

\* The last word of a link is the value of its source, or it has still to be said.
ToldOrWill ==
  \A j \in DOMAIN links :
    LET c == links[j].source IN
      \/ told[j] = value[c] \/ (told[j] = Current /\ value[c] = AtStart[c])
      \/ \E k \in DOMAIN stack :
           stack[k].do = "emit" /\ stack[k].comp = c /\ stack[k].at < j

\* The same for the nick of a plugin.
NickOrWill ==
  \A p \in Plugins :
    \/ nick[p] = value[p]
    \/ \E k \in DOMAIN stack : stack[k].do = "announce" /\ stack[k].comp = p

\* What ends the process throws, and leaves nothing to do.
Ended == ~up => thrown /\ stack = <<>>

NickInv == TypeOK /\ Ended /\ (~thrown => NickOrWill)

\* The graph at rank r, as long as nothing threw.
Graph(r) == Nested(stack, r) /\ Shallow(stack, r) /\ Fresh /\ ToldOrWill

GraphInv == \A r \in Ranks : Ranked(r) /\ ~thrown => Graph(r)

NoButton ==
  \A j \in DOMAIN links :
    links[j].destination \in Plugins => Kind[links[j].destination] # "button"

-----------------------------------------------------------------------------
(* Frames and stacks                                                       *)

LEMMA FramesType ==
  ASSUME NEW c \in Components, NEW v \in Values \cup {Current}
  PROVE  /\ SetTo(c, v) \in Frame /\ Emit(c, v) \in Frame /\ Announce(c, v) \in Frame
         /\ SetTo(c, v).do = "set" /\ SetTo(c, v).comp = c /\ SetTo(c, v).value = v
         /\ Emit(c, v).do = "emit" /\ Emit(c, v).comp = c
         /\ Emit(c, v).value = v /\ Emit(c, v).at = 0
         /\ Announce(c, v).do = "announce" /\ Announce(c, v).comp = c
         /\ Announce(c, v).value = v
  BY DEF SetTo, Emit, Announce, Frame

\* The stack without its top.
LEMMA Popped ==
  ASSUME NEW s \in Seq(Frame), s # <<>>
  PROVE  /\ Head(s) \in Frame /\ Head(s) = s[1] /\ 1 \in DOMAIN s
         /\ Tail(s) \in Seq(Frame) /\ Len(Tail(s)) = Len(s) - 1
         /\ \A k \in DOMAIN Tail(s) : k + 1 \in DOMAIN s /\ Tail(s)[k] = s[k + 1]
         /\ \A k \in DOMAIN s : k = 1 \/ (k - 1 \in DOMAIN Tail(s) /\ Tail(s)[k - 1] = s[k])
<1>1. /\ Head(s) \in Frame /\ Head(s) = s[1] /\ 1 \in DOMAIN s
      /\ Tail(s) \in Seq(Frame) /\ Len(Tail(s)) = Len(s) - 1 /\ Len(s) \in Nat
      /\ DOMAIN s = 1 .. Len(s) /\ DOMAIN Tail(s) = 1 .. (Len(s) - 1)
      /\ \A k \in DOMAIN Tail(s) : k + 1 \in DOMAIN s /\ Tail(s)[k] = s[k + 1]
  OBVIOUS
<1>2. ASSUME NEW k \in DOMAIN s, k # 1
      PROVE  k - 1 \in DOMAIN Tail(s) /\ Tail(s)[k - 1] = s[k]
  BY <1>1, <1>2
<1> QED BY <1>1, <1>2

\* Frames put on a stack.
LEMMA Pushed ==
  ASSUME NEW e \in Seq(Frame), NEW s \in Seq(Frame), NEW t, t = e \o s
  PROVE  /\ t \in Seq(Frame) /\ Len(t) = Len(e) + Len(s)
         /\ \A k \in DOMAIN e : k \in DOMAIN t /\ t[k] = e[k]
         /\ \A k \in DOMAIN s : k + Len(e) \in DOMAIN t /\ t[k + Len(e)] = s[k]
         /\ \A k \in DOMAIN t :
              \/ k \in DOMAIN e /\ t[k] = e[k] /\ k <= Len(e)
              \/ k - Len(e) \in DOMAIN s /\ t[k] = s[k - Len(e)] /\ Len(e) < k
<1>1. t \in Seq(Frame) /\ Len(t) = Len(e) + Len(s)
  OBVIOUS
<1>2. /\ Len(e) \in Nat /\ Len(s) \in Nat
      /\ DOMAIN e = 1 .. Len(e) /\ DOMAIN s = 1 .. Len(s) /\ DOMAIN t = 1 .. (Len(e) + Len(s))
  BY <1>1
<1>3. \A k \in 1 .. (Len(e) + Len(s)) : t[k] = IF k <= Len(e) THEN e[k] ELSE s[k - Len(e)]
  OBVIOUS
<1>4. \A k \in DOMAIN e : k \in DOMAIN t /\ t[k] = e[k]
  BY <1>2, <1>3
<1>5. ASSUME NEW k \in DOMAIN s
      PROVE  k + Len(e) \in DOMAIN t /\ t[k + Len(e)] = s[k]
  <2>1. /\ k + Len(e) \in 1 .. (Len(e) + Len(s)) /\ ~(k + Len(e) <= Len(e))
        /\ (k + Len(e)) - Len(e) = k
    BY <1>2
  <2> QED BY <1>2, <1>3, <2>1
<1>6. ASSUME NEW k \in DOMAIN t
      PROVE  \/ k \in DOMAIN e /\ t[k] = e[k] /\ k <= Len(e)
             \/ k - Len(e) \in DOMAIN s /\ t[k] = s[k - Len(e)] /\ Len(e) < k
  BY <1>2, <1>3
<1> QED BY <1>1, <1>4, <1>5, <1>6

\* The top of a stack changed for another.
LEMMA Listened ==
  ASSUME NEW s \in Seq(Frame), s # <<>>, NEW g \in Frame, NEW t, t = <<g>> \o Tail(s)
  PROVE  /\ t \in Seq(Frame) /\ Len(t) = Len(s) /\ DOMAIN t = DOMAIN s
         /\ 1 \in DOMAIN s /\ t[1] = g
         /\ \A k \in DOMAIN s : k # 1 => t[k] = s[k]
<1>1. /\ Head(s) \in Frame /\ Head(s) = s[1] /\ 1 \in DOMAIN s
      /\ Tail(s) \in Seq(Frame) /\ Len(Tail(s)) = Len(s) - 1
      /\ \A k \in DOMAIN s : k = 1 \/ (k - 1 \in DOMAIN Tail(s) /\ Tail(s)[k - 1] = s[k])
  BY Popped
<1>2. <<g>> \in Seq(Frame) /\ Len(<<g>>) = 1 /\ 1 \in DOMAIN <<g>> /\ <<g>>[1] = g
  OBVIOUS
<1>3. t \in Seq(Frame) /\ Len(t) = Len(s)
  <2>1. Len(t) = 1 + Len(Tail(s)) /\ t \in Seq(Frame)
    BY <1>1, <1>2, Pushed
  <2> QED BY <1>1, <2>1
<1>4. t[1] = g
  BY <1>1, <1>2, Pushed
<1>5. ASSUME NEW k \in DOMAIN s, k # 1 PROVE t[k] = s[k]
  <2>1. k - 1 \in DOMAIN Tail(s) /\ Tail(s)[k - 1] = s[k]
    BY <1>1, <1>5
  <2>2. t[(k - 1) + 1] = Tail(s)[k - 1]
    BY <1>1, <1>2, <2>1, Pushed
  <2> QED BY <2>1, <2>2
<1>6. DOMAIN t = DOMAIN s
  BY <1>3
<1> QED BY <1>1, <1>3, <1>4, <1>5, <1>6

\* The event on top, which another link has listened to.
LEMMA At ==
  ASSUME NEW f \in Frame, NEW j \in Nat, NEW g, g = [f EXCEPT !.at = j]
  PROVE  /\ g \in Frame /\ g.do = f.do /\ g.comp = f.comp
         /\ g.value = f.value /\ g.at = j
  BY DEF Frame

\* Two frames.
LEMMA TwoFrames ==
  ASSUME NEW f \in Frame, NEW g \in Frame
  PROVE  /\ <<f>> \in Seq(Frame) /\ Len(<<f>>) = 1 /\ DOMAIN <<f>> = {1} /\ <<f>>[1] = f
         /\ <<f, g>> \in Seq(Frame) /\ Len(<<f, g>>) = 2 /\ DOMAIN <<f, g>> = {1, 2}
         /\ <<f, g>>[1] = f /\ <<f, g>>[2] = g
<1>1. /\ <<f>> \in Seq(Frame) /\ Len(<<f>>) = 1 /\ DOMAIN <<f>> = {1} /\ <<f>>[1] = f
      /\ <<f, g>> \in Seq(Frame) /\ Len(<<f, g>>) = 2 /\ DOMAIN <<f, g>> = {1, 2}
      /\ <<f, g>>[1] = f /\ <<f, g>>[2] = g
  OBVIOUS
<1> QED BY <1>1

\* A plugin sets its attribute twice at most, and does nothing else.
LEMMA EffectsAre ==
  ASSUME value \in [Components -> Values], NEW p \in Plugins, NEW a, NEW v \in Values,
         NEW e, e = Effects(p, a, v)
  PROVE  /\ e \in Seq(Frame) /\ Len(e) <= 2
         /\ \A k \in DOMAIN e :
              e[k].do = "set" /\ e[k].comp = p /\ e[k].value \in Values
<1>1. On \in Values /\ Off \in Values /\ p \in Components
  BY DEF Values, Components
<1> DEFINE x == IF value[p] = On THEN Off ELSE On
<1>2. x \in Values
  BY <1>1
<1>3. e \in {<<>>, <<SetTo(p, v)>>, <<SetTo(p, On), SetTo(p, Off)>>, <<SetTo(p, x)>>,
            <<SetTo(p, On)>>, <<SetTo(p, Off)>>}
  BY DEF Effects
<1>4. \A w \in Values : SetTo(p, w) \in Frame /\ SetTo(p, w).do = "set"
                       /\ SetTo(p, w).comp = p /\ SetTo(p, w).value \in Values
  BY <1>1, FramesType
<1>5. CASE e = <<>>
  BY <1>5
<1>6. ASSUME NEW w \in Values, e = <<SetTo(p, w)>>
      PROVE  /\ e \in Seq(Frame) /\ Len(e) <= 2
             /\ \A k \in DOMAIN e : e[k].do = "set" /\ e[k].comp = p /\ e[k].value \in Values
  <2>1. e \in Seq(Frame) /\ Len(e) = 1 /\ DOMAIN e = {1} /\ e[1] = SetTo(p, w)
    BY <1>4, <1>6, TwoFrames
  <2> QED BY <1>4, <2>1
<1>7. CASE e = <<SetTo(p, On), SetTo(p, Off)>>
  <2>1. /\ e \in Seq(Frame) /\ Len(e) = 2 /\ DOMAIN e = {1, 2}
        /\ e[1] = SetTo(p, On) /\ e[2] = SetTo(p, Off)
    BY <1>1, <1>4, <1>7, TwoFrames
  <2> QED BY <1>1, <1>4, <2>1
<1> QED BY <1>1, <1>2, <1>3, <1>5, <1>6, <1>7

-----------------------------------------------------------------------------
(* Steps of an event                                                       *)

\* SetAttribute: the frames that take the place of the one on top.
LEMMA SetFrames ==
  ASSUME NEW c \in Components, NEW v \in Values,
         NEW e, e = <<Emit(c, v)>> \o (IF c \in Plugins THEN <<Announce(c, v)>> ELSE <<>>)
  PROVE  /\ e \in Seq(Frame) /\ Len(e) <= 2 /\ (c \notin Plugins => Len(e) = 1)
         /\ 1 \in DOMAIN e /\ e[1] = Emit(c, v)
         /\ \A k \in DOMAIN e : k = 1 \/ (k = 2 /\ e[k] = Announce(c, v))
         /\ c \in Plugins => 2 \in DOMAIN e /\ e[2] = Announce(c, v)
<1>1. Emit(c, v) \in Frame /\ Announce(c, v) \in Frame
  BY FramesType
<1> DEFINE a == <<Emit(c, v)>>
           b == IF c \in Plugins THEN <<Announce(c, v)>> ELSE <<>>
<1>2. a \in Seq(Frame) /\ Len(a) = 1 /\ DOMAIN a = {1} /\ a[1] = Emit(c, v)
  BY <1>1, TwoFrames
<1>3. /\ b \in Seq(Frame)
      /\ IF c \in Plugins THEN Len(b) = 1 /\ DOMAIN b = {1} /\ b[1] = Announce(c, v)
                           ELSE Len(b) = 0
  BY <1>1, TwoFrames
<1>4. e = a \o b /\ a \in Seq(Frame) /\ b \in Seq(Frame)
  BY <1>2, <1>3
<1> HIDE DEF a, b
<1>5. /\ e \in Seq(Frame) /\ Len(e) = Len(a) + Len(b)
      /\ \A k \in DOMAIN a : k \in DOMAIN e /\ e[k] = a[k]
      /\ \A k \in DOMAIN b : k + Len(a) \in DOMAIN e /\ e[k + Len(a)] = b[k]
  BY ONLY <1>4, Pushed
<1>6. 1 \in DOMAIN e /\ e[1] = Emit(c, v)
  BY <1>2, <1>5
<1>7. Len(e) = IF c \in Plugins THEN 2 ELSE 1
  BY <1>2, <1>3, <1>5
<1>8. c \in Plugins => 2 \in DOMAIN e /\ e[2] = Announce(c, v)
  BY <1>2, <1>3, <1>5
<1>9. \A k \in DOMAIN e : k = 1 \/ (k = 2 /\ c \in Plugins)
  BY <1>5, <1>7
<1> QED BY <1>5, <1>6, <1>7, <1>8, <1>9

\* What an event puts on the stack when it goes on, or when it throws.
LEMMA ContinueIs ==
  ASSUME NEW e, NEW s, Continue(e, s), up \in BOOLEAN, thrown \in BOOLEAN
  PROVE  /\ up' \in BOOLEAN /\ thrown' \in BOOLEAN
         /\ \/ stack' = e \o s /\ thrown' = thrown /\ up' = up
            \/ stack' = <<>> /\ thrown' = TRUE /\ Len(e) + Len(s) > MaxDepth
  BY DEF Continue, Throw

\* The listener that is run, the event after it, what is left to do and what it adds.
Runs(j, v, g, rest, e) ==
  LET f == Head(stack)
      l == links[j]
  IN /\ j \in DOMAIN links /\ f.at < j /\ l.source = f.comp
     /\ \A i \in DOMAIN links : f.at < i /\ links[i].source = f.comp => j <= i
     /\ v = (IF f.value = Current THEN value[f.comp] ELSE f.value)
     /\ g = [f EXCEPT !.at = j]
     /\ rest = <<g>> \o Tail(stack)
     /\ e = Effects(l.destination, l.action, v)
     /\ told' = [told EXCEPT ![j] = v]
     /\ \/ /\ l.destination \in Hardware
           /\ orders' = [orders EXCEPT ![l.destination] = v]
           /\ stack' = rest
           /\ UNCHANGED <<thrown, up>>
        \/ /\ l.destination \in Plugins
           /\ UNCHANGED orders
           /\ \/ Continue(e, rest)
              \/ Throw /\ Kind[l.destination] = "button"

\* A link and its ends.
LEMMA LinkType ==
  ASSUME links \in LinkChoices, NEW j \in DOMAIN links
  PROVE  /\ links \in Seq(Link) /\ j \in Nat \ {0}
         /\ links[j].source \in Components /\ links[j].destination \in Components
         /\ \/ links[j].destination \in Hardware /\ links[j].destination \notin Plugins
            \/ links[j].destination \in Plugins /\ links[j].destination \notin Hardware
         /\ links[j].destination \in Plugins =>
              links[j].action \in DOMAIN Arity(Kind[links[j].destination])
<1>1. links \in Seq(Link)
  BY BusAssumption DEF BusAssumption
<1>2. links[j] \in Link /\ j \in Nat \ {0}
  BY <1>1
<1>3. \/ links[j].destination \in Hardware
      \/ /\ links[j].destination \in Plugins
         /\ links[j].action \in DOMAIN Arity(Kind[links[j].destination])
  BY BusAssumption DEF BusAssumption
<1>4. Hardware \cap Plugins = {}
  BY BusAssumption DEF BusAssumption
<1> QED BY <1>1, <1>2, <1>3, <1>4 DEF Link, Components

\* Only a button has an action without arguments.
LEMMA ArityIs ==
  ASSUME NEW k \in Kinds, NEW a \in DOMAIN Arity(k), Arity(k)[a] # 1
  PROVE  k = "button"
  BY DEF Kinds, Arity

LEMMA RunLinkIs ==
  ASSUME RunLink, TypeOK
  PROVE  \E j, v, g, rest, e : Runs(j, v, g, rest, e)
<1> DEFINE f == Head(stack)
           v == IF f.value = Current THEN value[f.comp] ELSE f.value
<1>1. PICK j \in Listeners(f.comp, f.at) :
        LET l == links[j]
            rest == <<[f EXCEPT !.at = j]>> \o Tail(stack)
        IN
          /\ \A i \in Listeners(f.comp, f.at) : j <= i
          /\ told' = [told EXCEPT ![j] = v]
          /\ IF l.destination \in Hardware
             THEN /\ orders' = [orders EXCEPT ![l.destination] = v]
                  /\ stack' = rest
                  /\ UNCHANGED <<thrown, up>>
             ELSE /\ UNCHANGED orders
                  /\ IF Arity(Kind[l.destination])[l.action] = 1
                     THEN Continue(Effects(l.destination, l.action, v), rest)
                     ELSE Throw
  BY DEF RunLink
<1>2. /\ j \in DOMAIN links /\ f.at < j /\ links[j].source = f.comp
      /\ \A i \in DOMAIN links : f.at < i /\ links[i].source = f.comp => j <= i
  BY <1>1 DEF Listeners
<1>3. /\ \/ links[j].destination \in Hardware
         \/ links[j].destination \in Plugins /\ links[j].destination \notin Hardware
      /\ links[j].destination \in Plugins =>
           links[j].action \in DOMAIN Arity(Kind[links[j].destination])
  BY <1>2, LinkType DEF TypeOK
<1>4. ASSUME links[j].destination \in Plugins,
             Arity(Kind[links[j].destination])[links[j].action] # 1
      PROVE  Kind[links[j].destination] = "button"
  <2>1. Kind[links[j].destination] \in Kinds
    BY <1>4, BusAssumption DEF BusAssumption
  <2> QED BY <1>3, <1>4, <2>1, ArityIs
<1> DEFINE g == [f EXCEPT !.at = j]
           rest == <<g>> \o Tail(stack)
           e == Effects(links[j].destination, links[j].action, v)
<1>5. Runs(j, v, g, rest, e)
  BY <1>1, <1>2, <1>3, <1>4 DEF Runs
<1> QED BY <1>5

-----------------------------------------------------------------------------
(* Types                                                                   *)

LEMMA BusInit == Init => TypeOK
<1> SUFFICES ASSUME Init PROVE TypeOK
  OBVIOUS
<1>1. Off \in Values /\ Null \in Values /\ 0 \in 0 .. MaxMoves
  BY BusAssumption DEF BusAssumption, Values
<1>2. <<>> \in Seq(Frame) /\ DOMAIN <<>> = {}
  OBVIOUS
<1>3. AtStart \in [Components -> Values]
  BY <1>1 DEF AtStart
<1> QED BY <1>1, <1>2, <1>3 DEF Init, TypeOK

\* Stacks, with what the frames that set carry.
Stacks == {s \in Seq(Frame) : \A k \in DOMAIN s : s[k].do = "set" => s[k].value # Current}

LEMMA EmptyIn == <<>> \in Stacks
  BY DEF Stacks

LEMMA PushedIn ==
  ASSUME NEW e \in Stacks, NEW s \in Stacks, NEW t, t = e \o s
  PROVE  t \in Stacks
<1>1. e \in Seq(Frame) /\ s \in Seq(Frame)
  BY DEF Stacks
<1>2. t \in Seq(Frame) /\ \A k \in DOMAIN t :
              \/ k \in DOMAIN e /\ t[k] = e[k]
              \/ k - Len(e) \in DOMAIN s /\ t[k] = s[k - Len(e)]
  BY <1>1, Pushed
<1> QED BY <1>2 DEF Stacks

LEMMA PoppedIn ==
  ASSUME NEW s \in Stacks, s # <<>>
  PROVE  Tail(s) \in Stacks
<1>1. s \in Seq(Frame)
  BY DEF Stacks
<1>2. /\ Tail(s) \in Seq(Frame)
      /\ \A k \in DOMAIN Tail(s) : k + 1 \in DOMAIN s /\ Tail(s)[k] = s[k + 1]
  BY <1>1, Popped
<1> QED BY <1>2 DEF Stacks

LEMMA ListenedIn ==
  ASSUME NEW s \in Stacks, s # <<>>, NEW g \in Frame, g.do = "emit",
         NEW t, t = <<g>> \o Tail(s)
  PROVE  t \in Stacks
<1>1. s \in Seq(Frame)
  BY DEF Stacks
<1>2. /\ t \in Seq(Frame) /\ DOMAIN t = DOMAIN s
      /\ t[1] = g /\ \A k \in DOMAIN s : k # 1 => t[k] = s[k]
  BY ONLY <1>1, s # <<>>, g \in Frame, t = <<g>> \o Tail(s), Listened
<1>3. \A k \in DOMAIN s : s[k].do = "set" => s[k].value # Current
  BY DEF Stacks
<1>4. \A k \in DOMAIN t : t[k].do = "set" => t[k].value # Current
  BY ONLY <1>2, <1>3, g.do = "emit"
<1> QED BY ONLY <1>2, <1>4 DEF Stacks

LEMMA SetIn ==
  ASSUME NEW c \in Components, NEW v \in Values
  PROVE  /\ <<SetTo(c, v)>> \in Stacks /\ <<SetTo(c, v), Emit(c, Current)>> \in Stacks
         /\ <<Emit(c, v)>> \o (IF c \in Plugins THEN <<Announce(c, v)>> ELSE <<>>) \in Stacks
<1>0. v # Current
  BY BusAssumption DEF BusAssumption
<1>1. /\ SetTo(c, v) \in Frame /\ SetTo(c, v).value = v
      /\ Emit(c, Current) \in Frame /\ Emit(c, Current).do = "emit"
      /\ Emit(c, v).do = "emit" /\ Announce(c, v).do = "announce"
  BY FramesType
<1>2. <<SetTo(c, v)>> \in Stacks
  <2>1. <<SetTo(c, v)>> \in Seq(Frame) /\ DOMAIN <<SetTo(c, v)>> = {1} /\ <<SetTo(c, v)>>[1] = SetTo(c, v)
    BY <1>1, TwoFrames
  <2> QED BY <1>0, <1>1, <2>1 DEF Stacks
<1>3. <<SetTo(c, v), Emit(c, Current)>> \in Stacks
  <2> DEFINE e == <<SetTo(c, v), Emit(c, Current)>>
  <2>1. e \in Seq(Frame) /\ DOMAIN e = {1, 2} /\ e[1] = SetTo(c, v) /\ e[2] = Emit(c, Current)
    BY <1>1, TwoFrames
  <2> QED BY <1>0, <1>1, <2>1 DEF Stacks
<1>4. <<Emit(c, v)>> \o (IF c \in Plugins THEN <<Announce(c, v)>> ELSE <<>>) \in Stacks
  <2> DEFINE e == <<Emit(c, v)>> \o (IF c \in Plugins THEN <<Announce(c, v)>> ELSE <<>>)
  <2>1. /\ e \in Seq(Frame) /\ e[1] = Emit(c, v)
        /\ \A k \in DOMAIN e : k = 1 \/ (k = 2 /\ e[k] = Announce(c, v))
    <3>1. c \in Components /\ v \in Values
          /\ e = <<Emit(c, v)>> \o (IF c \in Plugins THEN <<Announce(c, v)>> ELSE <<>>)
      OBVIOUS
    <3> HIDE DEF e
    <3> QED BY ONLY <3>1, SetFrames
  <2>2. \A k \in DOMAIN e : e[k].do # "set"
    BY <1>1, <2>1
  <2> QED BY <2>1, <2>2 DEF Stacks
<1> QED BY <1>2, <1>3, <1>4

LEMMA EffectsIn ==
  ASSUME value \in [Components -> Values], NEW p \in Plugins, NEW a, NEW v \in Values
  PROVE  Effects(p, a, v) \in Stacks
<1> DEFINE e == Effects(p, a, v)
<1>1. e \in Seq(Frame) /\ \A k \in DOMAIN e : e[k].value \in Values
  BY EffectsAre
<1>2. Current \notin Values
  BY BusAssumption DEF BusAssumption
<1> QED BY <1>1, <1>2 DEF Stacks

\* The frame on top.
LEMMA TopType ==
  ASSUME TypeOK, NEW what, Doing(what)
  PROVE  /\ up /\ stack \in Stacks /\ stack \in Seq(Frame) /\ stack # <<>>
         /\ Head(stack) = stack[1] /\ 1 \in DOMAIN stack
         /\ Head(stack).do = what /\ stack[1].do = what /\ Head(stack) \in Frame
         /\ Head(stack).comp \in Components /\ Head(stack).at \in Nat
         /\ Head(stack).value \in Values \cup {Current}
         /\ what = "set" => Head(stack).value \in Values
<1>1. stack \in Seq(Frame) /\ stack # <<>> /\ up /\ Head(stack).do = what
  BY DEF TypeOK, Doing
<1>2. Head(stack) = stack[1] /\ 1 \in DOMAIN stack /\ Head(stack) \in Frame
  BY <1>1, Popped
<1>3. stack \in Stacks
  BY DEF TypeOK, Stacks
<1> QED BY <1>1, <1>2, <1>3 DEF TypeOK, Frame

LEMMA RunsType ==
  ASSUME TypeOK, Doing("emit"), NEW j, NEW v, NEW g, NEW rest, NEW e, Runs(j, v, g, rest, e)
  PROVE  /\ j \in DOMAIN links /\ j \in Nat /\ v \in Values
         /\ links[j].source = Head(stack).comp
         /\ g \in Frame /\ g.do = "emit" /\ g.comp = Head(stack).comp
         /\ g.value = Head(stack).value /\ g.at = j
         /\ rest \in Stacks /\ rest \in Seq(Frame)
         /\ Len(rest) = Len(stack) /\ DOMAIN rest = DOMAIN stack
         /\ rest[1] = g /\ \A k \in DOMAIN stack : k # 1 => rest[k] = stack[k]
         /\ \/ links[j].destination \in Hardware /\ links[j].destination \notin Plugins
            \/ /\ links[j].destination \in Plugins /\ links[j].destination \notin Hardware
               /\ e \in Stacks /\ e \in Seq(Frame) /\ Len(e) <= 2
               /\ \A k \in DOMAIN e : e[k].do = "set" /\ e[k].comp = links[j].destination
<1>1. /\ j \in DOMAIN links /\ links[j].source = Head(stack).comp
      /\ v = (IF Head(stack).value = Current THEN value[Head(stack).comp]
             ELSE Head(stack).value)
      /\ g = [Head(stack) EXCEPT !.at = j] /\ rest = <<g>> \o Tail(stack)
      /\ e = Effects(links[j].destination, links[j].action, v)
  BY DEF Runs
<1>2. /\ stack \in Stacks /\ stack \in Seq(Frame) /\ stack # <<>>
      /\ Head(stack) \in Frame /\ Head(stack).do = "emit"
      /\ Head(stack).comp \in Components /\ Head(stack).value \in Values \cup {Current}
  BY TopType
<1>3. v \in Values /\ value \in [Components -> Values] /\ links \in LinkChoices
  BY <1>1, <1>2 DEF TypeOK
<1>4. /\ j \in Nat
      /\ \/ links[j].destination \in Hardware /\ links[j].destination \notin Plugins
         \/ links[j].destination \in Plugins /\ links[j].destination \notin Hardware
  BY <1>1, <1>3, LinkType
<1>5. /\ g \in Frame /\ g.do = "emit" /\ g.comp = Head(stack).comp
      /\ g.value = Head(stack).value /\ g.at = j
  BY <1>1, <1>2, <1>4, At
<1>6. /\ rest \in Seq(Frame) /\ Len(rest) = Len(stack) /\ DOMAIN rest = DOMAIN stack
      /\ rest[1] = g /\ \A k \in DOMAIN stack : k # 1 => rest[k] = stack[k]
  BY ONLY <1>1, <1>2, <1>5, Listened
<1>7. rest \in Stacks
  BY ONLY <1>1, <1>2, <1>5, ListenedIn
<1>8. ASSUME links[j].destination \in Plugins
      PROVE  /\ e \in Stacks /\ e \in Seq(Frame) /\ Len(e) <= 2
             /\ \A k \in DOMAIN e : e[k].do = "set" /\ e[k].comp = links[j].destination
  <2>1. e \in Stacks
    BY <1>1, <1>3, <1>8, EffectsIn
  <2>2. e = Effects(links[j].destination, links[j].action, v)
    BY <1>1
  <2>3. /\ e \in Seq(Frame) /\ Len(e) <= 2
        /\ \A k \in DOMAIN e : e[k].do = "set" /\ e[k].comp = links[j].destination
    BY ONLY <1>3, <1>8, <2>2, EffectsAre
  <2> QED BY <2>1, <2>3
<1> QED BY <1>1, <1>3, <1>4, <1>5, <1>6, <1>7, <1>8

\* Every step keeps the types.
LEMMA BusTypeStep == TypeOK /\ [Next]_bvars => TypeOK'
<1> SUFFICES ASSUME TypeOK, [Next]_bvars PROVE TypeOK'
  OBVIOUS
<1>0. /\ up \in BOOLEAN /\ thrown \in BOOLEAN /\ stack \in Stacks /\ moves \in 0 .. MaxMoves
      /\ <<>> \in Stacks /\ On \in Values /\ Off \in Values /\ Null \in Values
      /\ MaxMoves \in Nat
  BY EmptyIn, BusAssumption DEF TypeOK, Stacks, Values, BusAssumption
<1>1. ASSUME SetAttribute PROVE TypeOK'
  <2> DEFINE c == Head(stack).comp
             v == Head(stack).value
             e == <<Emit(c, v)>> \o (IF c \in Plugins THEN <<Announce(c, v)>> ELSE <<>>)
  <2>1. /\ Doing("set") /\ value' = [value EXCEPT ![c] = v] /\ Continue(e, Tail(stack))
        /\ UNCHANGED <<links, nick, orders, root, told, moves>>
    BY <1>1 DEF SetAttribute
  <2>2. c \in Components /\ v \in Values /\ stack # <<>>
    BY <2>1, TopType
  <2>3. e \in Stacks /\ Tail(stack) \in Stacks
    BY <1>0, <2>2, SetIn, PoppedIn
  <2> HIDE DEF e
  <2>4. stack' = e \o Tail(stack) \/ stack' = <<>>
    BY <1>0, <2>1, ContinueIs
  <2>5. stack' \in Stacks
    BY <1>0, <2>3, <2>4, PushedIn
  <2>6. up' \in BOOLEAN /\ thrown' \in BOOLEAN
    BY <1>0, <2>1, ContinueIs
  <2> QED BY <2>1, <2>2, <2>5, <2>6 DEF TypeOK, Stacks
<1>2. ASSUME RunLink PROVE TypeOK'
  <2>0. Doing("emit") /\ UNCHANGED <<links, value, nick, root, moves>>
    BY <1>2 DEF RunLink
  <2>1. PICK j, v, g, rest, e : Runs(j, v, g, rest, e)
    BY <1>2, RunLinkIs
  <2>2. /\ j \in DOMAIN links /\ v \in Values /\ rest \in Stacks
        /\ links[j].destination \in Plugins => e \in Stacks
    BY <2>0, <2>1, RunsType
  <2>3. /\ told' = [told EXCEPT ![j] = v]
        /\ orders' = orders \/ orders' = [orders EXCEPT ![links[j].destination] = v]
        /\ \/ stack' = rest /\ UNCHANGED <<thrown, up>>
           \/ links[j].destination \in Plugins /\ Continue(e, rest)
           \/ Throw
    BY <2>1 DEF Runs
  <2>4. stack' \in Stacks /\ up' \in BOOLEAN /\ thrown' \in BOOLEAN
    <3>1. CASE stack' = rest /\ UNCHANGED <<thrown, up>>
      BY <1>0, <2>2, <3>1
    <3>2. CASE links[j].destination \in Plugins /\ Continue(e, rest)
      <4>1. up' \in BOOLEAN /\ thrown' \in BOOLEAN /\ (stack' = e \o rest \/ stack' = <<>>)
        BY <1>0, <3>2, ContinueIs
      <4> QED BY <1>0, <2>2, <3>2, <4>1, PushedIn
    <3>3. CASE Throw
      BY <1>0, <3>3 DEF Throw
    <3> QED BY <2>3, <3>1, <3>2, <3>3
  <2>5. told' \in [DOMAIN links -> Values \cup {Current}]
    BY <2>2, <2>3 DEF TypeOK
  <2>6. orders' \in [Hardware -> Values \cup {Current}]
    BY <2>2, <2>3 DEF TypeOK
  <2> QED BY <2>0, <2>4, <2>5, <2>6 DEF TypeOK, Stacks
<1>3. ASSUME Emitted PROVE TypeOK'
  <2>1. Tail(stack) \in Stacks
    BY <1>0, <1>3, PoppedIn DEF Emitted, Doing
  <2> QED BY <1>3, <2>1 DEF Emitted, TypeOK, Stacks
<1>4. ASSUME AttributeChanged PROVE TypeOK'
  <2>1. Tail(stack) \in Stacks /\ Head(stack).comp \in Components
    BY <1>0, <1>4, PoppedIn, TopType DEF AttributeChanged, Doing
  <2>2. value[Head(stack).comp] \in Values
    BY <2>1 DEF TypeOK
  <2> QED BY <1>4, <2>1, <2>2 DEF AttributeChanged, TypeOK, Stacks
<1>5. ASSUME NEW r \in {"nick", "message"}, NEW frames \in Stacks, Event(r, frames),
             UNCHANGED value
      PROVE  TypeOK'
  <2>1. moves' \in 0 .. MaxMoves
    BY <1>0, <1>5 DEF Event
  <2> QED BY <1>5, <2>1 DEF Event, TypeOK, Stacks
<1>6. ASSUME NEW h \in Hardware, NEW v \in {On, Off}, Change(h, v) \/ Online(h, v)
      PROVE  TypeOK'
  <2>1. <<SetTo(h, v)>> \in Stacks /\ <<SetTo(h, v), Emit(h, Current)>> \in Stacks
    BY <1>0, SetIn DEF Components
  <2> QED BY <1>5, <1>6, <2>1 DEF Change, Online
<1>7. ASSUME NEW h \in Hardware, Offline(h) PROVE TypeOK'
  <2>1. <<SetTo(h, Null)>> \in Stacks
    BY <1>0, SetIn DEF Components
  <2> QED BY <1>5, <1>7, <2>1 DEF Offline
<1>8. ASSUME NEW p \in Plugins, NEW v \in {On, Off}, NEW a, Message(p, a, v) PROVE TypeOK'
  <2>1. Effects(p, a, v) \in Stacks
    BY <1>0, EffectsIn DEF TypeOK
  <2> QED BY <1>5, <1>8, <2>1 DEF Message
<1>9. ASSUME Restart PROVE TypeOK'
  <2>1. AtStart \in [Components -> Values]
    BY <1>0 DEF AtStart
  <2> QED BY <1>0, <1>9, <2>1 DEF Restart, TypeOK
<1>10. ASSUME UNCHANGED bvars PROVE TypeOK'
  BY <1>10 DEF bvars, TypeOK
<1> QED BY <1>1, <1>2, <1>3, <1>4, <1>6, <1>7, <1>8, <1>9, <1>10 DEF Next

\* A frame under the top stays in the stack when the top leaves.
LEMMA StaysUnder ==
  ASSUME NEW s \in Seq(Frame), s # <<>>, NEW k \in DOMAIN s, k # 1
  PROVE  \E m \in DOMAIN Tail(s) : Tail(s)[m] = s[k]
  BY Popped

-----------------------------------------------------------------------------
(* Nicks                                                                   *)

LEMMA NickInit == Init => NickInv
<1> SUFFICES ASSUME Init PROVE NickInv
  OBVIOUS
<1>1. \A p \in Plugins : nick[p] = value[p]
  BY DEF Init, AtStart, Components
<1> QED BY <1>1, BusInit DEF Init, NickInv, Ended, NickOrWill

\* What runs an event either throws, or leaves its announcements to be made.
LEMMA NickStep == NickInv /\ [Next]_bvars => NickInv'
<1> SUFFICES ASSUME NickInv, [Next]_bvars PROVE NickInv'
  OBVIOUS
<1>0. TypeOK /\ TypeOK' /\ Ended /\ (~thrown => NickOrWill)
  BY BusTypeStep DEF NickInv
<1>t. /\ up \in BOOLEAN /\ thrown \in BOOLEAN /\ stack \in Seq(Frame)
      /\ value \in [Components -> Values] /\ nick \in [Plugins -> Values]
      /\ Plugins \subseteq Components
  BY <1>0 DEF TypeOK, Components
<1> SUFFICES Ended' /\ (~thrown' => NickOrWill')
  BY <1>0 DEF NickInv
<1>1. ASSUME SetAttribute PROVE Ended' /\ (~thrown' => NickOrWill')
  <2> DEFINE c == Head(stack).comp
             v == Head(stack).value
             e == <<Emit(c, v)>> \o (IF c \in Plugins THEN <<Announce(c, v)>> ELSE <<>>)
  <2>1. /\ Doing("set") /\ value' = [value EXCEPT ![c] = v] /\ Continue(e, Tail(stack))
        /\ nick' = nick
    BY <1>1 DEF SetAttribute
  <2>2. /\ c \in Components /\ v \in Values /\ stack # <<>> /\ up /\ stack[1].do = "set"
        /\ Tail(stack) \in Seq(Frame)
    BY <1>0, <1>t, <2>1, TopType, Popped
  <2>3. e \in Seq(Frame) /\ (c \in Plugins => 2 \in DOMAIN e /\ e[2] = Announce(c, v))
    <3>1. e = <<Emit(c, v)>> \o (IF c \in Plugins THEN <<Announce(c, v)>> ELSE <<>>)
      OBVIOUS
    <3> HIDE DEF e, c, v
    <3> QED BY ONLY <2>2, <3>1, SetFrames
  <2>4. Announce(c, v).do = "announce" /\ Announce(c, v).comp = c
    BY <2>2, FramesType
  <2> HIDE DEF e, c, v
  <2>5. \/ stack' = e \o Tail(stack) /\ thrown' = thrown /\ up' = up
        \/ stack' = <<>> /\ thrown' = TRUE
    BY <1>t, <2>1, ContinueIs
  <2>6. Ended'
    BY <2>2, <2>5 DEF Ended
  <2>7. ASSUME ~thrown', NEW p \in Plugins
        PROVE  \/ nick'[p] = value'[p]
               \/ \E k \in DOMAIN stack' : stack'[k].do = "announce" /\ stack'[k].comp = p
    <3>1. stack' = e \o Tail(stack) /\ NickOrWill
      BY <1>0, <2>5, <2>7
    <3>2. CASE p = c
      <4>1. 2 \in DOMAIN stack' /\ stack'[2] = e[2]
        BY <2>2, <2>3, <3>1, <3>2, Pushed
      <4> QED BY <2>3, <2>4, <3>2, <4>1
    <3>3. CASE p # c /\ nick[p] = value[p]
      BY <1>t, <2>1, <2>2, <3>3
    <3>4. ASSUME NEW k \in DOMAIN stack, stack[k].do = "announce", stack[k].comp = p
          PROVE  \E m \in DOMAIN stack' : stack'[m].do = "announce" /\ stack'[m].comp = p
      <4>1. k # 1
        BY <2>2, <3>4
      <4>2. PICK m \in DOMAIN Tail(stack) : Tail(stack)[m] = stack[k]
        BY <1>t, <2>2, <4>1, StaysUnder
      <4>3. \A i \in DOMAIN Tail(stack) :
              i + Len(e) \in DOMAIN stack' /\ stack'[i + Len(e)] = Tail(stack)[i]
        BY <2>2, <2>3, <3>1, Pushed
      <4> QED BY <3>4, <4>2, <4>3
    <3> QED BY <3>1, <3>2, <3>3, <3>4 DEF NickOrWill
  <2> QED BY <2>6, <2>7 DEF NickOrWill
<1>2. ASSUME RunLink PROVE Ended' /\ (~thrown' => NickOrWill')
  <2>0. Doing("emit") /\ UNCHANGED <<value, nick>>
    BY <1>2 DEF RunLink
  <2>1. PICK j, v, g, rest, e : Runs(j, v, g, rest, e)
    BY <1>0, <1>2, RunLinkIs
  <2>2. /\ rest \in Seq(Frame) /\ DOMAIN rest = DOMAIN stack
        /\ \A k \in DOMAIN stack : k # 1 => rest[k] = stack[k]
        /\ links[j].destination \in Plugins => e \in Seq(Frame)
        /\ up /\ stack[1].do = "emit"
    BY <1>0, <2>0, <2>1, RunsType, TopType
  <2>3. \/ stack' = rest /\ thrown' = thrown /\ up' = up
        \/ /\ links[j].destination \in Plugins
           /\ stack' = e \o rest /\ thrown' = thrown /\ up' = up
        \/ stack' = <<>> /\ thrown' = TRUE
    <3>1. \/ stack' = rest /\ UNCHANGED <<thrown, up>>
          \/ links[j].destination \in Plugins /\ Continue(e, rest)
          \/ Throw
      BY <2>1 DEF Runs
    <3> QED BY <1>t, <3>1, ContinueIs DEF Throw
  <2>4. Ended'
    BY <2>2, <2>3 DEF Ended
  <2>5. ASSUME ~thrown', NEW p \in Plugins
        PROVE  \/ nick'[p] = value'[p]
               \/ \E k \in DOMAIN stack' : stack'[k].do = "announce" /\ stack'[k].comp = p
    <3>1. NickOrWill
      BY <1>0, <2>3, <2>5
    <3>2. ASSUME NEW k \in DOMAIN stack, stack[k].do = "announce", stack[k].comp = p
          PROVE  \E m \in DOMAIN stack' : stack'[m].do = "announce" /\ stack'[m].comp = p
      <4>1. k \in DOMAIN rest /\ rest[k] = stack[k]
        BY <2>2, <3>2
      <4>2. CASE stack' = rest
        BY <3>2, <4>1, <4>2
      <4>3. CASE links[j].destination \in Plugins /\ stack' = e \o rest
        <5>1. \A i \in DOMAIN rest :
                i + Len(e) \in DOMAIN stack' /\ stack'[i + Len(e)] = rest[i]
          BY <2>2, <4>3, Pushed
        <5> QED BY <3>2, <4>1, <5>1
      <4> QED BY <2>3, <2>5, <4>2, <4>3
    <3> QED BY <2>0, <3>1, <3>2 DEF NickOrWill
  <2> QED BY <2>4, <2>5 DEF NickOrWill
<1>3. ASSUME Emitted \/ AttributeChanged PROVE Ended' /\ (~thrown' => NickOrWill')
  <2>1. /\ up /\ up' = up /\ thrown' = thrown /\ value' = value
        /\ stack' = Tail(stack) /\ stack # <<>>
    BY <1>3 DEF Emitted, AttributeChanged, Doing
  <2>2. Ended'
    BY <2>1 DEF Ended
  <2>3. ASSUME ~thrown', NEW p \in Plugins
        PROVE  \/ nick'[p] = value'[p]
               \/ \E k \in DOMAIN stack' : stack'[k].do = "announce" /\ stack'[k].comp = p
    <3>1. NickOrWill
      BY <1>0, <2>1, <2>3
    <3>2. CASE nick[p] = value[p]
      BY <1>3, <1>t, <2>1, <3>2 DEF Emitted, AttributeChanged
    <3>3. CASE AttributeChanged /\ Head(stack).comp = p
      BY <1>t, <2>1, <3>3 DEF AttributeChanged
    <3>4. ASSUME NEW k \in DOMAIN stack, stack[k].do = "announce", stack[k].comp = p,
                 ~(AttributeChanged /\ Head(stack).comp = p)
          PROVE  \E m \in DOMAIN stack' : stack'[m].do = "announce" /\ stack'[m].comp = p
      <4>1. Head(stack) = stack[1]
        BY <1>t, <2>1, Popped
      <4>2. k # 1
        BY <1>3, <3>4, <4>1 DEF Emitted, Doing
      <4>3. PICK m \in DOMAIN Tail(stack) : Tail(stack)[m] = stack[k]
        BY <1>t, <2>1, <4>2, StaysUnder
      <4> QED BY <2>1, <3>4, <4>3
    <3> QED BY <3>1, <3>2, <3>3, <3>4 DEF NickOrWill
  <2> QED BY <2>2, <2>3 DEF NickOrWill
<1>4. ASSUME NEW r, NEW frames, Event(r, frames), UNCHANGED value
      PROVE  Ended' /\ (~thrown' => NickOrWill')
  <2>1. up /\ up' = up /\ thrown' = thrown /\ nick' = nick /\ stack = <<>>
    BY <1>4 DEF Event, Rest
  <2>2. DOMAIN <<>> = {}
    OBVIOUS
  <2>3. ~thrown' => \A p \in Plugins : nick'[p] = value'[p]
    BY <1>0, <1>4, <2>1, <2>2 DEF NickOrWill
  <2> QED BY <2>1, <2>3 DEF Ended, NickOrWill
<1>5. ASSUME Restart PROVE Ended' /\ (~thrown' => NickOrWill')
  <2>1. \A p \in Plugins : nick'[p] = value'[p]
    BY <1>5, <1>t DEF Restart, AtStart
  <2> QED BY <1>5, <2>1 DEF Restart, Ended, NickOrWill
<1>6. ASSUME UNCHANGED bvars PROVE Ended' /\ (~thrown' => NickOrWill')
  BY <1>0, <1>6 DEF bvars, Ended, NickOrWill
<1> QED BY <1>1, <1>2, <1>3, <1>4, <1>5, <1>6 DEF Next, Change, Online, Offline, Message

THEOREM BusInductive == Spec => []NickInv
  BY NickInit, NickStep, PTL DEF Spec

\* What a run may hold: the values that the components can have, on a stack of frames.
THEOREM BusTypes == Spec => []TypeOK
<1>1. NickInv => TypeOK
  BY DEF NickInv
<1> QED BY <1>1, BusInductive, PTL

\* When nothing is left to do, the nick of a plugin says what its attribute is: each
\* setAttribute is followed by an attributeChanged, which writes the value of now, even
\* when a cycle set the attribute again meanwhile.
THEOREM NicksAreValues == Spec => []NickIsValue
<1>1. NickInv => NickIsValue
  <2> SUFFICES ASSUME NickInv, Rest, ~thrown, NEW p \in Plugins PROVE nick[p] = value[p]
    BY DEF NickIsValue
  <2>1. stack = <<>> /\ NickOrWill
    BY DEF Rest, NickInv
  <2>2. DOMAIN <<>> = {}
    OBVIOUS
  <2> QED BY <2>1, <2>2 DEF NickOrWill
<1> QED BY <1>1, BusInductive, PTL

-----------------------------------------------------------------------------
(* Ranks                                                                   *)

LEMMA RankType ==
  ASSUME NEW r \in Ranks, NEW c \in Components
  PROVE  /\ Rank(r, c) \in Nat /\ Rank(r, c) <= Cardinality(Plugins)
         /\ c \in Plugins => 1 <= Rank(r, c) /\ c \notin Hardware
         /\ c \in Hardware => Rank(r, c) = 0
<1>1. Cardinality(Plugins) \in Nat
  BY BusAssumption, FS_CardinalityType DEF BusAssumption
<1>2. CASE c \in Plugins
  <2>1. r[c] \in 1 .. Cardinality(Plugins)
    BY <1>2 DEF Ranks
  <2>2. c \notin Hardware
    BY <1>2, BusAssumption DEF BusAssumption
  <2> QED BY <1>1, <1>2, <2>1, <2>2 DEF Rank
<1>3. CASE c \notin Plugins
  BY <1>1, <1>3 DEF Rank
<1> QED BY <1>2, <1>3

LEMMA Threes ==
  ASSUME NEW x \in Nat
  PROVE  /\ 3 * x \in Nat
         /\ \A y \in Nat : x < y => 3 * x + 3 <= 3 * y
         /\ \A y \in Nat : x <= y => 3 * x <= 3 * y
  OBVIOUS

LEMMA RoomType ==
  ASSUME NEW r \in Ranks, NEW f \in Frame
  PROVE  /\ Room(r, f) \in Nat /\ Room(r, f) <= 3 * Cardinality(Plugins) + 2
         /\ f.comp \in Hardware \/ f.do = "emit" => Room(r, f) = 3 * Rank(r, f.comp) + 2
         /\ ~(f.comp \in Hardware \/ f.do = "emit") => Room(r, f) = 3 * Rank(r, f.comp) + 1
         /\ 2 <= Room(r, f)
<1>1. f.comp \in Components
  BY DEF Frame
<1>2. Rank(r, f.comp) \in Nat /\ Rank(r, f.comp) <= Cardinality(Plugins)
  BY <1>1, RankType
<1>3. Cardinality(Plugins) \in Nat
  BY BusAssumption, FS_CardinalityType DEF BusAssumption
<1> DEFINE x == 3 * Rank(r, f.comp)
<1>4. x \in Nat /\ x <= 3 * Cardinality(Plugins)
  BY <1>2, <1>3, Threes
<1>5. 3 * Cardinality(Plugins) \in Nat
  BY <1>3, Threes
<1>6. ~(f.comp \in Hardware) => 1 <= x
  <2>1. ASSUME f.comp \notin Hardware PROVE 1 <= Rank(r, f.comp)
    BY <1>1, <2>1, RankType DEF Components
  <2>2. \A y \in Nat : 1 <= y => 1 <= 3 * y
    OBVIOUS
  <2> QED BY <1>2, <2>1, <2>2
<1>7. Room(r, f) = x + (IF f.comp \in Hardware \/ f.do = "emit" THEN 2 ELSE 1)
  BY DEF Room
<1> HIDE DEF x
<1>8. CASE f.comp \in Hardware \/ f.do = "emit"
  <2>1. Room(r, f) = x + 2
    BY <1>7, <1>8
  <2> QED BY <1>4, <1>5, <1>8, <2>1 DEF x
<1>9. CASE ~(f.comp \in Hardware \/ f.do = "emit")
  <2>1. Room(r, f) = x + 1
    BY <1>7, <1>9
  <2> QED BY <1>4, <1>5, <1>6, <1>9, <2>1 DEF x
<1> QED BY <1>8, <1>9

\* A link leads where there is room for two frames more.
LEMMA RoomUp ==
  ASSUME NEW r \in Ranks, NEW f \in Frame, NEW g \in Frame,
         f.do = "emit", g.do = "set", g.comp \in Plugins, Rank(r, f.comp) < Rank(r, g.comp)
  PROVE  Room(r, f) + 2 <= Room(r, g)
<1>1. /\ f.comp \in Components /\ g.comp \in Components /\ g.comp \notin Hardware
      /\ Rank(r, f.comp) \in Nat /\ Rank(r, g.comp) \in Nat
  BY RankType DEF Frame, Components
<1> DEFINE x == 3 * Rank(r, f.comp)
           y == 3 * Rank(r, g.comp)
<1>2. x \in Nat /\ y \in Nat /\ x + 3 <= y
  BY <1>1, Threes
<1>3. Room(r, f) = x + 2 /\ Room(r, g) = y + 1
  BY <1>1, RoomType
<1> HIDE DEF x, y
<1> QED BY <1>2, <1>3

\* The event of an attribute that is set has the room it needs.
LEMMA RoomSet ==
  ASSUME NEW r \in Ranks, NEW f \in Frame, NEW g \in Frame, f.do = "set", f.comp = g.comp
  PROVE  /\ g.do = "emit" => Room(r, f) + (IF f.comp \in Plugins THEN 1 ELSE 0) <= Room(r, g)
         /\ g.do = "announce" => Room(r, f) = Room(r, g)
<1>1. /\ f.comp \in Components /\ Rank(r, f.comp) \in Nat
      /\ f.comp \in Plugins \/ f.comp \in Hardware
      /\ f.comp \in Plugins => f.comp \notin Hardware
  BY RankType DEF Frame, Components
<1> DEFINE x == 3 * Rank(r, f.comp)
<1>2. x \in Nat
  BY <1>1, Threes
<1>3. /\ f.comp \in Hardware => Room(r, f) = x + 2 /\ Room(r, g) = x + 2
      /\ f.comp \notin Hardware => Room(r, f) = x + 1
      /\ g.do = "emit" => Room(r, g) = x + 2
      /\ f.comp \notin Hardware /\ g.do = "announce" => Room(r, g) = x + 1
  BY RoomType
<1> HIDE DEF x
<1> QED BY <1>1, <1>2, <1>3

LEMMA PopKeeps ==
  ASSUME NEW s \in Seq(Frame), s # <<>>, NEW r
  PROVE  /\ Nested(s, r) => Nested(Tail(s), r)
         /\ Shallow(s, r) => Shallow(Tail(s), r)
<1>1. /\ Tail(s) \in Seq(Frame) /\ Len(Tail(s)) = Len(s) - 1 /\ Len(s) \in Nat
      /\ \A k \in DOMAIN Tail(s) : k + 1 \in DOMAIN s /\ Tail(s)[k] = s[k + 1]
      /\ \A k \in DOMAIN Tail(s) : k \in Nat
  BY Popped
<1>2. ASSUME Nested(s, r) PROVE Nested(Tail(s), r)
  BY <1>1, <1>2 DEF Nested
<1>3. ASSUME Shallow(s, r), NEW k \in DOMAIN Tail(s)
      PROVE  Len(Tail(s)) - k + 1 <= Room(r, Tail(s)[k])
  <2>1. Len(s) - (k + 1) + 1 <= Room(r, Tail(s)[k])
    BY <1>1, <1>3 DEF Shallow
  <2>2. Len(s) - (k + 1) + 1 = Len(Tail(s)) - k + 1
    BY <1>1
  <2> QED BY <2>1, <2>2
<1> QED BY <1>2, <1>3 DEF Shallow

LEMMA PushKeeps ==
  ASSUME NEW e \in Seq(Frame), NEW s \in Seq(Frame), NEW t, t = e \o s, NEW r,
         Nested(s, r), Shallow(s, r),
         \A k \in DOMAIN e : Carries(e[k]) => k = 1,
         \A i \in DOMAIN e, k \in DOMAIN s :
           Carries(s[k]) /\ e[i].do # "announce" => Rank(r, s[k].comp) < Rank(r, e[i].comp),
         \A k \in DOMAIN e : Len(e) + Len(s) - k + 1 <= Room(r, e[k])
  PROVE  Nested(t, r) /\ Shallow(t, r)
<1>1. /\ Len(t) = Len(e) + Len(s)
      /\ \A k \in DOMAIN t :
           \/ k \in DOMAIN e /\ t[k] = e[k] /\ k <= Len(e)
           \/ k - Len(e) \in DOMAIN s /\ t[k] = s[k - Len(e)] /\ Len(e) < k
  BY Pushed
<1>2. /\ Len(e) \in Nat /\ Len(s) \in Nat
      /\ DOMAIN e = 1 .. Len(e) /\ DOMAIN s = 1 .. Len(s) /\ DOMAIN t \subseteq Nat
  <2>1. t \in Seq(Frame)
    BY Pushed
  <2> QED BY <2>1
<1>3. ASSUME NEW i \in DOMAIN t, NEW k \in DOMAIN t, i < k, Carries(t[k]), t[i].do # "announce"
      PROVE  Rank(r, t[k].comp) < Rank(r, t[i].comp)
  <2>1. k \notin DOMAIN e \/ t[k] # e[k]
    BY <1>2, <1>3
  <2>2. k - Len(e) \in DOMAIN s /\ t[k] = s[k - Len(e)]
    BY <1>1, <2>1
  <2>3. CASE i \in DOMAIN e /\ t[i] = e[i]
    BY <1>3, <2>2, <2>3
  <2>4. CASE i - Len(e) \in DOMAIN s /\ t[i] = s[i - Len(e)]
    <3>1. i - Len(e) < k - Len(e)
      BY <1>2, <1>3
    <3> QED BY <1>3, <2>2, <2>4, <3>1 DEF Nested
  <2> QED BY <1>1, <2>3, <2>4
<1>4. ASSUME NEW k \in DOMAIN t PROVE Len(t) - k + 1 <= Room(r, t[k])
  <2>1. CASE k \in DOMAIN e /\ t[k] = e[k]
    BY <1>1, <2>1
  <2>2. CASE k - Len(e) \in DOMAIN s /\ t[k] = s[k - Len(e)]
    <3>1. Len(s) - (k - Len(e)) + 1 <= Room(r, t[k])
      BY <2>2 DEF Shallow
    <3>2. Len(s) - (k - Len(e)) + 1 = Len(t) - k + 1
      BY <1>1, <1>2
    <3> QED BY <3>1, <3>2
  <2> QED BY <1>1, <2>1, <2>2
<1> QED BY <1>3, <1>4 DEF Nested, Shallow

-----------------------------------------------------------------------------
(* Graphs without a cycle                                                  *)

\* The frames of an event that begins.
LEMMA GraphBegins ==
  ASSUME NEW r \in Ranks, NEW e \in Seq(Frame), Len(e) <= 2, \A k \in DOMAIN e : ~Carries(e[k])
  PROVE  Nested(e, r) /\ Shallow(e, r)
<1>1. Nested(e, r)
  BY DEF Nested
<1>2. ASSUME NEW k \in DOMAIN e PROVE Len(e) - k + 1 <= Room(r, e[k])
  <2>1. k \in Nat /\ 1 <= k /\ e[k] \in Frame /\ Len(e) \in Nat
    OBVIOUS
  <2>2. Room(r, e[k]) \in Nat /\ 2 <= Room(r, e[k])
    BY <2>1, RoomType
  <2> QED BY <2>1, <2>2
<1> QED BY <1>1, <1>2 DEF Shallow

\* An attribute is set: what is left to do may not carry its old value.
LEMMA GraphSet ==
  ASSUME TypeOK, NEW r \in Ranks, Graph(r), Doing("set"),
         NEW c, c = Head(stack).comp, NEW v, v = Head(stack).value,
         value' = [value EXCEPT ![c] = v], UNCHANGED <<links, told>>,
         NEW e, e = <<Emit(c, v)>> \o (IF c \in Plugins THEN <<Announce(c, v)>> ELSE <<>>),
         NEW t, t = e \o Tail(stack)
  PROVE  /\ Nested(t, r) /\ Shallow(t, r)
         /\ stack' = t => Fresh' /\ ToldOrWill'
<1>1. /\ stack \in Seq(Frame) /\ stack # <<>> /\ Head(stack) = stack[1] /\ 1 \in DOMAIN stack
      /\ Head(stack) \in Frame /\ Head(stack).do = "set"
      /\ c \in Components /\ v \in Values
  BY TopType
<1>2. /\ Tail(stack) \in Seq(Frame) /\ Len(Tail(stack)) = Len(stack) - 1 /\ Len(stack) \in Nat
      /\ \A k \in DOMAIN Tail(stack) :
           k + 1 \in DOMAIN stack /\ Tail(stack)[k] = stack[k + 1] /\ 1 < k + 1
      /\ \A k \in DOMAIN stack :
           k = 1 \/ (k - 1 \in DOMAIN Tail(stack) /\ Tail(stack)[k - 1] = stack[k])
  <2>1. \A k \in DOMAIN Tail(stack) : k \in Nat /\ 1 <= k
    BY <1>1, Popped
  <2> QED BY <1>1, <2>1, Popped
<1>3. /\ e \in Seq(Frame) /\ Len(e) <= 2 /\ (c \notin Plugins => Len(e) = 1)
      /\ 1 \in DOMAIN e /\ e[1] = Emit(c, v)
      /\ \A k \in DOMAIN e : k = 1 \/ (k = 2 /\ e[k] = Announce(c, v))
  BY ONLY <1>1, SetFrames,
          e = <<Emit(c, v)>> \o (IF c \in Plugins THEN <<Announce(c, v)>> ELSE <<>>)
<1>4. /\ Emit(c, v) \in Frame /\ Emit(c, v).do = "emit" /\ Emit(c, v).comp = c
      /\ Emit(c, v).value = v /\ Emit(c, v).at = 0
      /\ Announce(c, v) \in Frame /\ Announce(c, v).do = "announce" /\ Announce(c, v).comp = c
  BY <1>1, FramesType
<1>5. \A k \in DOMAIN Tail(stack) :
        Carries(Tail(stack)[k]) => Rank(r, Tail(stack)[k].comp) < Rank(r, c)
  BY <1>1, <1>2 DEF Graph, Nested
<1>6. \A k \in DOMAIN e : e[k].comp = c /\ (Carries(e[k]) => k = 1)
  BY <1>3, <1>4 DEF Carries
<1>7. ASSUME NEW k \in DOMAIN e PROVE Len(e) + Len(Tail(stack)) - k + 1 <= Room(r, e[k])
  <2>1. Len(stack) - 1 + 1 <= Room(r, stack[1])
    BY <1>1 DEF Graph, Shallow
  <2>2. Room(r, stack[1]) \in Nat /\ Room(r, e[k]) \in Nat /\ Len(e) \in Nat
    BY <1>1, <1>3, RoomType
  <2>3. CASE k = 1
    <3>1. Room(r, stack[1]) + (IF c \in Plugins THEN 1 ELSE 0) <= Room(r, e[k])
      BY <1>1, <1>3, <1>4, <2>3, RoomSet
    <3>2. CASE c \in Plugins
      BY <1>2, <1>3, <2>1, <2>2, <2>3, <3>1, <3>2
    <3>3. CASE c \notin Plugins
      BY <1>2, <1>3, <2>1, <2>2, <2>3, <3>1, <3>3
    <3> QED BY <3>2, <3>3
  <2>4. CASE k = 2 /\ e[k] = Announce(c, v)
    <3>1. Room(r, stack[1]) = Room(r, e[k])
      BY <1>1, <1>4, <2>4, RoomSet
    <3>2. Len(Tail(stack)) = Len(stack) - 1 /\ Len(stack) \in Nat /\ Len(e) \in Nat /\ Len(e) <= 2
      BY <1>2, <1>3, <2>2
    <3>3. Len(e) + Len(Tail(stack)) - 2 + 1 <= Len(stack) - 1 + 1
      BY ONLY <3>2
    <3> QED BY ONLY <2>1, <2>2, <2>4, <3>1, <3>2, <3>3
  <2> QED BY <1>3, <2>3, <2>4
<1>8. Nested(Tail(stack), r) /\ Shallow(Tail(stack), r)
  BY <1>1, PopKeeps DEF Graph
<1>9. Nested(t, r) /\ Shallow(t, r)
  <2>1. \A k \in DOMAIN e : Carries(e[k]) => k = 1
    BY <1>6
  <2>2. \A i \in DOMAIN e, k \in DOMAIN Tail(stack) :
          Carries(Tail(stack)[k]) /\ e[i].do # "announce" =>
            Rank(r, Tail(stack)[k].comp) < Rank(r, e[i].comp)
    BY <1>5, <1>6
  <2>3. e \in Seq(Frame) /\ Tail(stack) \in Seq(Frame) /\ t = e \o Tail(stack)
    BY <1>2, <1>3
  <2> QED BY ONLY <1>7, <1>8, <2>1, <2>2, <2>3, PushKeeps, Zenon
<1>10. /\ \A k \in DOMAIN e : k \in DOMAIN t /\ t[k] = e[k]
       /\ \A k \in DOMAIN Tail(stack) :
            k + Len(e) \in DOMAIN t /\ t[k + Len(e)] = Tail(stack)[k]
       /\ \A k \in DOMAIN t :
            \/ k \in DOMAIN e /\ t[k] = e[k]
            \/ k - Len(e) \in DOMAIN Tail(stack) /\ t[k] = Tail(stack)[k - Len(e)]
  BY ONLY <1>2, <1>3, t = e \o Tail(stack), Pushed
<1>11. value'[c] = v /\ \A d \in Components : d # c => value'[d] = value[d]
  BY <1>1 DEF TypeOK
<1>12. ASSUME stack' = t, NEW k \in DOMAIN stack', Carries(stack'[k])
       PROVE  stack'[k].value = value'[stack'[k].comp]
  <2>1. CASE k \in DOMAIN e /\ t[k] = e[k]
    <3>1. e[k] = Emit(c, v) /\ stack'[k] = e[k]
      BY <1>3, <1>6, <1>12, <2>1
    <3>2. stack'[k].comp = c /\ stack'[k].value = v
      BY <1>4, <3>1
    <3> QED BY <1>11, <3>2
  <2>2. ASSUME NEW m \in DOMAIN Tail(stack), t[k] = Tail(stack)[m]
        PROVE  stack'[k].value = value'[stack'[k].comp]
    <3>1. Rank(r, t[k].comp) < Rank(r, c) /\ Rank(r, c) \in Nat
      BY <1>1, <1>5, <1>12, <2>2, RankType
    <3>2. ASSUME t[k].comp = c PROVE FALSE
      <4>1. Rank(r, c) < Rank(r, c)
        BY <3>1, <3>2
      <4> QED BY <3>1, <4>1
    <3>3. t[k] = stack[m + 1] /\ m + 1 \in DOMAIN stack
      BY <1>2, <2>2
    <3>5. \A i \in DOMAIN stack : stack[i] \in Frame
      BY <1>1
    <3>4. t[k].value = value[t[k].comp] /\ t[k].comp \in Components
      BY <1>12, <3>3, <3>5 DEF Graph, Fresh, Frame
    <3> QED BY <1>11, <1>12, <3>2, <3>4
  <2>3. \/ k \in DOMAIN e /\ t[k] = e[k]
        \/ k - Len(e) \in DOMAIN Tail(stack) /\ t[k] = Tail(stack)[k - Len(e)]
    BY <1>10, <1>12
  <2> QED BY <2>1, <2>2, <2>3
<1>13. ASSUME stack' = t, NEW j \in DOMAIN links
       PROVE  LET d == links[j].source IN
              \/ told[j] = value'[d] \/ (told[j] = Current /\ value'[d] = AtStart[d])
              \/ \E k \in DOMAIN stack' :
                   stack'[k].do = "emit" /\ stack'[k].comp = d /\ stack'[k].at < j
  <2> DEFINE d == links[j].source
  <2>1. j \in Nat /\ 0 < j /\ d \in Components
    BY <1>13, LinkType DEF TypeOK
  <2>2. CASE d = c
    <3>1. 1 \in DOMAIN t /\ t[1] = Emit(c, v)
      BY <1>3, <1>10
    <3> QED BY <1>4, <1>13, <2>1, <2>2, <3>1
  <2>3. CASE d # c
    <3>1. \/ told[j] = value[d] \/ (told[j] = Current /\ value[d] = AtStart[d])
          \/ \E k \in DOMAIN stack :
               stack[k].do = "emit" /\ stack[k].comp = d /\ stack[k].at < j
      BY <1>13 DEF Graph, ToldOrWill
    <3>2. ASSUME NEW k \in DOMAIN stack, stack[k].do = "emit", stack[k].comp = d, stack[k].at < j
          PROVE  \E m \in DOMAIN stack' :
                   stack'[m].do = "emit" /\ stack'[m].comp = d /\ stack'[m].at < j
      <4>1. k - 1 \in DOMAIN Tail(stack) /\ Tail(stack)[k - 1] = stack[k]
        BY <1>1, <1>2, <3>2
      <4>2. (k - 1) + Len(e) \in DOMAIN t /\ t[(k - 1) + Len(e)] = stack[k]
        BY <1>10, <4>1
      <4> QED BY <1>13, <3>2, <4>2
    <3> QED BY <1>11, <2>1, <2>3, <3>1, <3>2
  <2> QED BY <2>2, <2>3
<1>14. ASSUME stack' = t PROVE Fresh'
  BY <1>12, <1>14 DEF Fresh
<1>15. ASSUME stack' = t PROVE ToldOrWill'
  <2>1. AtStart' = AtStart /\ links' = links /\ told' = told
    BY DEF AtStart
  <2>2. \A j \in DOMAIN links :
          LET d == links[j].source IN
          \/ told[j] = value'[d] \/ (told[j] = Current /\ value'[d] = AtStart[d])
          \/ \E k \in DOMAIN stack' :
               stack'[k].do = "emit" /\ stack'[k].comp = d /\ stack'[k].at < j
    BY ONLY <1>13, <1>15
  <2> QED BY ONLY <2>1, <2>2 DEF ToldOrWill
<1> QED BY <1>9, <1>14, <1>15

\* A link is run: what it does comes above its event, at a higher rank.
LEMMA GraphRun ==
  ASSUME TypeOK, NEW r \in Ranks, Ranked(r), Graph(r), Doing("emit"),
         UNCHANGED <<links, value>>,
         NEW j, NEW v, NEW g, NEW rest, NEW e, Runs(j, v, g, rest, e),
         NEW t, t = e \o rest
  PROVE  /\ Nested(rest, r) /\ Shallow(rest, r)
         /\ links[j].destination \in Plugins => Nested(t, r) /\ Shallow(t, r)
         /\ stack' = rest \/ (links[j].destination \in Plugins /\ stack' = t) =>
              Fresh' /\ ToldOrWill'
<1> DEFINE c == Head(stack).comp
           p == links[j].destination
<1>1. /\ stack \in Seq(Frame) /\ stack # <<>> /\ Head(stack) = stack[1] /\ 1 \in DOMAIN stack
      /\ Head(stack) \in Frame /\ stack[1].do = "emit" /\ c \in Components
      /\ Len(stack) \in Nat /\ \A k \in DOMAIN stack : k \in Nat /\ 1 <= k /\ stack[k] \in Frame
  BY TopType
<1>2. /\ j \in DOMAIN links /\ j \in Nat /\ v \in Values /\ links[j].source = c
      /\ g \in Frame /\ g.do = "emit" /\ g.comp = c /\ g.value = stack[1].value /\ g.at = j
      /\ rest \in Seq(Frame) /\ Len(rest) = Len(stack) /\ DOMAIN rest = DOMAIN stack
      /\ rest[1] = g /\ \A k \in DOMAIN stack : k # 1 => rest[k] = stack[k]
      /\ p \in Plugins =>
           /\ e \in Seq(Frame) /\ Len(e) <= 2
           /\ \A k \in DOMAIN e : e[k].do = "set" /\ e[k].comp = p
  BY <1>1, RunsType
<1>3. /\ \A i \in DOMAIN links : Head(stack).at < i /\ links[i].source = c => j <= i
      /\ v = (IF Head(stack).value = Current THEN value[c] ELSE Head(stack).value)
      /\ told' = [told EXCEPT ![j] = v]
  BY DEF Runs
<1>4. \A k \in DOMAIN stack : /\ rest[k].do = stack[k].do /\ rest[k].comp = stack[k].comp
                              /\ rest[k].value = stack[k].value
  BY <1>1, <1>2
<1>5. \A k \in DOMAIN stack : /\ Carries(rest[k]) <=> Carries(stack[k])
                              /\ Room(r, rest[k]) = Room(r, stack[k])
  BY <1>4 DEF Carries, Room
<1>6. Nested(rest, r)
  BY <1>2, <1>4, <1>5 DEF Graph, Nested
<1>7. Shallow(rest, r)
  BY <1>2, <1>5 DEF Graph, Shallow
<1>8. ASSUME p \in Plugins PROVE Nested(t, r) /\ Shallow(t, r)
  <2>1. e \in Seq(Frame) /\ rest \in Seq(Frame) /\ t = e \o rest
    BY <1>2, <1>8
  <2>2. \A k \in DOMAIN e : e[k].do = "set" /\ e[k].comp = p /\ e[k] \in Frame
    BY <1>2, <1>8, <2>1
  <2>3. \A k \in DOMAIN e : Carries(e[k]) => k = 1
    BY <2>2 DEF Carries
  <2>4. Rank(r, c) \in Nat /\ Rank(r, p) \in Nat /\ Rank(r, c) < Rank(r, p)
    <3>1. p \in Components
      BY <1>8 DEF Components
    <3>2. Rank(r, c) \in Nat /\ Rank(r, p) \in Nat /\ 1 <= Rank(r, p)
      BY <1>1, <1>8, <3>1, RankType
    <3>3. CASE c \in Plugins
      <4>1. r[c] < r[p]
        BY <1>2, <1>8, <3>3 DEF Ranked
      <4> QED BY <1>8, <3>2, <3>3, <4>1 DEF Rank
    <3>4. CASE c \notin Plugins
      <4>1. Rank(r, c) = 0
        BY <3>4 DEF Rank
      <4> QED BY <3>2, <4>1
    <3> QED BY <3>3, <3>4
  <2>5. \A i \in DOMAIN e, k \in DOMAIN rest :
          Carries(rest[k]) /\ e[i].do # "announce" => Rank(r, rest[k].comp) < Rank(r, e[i].comp)
    <3> SUFFICES ASSUME NEW i \in DOMAIN e, NEW k \in DOMAIN rest, Carries(rest[k])
                 PROVE  Rank(r, rest[k].comp) < Rank(r, p)
      BY <2>2
    <3>1. CASE k = 1
      BY <1>2, <2>4, <3>1
    <3>2. CASE k # 1
      <4>1. 1 < k /\ 1 \in DOMAIN rest /\ rest[1].do # "announce" /\ rest[1].comp = c
        BY <1>1, <1>2, <3>2
      <4>2. Rank(r, rest[k].comp) < Rank(r, c)
        BY <1>6, <4>1 DEF Nested
      <4>3. Rank(r, rest[k].comp) \in Nat
        BY <1>1, <1>2, <1>4, RankType DEF Frame
      <4> QED BY <2>4, <4>2, <4>3
    <3> QED BY <3>1, <3>2
  <2>6. ASSUME NEW k \in DOMAIN e PROVE Len(e) + Len(rest) - k + 1 <= Room(r, e[k])
    <3>1. Len(rest) - 1 + 1 <= Room(r, rest[1])
      BY <1>1, <1>2, <1>7 DEF Shallow
    <3>2. Room(r, g) + 2 <= Room(r, e[k])
      BY <1>2, <1>8, <2>2, <2>4, RoomUp
    <3>3. Room(r, g) \in Nat /\ Room(r, e[k]) \in Nat
      BY <1>2, <2>2, RoomType
    <3>4. Len(e) \in Nat /\ Len(e) <= 2 /\ Len(rest) \in Nat /\ k \in Nat /\ 1 <= k
      BY <1>1, <1>2, <1>8, <2>1
    <3> HIDE DEF p
    <3> QED BY <1>2, <3>1, <3>2, <3>3, <3>4
  <2> QED BY ONLY <1>6, <1>7, <2>1, <2>3, <2>5, <2>6, PushKeeps, Zenon
\* What is left to do under what the link adds.
<1>9. stack' = rest \/ (p \in Plugins /\ stack' = t) =>
        /\ \A k \in DOMAIN rest : \E m \in DOMAIN stack' : stack'[m] = rest[k]
        /\ \A m \in DOMAIN stack' :
             \/ \E k \in DOMAIN rest : stack'[m] = rest[k]
             \/ ~Carries(stack'[m])
  <2>1. CASE stack' = rest
    BY <2>1
  <2>2. CASE p \in Plugins /\ stack' = t
    <3>1. e \in Seq(Frame) /\ rest \in Seq(Frame) /\ t = e \o rest
      BY <1>2, <2>2
    <3>2. /\ \A k \in DOMAIN rest : k + Len(e) \in DOMAIN t /\ t[k + Len(e)] = rest[k]
          /\ \A m \in DOMAIN t :
               \/ m \in DOMAIN e /\ t[m] = e[m]
               \/ m - Len(e) \in DOMAIN rest /\ t[m] = rest[m - Len(e)]
      BY ONLY <3>1, Pushed
    <3>3. \A m \in DOMAIN e : ~Carries(e[m])
      BY <1>2, <2>2 DEF Carries
    <3>4. \A k \in DOMAIN rest : \E m \in DOMAIN stack' : stack'[m] = rest[k]
      BY <2>2, <3>2
    <3>5. \A m \in DOMAIN stack' :
             \/ \E k \in DOMAIN rest : stack'[m] = rest[k]
             \/ ~Carries(stack'[m])
      BY <2>2, <3>2, <3>3
    <3> QED BY <3>4, <3>5
  <2> QED BY <2>1, <2>2
<1>10. ASSUME stack' = rest \/ (p \in Plugins /\ stack' = t) PROVE Fresh'
  <2> SUFFICES ASSUME NEW m \in DOMAIN stack', Carries(stack'[m])
               PROVE  stack'[m].value = value[stack'[m].comp]
    BY DEF Fresh
  <2>1. PICK k \in DOMAIN rest : stack'[m] = rest[k]
    BY <1>9, <1>10
  <2>2. k \in DOMAIN stack /\ Carries(stack[k])
    BY <1>2, <1>5, <2>1
  <2> QED BY <1>4, <2>1, <2>2 DEF Graph, Fresh
<1>11. v = value[c]
  <2>1. CASE Head(stack).value = Current
    BY <1>3, <2>1
  <2>2. CASE Head(stack).value # Current
    BY <1>1, <1>3, <2>2 DEF Graph, Fresh, Carries
  <2> QED BY <2>1, <2>2
<1>12. ASSUME stack' = rest \/ (p \in Plugins /\ stack' = t), NEW i \in DOMAIN links
       PROVE  LET d == links[i].source IN
              \/ told'[i] = value[d] \/ (told'[i] = Current /\ value[d] = AtStart[d])
              \/ \E k \in DOMAIN stack' :
                   stack'[k].do = "emit" /\ stack'[k].comp = d /\ stack'[k].at < i
  <2> DEFINE d == links[i].source
  <2>1. /\ i \in Nat /\ DOMAIN told = DOMAIN links
        /\ told'[j] = v /\ (i # j => told'[i] = told[i])
    BY <1>2, <1>3, <1>12, LinkType DEF TypeOK
  <2>2. CASE i = j
    BY <1>2, <1>11, <2>1, <2>2
  <2>3. CASE i # j
    <3>1. \/ told[i] = value[d] \/ (told[i] = Current /\ value[d] = AtStart[d])
          \/ \E k \in DOMAIN stack :
               stack[k].do = "emit" /\ stack[k].comp = d /\ stack[k].at < i
      BY DEF Graph, ToldOrWill
    <3>2. ASSUME NEW k \in DOMAIN stack, stack[k].do = "emit", stack[k].comp = d, stack[k].at < i
          PROVE  \E m \in DOMAIN stack' :
                   stack'[m].do = "emit" /\ stack'[m].comp = d /\ stack'[m].at < i
      <4>1. rest[k].do = "emit" /\ rest[k].comp = d /\ rest[k].at < i
        <5>1. CASE k = 1
          <6>1. d = c /\ Head(stack).at < i
            BY <1>1, <3>2, <5>1
          <6>2. j < i
            BY <1>2, <1>3, <2>1, <2>3, <6>1
          <6> QED BY <1>2, <5>1, <6>1, <6>2
        <5>2. CASE k # 1
          BY <1>2, <3>2, <5>2
        <5> QED BY <5>1, <5>2
      <4>2. PICK m \in DOMAIN stack' : stack'[m] = rest[k]
        BY <1>2, <1>9, <1>12, <3>2
      <4> QED BY <4>1, <4>2
    <3> QED BY <2>1, <2>3, <3>1, <3>2
  <2> QED BY <2>2, <2>3
<1>13. ASSUME stack' = rest \/ (p \in Plugins /\ stack' = t) PROVE ToldOrWill'
  <2>1. AtStart' = AtStart /\ links' = links /\ value' = value
    BY DEF AtStart
  <2>2. \A i \in DOMAIN links :
          LET d == links[i].source IN
          \/ told'[i] = value[d] \/ (told'[i] = Current /\ value[d] = AtStart[d])
          \/ \E k \in DOMAIN stack' :
               stack'[k].do = "emit" /\ stack'[k].comp = d /\ stack'[k].at < i
    BY ONLY <1>12, <1>13
  <2> QED BY ONLY <2>1, <2>2 DEF ToldOrWill
<1> QED BY <1>6, <1>7, <1>8, <1>10, <1>13

\* The top of the stack is done: if it was an event, all its listeners have run.
LEMMA GraphPop ==
  ASSUME TypeOK, NEW r, Graph(r), stack # <<>>, stack' = Tail(stack),
         Head(stack).do = "emit" => Listeners(Head(stack).comp, Head(stack).at) = {},
         UNCHANGED <<links, value, told>>
  PROVE  Graph(r)'
<1>1. /\ stack \in Seq(Frame) /\ Head(stack) = stack[1]
      /\ \A k \in DOMAIN Tail(stack) : k + 1 \in DOMAIN stack /\ Tail(stack)[k] = stack[k + 1]
      /\ \A k \in DOMAIN stack :
           k = 1 \/ (k - 1 \in DOMAIN Tail(stack) /\ Tail(stack)[k - 1] = stack[k])
  BY Popped DEF TypeOK
<1>2. Nested(stack', r) /\ Shallow(stack', r)
  BY <1>1, PopKeeps DEF Graph
<1>3. Fresh'
  BY <1>1 DEF Graph, Fresh
<1>4. ASSUME NEW j \in DOMAIN links
      PROVE  LET d == links[j].source IN
             \/ told[j] = value[d] \/ (told[j] = Current /\ value[d] = AtStart[d])
             \/ \E k \in DOMAIN stack' :
                  stack'[k].do = "emit" /\ stack'[k].comp = d /\ stack'[k].at < j
  <2> DEFINE d == links[j].source
  <2>1. \/ told[j] = value[d] \/ (told[j] = Current /\ value[d] = AtStart[d])
        \/ \E k \in DOMAIN stack :
             stack[k].do = "emit" /\ stack[k].comp = d /\ stack[k].at < j
    BY DEF Graph, ToldOrWill
  <2>2. ASSUME NEW k \in DOMAIN stack, stack[k].do = "emit", stack[k].comp = d, stack[k].at < j
        PROVE  \E m \in DOMAIN stack' :
                 stack'[m].do = "emit" /\ stack'[m].comp = d /\ stack'[m].at < j
    <3>1. k # 1
      BY <1>1, <2>2 DEF Listeners
    <3> QED BY <1>1, <2>2, <3>1
  <2> QED BY <2>1, <2>2
<1>5. ToldOrWill'
  <2>1. AtStart' = AtStart /\ links' = links /\ value' = value /\ told' = told
    BY DEF AtStart
  <2> QED BY ONLY <1>4, <2>1 DEF ToldOrWill
<1> QED BY <1>2, <1>3, <1>5 DEF Graph

\* An event begins, or the process does.
LEMMA GraphNew ==
  ASSUME NEW r \in Ranks, stack' \in Seq(Frame), Len(stack') <= 2,
         \A k \in DOMAIN stack' : ~Carries(stack'[k]), links' = links,
         \A j \in DOMAIN links :
           LET d == links[j].source IN
             told'[j] = value'[d] \/ (told'[j] = Current /\ value'[d] = AtStart[d])
  PROVE  Graph(r)'
<1>1. Nested(stack', r) /\ Shallow(stack', r)
  BY GraphBegins
<1>2. Fresh'
  BY DEF Fresh
<1>3. ToldOrWill'
  <2>1. AtStart' = AtStart
    BY DEF AtStart
  <2> QED BY <2>1 DEF ToldOrWill
<1> QED BY <1>1, <1>2, <1>3 DEF Graph

LEMMA GraphInit == Init => GraphInv
<1> SUFFICES ASSUME Init, NEW r \in Ranks PROVE Graph(r)
  BY DEF GraphInv
<1>1. stack = <<>> /\ DOMAIN <<>> = {} /\ <<>> \in Seq(Frame) /\ Len(<<>>) = 0
  BY DEF Init
<1>2. Nested(stack, r) /\ Shallow(stack, r)
  BY <1>1 DEF Nested, Shallow
<1>3. Fresh
  BY <1>1 DEF Fresh
<1>4. ToldOrWill
  BY DEF Init, ToldOrWill
<1> QED BY <1>2, <1>3, <1>4 DEF Graph

\* The rank orders the stack as long as nothing throws.
LEMMA GraphStep == NickInv /\ GraphInv /\ [Next]_bvars => GraphInv'
<1> SUFFICES ASSUME NickInv, GraphInv, [Next]_bvars, NEW r \in Ranks, Ranked(r)', ~thrown'
             PROVE  Graph(r)'
  BY DEF GraphInv, Ranks
<1>0. /\ TypeOK /\ (~up => stack = <<>>)
      /\ up \in BOOLEAN /\ thrown \in BOOLEAN
      /\ value \in [Components -> Values] /\ DOMAIN told = DOMAIN links
  BY DEF NickInv, TypeOK, Ended
<1>r. ASSUME UNCHANGED links, thrown' = thrown PROVE Ranked(r) /\ Graph(r)
  <2>1. Ranked(r)
    BY <1>r DEF Ranked
  <2> QED BY <1>r, <2>1 DEF GraphInv
<1>1. ASSUME SetAttribute PROVE Graph(r)'
  <2> DEFINE c == Head(stack).comp
             v == Head(stack).value
             e == <<Emit(c, v)>> \o (IF c \in Plugins THEN <<Announce(c, v)>> ELSE <<>>)
             t == e \o Tail(stack)
  <2>1. /\ Doing("set") /\ value' = [value EXCEPT ![c] = v] /\ Continue(e, Tail(stack))
        /\ UNCHANGED <<links, told>>
    BY <1>1 DEF SetAttribute
  <2>2. stack' = t /\ thrown' = thrown
    <3> HIDE DEF e
    <3> QED BY <1>0, <2>1, ContinueIs
  <2>3. Graph(r)
    BY <1>r, <2>1, <2>2
  <2>4. Nested(t, r) /\ Shallow(t, r) /\ (stack' = t => Fresh' /\ ToldOrWill')
    BY ONLY <1>0, <2>1, <2>3, GraphSet, r \in Ranks
  <2> QED BY <2>2, <2>4 DEF Graph
<1>2. ASSUME RunLink PROVE Graph(r)'
  <2>1. Doing("emit") /\ UNCHANGED <<links, value>>
    BY <1>2 DEF RunLink
  <2>2. PICK j, v, g, rest, e : Runs(j, v, g, rest, e)
    BY <1>0, <1>2, RunLinkIs
  <2> DEFINE t == e \o rest
  <2>3. /\ stack' = rest \/ (links[j].destination \in Plugins /\ stack' = t)
        /\ thrown' = thrown
    <3>1. \/ stack' = rest /\ UNCHANGED <<thrown, up>>
          \/ links[j].destination \in Plugins /\ Continue(e, rest)
          \/ Throw
      BY <2>2 DEF Runs
    <3> QED BY <1>0, <3>1, ContinueIs DEF Throw
  <2>4. Ranked(r) /\ Graph(r)
    BY <1>r, <2>1, <2>3
  <2>5. /\ Nested(rest, r) /\ Shallow(rest, r)
        /\ links[j].destination \in Plugins => Nested(t, r) /\ Shallow(t, r)
        /\ stack' = rest \/ (links[j].destination \in Plugins /\ stack' = t) =>
              Fresh' /\ ToldOrWill'
    BY ONLY <1>0, <2>1, <2>2, <2>4, GraphRun, r \in Ranks
  <2> QED BY <2>3, <2>5 DEF Graph
<1>3. ASSUME Emitted \/ AttributeChanged PROVE Graph(r)'
  <2>1. /\ UNCHANGED <<links, value, told>> /\ thrown' = thrown
        /\ stack' = Tail(stack) /\ stack # <<>>
        /\ Head(stack).do = "emit" => Listeners(Head(stack).comp, Head(stack).at) = {}
    BY <1>3 DEF Emitted, AttributeChanged, Doing
  <2>2. Graph(r)
    BY <1>r, <2>1
  <2> QED BY <1>0, <2>1, <2>2, GraphPop
<1>4. ASSUME NEW kind, NEW frames, Event(kind, frames), UNCHANGED value, frames \in Seq(Frame),
             Len(frames) <= 2, \A k \in DOMAIN frames : ~Carries(frames[k])
      PROVE  Graph(r)'
  <2>1. stack = <<>> /\ stack' = frames /\ UNCHANGED <<links, told, thrown>>
    BY <1>4 DEF Event, Rest
  <2>2. Graph(r) /\ DOMAIN <<>> = {}
    BY <1>r, <2>1
  <2>3. \A j \in DOMAIN links :
           LET d == links[j].source IN
             told'[j] = value'[d] \/ (told'[j] = Current /\ value'[d] = AtStart[d])
    BY <1>4, <2>1, <2>2 DEF Graph, ToldOrWill
  <2> QED BY <1>4, <2>1, <2>3, GraphNew
<1>5. ASSUME NEW h \in Hardware, NEW v \in Values,
             \/ Event("nick", <<SetTo(h, v)>>)
             \/ Event("nick", <<SetTo(h, v), Emit(h, Current)>>),
             UNCHANGED value
      PROVE  Graph(r)'
  <2>1. /\ SetTo(h, v) \in Frame /\ ~Carries(SetTo(h, v))
        /\ Emit(h, Current) \in Frame /\ ~Carries(Emit(h, Current))
    BY FramesType DEF Components, Carries
  <2>2. ASSUME NEW frames, frames = <<SetTo(h, v)>> \/ frames = <<SetTo(h, v), Emit(h, Current)>>
        PROVE  /\ frames \in Seq(Frame) /\ Len(frames) <= 2
               /\ \A k \in DOMAIN frames : ~Carries(frames[k])
    <3>1. CASE frames = <<SetTo(h, v)>>
      BY <2>1, <3>1, TwoFrames
    <3>2. CASE frames = <<SetTo(h, v), Emit(h, Current)>>
      BY <2>1, <3>2, TwoFrames
    <3> QED BY <2>2, <3>1, <3>2
  <2> QED BY <1>4, <1>5, <2>2
<1>6. ASSUME NEW h \in Hardware, NEW v \in {On, Off}, Change(h, v) \/ Online(h, v)
      PROVE  Graph(r)'
  BY <1>5, <1>6 DEF Change, Online, Values
<1>7. ASSUME NEW h \in Hardware, Offline(h) PROVE Graph(r)'
  BY <1>5, <1>7 DEF Offline, Values
<1>8. ASSUME NEW p \in Plugins, NEW v \in {On, Off}, NEW a, Message(p, a, v) PROVE Graph(r)'
  <2> DEFINE e == Effects(p, a, v)
  <2>1. /\ e \in Seq(Frame) /\ Len(e) <= 2
        /\ \A k \in DOMAIN e : e[k].do = "set"
    BY <1>0, EffectsAre DEF Values
  <2>2. Event("message", e) /\ UNCHANGED value
    BY <1>8 DEF Message
  <2> HIDE DEF e
  <2>3. \A k \in DOMAIN e : ~Carries(e[k])
    BY <2>1 DEF Carries
  <2> QED BY <1>4, <2>1, <2>2, <2>3
<1>9. ASSUME Restart PROVE Graph(r)'
  <2>1. /\ stack' = <<>> /\ <<>> \in Seq(Frame) /\ Len(<<>>) = 0 /\ DOMAIN <<>> = {}
        /\ links' = links /\ value' = AtStart /\ told' = [j \in DOMAIN links |-> Current]
    BY <1>0, <1>9 DEF Restart
  <2>2. \A j \in DOMAIN links : told'[j] = Current
    BY <2>1
  <2> QED BY <2>1, <2>2, GraphNew
<1>10. ASSUME UNCHANGED bvars PROVE Graph(r)'
  <2>1. Graph(r) /\ AtStart' = AtStart /\ UNCHANGED <<links, value, told, stack>>
    BY <1>r, <1>10 DEF bvars, AtStart
  <2> QED BY <2>1 DEF Graph, Fresh, ToldOrWill
<1> QED BY <1>1, <1>2, <1>3, <1>6, <1>7, <1>8, <1>9, <1>10 DEF Next

\* The order of the stack, of a core that started with any links.
THEOREM GraphInductive == Spec => [](NickInv /\ GraphInv)
<1>1. Init => NickInv /\ GraphInv
  BY NickInit, GraphInit
<1>2. NickInv /\ GraphInv /\ [Next]_bvars => NickInv' /\ GraphInv'
  BY NickStep, GraphStep
<1> QED BY <1>1, <1>2, PTL DEF Spec

\* In a graph without a cycle no link leaves its destination with an old value: when
\* nothing is left to do, the last word of each link is the value of its source.
THEOREM LinksAreTold == Spec => []LinksTold
<1>1. NickInv /\ GraphInv => LinksTold
  <2> SUFFICES ASSUME NickInv, GraphInv, Rest, ~thrown, Acyclic PROVE
                 \A j \in DOMAIN links :
                   LET c == links[j].source IN
                     told[j] = value[c] \/ (told[j] = Current /\ value[c] = AtStart[c])
    BY DEF LinksTold
  <2>1. PICK r \in Ranks : Ranked(r)
    BY DEF Acyclic, Ranks, Ranked
  <2>2. ToldOrWill /\ stack = <<>> /\ DOMAIN <<>> = {}
    BY <2>1 DEF GraphInv, Graph, Rest
  <2> QED BY <2>2 DEF ToldOrWill
<1> QED BY <1>1, GraphInductive, PTL

LEMMA ShallowIsSmall ==
  ASSUME NEW r \in Ranks, NEW s \in Seq(Frame), Shallow(s, r)
  PROVE  Len(s) <= 3 * Cardinality(Plugins) + 2
<1>1. 3 * Cardinality(Plugins) \in Nat
  BY BusAssumption, FS_CardinalityType, Threes DEF BusAssumption
<1>2. CASE s = <<>>
  <2>1. Len(<<>>) = 0
    OBVIOUS
  <2> QED BY <1>1, <1>2, <2>1
<1>3. CASE s # <<>>
  <2>1. 1 \in DOMAIN s /\ s[1] \in Frame /\ Len(s) \in Nat
    BY <1>3
  <2>2. Len(s) - 1 + 1 <= Room(r, s[1])
    BY <2>1 DEF Shallow
  <2>3. Room(r, s[1]) \in Nat /\ Room(r, s[1]) <= 3 * Cardinality(Plugins) + 2
    BY <2>1, RoomType
  <2> QED BY <1>1, <2>1, <2>2, <2>3
<1> QED BY <1>2, <1>3

\* How much is left to do at most, in a graph without a cycle: three frames for each
\* plugin and the two of the event, whatever the number of links.
THEOREM CallsAreFew == Spec => []StackIsSmall
<1>1. NickInv /\ GraphInv => StackIsSmall
  <2> SUFFICES ASSUME NickInv, GraphInv, Acyclic, ~thrown
               PROVE  Len(stack) <= 3 * Cardinality(Plugins) + 2
    BY DEF StackIsSmall
  <2>1. PICK r \in Ranks : Ranked(r)
    BY DEF Acyclic, Ranks, Ranked
  <2>2. Shallow(stack, r) /\ stack \in Seq(Frame)
    BY <2>1 DEF GraphInv, Graph, NickInv, TypeOK
  <2> QED BY <2>2, ShallowIsSmall
<1> QED BY <1>1, GraphInductive, PTL

\* Neither a cycle nor a link that throws.
SafeInv == (\E r \in Ranks : Ranked(r)) /\ NoButton => up /\ ~thrown

LEMMA SafeStep ==
  ASSUME MaxDepth >= 3 * Cardinality(Plugins) + 2
  PROVE  NickInv /\ GraphInv /\ SafeInv /\ [Next]_bvars => SafeInv'
<1> SUFFICES ASSUME NickInv, GraphInv, SafeInv, [Next]_bvars,
                    NEW r \in Ranks, Ranked(r)', NoButton'
             PROVE  up' /\ ~thrown'
  BY DEF SafeInv, Ranks
<1>0. links' = links
  BY DEF Next, SetAttribute, RunLink, Emitted, AttributeChanged, Change, Online, Offline,
         Message, Event, Restart, bvars
<1>1. NoButton /\ Ranked(r)
  BY <1>0 DEF NoButton, Ranked
<1>2. TypeOK /\ up /\ ~thrown /\ Graph(r)
  BY <1>1 DEF NickInv, SafeInv, GraphInv
<1>3. MaxDepth \in Nat /\ 3 * Cardinality(Plugins) \in Nat
  BY BusAssumption, FS_CardinalityType, Threes DEF BusAssumption
<1>4. ASSUME NEW e \in Seq(Frame), NEW s \in Seq(Frame), NEW t, t = e \o s, Shallow(t, r),
             Continue(e, s)
      PROVE  up' /\ ~thrown'
  <2>1. t \in Seq(Frame) /\ Len(t) = Len(e) + Len(s)
    BY <1>4
  <2>2. Len(t) <= 3 * Cardinality(Plugins) + 2
    BY ONLY <2>1, Shallow(t, r), r \in Ranks, ShallowIsSmall
  <2>3. ~(Len(e) + Len(s) > MaxDepth)
    BY <1>3, <2>1, <2>2
  <2> QED BY <1>2, <1>4, <2>3 DEF Continue
<1>5. ASSUME SetAttribute PROVE up' /\ ~thrown'
  <2> DEFINE c == Head(stack).comp
             v == Head(stack).value
             e == <<Emit(c, v)>> \o (IF c \in Plugins THEN <<Announce(c, v)>> ELSE <<>>)
             t == e \o Tail(stack)
  <2>1. /\ Doing("set") /\ value' = [value EXCEPT ![c] = v] /\ Continue(e, Tail(stack))
        /\ UNCHANGED <<links, told>>
    BY <1>5 DEF SetAttribute
  <2>2. /\ stack \in Seq(Frame) /\ stack # <<>> /\ c \in Components /\ v \in Values
    BY <1>2, <2>1, TopType
  <2>3. Shallow(t, r)
    BY ONLY <1>2, <2>1, GraphSet, r \in Ranks
  <2>4. e \in Seq(Frame) /\ Tail(stack) \in Seq(Frame) /\ t = e \o Tail(stack)
    BY <2>2, SetFrames, Popped
  <2> HIDE DEF e, t
  <2> QED BY <1>4, <2>1, <2>3, <2>4
<1>6. ASSUME RunLink PROVE up' /\ ~thrown'
  <2>1. Doing("emit") /\ UNCHANGED <<links, value>>
    BY <1>6 DEF RunLink
  <2>2. PICK j, v, g, rest, e : Runs(j, v, g, rest, e)
    BY <1>2, <1>6, RunLinkIs
  <2> DEFINE t == e \o rest
  <2>3. /\ j \in DOMAIN links /\ rest \in Seq(Frame)
        /\ links[j].destination \in Plugins => e \in Seq(Frame)
        /\ links[j].destination \in Hardware => links[j].destination \notin Plugins
    BY <1>2, <2>1, <2>2, RunsType
  <2>4. links[j].destination \in Plugins => Shallow(t, r)
    BY ONLY <1>1, <1>2, <2>1, <2>2, GraphRun, r \in Ranks
  <2>5. \/ UNCHANGED <<thrown, up>>
        \/ links[j].destination \in Plugins /\ Continue(e, rest)
        \/ links[j].destination \in Plugins /\ Kind[links[j].destination] = "button"
    BY <2>2 DEF Runs
  <2>6. CASE links[j].destination \in Plugins /\ Continue(e, rest)
    BY <1>4, <2>3, <2>4, <2>6
  <2>7. ~(links[j].destination \in Plugins /\ Kind[links[j].destination] = "button")
    BY <1>1, <2>3 DEF NoButton
  <2>8. CASE UNCHANGED <<thrown, up>>
    BY <1>2, <2>8
  <2> QED BY <2>5, <2>6, <2>7, <2>8
<1>7. CASE UNCHANGED <<thrown, up>>
  BY <1>2, <1>7
<1>8. ~Restart
  BY <1>2 DEF Restart
<1>9. SetAttribute \/ RunLink \/ UNCHANGED <<thrown, up>>
  BY <1>8 DEF Next, Emitted, AttributeChanged, Change, Online, Offline, Message, Event, bvars
<1> QED BY <1>5, <1>6, <1>7, <1>9

\* Nothing a user or the hardware does ends a core whose graph has no cycle and no link
\* to a button, when the stack holds three frames for each plugin.
THEOREM AcyclicIsSafe ==
  ASSUME MaxDepth >= 3 * Cardinality(Plugins) + 2
  PROVE  Spec => []SafeIfAcyclic
<1>1. Init => NickInv /\ GraphInv /\ SafeInv
  BY NickInit, GraphInit DEF Init, SafeInv
<1>2. NickInv /\ GraphInv /\ SafeInv /\ [Next]_bvars => NickInv' /\ GraphInv' /\ SafeInv'
  BY NickStep, GraphStep, SafeStep
<1>3. SafeInv => SafeIfAcyclic
  BY DEF SafeInv, SafeIfAcyclic, Acyclic, Ranks, Ranked, NoButton
<1> QED BY <1>1, <1>2, <1>3, PTL DEF Spec

=============================================================================
