---------------------------- MODULE InputManager ----------------------------
(***************************************************************************)
(* How a button of the ui tells one press, two presses and a long press    *)
(* apart (public/app/uihelper.js, inputManager): presses are gathered      *)
(* until none follows for 300 ms, and the action of the whole is executed. *)
(* The element gets the mouse's events only while the mouse is on it: a    *)
(* press may begin on it and end elsewhere, or the reverse.                *)
(*                                                                         *)
(* Time is abstracted to how long a press was, and to the end of the wait  *)
(* coming before the next press or not.                                    *)
(*                                                                         *)
(* A definition introduced as a slip is a wrong variant of the next one.   *)
(***************************************************************************)
EXTENDS Naturals, Sequences

CONSTANT MaxPresses  \* bound on presses

VARIABLES
  lastDown,    \* a press began here
  eventStack,  \* presses gathered: s for short, l for long
  endWait,     \* the wait for the end of the input runs
  executed,    \* what was executed, in order
  mouse,       \* up, here if it is down and went down here, or away
  made,        \* observed only: the presses made here since the last execution
  crossed,     \* observed only: since then a press began or ended elsewhere
  presses

ivars == <<lastDown, eventStack, endWait, executed, mouse, made, crossed, presses>>

Press == {"s", "l"}

Init ==
  /\ lastDown = FALSE /\ eventStack = <<>> /\ endWait = FALSE
  /\ executed = <<>>
  /\ mouse = "up"
  /\ made = <<>> /\ crossed = FALSE
  /\ presses = 0

-----------------------------------------------------------------------------
\* down: no end of the input for now.
Down ==
  /\ mouse = "up"
  /\ presses < MaxPresses /\ presses' = presses + 1
  /\ mouse' = "here"
  /\ endWait' = FALSE
  /\ lastDown' = TRUE
  /\ UNCHANGED <<eventStack, executed, made, crossed>>

\* The mouse goes down elsewhere.
DownAway ==
  /\ mouse = "up"
  /\ presses < MaxPresses /\ presses' = presses + 1
  /\ mouse' = "away"
  /\ UNCHANGED <<lastDown, eventStack, endWait, executed, made, crossed>>

\* A slip: the wait begins only if it had not, a cancelled one counting.
UpOnce(p) ==
  /\ mouse = "here"
  /\ mouse' = "up"
  /\ lastDown' = FALSE
  /\ eventStack' = Append(eventStack, p)
  /\ endWait' = (eventStack = <<>>)
  /\ made' = Append(made, p)
  /\ UNCHANGED <<executed, crossed, presses>>

\* up after a down: the press is gathered, and the wait begins.
Up(p) ==
  /\ mouse = "here"
  /\ mouse' = "up"
  /\ lastDown' = FALSE
  /\ eventStack' = Append(eventStack, p)
  /\ endWait' = TRUE
  /\ made' = Append(made, p)
  /\ UNCHANGED <<executed, crossed, presses>>

\* The mouse went down elsewhere and goes up here: without a down the input is given
\* up; with a down whose up never came it makes a press, as long as that is ago.
UpAlone ==
  /\ mouse = "away"
  /\ mouse' = "up"
  /\ crossed' = TRUE
  /\ IF lastDown
     THEN \E p \in Press : eventStack' = Append(eventStack, p) /\ endWait' = TRUE
     ELSE eventStack' = <<>> /\ endWait' = FALSE
  /\ lastDown' = FALSE
  /\ UNCHANGED <<executed, made, presses>>

\* The mouse goes up elsewhere: of a press that began here the element is not told.
UpAway ==
  /\ mouse # "up"
  /\ mouse' = "up"
  /\ crossed' = (crossed \/ mouse = "here")
  /\ UNCHANGED <<lastDown, eventStack, endWait, executed, made, presses>>

\* A slip: what was gathered is kept.
EndKept ==
  /\ endWait
  /\ executed' = Append(executed, eventStack)
  /\ endWait' = FALSE
  /\ made' = <<>> /\ crossed' = FALSE
  /\ UNCHANGED <<lastDown, eventStack, mouse, presses>>

\* The end of the wait.
End ==
  /\ endWait
  /\ executed' = Append(executed, eventStack)
  /\ eventStack' = <<>> /\ endWait' = FALSE
  /\ made' = <<>> /\ crossed' = FALSE
  /\ UNCHANGED <<lastDown, mouse, presses>>

Next ==
  \/ Down \/ DownAway
  \/ \E p \in Press : Up(p)
  \/ UpAlone \/ UpAway \/ End

Spec == Init /\ [][Next]_ivars

-----------------------------------------------------------------------------
(* Properties                                                              *)

\* What is executed are the presses made, all of them and no other, unless one of them
\* began or ended elsewhere.
AsMade ==
  [][executed' # executed /\ ~crossed => executed'[Len(executed')] = made]_ivars

\* A press is forgotten only if one began or ended elsewhere.
NoneForgotten == <>[](eventStack = <<>> \/ crossed \/ mouse = "here")
=============================================================================
