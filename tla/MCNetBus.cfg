SPECIFICATION Spec
CONSTANTS
  h = h
  p1 = p1
  p2 = p2
  p3 = p3
  p4 = p4
  On = On
  Off = Off
  Null = Null
  Current = Current
  Hardware = {h}
  Plugins = {p1, p2, p3, p4}
  Kind <- MCKind
  LinkChoices <- FewLinks
  MaxDepth = 16
  MaxMoves = 3
INVARIANTS NickIsValue LinksTold StackIsSmall SafeIfAcyclic
\* At rest nothing need happen.
CHECK_DEADLOCK FALSE
