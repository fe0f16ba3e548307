SPECIFICATION Spec
CONSTANTS
  a = a
  b = b
  c = c
  p1 = p1
  p2 = p2
  Ids = {a, b, c}
  Pins = {p1, p2}
  BadPin = BadPin
  Configs <- MCConfigs
  Null = Null
  MaxMoves = 9
INVARIANTS BooksBalance EndsClean OutputsTrue EdgesKept
\* Nobody need start the daemon.
CHECK_DEADLOCK FALSE
