SPECIFICATION FairCSpec
CONSTANTS
  Ids = {i1}
  Self = self
  Values = {v1, v2}
  Absent = Absent
  MaxMoves = 4
INVARIANTS Shown DarkWhenDisconnected SaidOnce
PROPERTIES Recovers AsMade NoneForgotten
\* When nothing moves any more the system rests.
CHECK_DEADLOCK FALSE
