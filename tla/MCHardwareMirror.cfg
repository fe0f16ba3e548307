SPECIFICATION Spec
CONSTANTS
  h1 = h1
  h2 = h2
  dim = dim
  bright = bright
  Hardware = {h1, h2}
  Values = {dim, bright}
  Null = Null
  NamesGivesArray = TRUE
  MaxMoves = 8
SYMMETRY Swaps
INVARIANTS DarkWhenOffline Listening CaughtUp
\* Users, hosts and the network may do nothing more.
CHECK_DEADLOCK FALSE
