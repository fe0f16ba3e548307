SPECIFICATION FairSpec
CONSTANTS
  stop = stop
  play = play
  low = low
  high = high
  States = {stop, play}
  Volumes = {low, high}
  Unknown = Unknown
  Null = Null
  MaxMoves = 5
INVARIANTS TakesTurns PublishedIsBelieved RightIfToldAll
PROPERTY Heard
\* A daemon that has stopped does nothing more.
CHECK_DEADLOCK FALSE
