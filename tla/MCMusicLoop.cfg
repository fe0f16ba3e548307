SPECIFICATION FairSpec
CONSTANTS
  Stop = Stop
  Play = Play
  Pause = Pause
  Null = Null
  MaxMoves = 4
INVARIANTS NoFlood AskedIsDone AgreeAtRest
PROPERTY Converges
\* At rest nothing need happen.
CHECK_DEADLOCK FALSE
