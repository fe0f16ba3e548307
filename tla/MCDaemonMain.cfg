SPECIFICATION MainSpec
CONSTANTS
  Shells = {s1, s2}
  Pids = {p1, p2, p3}
  NoPid = NoPid
  MaxCommands = 5
INVARIANTS OneDaemon Recorded
SYMMETRY Symmetry
\* When nobody runs a command nothing need happen.
CHECK_DEADLOCK FALSE
