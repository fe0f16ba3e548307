SPECIFICATION SSpec
CONSTANTS
  Types = {1, 2}
  Contents = {g1, g2}
  Absent = Absent
  Cut = Cut
  Wrong = Wrong
  MaxWrites = 4
  Structures <- NothingOrAll
INVARIANTS RestartKeepsTypes Complete SavedIsServed Indexed
PROPERTY DiesByFile
\* A core that cannot boot stays down until a file is repaired by hand.
CHECK_DEADLOCK FALSE
