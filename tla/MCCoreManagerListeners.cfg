SPECIFICATION Spec
CONSTANTS
  h1 = h1
  p1 = p1
  p2 = p2
  HwIds = {h1}
  PluginIds = {p1, p2}
  Configs = {"c"}
  Links <- ThreeLinks
  Absent = Absent
  Torn = Torn
INVARIANT NoHandlerReachesRemoved
\* A process that died inside a save leaves a file that no boot can read: the
\* system really stops there.
CHECK_DEADLOCK FALSE
