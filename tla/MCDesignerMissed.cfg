SPECIFICATION DSpec
CONSTANTS
  h1 = h1
  p1 = p1
  c1 = c1
  c2 = c2
  HwIds = {h1}
  PluginIds = {p1}
  Configs = {"here", "moved"}
  Links <- BothWays
  Absent = Absent
  Torn = Torn
  Clients = {c1}
  Targets <- Drawings
  Nobody = Nobody
  MaxFaults = 0
INVARIANT ReferencedRemade
