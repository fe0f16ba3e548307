SPECIFICATION FairDSpec
CONSTANTS
  h1 = h1
  p1 = p1
  c1 = c1
  c2 = c2
  HwIds = {h1}
  PluginIds = {p1}
  Configs = {"here", "moved"}
  Links <- OneWay
  Absent = Absent
  Torn = Torn
  Clients = {c1, c2}
  Targets <- Pair
  Nobody = Nobody
  MaxFaults = 1
INVARIANT DoneIsDrawn
PROPERTY ApplyEnds
