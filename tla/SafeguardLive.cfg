SPECIFICATION FairSpec
CONSTANTS
  s1 = s1
  s2 = s2
  p1 = p1
  p2 = p2
  c1 = c1
  c2 = c2
  Students = {s1, s2}
  Stops = {p1}
  StopOf <- MCOneStop
  Clients = {c1, c2}
  Crashable = {}
  Endpoints = {"start", "attendance", "drop"}
  MaxAlerts <- MCNotDroppedOnly
  MaxCompletions = 1
PROPERTIES LastDropCompletes
