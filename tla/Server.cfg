\* Two processes with any flags; the system stops when both have ended.
CONSTANTS
  p1 = p1
  p2 = p2
  Processes = {p1, p2}
  Conns = {c1, c2}
  NoOne = NoOne
  Flags <- MCFlags
SPECIFICATION Spec
INVARIANTS TypeOK AllListenFirst OkMeansAnswered FileGoesWithServer LimitKept
PROPERTIES SignalEnds
CHECK_DEADLOCK FALSE
