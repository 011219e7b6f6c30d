SPECIFICATION ElemenSpec
CONSTANTS
  Profiles = {p1}
  Overviews = {s1}
  Elsewhere = {}
  Blank = Blank
  BridgeCalls = {c1, c2}
  TabLimit = 2
  MaxClicks = 4
  UriHistoryLimit = 2
INVARIANT HistoryIsKept
CHECK_DEADLOCK FALSE
