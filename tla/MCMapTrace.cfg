SPECIFICATION FairSpec
CONSTANTS
  h1 = h1
  h2 = h2
  r1 = r1
  Dests = {h1, h2}
  Pages = {p1, p2}
  Local = Local
  Path <- MCPath
  MAP_MAX = 3
  MaxRetries = 1
  TimeoutMax = 1
  MaxTraces = 2
  MaxTwice = 1
INVARIANTS
  LinksFormPath
  UndisturbedPathIsTrue
PROPERTY
  EveryTraceEnds
CHECK_DEADLOCK FALSE
