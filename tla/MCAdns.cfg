SPECIFICATION Spec
CONSTANTS
  Queries = {s1, s2, s3}
  NULL = NULL
  nservers = 2
  UDPMAXRETRIES = 2
  Kinds = {"addr", "ptr", "hosts"}
  SearchNames = {0, 1}
  Sockets <- MCSockets
  MaxAsked = 1
INVARIANTS
  Consistent
  WaitMatchesWork
PROPERTIES
  AbortsOnlyWhere
  EveryQueryEnds
CHECK_DEADLOCK FALSE
