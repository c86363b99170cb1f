SPECIFICATION MCSpec
CONSTANTS
  Agents = {a1, a2}
  NoAgent = NoAgent
  MaxScans = 3
  Documents <- MCDocuments
  SystemNames = {22}
  Room = 16
  None = None
INVARIANTS
  WakeUpsMatchRequests
  RepliesAreWhole
  RepliesReachAsker
  ReportsAreTrue
PROPERTY
  EveryScanAnswered
CHECK_DEADLOCK FALSE
