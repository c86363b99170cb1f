SPECIFICATION AgentsSpec
CONSTANTS
  Cells = {c1, c2}
  NoCell = NoCell
  Authenticate = TRUE
  MaxConns = 3
  MaxRequests = 2
INVARIANTS
  ListIsAllocated
  ServedAfterLogin
  RepliesOfTheLiving
CHECK_DEADLOCK FALSE
