SPECIFICATION DiscoverFairSpec
CONSTANTS
  Addrs <- MCAddrs
  Broadcast <- MCBroadcast
  Hosts <- MCHosts
  Requests <- MCRequests
  Cells = {c1, c2}
  Free = Free
  Unset = Unset
  Retries <- MCRetries
  Timeout = 3
  Interval = 2
  MaxCache = 1
  MaxReqs = 2
INVARIANTS
  RepliesAreTrue
  EveryAddressTried
PROPERTIES
  EveryRequestEnds
