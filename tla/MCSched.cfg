SPECIFICATION FairSpec
CONSTANTS
  MsPerSec = 2
  UsecPerMs = 2
  Delays <- MCDelays
  MaxCache = 1
  NoEvent = NoEvent
  MaxSec = 2
  MaxEvents = 3
INVARIANTS
  WaitMatchesHead
PROPERTIES
  ImplementsTimers
  EveryEventRuns
