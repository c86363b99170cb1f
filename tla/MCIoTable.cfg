SPECIFICATION FairIoSpec
CONSTANTS
  Owners = {o1, o2, o3}
  Handles = {h1, h2, h3}
  NoHandle = NoHandle
  NoOwner = NoOwner
  GrowBy = 3
  Wrap = 32
  MaxRoom = 15
INVARIANTS
  IdsLeadHome
  EntriesAreHeld
  ArraysLargeEnough
PROPERTY
  EveryEventServed
