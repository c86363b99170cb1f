SPECIFICATION MCSpec
CONSTANTS
  Names = {host}
  Addrs <- MCAddrs
  Resolve <- MCResolve
  NetSize = 2
  Pages = {p1}
  Objects = {o1, o2}
  Structs = {s1, s2}
  Free = Free
  None = None
  GoodMask = GoodMask
  BadMask = BadMask
  Discovers <- MCDiscovers
  Ranges <- MCRanges
  Settings <- MCSettings
  MaxRequests = 2
  MaxLookups = 2
  MaxNest = 2
  MaxSent = 1
  Hosts = {h1, h2}
  HostAddrs = {a1, a2}
  Windows = {w1, w2}
  OsNames = {exotic}
  UnknownOs = exotic
  EmptyText = EmptyText
  HasPixmap = {}
  Ports = {22}
  Named = {22}
  Scans <- MCScans
  NULL = NULL
  MaxAsked = 1
  MaxEdits = 2
INVARIANTS
  LookupsAreHeld
  PagesAreTrue
  WindowsAreTrue
SYMMETRY MCSymmetry
CHECK_DEADLOCK FALSE
