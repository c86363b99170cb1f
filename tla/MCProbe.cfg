SPECIFICATION FairProbeSpec
CONSTANTS
  Cells = {c1, c2}
  Handles = {i1, i2, i3, i4}
  NULL = NULL
  MaxProbes = 3
INVARIANTS
  CallbacksAreLive
PROPERTIES
  OneOutcome
  EveryProbeEnds
CHECK_DEADLOCK FALSE
