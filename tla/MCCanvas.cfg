SPECIFICATION MCSpec
CONSTANTS
  Objects = {a, b, c, d}
  Links = {l1, l2}
  NULL = NULL
  MaxEdits = 3
  MaxOnPage = 5
INVARIANTS
  PointersAgree
PROPERTIES
  ImplementsHostGroups
  BreaksOnlyWhere
SYMMETRY MCSymmetry
CHECK_DEADLOCK FALSE
