SPECIFICATION MCSpec
CONSTANTS
  Cells = {c1, c2, c3, c4}
  Free = Free
  Dead = Dead
  NULL = NULL
  Nil = Nil
  Threads = {t1, t2}
  Ports <- MCPorts
  Strings <- MCStrings
  Matches <- MCMatches
  Vals = {"x", "y"}
  None = None
  BuiltinLines <- MCBuiltin
  NoFile = NoFile
  MaxEdits <- MCMaxEdits
  Settable <- MCSettable
  Chars = {"", "2", "3", "4", "7", "9"}
  NUL = ""
  Nothing = Nothing
  Buffers <- MCBuffers
  Others <- MCOthers
SYMMETRY MCSymmetry
INVARIANTS
  SettingsAreObeyed
  ThreadsKeepTheList
PROPERTY
  ImplementsTables
