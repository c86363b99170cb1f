SPECIFICATION FairSpec
CONSTANTS
  LenBytes = 2
  BufSize = 7
  MsgLens <- MCMsgLens
  Wrap = 32
  MaxMsgs = 3
INVARIANTS
  InStep
  HandsOutWholeEvents
PROPERTY
  EveryEventHandled
CHECK_DEADLOCK FALSE
