SPECIFICATION Spec
CONSTANTS
  MAX_TABS = 3
  BufId = {b1, b2, b3, b4}
  NULL = NULL
  File = {f}
  NoFile = NoFile
  Empty = Empty
  Text = {Empty, t}
INVARIANTS TypeOK TabsHoldBuffers
PROPERTIES ImplementsTabBar UnsavedIsKept
CHECK_DEADLOCK FALSE
