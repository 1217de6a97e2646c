SPECIFICATION Spec
CONSTANTS
  MAX_TABS = 2
  Path = {p}
  Lang = {p}
  NoPath = NoPath
  Text = {Empty, t, u}
  Empty = Empty
  NotOpen = NotOpen
  MaxItems = 2
INVARIANTS TypeOK CompletionIsLive VisibleHasItems SignatureIsLive
PROPERTIES ShownForText DocumentsFollowTabs
CHECK_DEADLOCK FALSE
