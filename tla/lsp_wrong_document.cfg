SPECIFICATION Spec
CONSTANTS
  MAX_TABS = 2
  Path = {p}
  Lang = {p}
  NoPath = NoPath
  Text = {Empty, t, u}
  Empty = Empty
  NotOpen = NotOpen
  MaxItems = 1
PROPERTY SentUnderOwnPath
CHECK_DEADLOCK FALSE
