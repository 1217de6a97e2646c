SPECIFICATION Spec
CONSTANTS
  Dir <- MCDir
  File <- MCFile
  Outside <- MCOutside
  Input <- MCInput
  MAX_VISIBLE = 2
  NULL = NULL
  Freed = Freed
  Unknown = Unknown
VIEW MCView
INVARIANTS TypeOK SelectionIsChosen CreatedIsListed PopupHasWindow
