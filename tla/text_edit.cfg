SPECIFICATION EditSpec
CONSTANTS
  letter = letter
  NL = NL
  Blank = Blank
  Open = Open
  Close = Close
  IndentWidth = 1
  Files <- MCFiles
  ForeignClips <- MCClips
  Char = {letter, NL, Blank, Open, Close}
  Keys = {letter}
  MaxIndent = 1
  JumpRows = 2
  Pacing = {FALSE}
  SaveOutcomes = {"ok", "fail"}
  SaveAsOutcomes = {"ok"}
  MaxLen = 3
  MaxActs = 100
VIEW EditView
INVARIANTS TypeOK LineIndexMirrorsText CursorInText UnsavedIsDirty
CHECK_DEADLOCK FALSE
