SPECIFICATION Spec
CONSTANTS
  letter = letter
  NL = NL
  Blank = Blank
  Open = Open
  Close = Close
  IndentWidth = 1
  Files <- MCFiles
  ForeignClips <- MCClips
  Char = {letter, NL, Blank, Open, Close}
  Keys = {letter}
  MaxIndent = 1
  JumpRows = 2
  Pacing = {FALSE}
  SaveOutcomes = {}
  SaveAsOutcomes = {}
  MaxLen = 2
  MaxActs = 1
PROPERTY UndoDeletesInsertedText
CHECK_DEADLOCK FALSE
