SPECIFICATION SmallUndoSpec
CONSTANTS
  letter = letter
  NL = NL
  Blank = Blank
  Open = Open
  Close = Close
  IndentWidth = 1
  Files <- MCFiles
  ForeignClips <- MCClips
  Char = {letter, NL, Blank, Open, Close}
  Keys = {letter}
  MaxIndent = 0
  JumpRows = 2
  Pacing = {FALSE, TRUE}
  SaveOutcomes = {}
  SaveAsOutcomes = {}
  MaxLen = 3
  MaxActs = 2
VIEW UndoView
INVARIANTS StoredOffsetsStayInText HistoryFitsText UndoneHistoryExplainsText
CHECK_DEADLOCK FALSE
