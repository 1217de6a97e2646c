SPECIFICATION Spec
CONSTANTS
  MaxId = 3
  InPipe = 1
  OutPipe = 1
  MaxNotes = 1
  ServerIds = {}
  MayDie = FALSE
PROPERTY RequestReturns
CHECK_DEADLOCK FALSE
