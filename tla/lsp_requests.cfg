SPECIFICATION Spec
CONSTANTS
  MaxId = 3
  InPipe = 1
  OutPipe = 3
  MaxNotes = 2
  ServerIds = {}
  MayDie = TRUE
INVARIANTS TypeOK NothingPendingBetweenRequests ResponseIsAnswer
PROPERTIES ImplementsCall StopReturns
