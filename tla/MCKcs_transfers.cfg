SPECIFICATION Spec
CONSTANTS
  Tries = 3
  MaxCommands = 4
  RequestSize = 2
  ResponseSize = 4
  AnswerSizes <- ShortAndLong
  KCS_RETRY_LIMIT = 3
INVARIANTS
  KcsTypeOK
  OwnResponse
  ReceivedUnlessAborted
PROPERTIES
  NoOverrun
  AbortDrains
  CommandReturns
CHECK_DEADLOCK FALSE
