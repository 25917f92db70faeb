SPECIFICATION Spec
CONSTANTS
  Tries = 1
  MaxCommands = 1
  RequestSize = 2
  ResponseSize = 4
  AnswerSizes <- ShortAndLong
  KCS_RETRY_LIMIT = 3
INVARIANTS
  SuccessMeansReceived
CHECK_DEADLOCK FALSE
