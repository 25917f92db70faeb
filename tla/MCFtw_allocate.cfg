CONSTANTS
  v1 = v1
  v2 = v2
  Erased = Erased
  NoRequest = NoRequest
  Bits <- OneBit
  Lbas <- OneBlock
  Cells <- TwoCells
  Values = {v1, v2}
  QueueSize = 4
  Requests <- PlainRequests
  AllocSizes = {1, 2}
  FaultSteps <- NoSteps
  TornHeader = TRUE
  SameBlock = TRUE
  SafeAbort = TRUE
SPECIFICATION Spec
INVARIANT
  AllocateIsFound
