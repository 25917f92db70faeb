CONSTANTS
  v1 = v1
  v2 = v2
  Erased = Erased
  NoRequest = NoRequest
  Bits <- TwoBits
  Lbas <- TwoBlocks
  Cells <- TwoCells
  Values = {v1, v2}
  QueueSize = 3
  Requests <- PrivateRequests
  AllocSizes = {2}
  FaultSteps <- WriteFaults
  TornHeader = FALSE
  SameBlock = TRUE
  SafeAbort = TRUE
SPECIFICATION Spec
PROPERTY
  WritesAreAtomic
