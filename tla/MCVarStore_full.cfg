SPECIFICATION Spec
CONSTANTS
  v1 = v1
  v2 = v2
  Keys = {k1, k2}
  Values = {v1, v2}
  NoValue = NoValue
  NoRequest = NoRequest
  Size <- UnequalSize
  Space = 5
  Reserved = 0
  Scenarios <- NoFault
INVARIANTS
  SuccessMeansStored
