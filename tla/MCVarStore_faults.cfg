SPECIFICATION Spec
CONSTANTS
  v1 = v1
  v2 = v2
  Keys = {k1, k2}
  Values = {v1, v2}
  NoValue = NoValue
  NoRequest = NoRequest
  Size <- UnitSize
  Space = 9
  Reserved = 2
  Scenarios <- OneFault
INVARIANTS
  VarTypeOK
  WritesOverErased
  CacheInSync
  OneAdded
PROPERTIES
  VarMapSpec
