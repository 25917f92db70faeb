SPECIFICATION Spec
CONSTANTS
  N = 3
  MaxSmis = 2
  MaxCalls = 2
  Configs <- RelaxedBroadcast
  Timely = TRUE
INVARIANTS
  BusyHeld
CHECK_DEADLOCK FALSE
