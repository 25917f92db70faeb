SPECIFICATION Spec
CONSTANTS
  N = 3
  MaxSmis = 2
  MaxCalls = 2
  Configs <- TwoStartups
  Timely = TRUE
INVARIANTS
  NothingOwed
CHECK_DEADLOCK FALSE
