SPECIFICATION Spec
CONSTANTS
  N = 3
  MaxSmis = 2
  MaxCalls = 2
  Configs <- Rendezvous
  Timely = TRUE
INVARIANTS
  SmmTypeOK
  OneBsp
  ApKnowsBsp
  RunDrained
  CounterInRange
  CountedArePresent
  BusyHeld
  NothingOwed
  TokenTellsDone
PROPERTIES
  EveryoneLeaves
CHECK_DEADLOCK FALSE
