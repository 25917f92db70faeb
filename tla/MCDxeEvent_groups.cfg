CONSTANTS
  e1 = e1
  e2 = e2
  e3 = e3
  g1 = g1
  Events = {e1, e2, e3}
  mEfiCheckTimerEvent = mEfiCheckTimerEvent
  gIdleLoopEvent = gIdleLoopEvent
  NoEvent = NoEvent
  Groups = {g1}
  NoGroup = NoGroup
  ExitBootServicesGuid = ExitBootServicesGuid
  IdleLoopGuid = IdleLoopGuid
  CreateArgs <- GroupCreateArgs
  TimerArgs <- NoArgs
  WaitArgs <- LiveWaitArgs
  ClientOps <- GroupOps
  TimerPeriod = 1
  SafeClose = TRUE
  MaxCalls = 6
  MaxTime = 0
  MaxIrq = 1
SPECIFICATION Spec
INVARIANTS
  NoStuckSignal
