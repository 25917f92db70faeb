CONSTANTS
  e1 = e1
  e2 = e2
  e3 = e3
  g1 = g1
  Events = {e1}
  mEfiCheckTimerEvent = mEfiCheckTimerEvent
  gIdleLoopEvent = gIdleLoopEvent
  NoEvent = NoEvent
  Groups = {g1}
  NoGroup = NoGroup
  ExitBootServicesGuid = ExitBootServicesGuid
  IdleLoopGuid = IdleLoopGuid
  CreateArgs <- UntypedCreateArgs
  TimerArgs <- NoArgs
  WaitArgs <- NoArgs
  ClientOps <- TimerOps
  TimerPeriod = 1
  SafeClose = FALSE
  MaxCalls = 6
  MaxTime = 2
  MaxIrq = 1
SPECIFICATION Spec
INVARIANTS
  ClientNotifyTpl
