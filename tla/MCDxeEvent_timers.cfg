CONSTANTS
  e1 = e1
  e2 = e2
  e3 = e3
  g1 = g1
  Events = {e1, e2}
  mEfiCheckTimerEvent = mEfiCheckTimerEvent
  gIdleLoopEvent = gIdleLoopEvent
  NoEvent = NoEvent
  Groups = {g1}
  NoGroup = NoGroup
  ExitBootServicesGuid = ExitBootServicesGuid
  IdleLoopGuid = IdleLoopGuid
  CreateArgs <- TimerCreateArgs
  TimerArgs <- TimerTimerArgs
  WaitArgs <- NoArgs
  ClientOps <- TimerOps
  TimerPeriod = 1
  SafeClose = TRUE
  MaxCalls = 5
  MaxTime = 2
  MaxIrq = 2
SPECIFICATION Spec
INVARIANTS
  TypeOK
  NotifyNesting
  InterruptsFollowTpl
  ResumedAtOwnTpl
  QueuedIsPending
  TimerLockExclusive
  TimerListSorted
  PeriodicTimerKept
  NoDanglingEvent
