------------------------------ MODULE DxeEvent ------------------------------
(***************************************************************************)
(* The event, task-priority and timer services of the DXE core             *)
(* (MdeModulePkg/Core/Dxe/Event/{Event,Timer,Tpl}.c), run by one processor *)
(* that takes timer interrupts (OvmfPkg/8254TimerDxe/Timer.c).             *)
(*                                                                         *)
(* The processor is a stack of activations.  Code that runs at             *)
(* TPL_HIGH_LEVEL has interrupts disabled and is one step; everywhere else *)
(* a timer interrupt may push a handler between two steps.  The callers of *)
(* the services (boot-service clients: the application and the             *)
(* notification functions) are nondeterministic.                           *)
(*                                                                         *)
(* Left out: the runtime event list, protocol notifications, allocation    *)
(* failures (EFI_OUT_OF_RESOURCES leaves the state alone), and             *)
(* gCpu = NULL or SMM in CoreSetInterruptState.                            *)
(***************************************************************************)
EXTENDS Integers, Sequences, FiniteSets

CONSTANTS
  Events,               \* event structures the pool can hand to clients
  mEfiCheckTimerEvent,  \* the event whose notification is CoreCheckTimers
  gIdleLoopEvent,       \* the event CoreWaitForEvent signals when idle
  NoEvent,
  Groups,               \* event group GUIDs that clients name
  NoGroup,
  ExitBootServicesGuid,
  IdleLoopGuid,
  CreateArgs,           \* arguments clients give to CreateEventEx
  TimerArgs,            \* <<Type, TriggerTime>> clients give to SetTimer
  WaitArgs,             \* event arrays clients give to WaitForEvent
  ClientOps,            \* services the clients call
  TimerPeriod,          \* period of the timer device, in ticks
  SafeClose,            \* clients close only events no activation refers to
  MaxCalls,             \* bound: client calls in a behaviour
  MaxTime,              \* bound: the system time saturates here
  MaxIrq                \* bound: nested timer interrupts

EventIds == Events \cup {mEfiCheckTimerEvent, gIdleLoopEvent}

TPL_APPLICATION == 4
TPL_CALLBACK    == 8
TPL_NOTIFY      == 16
TPL_HIGH_LEVEL  == 31

\* Mutant: the timer lock below the timer notification.
MutLockTpl == TPL_NOTIFY

TIMER_LOCK_TPL  == TPL_HIGH_LEVEL - 1
CHECK_TIMER_TPL == TPL_HIGH_LEVEL - 1

Tpls       == {TPL_APPLICATION, TPL_CALLBACK, TPL_NOTIFY,
               CHECK_TIMER_TPL, TPL_HIGH_LEVEL}
NotifyTpls == Tpls \ {TPL_APPLICATION, TPL_HIGH_LEVEL}

\* Event types are sets of the EVT_ flags; EXIT_BS marks the predefined type
\* EVT_SIGNAL_EXIT_BOOT_SERVICES (EVT_SIGNAL_VIRTUAL_ADDRESS_CHANGE is treated
\* in the same way by the code and is not modelled separately).
Flags == {"TIMER", "NOTIFY_WAIT", "NOTIFY_SIGNAL", "EXIT_BS"}
EVT_SIGNAL_EXIT_BOOT_SERVICES == {"NOTIFY_SIGNAL", "EXIT_BS"}

mEventTable ==
  { {"TIMER", "NOTIFY_SIGNAL"}, {"TIMER"}, {"NOTIFY_WAIT"}, {"NOTIFY_SIGNAL"},
    EVT_SIGNAL_EXIT_BOOT_SERVICES, {}, {"TIMER", "NOTIFY_WAIT"} }

AllGroups == Groups \cup {NoGroup, ExitBootServicesGuid, IdleLoopGuid}

ASSUME EventAssumption ==
  /\ mEfiCheckTimerEvent # gIdleLoopEvent
  /\ {mEfiCheckTimerEvent, gIdleLoopEvent} \cap Events = {}
  /\ NoEvent \notin EventIds
  /\ IdleLoopGuid # NoGroup /\ ExitBootServicesGuid # NoGroup
  /\ NoGroup \notin Groups

ASSUME ArgsAssumption ==
  /\ CreateArgs \subseteq [Type : SUBSET Flags, NotifyTpl : Tpls,
                           EventGroup : AllGroups, HasFunction : BOOLEAN]
  /\ TimerArgs \subseteq {"TimerCancel", "TimerPeriodic", "TimerRelative"} \X Nat
  /\ WaitArgs \subseteq Seq(Events) \ {<<>>}

ASSUME BoundAssumption ==
  /\ TimerPeriod \in Nat \ {0}
  /\ MaxCalls \in Nat /\ MaxTime \in Nat /\ MaxIrq \in Nat
  /\ SafeClose \in BOOLEAN

VARIABLES
  gEfiCurrentTpl,
  interrupts,         \* processor interrupts are enabled
  gEventQueue,        \* notifications to call, per TPL
  gEventPending,      \* TPLs whose bit is set
  gEventSignalQueue,  \* NOTIFY_SIGNAL events, newest first
  IEvent,             \* the event structures
  Signature,          \* the structures whose Signature is EVENT_SIGNATURE
  mEfiTimerList,
  mEfiTimerLock,      \* OwnerTpl while acquired, else Released
  mEfiSystemTime,
  stack,              \* activations, the running one last
  UserEvents,         \* the array of the WaitForEvent call in progress
  calls               \* client calls so far

eventVars == <<gEventQueue, gEventPending, gEventSignalQueue, IEvent, Signature>>
timerVars == <<mEfiTimerList, mEfiTimerLock, mEfiSystemTime>>
cpuVars   == <<gEfiCurrentTpl, interrupts>>
vars == <<gEfiCurrentTpl, interrupts, gEventQueue, gEventPending,
          gEventSignalQueue, IEvent, Signature, mEfiTimerList, mEfiTimerLock,
          mEfiSystemTime, stack, UserEvents, calls>>

Released == 0

-----------------------------------------------------------------------------
(***************************************************************************)
(* Activations.  tpl is the level the activation's code runs at (for a     *)
(* Restore, the level it is lowering to), ev the event it works on, x one  *)
(* more local: the old TPL of Raised, PendingTpl of Restore, the index of  *)
(* Wait and List, TriggerTime of SetTimer, SystemTime of Timers.           *)
(***************************************************************************)
Kinds == {"App", "Raised", "Restore", "Dispatch", "Notify", "Irq", "Group",
          "List", "Check", "Wait", "SetTimer", "Timers", "Close"}

Frame(k, pc, tpl, ev, x) == [k |-> k, pc |-> pc, tpl |-> tpl, ev |-> ev, x |-> x]

Top          == stack[Len(stack)]
Caller       == stack[Len(stack) - 1]
Running(k, pc) == Top.k = k /\ Top.pc = pc
Call(s, f)   == Append(s, f)
Return(s)    == SubSeq(s, 1, Len(s) - 1)
Goto(s, pc)  == [s EXCEPT ![Len(s)].pc = pc]
Become(s, f) == [s EXCEPT ![Len(s)] = f]

IsSignal(e) == "NOTIFY_SIGNAL" \in IEvent[e].Type
IsWait(e)   == "NOTIFY_WAIT" \in IEvent[e].Type
IsTimer(e)  == "TIMER" \in IEvent[e].Type

-----------------------------------------------------------------------------
(***************************************************************************)
(* Task priority levels.                                                   *)
(***************************************************************************)

\* Mutant: raising to TPL_HIGH_LEVEL leaves interrupts enabled.
MutRaiseTpl(tpl) == gEfiCurrentTpl' = tpl /\ UNCHANGED interrupts

\* CoreRaiseTpl (tpl): the caller supplies a level at or above the current one.
CoreRaiseTpl(tpl) ==
  /\ gEfiCurrentTpl' = tpl
  /\ interrupts' = IF tpl >= TPL_HIGH_LEVEL /\ gEfiCurrentTpl < TPL_HIGH_LEVEL
                   THEN FALSE ELSE interrupts

\* The activation of CoreRestoreTpl (tpl), to be pushed on the caller's.
RestoreFrame(tpl) == Frame("Restore", "test", tpl, NoEvent, 0)

HighBitSet == CHOOSE t \in gEventPending : \A u \in gEventPending : u <= t

\* Mutant: events of the new level itself are dispatched as well.
MutRestoreTest ==
  /\ Running("Restore", "test")
  /\ stack' = IF gEventPending # {} /\ HighBitSet >= Top.tpl
              THEN Become(stack, [Top EXCEPT !.pc = "enter", !.x = HighBitSet])
              ELSE Goto(stack, "set")
  /\ UNCHANGED <<cpuVars, eventVars, timerVars, UserEvents, calls>>

RestoreTest ==
  /\ Running("Restore", "test")
  /\ stack' = IF gEventPending # {} /\ HighBitSet > Top.tpl
              THEN Become(stack, [Top EXCEPT !.pc = "enter", !.x = HighBitSet])
              ELSE Goto(stack, "set")
  /\ UNCHANGED <<cpuVars, eventVars, timerVars, UserEvents, calls>>

RestoreEnter ==
  /\ Running("Restore", "enter")
  /\ gEfiCurrentTpl' = Top.x
  /\ interrupts' = (Top.x < TPL_HIGH_LEVEL \/ interrupts)
  /\ stack' = Call(Goto(stack, "test"),
                   Frame("Dispatch", "next", Top.x, NoEvent, 0))
  /\ UNCHANGED <<eventVars, timerVars, UserEvents, calls>>

RestoreSet ==
  /\ Running("Restore", "set")
  /\ gEfiCurrentTpl' = Top.tpl
  /\ interrupts' = (Top.tpl < TPL_HIGH_LEVEL \/ interrupts)
  /\ stack' = Return(stack)
  /\ UNCHANGED <<eventVars, timerVars, UserEvents, calls>>

-----------------------------------------------------------------------------
(***************************************************************************)
(* Event queues.  gEventQueueLock is at TPL_HIGH_LEVEL: a critical section *)
(* is one step that leaves the processor at TPL_HIGH_LEVEL with a          *)
(* RestoreFrame of the level of the code that took the lock.               *)
(***************************************************************************)
CoreAcquireEventLock == CoreRaiseTpl(TPL_HIGH_LEVEL)

IndexOf(s, e) == CHOOSE i \in DOMAIN s : s[i] = e

RemoveEntryList(s, e) ==
  IF \E i \in DOMAIN s : s[i] = e
  THEN SubSeq(s, 1, IndexOf(s, e) - 1) \o SubSeq(s, IndexOf(s, e) + 1, Len(s))
  ELSE s

\* Mutant: the pending bit is not set.
MutNotifyEvent(e) ==
  /\ gEventQueue' = [gEventQueue EXCEPT ![IEvent[e].NotifyTpl] =
                       Append(RemoveEntryList(@, e), e)]
  /\ UNCHANGED gEventPending

\* CoreNotifyEvent (e): to the tail of the queue of its NotifyTpl.
CoreNotifyEvent(e) ==
  LET t == IEvent[e].NotifyTpl
  IN  /\ gEventQueue' =
           [gEventQueue EXCEPT ![t] = Append(RemoveEntryList(@, e), e)]
      /\ gEventPending' = gEventPending \cup {t}

\* Mutants of DispatchNext: the bit is cleared with the first notification
\* (early), SignalCount is not cleared, or it is cleared for WAIT events too.
MutDispatch(cleared, early) ==
  /\ Running("Dispatch", "next")
  /\ CoreAcquireEventLock
  /\ LET p == Top.tpl
     IN  \/ /\ gEventQueue[p] # <<>>
            /\ LET e == Head(gEventQueue[p])
               IN  /\ gEventQueue' = [gEventQueue EXCEPT ![p] = Tail(@)]
                   /\ IEvent' = IF e \in cleared
                                THEN [IEvent EXCEPT ![e].SignalCount = 0] ELSE IEvent
                   /\ stack' = Call(Become(stack, Frame("Dispatch", "call", p, e, 0)),
                                    RestoreFrame(p))
            /\ gEventPending' = IF early THEN gEventPending \ {p} ELSE gEventPending
         \/ /\ gEventQueue[p] = <<>>
            /\ gEventPending' = gEventPending \ {p}
            /\ stack' = Become(stack, RestoreFrame(p))
            /\ UNCHANGED <<gEventQueue, IEvent>>
  /\ UNCHANGED <<gEventSignalQueue, Signature, timerVars, UserEvents, calls>>
MutDispatchClearsBit   == MutDispatch({e \in EventIds : IsSignal(e)}, TRUE)
MutDispatchKeepsCount  == MutDispatch({}, FALSE)
MutDispatchClearsCount == MutDispatch(EventIds, FALSE)

DispatchNext ==
  /\ Running("Dispatch", "next")
  /\ CoreAcquireEventLock
  /\ LET p == Top.tpl
     IN  \/ /\ gEventQueue[p] # <<>>
            /\ LET e == Head(gEventQueue[p])
               IN  /\ gEventQueue' = [gEventQueue EXCEPT ![p] = Tail(@)]
                   /\ IEvent' = IF IsSignal(e)
                                THEN [IEvent EXCEPT ![e].SignalCount = 0]
                                ELSE IEvent
                   /\ stack' = Call(Become(stack, Frame("Dispatch", "call", p, e, 0)),
                                    RestoreFrame(p))
            /\ UNCHANGED gEventPending
         \/ /\ gEventQueue[p] = <<>>
            /\ gEventPending' = gEventPending \ {p}
            /\ stack' = Become(stack, RestoreFrame(p))
            /\ UNCHANGED <<gEventQueue, IEvent>>
  /\ UNCHANGED <<gEventSignalQueue, Signature, timerVars, UserEvents, calls>>

\* Event->NotifyFunction (): CoreCheckTimers, or a function of a client.
\* EfiEventEmptyFunction of gIdleLoopEvent is a client function that makes no
\* call.
NotifyFrame(p, e) ==
  IF e = mEfiCheckTimerEvent
  THEN Frame("Timers", "acquire", p, NoEvent, 0)
  ELSE Frame("Notify", "body", p, e, 0)

DispatchCall ==
  /\ Running("Dispatch", "call")
  /\ stack' = Call(Become(stack, Frame("Dispatch", "next", Top.tpl, NoEvent, 0)),
                   NotifyFrame(Top.tpl, Top.ev))
  /\ UNCHANGED <<cpuVars, eventVars, timerVars, UserEvents, calls>>

\* CoreSignalEvent (e) called from the activation s at level tpl, up to the
\* first release of the lock.
CoreSignalEvent(e, s, tpl) ==
  LET first == IEvent[e].SignalCount = 0
      group == IsSignal(e) /\ IEvent[e].EventGroup # NoGroup
  IN  /\ CoreAcquireEventLock
      /\ IEvent' = IF first THEN [IEvent EXCEPT ![e].SignalCount = 1] ELSE IEvent
      /\ IF first /\ IsSignal(e) /\ ~group
         THEN CoreNotifyEvent(e)
         ELSE UNCHANGED <<gEventQueue, gEventPending>>
      /\ stack' = IF first /\ group
                  THEN Call(Call(s, Frame("Group", "list", tpl, e, 0)),
                            RestoreFrame(tpl))
                  ELSE Call(s, RestoreFrame(tpl))
      /\ UNCHANGED <<gEventSignalQueue, Signature>>

\* The rest of CoreSignalEvent for a group event: CoreNotifySignalList, which
\* walks gEventSignalQueue under the lock, then lock and unlock once more.
GroupList ==
  /\ Running("Group", "list")
  /\ CoreAcquireEventLock
  /\ stack' = Call(Goto(stack, "relock"),
                   Frame("List", "link", TPL_HIGH_LEVEL, Top.ev, 1))
  /\ UNCHANGED <<eventVars, timerVars, UserEvents, calls>>

CoreNotifySignalList ==
  /\ Running("List", "link")
  /\ \/ /\ Top.x <= Len(gEventSignalQueue)
        /\ LET e == gEventSignalQueue[Top.x]
           IN  IF IEvent[e].EventGroup = IEvent[Top.ev].EventGroup
               THEN CoreNotifyEvent(e)
               ELSE UNCHANGED <<gEventQueue, gEventPending>>
        /\ stack' = Become(stack, [Top EXCEPT !.x = @ + 1])
     \/ /\ Top.x > Len(gEventSignalQueue)
        /\ stack' = Become(stack, RestoreFrame(Caller.tpl))
        /\ UNCHANGED <<gEventQueue, gEventPending>>
  /\ UNCHANGED <<cpuVars, gEventSignalQueue, IEvent, Signature, timerVars,
                 UserEvents, calls>>

GroupRelock ==
  /\ Running("Group", "relock")
  /\ CoreAcquireEventLock
  /\ stack' = Become(stack, RestoreFrame(Top.tpl))
  /\ UNCHANGED <<eventVars, timerVars, UserEvents, calls>>

-----------------------------------------------------------------------------
(***************************************************************************)
(* CoreCheckEvent and CoreWaitForEvent.                                    *)
(***************************************************************************)

\* First half: queue the wait notification of an event that is not signalled.
\* An event that is NOTIFY_SIGNAL or closed makes the call fail, which ends it.
CheckQueue(e, s) ==
  IF e \notin Signature \/ IsSignal(e)
  THEN /\ stack' = Return(stack)
       /\ UNCHANGED <<cpuVars, eventVars>>
  ELSE IF IEvent[e].SignalCount = 0 /\ IsWait(e)
       THEN /\ CoreAcquireEventLock
            /\ CoreNotifyEvent(e)
            /\ stack' = Call(s, RestoreFrame(Top.tpl))
            /\ UNCHANGED <<gEventSignalQueue, IEvent, Signature>>
       ELSE /\ stack' = s
            /\ UNCHANGED <<cpuVars, eventVars>>

\* Second half: clear a signalled event and succeed (the activation ends when
\* the lock is released), else go on with the activations s.
CheckPoll(e, s) ==
  IF IEvent[e].SignalCount # 0
  THEN /\ CoreAcquireEventLock
       /\ IEvent' = [IEvent EXCEPT ![e].SignalCount = 0]
       /\ stack' = Become(stack, RestoreFrame(Top.tpl))
       /\ UNCHANGED <<gEventQueue, gEventPending, gEventSignalQueue, Signature>>
  ELSE /\ stack' = s
       /\ UNCHANGED <<cpuVars, eventVars>>

CoreCheckEvent ==
  /\ \/ Running("Check", "queue") /\ CheckQueue(Top.ev, Goto(stack, "poll"))
     \/ Running("Check", "poll") /\ CheckPoll(Top.ev, Return(stack))
  /\ UNCHANGED <<timerVars, UserEvents, calls>>

\* One event of the array after the other, then the idle event, for ever.
WaitNext ==
  IF Top.x < Len(UserEvents)
  THEN Frame("Wait", "queue", Top.tpl, NoEvent, Top.x + 1)
  ELSE Frame("Wait", "idle", Top.tpl, NoEvent, 1)

CoreWaitForEvent ==
  /\ \/ Running("Wait", "queue") /\ CheckQueue(UserEvents[Top.x], Goto(stack, "poll"))
     \/ Running("Wait", "poll") /\ CheckPoll(UserEvents[Top.x], Become(stack, WaitNext))
     \/ Running("Wait", "idle")
        /\ CoreSignalEvent(gIdleLoopEvent, Goto(stack, "queue"), Top.tpl)
  /\ UNCHANGED <<timerVars, UserEvents, calls>>

-----------------------------------------------------------------------------
(***************************************************************************)
(* Timers.  mEfiTimerLock is below TPL_HIGH_LEVEL: its critical sections   *)
(* are interrupted by the timer tick.                                      *)
(***************************************************************************)
AcquireTimerLock ==
  /\ mEfiTimerLock' = gEfiCurrentTpl
  /\ CoreRaiseTpl(TIMER_LOCK_TPL)

\* Mutant: always at the tail.
MutInsertTail(e) == mEfiTimerList' = Append(mEfiTimerList, e)

\* Sorted by TriggerTime, after the timers with the same time.
CoreInsertEventTimer(e) ==
  \E i \in 1 .. Len(mEfiTimerList) + 1 :
    /\ \A j \in 1 .. i - 1 :
         IEvent[mEfiTimerList[j]].TriggerTime <= IEvent[e].TriggerTime
    /\ i <= Len(mEfiTimerList) =>
         IEvent[mEfiTimerList[i]].TriggerTime > IEvent[e].TriggerTime
    /\ mEfiTimerList' = SubSeq(mEfiTimerList, 1, i - 1) \o <<e>>
                        \o SubSeq(mEfiTimerList, i, Len(mEfiTimerList))

TimersAcquire ==
  /\ Running("Timers", "acquire")
  /\ mEfiTimerLock' = gEfiCurrentTpl
  /\ CoreRaiseTpl(TPL_HIGH_LEVEL)     \* by way of TIMER_LOCK_TPL, to read the time
  /\ stack' = Call(Become(stack, [Top EXCEPT !.pc = "scan", !.x = mEfiSystemTime]),
                   RestoreFrame(TIMER_LOCK_TPL))
  /\ UNCHANGED <<eventVars, mEfiTimerList, mEfiSystemTime, UserEvents, calls>>

TimersScan ==
  /\ Running("Timers", "scan")
  /\ LET expired == /\ mEfiTimerList # <<>>
                    /\ IEvent[Head(mEfiTimerList)].TriggerTime <= Top.x
     IN  \/ /\ expired
            /\ mEfiTimerList' = Tail(mEfiTimerList)
            /\ LET e == Head(mEfiTimerList)
               IN  CoreSignalEvent(e, Become(stack, [Top EXCEPT !.pc = "rearm", !.ev = e]),
                                   Top.tpl)
            /\ UNCHANGED mEfiTimerLock
         \/ /\ ~expired
            /\ mEfiTimerLock' = Released
            /\ stack' = Become(stack, RestoreFrame(mEfiTimerLock))
            /\ UNCHANGED <<cpuVars, eventVars, mEfiTimerList>>
  /\ UNCHANGED <<mEfiSystemTime, UserEvents, calls>>

\* Mutant: the new trigger time is set but the timer is not inserted.
MutRearm ==
  /\ Running("Timers", "rearm")
  /\ IEvent' = [IEvent EXCEPT ![Top.ev].TriggerTime = @ + IEvent[Top.ev].Period]
  /\ stack' = Goto(stack, "scan")
  /\ UNCHANGED <<cpuVars, gEventQueue, gEventPending, gEventSignalQueue, Signature,
                 timerVars, UserEvents, calls>>

TimersRearm ==
  /\ Running("Timers", "rearm")
  /\ LET e    == Top.ev
         next == IEvent[e].TriggerTime + IEvent[e].Period
     IN  \/ /\ IEvent[e].Period = 0
            /\ stack' = Goto(stack, "scan")
            /\ UNCHANGED IEvent
         \/ /\ IEvent[e].Period # 0 /\ next > Top.x
            /\ IEvent' = [IEvent EXCEPT ![e].TriggerTime = next]
            /\ stack' = Goto(stack, "insert")
         \/ /\ IEvent[e].Period # 0 /\ next <= Top.x
            /\ IEvent' = [IEvent EXCEPT ![e].TriggerTime = Top.x]
            /\ stack' = Goto(stack, "kick")
  /\ UNCHANGED <<cpuVars, gEventQueue, gEventPending, gEventSignalQueue, Signature,
                 timerVars, UserEvents, calls>>

\* CoreSignalEvent (mEfiCheckTimerEvent) for a timer that is behind.
TimersKick ==
  /\ Running("Timers", "kick")
  /\ CoreSignalEvent(mEfiCheckTimerEvent, Goto(stack, "insert"), Top.tpl)
  /\ UNCHANGED <<timerVars, UserEvents, calls>>

TimersInsert ==
  /\ Running("Timers", "insert")
  /\ CoreInsertEventTimer(Top.ev)
  /\ stack' = Goto(stack, "scan")
  /\ UNCHANGED <<cpuVars, eventVars, mEfiTimerLock, mEfiSystemTime, UserEvents, calls>>

CoreCheckTimers ==
  TimersAcquire \/ TimersScan \/ TimersRearm \/ TimersKick \/ TimersInsert

\* CoreSetTimer (e, type, time) called from the activation s: take the lock.
CoreSetTimer(e, type, time, s) ==
  /\ gEfiCurrentTpl <= TIMER_LOCK_TPL
  /\ AcquireTimerLock
  /\ stack' = Call(s, Frame("SetTimer", type, TIMER_LOCK_TPL, e, time))
  /\ UNCHANGED <<mEfiTimerList, mEfiSystemTime>>

SetTimerUnlink ==
  /\ Top.k = "SetTimer" /\ Top.pc \in {"TimerCancel", "TimerPeriodic", "TimerRelative"}
  /\ LET e    == Top.ev
         time == IF Top.pc = "TimerPeriodic" /\ Top.x = 0 THEN TimerPeriod ELSE Top.x
     IN  /\ mEfiTimerList' = RemoveEntryList(mEfiTimerList, e)
         /\ IEvent' = [IEvent EXCEPT
                         ![e].TriggerTime = 0,
                         ![e].Period = IF Top.pc = "TimerPeriodic" THEN time ELSE 0]
         /\ stack' = Become(stack, [Top EXCEPT
                         !.pc = IF Top.pc = "TimerCancel" THEN "release" ELSE "time",
                         !.x  = time])
  /\ UNCHANGED <<cpuVars, gEventQueue, gEventPending, gEventSignalQueue, Signature,
                 mEfiTimerLock, mEfiSystemTime, UserEvents, calls>>

SetTimerTime ==
  /\ Running("SetTimer", "time")
  /\ CoreRaiseTpl(TPL_HIGH_LEVEL)
  /\ IEvent' = [IEvent EXCEPT ![Top.ev].TriggerTime = mEfiSystemTime + Top.x]
  /\ stack' = Call(Goto(stack, "insert"), RestoreFrame(Top.tpl))
  /\ UNCHANGED <<gEventQueue, gEventPending, gEventSignalQueue, Signature, timerVars,
                 UserEvents, calls>>

SetTimerInsert ==
  /\ Running("SetTimer", "insert")
  /\ CoreInsertEventTimer(Top.ev)
  /\ IF Top.x = 0
     THEN CoreSignalEvent(mEfiCheckTimerEvent, Goto(stack, "release"), Top.tpl)
     ELSE /\ stack' = Goto(stack, "release")
          /\ UNCHANGED <<cpuVars, eventVars>>
  /\ UNCHANGED <<mEfiTimerLock, mEfiSystemTime, UserEvents, calls>>

\* Mutant: the release forgets the level of the owner.
MutSetTimerRelease ==
  /\ Running("SetTimer", "release")
  /\ mEfiTimerLock' = Released
  /\ stack' = Become(stack, RestoreFrame(TPL_APPLICATION))
  /\ UNCHANGED <<cpuVars, eventVars, mEfiTimerList, mEfiSystemTime, UserEvents, calls>>

SetTimerRelease ==
  /\ Running("SetTimer", "release")
  /\ mEfiTimerLock' = Released
  /\ stack' = Become(stack, RestoreFrame(mEfiTimerLock))
  /\ UNCHANGED <<cpuVars, eventVars, mEfiTimerList, mEfiSystemTime, UserEvents, calls>>

SetTimerStep == SetTimerUnlink \/ SetTimerTime \/ SetTimerInsert \/ SetTimerRelease

\* The timer interrupt: TimerInterruptHandler raises to TPL_HIGH_LEVEL, calls
\* CoreTimerTick and restores the interrupted level, then returns with IRET.
IrqNesting == Cardinality({i \in DOMAIN stack : stack[i].k = "Irq"})

CoreTimerTick ==
  LET now == IF mEfiSystemTime < MaxTime THEN mEfiSystemTime + 1 ELSE MaxTime
      s   == Call(stack, Frame("Irq", "iret", gEfiCurrentTpl, NoEvent, 0))
  IN  /\ mEfiSystemTime' = now
      /\ IF mEfiTimerList # <<>> /\ IEvent[Head(mEfiTimerList)].TriggerTime <= now
         THEN CoreSignalEvent(mEfiCheckTimerEvent, s, gEfiCurrentTpl)
         ELSE /\ CoreRaiseTpl(TPL_HIGH_LEVEL)
              /\ stack' = Call(s, RestoreFrame(gEfiCurrentTpl))
              /\ UNCHANGED eventVars

TimerInterruptHandler ==
  /\ interrupts
  /\ IrqNesting < MaxIrq
  /\ CoreTimerTick
  /\ UNCHANGED <<mEfiTimerList, mEfiTimerLock, UserEvents, calls>>

InterruptReturn ==
  /\ Running("Irq", "iret")
  /\ stack' = Return(stack)
  /\ UNCHANGED <<cpuVars, eventVars, timerVars, UserEvents, calls>>

-----------------------------------------------------------------------------
(***************************************************************************)
(* CoreCloseEvent and CoreCreateEventEx.                                   *)
(***************************************************************************)
CloseCancel ==
  /\ Running("Close", "cancel")
  /\ IF IsTimer(Top.ev)
     THEN CoreSetTimer(Top.ev, "TimerCancel", 0, Goto(stack, "unlink"))
     ELSE /\ stack' = Goto(stack, "unlink")
          /\ UNCHANGED <<cpuVars, timerVars>>
  /\ UNCHANGED <<eventVars, UserEvents, calls>>

\* Mutant: a queued notification is not removed.
MutCloseUnlink ==
  /\ Running("Close", "unlink")
  /\ CoreAcquireEventLock
  /\ gEventSignalQueue' = RemoveEntryList(gEventSignalQueue, Top.ev)
  /\ stack' = Call(Goto(stack, "free"), RestoreFrame(Top.tpl))
  /\ UNCHANGED <<gEventQueue, gEventPending, IEvent, Signature, timerVars, UserEvents, calls>>

\* The pending bit of an emptied queue stays set.
CloseUnlink ==
  /\ Running("Close", "unlink")
  /\ CoreAcquireEventLock
  /\ gEventQueue' = [t \in NotifyTpls |-> RemoveEntryList(gEventQueue[t], Top.ev)]
  /\ gEventSignalQueue' = RemoveEntryList(gEventSignalQueue, Top.ev)
  /\ stack' = Call(Goto(stack, "free"), RestoreFrame(Top.tpl))
  /\ UNCHANGED <<gEventPending, IEvent, Signature, timerVars, UserEvents, calls>>

CloseFree ==
  /\ Running("Close", "free")
  /\ Signature' = Signature \ {Top.ev}
  /\ stack' = Return(stack)
  /\ UNCHANGED <<cpuVars, gEventQueue, gEventPending, gEventSignalQueue, IEvent,
                 timerVars, UserEvents, calls>>

CoreCloseEvent == CloseCancel \/ CloseUnlink \/ CloseFree

IsNotify(type) == type \cap {"NOTIFY_WAIT", "NOTIFY_SIGNAL"} # {}

\* CoreCreateEventEx checks NotifyTpl against the type it was given.
CreateEventExAccepts(a) ==
  IsNotify(a.Type) => a.NotifyTpl \in {TPL_APPLICATION, TPL_CALLBACK, TPL_NOTIFY}

\* CoreCreateEventInternal converts the predefined group and its type.
ConvertedType(a) ==
  IF a.EventGroup = ExitBootServicesGuid
  THEN EVT_SIGNAL_EXIT_BOOT_SERVICES ELSE a.Type
ConvertedGroup(a) ==
  IF a.Type = EVT_SIGNAL_EXIT_BOOT_SERVICES
  THEN ExitBootServicesGuid ELSE a.EventGroup

\* Mutant: NotifyTpl may be TPL_APPLICATION.
MutInternalAccepts(a) ==
  /\ a.Type \in mEventTable
  /\ a.EventGroup # NoGroup => a.Type # EVT_SIGNAL_EXIT_BOOT_SERVICES
  /\ IsNotify(ConvertedType(a)) => a.HasFunction /\ a.NotifyTpl < TPL_HIGH_LEVEL

CreateEventInternalAccepts(a) ==
  /\ a.Type \in mEventTable
  /\ a.EventGroup # NoGroup => a.Type # EVT_SIGNAL_EXIT_BOOT_SERVICES
  /\ IsNotify(ConvertedType(a)) => /\ a.HasFunction
                                   /\ a.NotifyTpl > TPL_APPLICATION
                                   /\ a.NotifyTpl < TPL_HIGH_LEVEL

NewEvent(type, tpl, group) ==
  [Type |-> type, NotifyTpl |-> IF IsNotify(type) THEN tpl ELSE 0,
   EventGroup |-> group, SignalCount |-> 0, TriggerTime |-> 0, Period |-> 0]

CoreCreateEventEx(e, a) ==
  /\ CreateEventExAccepts(a)
  /\ CreateEventInternalAccepts(a)
  /\ Signature' = Signature \cup {e}
  /\ IEvent' = [IEvent EXCEPT ![e] =
                  NewEvent(ConvertedType(a), a.NotifyTpl, ConvertedGroup(a))]
  /\ CoreAcquireEventLock
  /\ gEventSignalQueue' = IF "NOTIFY_SIGNAL" \in ConvertedType(a)
                          THEN <<e>> \o gEventSignalQueue ELSE gEventSignalQueue
  /\ stack' = Call(stack, RestoreFrame(gEfiCurrentTpl))
  /\ UNCHANGED <<gEventQueue, gEventPending>>

-----------------------------------------------------------------------------
(***************************************************************************)
(* Boot-service clients.  They pair RaiseTPL and RestoreTPL, use only      *)
(* events they have created and not begun to close, and (SafeClose) close  *)
(* only events that no activation is about to use.                         *)
(***************************************************************************)
ClientRuns ==
  \/ Top.k \in {"App", "Raised"}
  \/ Top.k = "Notify" /\ Top.ev # gIdleLoopEvent

MayCall(op) == ClientRuns /\ op \in ClientOps /\ calls < MaxCalls
Counted     == calls' = calls + 1

Held(e, kinds) == \E i \in DOMAIN stack : stack[i].k \in kinds /\ stack[i].ev = e
Waited(e)      == /\ \E i \in DOMAIN stack : stack[i].k = "Wait"
                  /\ \E i \in DOMAIN UserEvents : UserEvents[i] = e
Usable(e)      == e \in Events \cap Signature /\ ~Held(e, {"Close"})
Closable(e)    == /\ Usable(e) /\ ~Waited(e)
                  /\ ~Held(e, {"Group", "Check", "SetTimer", "Timers"})
                  /\ SafeClose => ~Held(e, {"Dispatch"})

ClientRaise ==
  /\ MayCall("RaiseTPL") /\ Counted
  /\ \E tpl \in {TPL_CALLBACK, TPL_NOTIFY, TPL_HIGH_LEVEL} :
       /\ tpl >= gEfiCurrentTpl
       /\ CoreRaiseTpl(tpl)
       /\ stack' = Call(stack, Frame("Raised", "body", tpl, NoEvent, gEfiCurrentTpl))
  /\ UNCHANGED <<eventVars, timerVars, UserEvents>>

ClientRestore ==
  /\ Running("Raised", "body")
  /\ stack' = Become(stack, RestoreFrame(Top.x))
  /\ UNCHANGED <<cpuVars, eventVars, timerVars, UserEvents, calls>>

NotifyReturn ==
  /\ Running("Notify", "body")
  /\ stack' = Return(stack)
  /\ UNCHANGED <<cpuVars, eventVars, timerVars, UserEvents, calls>>

ClientCreate ==
  /\ MayCall("CreateEventEx") /\ Counted
  /\ \E e \in Events \ Signature, a \in CreateArgs : CoreCreateEventEx(e, a)
  /\ UNCHANGED <<timerVars, UserEvents>>

ClientSignal ==
  /\ MayCall("SignalEvent") /\ Counted
  /\ \E e \in Events : Usable(e) /\ CoreSignalEvent(e, stack, gEfiCurrentTpl)
  /\ UNCHANGED <<timerVars, UserEvents>>

ClientCheck ==
  /\ MayCall("CheckEvent") /\ Counted
  /\ \E e \in Events :
       /\ Usable(e)
       /\ stack' = Call(stack, Frame("Check", "queue", gEfiCurrentTpl, e, 0))
  /\ UNCHANGED <<cpuVars, eventVars, timerVars, UserEvents>>

ClientWait ==
  /\ MayCall("WaitForEvent") /\ Counted
  /\ gEfiCurrentTpl = TPL_APPLICATION
  /\ \E evs \in WaitArgs :
       /\ \A i \in DOMAIN evs : Usable(evs[i])
       /\ UserEvents' = evs
       /\ stack' = Call(stack, Frame("Wait", "queue", TPL_APPLICATION, NoEvent, 1))
  /\ UNCHANGED <<cpuVars, eventVars, timerVars>>

ClientSetTimer ==
  /\ MayCall("SetTimer") /\ Counted
  /\ \E e \in Events, a \in TimerArgs :
       Usable(e) /\ IsTimer(e) /\ CoreSetTimer(e, a[1], a[2], stack)
  /\ UNCHANGED <<eventVars, UserEvents>>

ClientClose ==
  /\ MayCall("CloseEvent") /\ Counted
  /\ gEfiCurrentTpl <= TIMER_LOCK_TPL
  /\ \E e \in Events :
       /\ Closable(e)
       /\ stack' = Call(stack, Frame("Close", "cancel", gEfiCurrentTpl, e, 0))
  /\ UNCHANGED <<cpuVars, eventVars, timerVars, UserEvents>>

-----------------------------------------------------------------------------
\* CoreInitializeEventServices: the timer-check event, then the idle event.
Init ==
  /\ gEfiCurrentTpl = TPL_APPLICATION
  /\ interrupts = TRUE
  /\ gEventQueue = [t \in NotifyTpls |-> <<>>]
  /\ gEventPending = {}
  /\ gEventSignalQueue = <<gIdleLoopEvent, mEfiCheckTimerEvent>>
  /\ IEvent = [e \in EventIds |->
       IF e = mEfiCheckTimerEvent
       THEN NewEvent({"NOTIFY_SIGNAL"}, CHECK_TIMER_TPL, NoGroup)
       ELSE IF e = gIdleLoopEvent
       THEN NewEvent({"NOTIFY_SIGNAL"}, TPL_NOTIFY, IdleLoopGuid)
       ELSE NewEvent({}, 0, NoGroup)]
  /\ Signature = {mEfiCheckTimerEvent, gIdleLoopEvent}
  /\ mEfiTimerList = <<>>
  /\ mEfiTimerLock = Released
  /\ mEfiSystemTime = 0
  /\ stack = <<Frame("App", "body", TPL_APPLICATION, NoEvent, 0)>>
  /\ UserEvents = <<>>
  /\ calls = 0

CoreRestoreTpl == RestoreTest \/ RestoreEnter \/ RestoreSet
CoreDispatchEventNotifies == DispatchNext \/ DispatchCall

\* What the running activation does next without a choice of a client.
Step ==
  \/ CoreRestoreTpl \/ CoreDispatchEventNotifies
  \/ GroupList \/ CoreNotifySignalList \/ GroupRelock
  \/ CoreCheckEvent \/ CoreWaitForEvent
  \/ CoreCheckTimers \/ SetTimerStep \/ CoreCloseEvent
  \/ InterruptReturn \/ NotifyReturn \/ ClientRestore

ClientCall ==
  \/ ClientRaise \/ ClientCreate \/ ClientSignal \/ ClientCheck
  \/ ClientWait \/ ClientSetTimer \/ ClientClose

Next == Step \/ ClientCall \/ TimerInterruptHandler

Spec == Init /\ [][Next]_vars

-----------------------------------------------------------------------------
(***************************************************************************)
(* Properties.                                                             *)
(***************************************************************************)
Pcs == {"body", "test", "enter", "set", "next", "call", "iret", "list", "relock",
        "link", "queue", "poll", "idle", "acquire", "scan", "rearm", "kick",
        "insert", "time", "release", "cancel", "unlink", "free",
        "TimerCancel", "TimerPeriodic", "TimerRelative"}

Frames == [k : Kinds, pc : Pcs, tpl : Tpls, ev : EventIds \cup {NoEvent}, x : Nat]

EventStructs == [Type : SUBSET Flags, NotifyTpl : NotifyTpls \cup {0},
                 EventGroup : AllGroups, SignalCount : {0, 1},
                 TriggerTime : Nat, Period : Nat]

\* Types of the state of Event.c, Timer.c and Tpl.c.
TypeOK ==
  /\ gEfiCurrentTpl \in Tpls
  /\ interrupts \in BOOLEAN
  /\ gEventQueue \in [NotifyTpls -> Seq(EventIds)]
  /\ gEventPending \in SUBSET NotifyTpls
  /\ gEventSignalQueue \in Seq(EventIds)
  /\ IEvent \in [EventIds -> EventStructs]
  /\ Signature \in SUBSET EventIds
  /\ mEfiTimerList \in Seq(EventIds)
  /\ mEfiTimerLock \in Tpls \cup {Released}
  /\ mEfiSystemTime \in Nat
  /\ stack \in Seq(Frames) /\ stack # <<>>
  /\ UserEvents \in Seq(Events)
  /\ calls \in Nat

NotifyKinds == {"Notify", "Timers"}

\* Notification functions only nest at strictly rising TPLs, whatever timer
\* interrupts and services dispatch on top of one another: none is ever
\* re-entered, and none runs on top of one of its own level or a higher one.
NotifyNesting ==
  \A i, j \in DOMAIN stack :
    i < j /\ stack[i].k \in NotifyKinds /\ stack[j].k \in NotifyKinds
      => stack[i].tpl < stack[j].tpl

\* Interrupts are enabled exactly below TPL_HIGH_LEVEL: no critical section of
\* an event lock is interrupted, and no path of CoreRestoreTpl forgets to
\* enable them again.
InterruptsFollowTpl == interrupts <=> gEfiCurrentTpl < TPL_HIGH_LEVEL

\* Every activation is resumed at the TPL it was left at; for
\* CoreDispatchEventNotifies this is ASSERT (OwnerTpl == Priority).
ResumedAtOwnTpl == Top.k # "Restore" => gEfiCurrentTpl = Top.tpl

Queued(e) == \E t \in NotifyTpls : \E i \in DOMAIN gEventQueue[t] : gEventQueue[t][i] = e

\* CoreRestoreTpl looks at gEventPending only: a queue that holds a notification
\* always has its bit set, across closes and dispatches of the same level.
QueuedIsPending == \A t \in NotifyTpls : gEventQueue[t] # <<>> => t \in gEventPending

\* SignalEvent drops a signal of an event whose SignalCount is set.  It is never
\* set without a notification queued or on its way through the group list: no
\* event is stuck, deaf to every later signal.
NoStuckSignal ==
  \A e \in Signature :
    IsSignal(e) /\ IEvent[e].SignalCount # 0 =>
      \/ Queued(e)
      \/ Held(e, {"Close"})
      \/ \E i \in DOMAIN stack : /\ stack[i].ev = e
                                 /\ \/ stack[i].k = "Group" /\ stack[i].pc = "list"
                                    \/ stack[i].k = "List"

\* "WAIT type events are only cleared in CheckEvent()" (comment of
\* CoreDispatchEventNotifies): the signal of an event that can be waited for is
\* consumed only by the CheckEvent or WaitForEvent that reports it, although its
\* wait notification may be dispatched, and its timer expire, at any moment.
SignalConsumedByCheck ==
  [][\A e \in Signature :
       ~IsSignal(e) /\ IEvent[e].SignalCount # 0 /\ IEvent'[e].SignalCount = 0 =>
         \/ Running("Check", "poll") /\ Top.ev = e
         \/ Running("Wait", "poll") /\ UserEvents[Top.x] = e]_vars

\* CoreAcquireLock asserts that the lock is free: mEfiTimerLock is, whenever
\* CoreCheckTimers starts or a client could call SetTimer or CloseEvent.
TimerLockExclusive ==
  Running("Timers", "acquire") \/ Running("Close", "cancel") \/ ClientRuns
    => mEfiTimerLock = Released

\* The timer list is sorted (CoreTimerTick and CoreCheckTimers only look at its
\* head) and no timer is in it twice, although times are read, events re-armed
\* and inserted in separate steps that ticks interleave.
TimerListSorted ==
  \A i, j \in DOMAIN mEfiTimerList :
    i < j => /\ IEvent[mEfiTimerList[i]].TriggerTime <= IEvent[mEfiTimerList[j]].TriggerTime
             /\ mEfiTimerList[i] # mEfiTimerList[j]

\* A periodic timer is never lost: it is in the timer list, or the activation
\* that took it out is still going to put it back.
PeriodicTimerKept ==
  \A e \in Signature :
    IEvent[e].Period # 0 =>
      \/ \E i \in DOMAIN mEfiTimerList : mEfiTimerList[i] = e
      \/ Held(e, {"Timers", "SetTimer"})

\* No list of the event services refers to an event that has been freed.
NoDanglingEvent ==
  \A e \in EventIds \ Signature :
    /\ ~Queued(e)
    /\ \A i \in DOMAIN mEfiTimerList : mEfiTimerList[i] # e
    /\ \A i \in DOMAIN gEventSignalQueue : gEventSignalQueue[i] # e

\* "If the new priority unmasks events at a higher priority, they are
\* dispatched" (comment of CoreRestoreTpl): when it sets the new level nothing
\* above that level is queued.
RestoreDispatchesUnmasked ==
  [][RestoreSet => \A t \in NotifyTpls : t > Top.tpl => gEventQueue[t] = <<>>]_vars

\* A notification function is not called once CloseEvent has freed its event
\* ("If the event is queued somewhere, remove it").
NoNotifyAfterClose == [][DispatchCall => Top.ev \in Signature]_vars

\* Events of clients notify at TPL_CALLBACK or TPL_NOTIFY ("If it's a notify type
\* of event, check for invalid NotifyTpl").
ClientNotifyTpl ==
  \A e \in Events \cap Signature : IEvent[e].NotifyTpl \in {0, TPL_CALLBACK, TPL_NOTIFY}
=============================================================================
