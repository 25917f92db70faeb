----------------------------- MODULE MCDxeEvent -----------------------------
(***************************************************************************)
(* Small instances of DxeEvent: which events clients create, how they arm  *)
(* timers, and which services they call.                                   *)
(***************************************************************************)
EXTENDS DxeEvent

CONSTANTS e1, e2, e3, g1

Arg(type, tpl, group) ==
  [Type |-> type, NotifyTpl |-> tpl, EventGroup |-> group, HasFunction |-> TRUE]

SignalTimer == {"TIMER", "NOTIFY_SIGNAL"}
WaitTimer   == {"TIMER", "NOTIFY_WAIT"}

\* Two priorities of notification, one of them driven by a timer; and arguments
\* that CreateEventEx refuses.
TimerCreateArgs ==
  { Arg(SignalTimer, TPL_CALLBACK, NoGroup), Arg({"NOTIFY_SIGNAL"}, TPL_NOTIFY, NoGroup),
    Arg({"NOTIFY_SIGNAL"}, CHECK_TIMER_TPL, NoGroup),
    Arg({"NOTIFY_SIGNAL"}, TPL_APPLICATION, NoGroup) }
TimerTimerArgs ==
  { <<"TimerRelative", 0>>, <<"TimerRelative", 1>>, <<"TimerPeriodic", 1>>,
    <<"TimerCancel", 0>> }
TimerOps == {"RaiseTPL", "CreateEventEx", "SignalEvent", "SetTimer", "CloseEvent"}

\* Members of one group at two priorities, the ExitBootServices type, and an event
\* that is waited for or checked; WaitForEvent signals the group of the idle event.
GroupCreateArgs ==
  { Arg({"NOTIFY_SIGNAL"}, TPL_CALLBACK, g1), Arg({"NOTIFY_SIGNAL"}, TPL_NOTIFY, g1),
    Arg(EVT_SIGNAL_EXIT_BOOT_SERVICES, TPL_CALLBACK, NoGroup),
    Arg({"NOTIFY_WAIT"}, TPL_CALLBACK, g1) }
GroupOps == {"RaiseTPL", "CreateEventEx", "SignalEvent", "CloseEvent", "CheckEvent",
             "WaitForEvent"}

\* Events that can be waited for, with and without a notification function, and
\* one that CheckEvent refuses.
WaitCreateArgs ==
  { Arg(WaitTimer, TPL_CALLBACK, NoGroup), Arg({"TIMER"}, TPL_CALLBACK, NoGroup),
    Arg(SignalTimer, TPL_CALLBACK, NoGroup) }
WaitTimerArgs == {<<"TimerRelative", 1>>, <<"TimerPeriodic", 0>>}
NoArgs        == {}

\* One event of any of these kinds and of the timer run's, waited for, checked,
\* armed or signalled, while the TPL is raised and restored.
LiveCreateArgs == WaitCreateArgs \cup TimerCreateArgs
LiveTimerArgs  == WaitTimerArgs \cup {<<"TimerRelative", 0>>, <<"TimerPeriodic", 1>>}
LiveWaitArgs   == {<<e1>>}
LiveOps        == {"CreateEventEx", "SetTimer", "WaitForEvent", "CheckEvent", "RaiseTPL",
                   "SignalEvent"}

\* A timer that preempts a lower notification.
CloseCreateArgs ==
  { Arg(SignalTimer, TPL_NOTIFY, NoGroup), Arg({"NOTIFY_SIGNAL"}, TPL_CALLBACK, NoGroup) }

\* A client that asks for the ExitBootServices group with type 0.
UntypedCreateArgs == { Arg({}, CHECK_TIMER_TPL, ExitBootServicesGuid) }
=============================================================================
