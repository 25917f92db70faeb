---------------------------- MODULE DxeEventLive ----------------------------
(***************************************************************************)
(* DxeEvent with the fairness of the platform: what the event services     *)
(* eventually do.                                                          *)
(*                                                                         *)
(* The 8259 latches the tick until interrupts are enabled, so a tick that  *)
(* is enabled again and again is delivered (strong fairness).  The period  *)
(* of the timer exceeds the time of its handler, so the code an interrupt  *)
(* returns to runs before the next one: ran is FALSE from the return of a  *)
(* handler until the next step of the code below it.  The application      *)
(* always runs.                                                            *)
(***************************************************************************)
EXTENDS DxeEvent

VARIABLE ran

liveVars == <<vars, ran>>

LiveInit == Init /\ ran = TRUE

LiveStep == Step /\ ran' = (Top.k # "Irq")
LiveCall == ClientCall /\ ran' = TRUE
LiveTick == TimerInterruptHandler /\ (ran \/ Top.k = "App") /\ ran' = TRUE

LiveNext == LiveStep \/ LiveCall \/ LiveTick

LiveSpec == /\ LiveInit /\ [][LiveNext]_liveVars
            /\ WF_liveVars(LiveStep) /\ SF_liveVars(LiveTick)

-----------------------------------------------------------------------------
\* A queued notification is eventually taken from its queue, whatever TPLs the
\* clients hold in between and wherever the interrupts fall.
QueuedIsDispatched == \A e \in EventIds : Queued(e) ~> ~Queued(e)

Expired(e) == /\ \E i \in DOMAIN mEfiTimerList : mEfiTimerList[i] = e
              /\ IEvent[e].TriggerTime <= mEfiSystemTime

\* A timer that expires is eventually signalled (or set again), even when
\* CoreCheckTimers works with a SystemTime that ticks have left behind.
ExpiredIsSignalled == \A e \in Events : Expired(e) ~> ~Expired(e)

Due(e) == \/ IEvent[e].SignalCount # 0
          \/ /\ \E i \in DOMAIN mEfiTimerList : mEfiTimerList[i] = e
             /\ IEvent[e].TriggerTime <= MaxTime

\* WaitForEvent on an armed timer returns (unless a client sets the timer again,
\* beyond the bound of the system time).
WaitReturns ==
  \A e \in Events : (Waited(e) /\ Due(e)) ~> (~Waited(e) \/ ~Due(e))
=============================================================================
