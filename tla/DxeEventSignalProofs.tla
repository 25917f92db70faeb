------------------------ MODULE DxeEventSignalProofs ------------------------
(***************************************************************************)
(* Proofs about the signals of DxeEvent: none is lost on its way from      *)
(* SignalEvent through the event group to the notification queue, and,     *)
(* when clients close with care, none is dispatched to a freed event.      *)
(***************************************************************************)
EXTENDS DxeEventListProofs

Spreading(f)   == f.k = "Group" /\ f.pc = "list"
Dispatching(f) == f.k = "Dispatch" /\ f.pc = "call"

\* Where the notification of a signalled event e is: in a queue, still to be
\* reached by CoreNotifySignalList, or given up by a close.
Announced(s, q, sq, e) ==
  \/ InQueue(q, e)
  \/ \E i \in 1 .. Len(s) :
       /\ s[i].ev = e
       /\ \/ s[i].k = "Close" \/ Spreading(s[i])
          \/ s[i].k = "List" /\ \E p \in 1 .. Len(sq) : p >= s[i].x /\ sq[p] = e

\* An event that is signalled notifies.
Heard(s, q, sq, sig, ie) ==
  \A e \in sig : "NOTIFY_SIGNAL" \in ie[e].Type /\ ie[e].SignalCount # 0
                   => Announced(s, q, sq, e)

\* A NOTIFY_SIGNAL event is in gEventSignalQueue until it is about to be freed.
Listed(s, sq, sig, ie) ==
  \A e \in sig : "NOTIFY_SIGNAL" \in ie[e].Type =>
    ~Out(sq, e) \/ \E i \in 1 .. Len(s) : Freeing(s[i]) /\ s[i].ev = e

\* Nothing interrupts the walk over gEventSignalQueue.
ListOnTop(s) == \A i \in 1 .. Len(s) : s[i].k = "List" => i = Len(s)

\* An event taken from its queue is not closed before its notification is called.
NotClosed(s, sig) ==
  \A i \in 1 .. Len(s) : Dispatching(s[i]) =>
    /\ s[i].ev \in sig
    /\ \A j \in 1 .. Len(s) : j > i /\ s[j].k = "Close" => s[j].ev # s[i].ev

SInv ==
  /\ Heard(stack, gEventQueue, gEventSignalQueue, Signature, IEvent)
  /\ Listed(stack, gEventSignalQueue, Signature, IEvent)
  /\ ListOnTop(stack)
  /\ SafeClose => NotClosed(stack, Signature)

-----------------------------------------------------------------------------
(***************************************************************************)
(* Steps that keep the activations SInv speaks of.                         *)
(***************************************************************************)
Carries(f) == f.k \in {"Close", "List"} \/ Spreading(f)
Marked(f)  == f.k \in {"Close", "List"} \/ Dispatching(f)

\* t keeps the activations of s that carry a signal, and has no new marked one.
Calm(s, t) ==
  /\ \A i \in 1 .. Len(s) : Carries(s[i]) => i \in 1 .. Len(t) /\ t[i] = s[i]
  /\ \A i \in 1 .. Len(t) : Marked(t[i]) =>
       i \in 1 .. Len(s) /\ Marked(s[i]) /\ s[i].k = t[i].k /\ s[i].ev = t[i].ev

\* A call of an activation that is not marked.
LEMMA CalmCall ==
  ASSUME NEW S, NEW s \in Seq(S), NEW f, ~Marked(f), NEW t, t = Call(s, f)
  PROVE  Calm(s, t) /\ t \in Seq(S \cup {f}) /\ t # <<>>
<1>1. s \in Seq(S \cup {f}) /\ f \in S \cup {f}
  OBVIOUS
<1>2. /\ Len(s) \in Nat /\ t \in Seq(S \cup {f}) /\ t # <<>>
      /\ Len(t) = Len(s) + 1 /\ t[Len(s) + 1] = f
      /\ \A i \in 1 .. Len(s) : t[i] = s[i]
  BY <1>1, AppendProperties, LenProperties DEF Call
<1>3. /\ \A i \in 1 .. Len(s) : i \in 1 .. Len(t)
      /\ \A i \in 1 .. Len(t) : i \in 1 .. Len(s) \/ i = Len(s) + 1
  BY <1>2
<1>4. QED
  BY <1>2, <1>3 DEF Calm

\* The running activation, which carries no signal, goes on as one that is not
\* marked.
LEMMA CalmBecome ==
  ASSUME NEW S, NEW s \in Seq(S), s # <<>>, ~Carries(s[Len(s)]), NEW f, ~Marked(f),
         NEW t, t = Become(s, f)
  PROVE  Calm(s, t) /\ t \in Seq(S \cup {f}) /\ t # <<>>
<1>1. s \in Seq(S \cup {f}) /\ f \in S \cup {f}
  OBVIOUS
<1>2. Len(s) \in Nat /\ Len(s) \in 1 .. Len(s)
  BY LenProperties, EmptySeq
<1>3. /\ t \in Seq(S \cup {f}) /\ t # <<>> /\ Len(t) = Len(s) /\ t[Len(s)] = f
      /\ \A i \in 1 .. Len(s) : i # Len(s) => t[i] = s[i]
  BY <1>1, <1>2, ExceptSeq, EmptySeq DEF Become
<1>4. QED
  BY <1>2, <1>3 DEF Calm

\* The running activation, which carries no signal, returns.
LEMMA CalmReturn ==
  ASSUME NEW S, NEW s \in Seq(S), s # <<>>, ~Carries(s[Len(s)]), NEW t, t = Return(s)
  PROVE  Calm(s, t)
<1>1. Len(s) \in Nat /\ Len(s) # 0
  BY LenProperties, EmptySeq
<1> DEFINE m == Len(s) - 1
<1>2. m \in Int /\ 1 \in 1 .. Len(s) + 1 /\ m \in 1 - 1 .. Len(s) /\ m - 1 + 1 = m
  BY <1>1
<1>3. t = SubSeq(s, 1, m)
  BY DEF Return
<1> HIDE DEF m
<1>4. Len(t) = m /\ \A i \in 1 .. m : t[i] = s[i]
  BY <1>1, <1>2, <1>3, SubSeqProperties
<1>5. /\ \A i \in 1 .. Len(t) : i \in 1 .. Len(s)
      /\ \A i \in 1 .. Len(s) : i \in 1 .. Len(t) \/ i = Len(s)
  BY <1>1, <1>4 DEF m
<1>6. QED
  BY <1>4, <1>5 DEF Calm

\* One calm change after another.
LEMMA CalmTrans ==
  ASSUME NEW s, NEW t, NEW u, Calm(s, t), Calm(t, u)
  PROVE  Calm(s, u)
BY DEF Calm

\* An activation of another kind carries no signal and is not marked.
LEMMA CalmKinds ==
  /\ \A f : f.k \notin {"Close", "List", "Group"} => ~Carries(f)
  /\ \A f : f.k \notin {"Close", "List", "Dispatch"} => ~Marked(f)
  /\ \A tpl : ~Marked(RestoreFrame(tpl))
  /\ \A k, pc, tpl, ev, x : k \notin {"Close", "List", "Dispatch"} \/ (k = "Dispatch" /\ pc # "call")
       => ~Marked(Frame(k, pc, tpl, ev, x))
BY DEF Carries, Marked, Spreading, Dispatching, RestoreFrame, Frame

\* CoreSignalEvent called from the activations s.
LEMMA CalmSignal ==
  ASSUME NEW S, NEW s \in Seq(S), NEW e, NEW tpl, CoreSignalEvent(e, s, tpl)
  PROVE  Calm(s, stack')
<1> DEFINE G == Frame("Group", "list", tpl, e, 0)
           R == RestoreFrame(tpl)
<1>1. ~Marked(G) /\ ~Marked(R)
  BY CalmKinds
<1>2. stack' = Call(Call(s, G), R) \/ stack' = Call(s, R)
  BY DEF CoreSignalEvent
<1> HIDE DEF G, R
<1>3. Calm(s, Call(s, R)) /\ Calm(s, Call(s, G)) /\ Call(s, G) \in Seq(S \cup {G})
  BY <1>1, CalmCall
<1>4. Calm(Call(s, G), Call(Call(s, G), R))
  BY <1>1, <1>3, CalmCall
<1>5. QED
  BY <1>2, <1>3, <1>4, CalmTrans

\* A critical section ends by a call of CoreRestoreTpl.
LEMMA CalmRelease ==
  ASSUME NEW S, NEW s \in Seq(S), NEW t, NEW tpl, Calm(t, s)
  PROVE  Calm(t, Call(s, RestoreFrame(tpl)))
<1>1. Calm(s, Call(s, RestoreFrame(tpl)))
  BY CalmKinds, CalmCall
<1>2. QED
  BY <1>1, CalmTrans

\* The running activation, which is no dispatch and carries no signal, goes on
\* with other locals.
LEMMA CalmGoes ==
  ASSUME IInv, Top.k \notin {"Close", "List", "Group", "Dispatch"}
  PROVE  /\ \A pc : Calm(stack, Goto(stack, pc)) /\ \E S : Goto(stack, pc) \in Seq(S)
         /\ \A pc, x : LET t == Become(stack, [Top EXCEPT !.pc = pc, !.x = x])
                       IN  Calm(stack, t) /\ \E S : t \in Seq(S)
         /\ \A pc, ev : LET t == Become(stack, [Top EXCEPT !.pc = pc, !.ev = ev])
                        IN  Calm(stack, t) /\ \E S : t \in Seq(S)
<1>1. stack \in Seq(Frames) /\ stack # <<>> /\ stack[Len(stack)] = Top /\ Top \in Frames
  BY StackSeq
<1>2. ASSUME NEW f, f.k = Top.k
      PROVE  Calm(stack, Become(stack, f)) /\ \E S : Become(stack, f) \in Seq(S)
  BY <1>1, <1>2, CalmKinds, CalmBecome
<1>3. /\ \A pc : [Top EXCEPT !.pc = pc].k = Top.k
      /\ \A pc, x : [Top EXCEPT !.pc = pc, !.x = x].k = Top.k
      /\ \A pc, ev : [Top EXCEPT !.pc = pc, !.ev = ev].k = Top.k
  BY <1>1 DEF Frames
<1>4. QED
  BY <1>2, <1>3, GotoIs, ZenonT(40)

\* CoreRestoreTpl and the returns of interrupts, notifications and RaiseTPL.
LEMMA CalmRestore ==
  ASSUME IInv, CoreRestoreTpl \/ InterruptReturn \/ NotifyReturn \/ ClientRestore
  PROVE  Calm(stack, stack') /\ Top.k # "List"
<1>1. stack \in Seq(Frames) /\ stack # <<>> /\ stack[Len(stack)] = Top
  BY StackSeq
<1>2. Top.k \in {"Restore", "Irq", "Notify", "Raised"}
  BY DEF CoreRestoreTpl, RestoreTest, RestoreEnter, RestoreSet, InterruptReturn,
         NotifyReturn, ClientRestore, Running
<1>3. ~Carries(Top)
  BY <1>2, CalmKinds
<1>4. CASE stack' = Return(stack)
  BY <1>1, <1>2, <1>3, <1>4, CalmReturn
<1>5. CASE RestoreTest
  BY <1>2, <1>5, CalmGoes DEF RestoreTest
<1>6. CASE RestoreEnter
  <2> DEFINE f == Frame("Dispatch", "next", Top.x, NoEvent, 0)
             s == Goto(stack, "test")
  <2>1. ~Marked(f)
    BY CalmKinds
  <2>2. stack' = Call(s, f)
    BY <1>6 DEF RestoreEnter
  <2>3. Calm(stack, s) /\ \E S : s \in Seq(S)
    BY <1>2, CalmGoes
  <2> HIDE DEF f, s
  <2>4. QED
    BY <1>2, <2>1, <2>2, <2>3, CalmCall, CalmTrans
<1>7. CASE ClientRestore
  <2>1. stack' = Become(stack, RestoreFrame(Top.x))
    BY <1>7 DEF ClientRestore
  <2>2. QED
    BY <1>1, <1>2, <1>3, <2>1, CalmKinds, CalmBecome
<1>8. QED
  BY <1>4, <1>5, <1>6, <1>7 DEF CoreRestoreTpl, RestoreSet, InterruptReturn, NotifyReturn

\* Calling the notification function.
LEMMA CalmDispatch ==
  ASSUME IInv, DispatchCall
  PROVE  Calm(stack, stack') /\ Top.k # "List"
<1> DEFINE f == Frame("Dispatch", "next", Top.tpl, NoEvent, 0)
           g == NotifyFrame(Top.tpl, Top.ev)
           s == Become(stack, f)
<1>1. stack \in Seq(Frames) /\ stack # <<>> /\ stack[Len(stack)] = Top /\ Top.k = "Dispatch"
  BY StackSeq DEF DispatchCall, Running
<1>2. ~Carries(Top) /\ ~Marked(f) /\ ~Marked(g)
  BY <1>1, CalmKinds DEF NotifyFrame
<1>3. stack' = Call(s, g)
  BY DEF DispatchCall
<1> HIDE DEF f, g
<1>4. Calm(stack, s) /\ s \in Seq(Frames \cup {f})
  BY <1>1, <1>2, CalmBecome
<1> HIDE DEF s
<1>5. QED
  BY <1>1, <1>2, <1>3, <1>4, CalmCall, CalmTrans

\* The end of CoreSignalEvent for a group.
LEMMA CalmRelock ==
  ASSUME IInv, GroupRelock
  PROVE  Calm(stack, stack') /\ Top.k # "List"
<1>1. stack \in Seq(Frames) /\ stack # <<>> /\ stack[Len(stack)] = Top
  BY StackSeq
<1>2. Top.k = "Group" /\ ~Carries(Top)
  BY DEF GroupRelock, Running, Carries, Spreading
<1>3. stack' = Become(stack, RestoreFrame(Top.tpl))
  BY DEF GroupRelock
<1>4. QED
  BY <1>1, <1>2, <1>3, CalmKinds, CalmBecome

\* CoreCheckEvent and CoreWaitForEvent.
LEMMA CalmCheck ==
  ASSUME IInv, CoreCheckEvent \/ CoreWaitForEvent
  PROVE  Calm(stack, stack') /\ Top.k # "List"
<1> DEFINE p == Goto(stack, "poll")
<1>1. stack \in Seq(Frames) /\ stack # <<>> /\ stack[Len(stack)] = Top
  BY StackSeq
<1>2. Top.k \in {"Check", "Wait"}
  BY DEF CoreCheckEvent, CoreWaitForEvent, Running
<1>3. ~Carries(Top)
  BY <1>2, CalmKinds
<1>4. Calm(stack, Return(stack)) /\ Calm(stack, Become(stack, RestoreFrame(Top.tpl)))
  BY <1>1, <1>3, CalmKinds, CalmReturn, CalmBecome
<1>5. Calm(stack, p) /\ \E S : p \in Seq(S)
  BY <1>2, CalmGoes
<1>6. Calm(stack, Call(p, RestoreFrame(Top.tpl)))
  BY <1>5, CalmRelease
<1>7. Calm(stack, Become(stack, WaitNext))
  <2>1. ~Marked(WaitNext)
    BY CalmKinds DEF WaitNext
  <2>2. QED
    BY <1>1, <1>3, <2>1, CalmBecome
<1> HIDE DEF p
<1>8. \A e : CheckQueue(e, p) => Calm(stack, stack')
  BY <1>4, <1>5, <1>6 DEF CheckQueue
<1>9. \A e : /\ CheckPoll(e, Return(stack)) => Calm(stack, stack')
             /\ CheckPoll(e, Become(stack, WaitNext)) => Calm(stack, stack')
  BY <1>4, <1>7 DEF CheckPoll
<1>10. ASSUME CoreSignalEvent(gIdleLoopEvent, Goto(stack, "queue"), Top.tpl)
       PROVE  Calm(stack, stack')
  <2>1. Calm(stack, Goto(stack, "queue")) /\ \E S : Goto(stack, "queue") \in Seq(S)
    BY <1>2, CalmGoes
  <2>2. QED
    BY <1>10, <2>1, CalmSignal, CalmTrans
<1>11. QED
  BY <1>2, <1>8, <1>9, <1>10 DEF CoreCheckEvent, CoreWaitForEvent, p

\* CoreCheckTimers and CoreSetTimer.
LEMMA CalmTimers ==
  ASSUME IInv, CoreCheckTimers \/ SetTimerStep
  PROVE  Calm(stack, stack') /\ Top.k # "List"
<1>1. stack \in Seq(Frames) /\ stack # <<>> /\ stack[Len(stack)] = Top
  BY StackSeq
<1>2. Top.k \in {"Timers", "SetTimer"}
  BY DEF CoreCheckTimers, TimersAcquire, TimersScan, TimersRearm, TimersKick, TimersInsert,
         SetTimerStep, SetTimerUnlink, SetTimerTime, SetTimerInsert, SetTimerRelease, Running
<1>3. ~Carries(Top)
  BY <1>2, CalmKinds
<1>4. \A pc : Calm(stack, Goto(stack, pc)) /\ \E S : Goto(stack, pc) \in Seq(S)
  BY <1>2, CalmGoes
<1>5. \A tpl : Calm(stack, Become(stack, RestoreFrame(tpl)))
  BY <1>1, <1>3, CalmKinds, CalmBecome
<1>6. \A pc, e, tpl : CoreSignalEvent(e, Goto(stack, pc), tpl) => Calm(stack, stack')
  BY <1>4, CalmSignal, CalmTrans
<1>7. ASSUME TimersAcquire PROVE Calm(stack, stack')
  <2> DEFINE s == Become(stack, [Top EXCEPT !.pc = "scan", !.x = mEfiSystemTime])
  <2>1. Calm(stack, s) /\ \E S : s \in Seq(S)
    BY <1>2, CalmGoes
  <2>2. stack' = Call(s, RestoreFrame(TIMER_LOCK_TPL))
    BY <1>7 DEF TimersAcquire
  <2> HIDE DEF s
  <2>3. QED
    BY <2>1, <2>2, CalmRelease
<1>8. ASSUME TimersScan PROVE Calm(stack, stack')
  <2> DEFINE e == Head(mEfiTimerList)
             s == Become(stack, [Top EXCEPT !.pc = "rearm", !.ev = e])
  <2>1. Calm(stack, s) /\ \E S : s \in Seq(S)
    BY <1>2, CalmGoes
  <2>2. \/ CoreSignalEvent(e, s, Top.tpl)
        \/ stack' = Become(stack, RestoreFrame(mEfiTimerLock))
    BY <1>8 DEF TimersScan
  <2> HIDE DEF s, e
  <2>3. QED
    BY <1>5, <2>1, <2>2, CalmSignal, CalmTrans
<1>9. ASSUME SetTimerUnlink PROVE Calm(stack, stack')
  <2>1. PICK pc, x : stack' = Become(stack, [Top EXCEPT !.pc = pc, !.x = x])
    BY <1>9 DEF SetTimerUnlink
  <2>2. QED
    BY <1>2, <2>1, CalmGoes
<1>10. ASSUME SetTimerTime PROVE Calm(stack, stack')
  BY <1>4, <1>10, CalmRelease DEF SetTimerTime
<1>11. QED
  BY <1>2, <1>4, <1>5, <1>6, <1>7, <1>8, <1>9, <1>10
     DEF CoreCheckTimers, TimersRearm, TimersKick, TimersInsert, SetTimerStep, SetTimerInsert,
         SetTimerRelease

\* The calls of clients, but CloseEvent.
LEMMA CalmClient ==
  ASSUME IInv, ClientCall, ~ClientClose
  PROVE  Calm(stack, stack') /\ Top.k # "List"
<1>1. stack \in Seq(Frames)
  BY StackSeq
<1>2. Top.k \in {"App", "Raised", "Notify"}
  BY DEF ClientCall, ClientRaise, ClientCreate, ClientSignal, ClientCheck, ClientWait,
         ClientSetTimer, MayCall, ClientRuns
<1>3. ASSUME NEW k, NEW pc, NEW tpl, NEW ev, NEW x, stack' = Call(stack, Frame(k, pc, tpl, ev, x)),
             k \notin {"Close", "List", "Dispatch"}
      PROVE  Calm(stack, stack')
  BY <1>1, <1>3, CalmKinds, CalmCall
<1>4. ClientSignal => Calm(stack, stack')
  BY <1>1, CalmSignal DEF ClientSignal
<1>5. ClientCreate => Calm(stack, stack')
  <2>1. ASSUME ClientCreate PROVE stack' = Call(stack, RestoreFrame(gEfiCurrentTpl))
    BY <2>1 DEF ClientCreate, CoreCreateEventEx
  <2>2. QED
    BY <1>1, <2>1, CalmKinds, CalmCall
<1>6. ClientRaise \/ ClientCheck \/ ClientWait => Calm(stack, stack')
  BY <1>3 DEF ClientRaise, ClientCheck, ClientWait
<1>7. ClientSetTimer => Calm(stack, stack')
  BY <1>3 DEF ClientSetTimer, CoreSetTimer
<1>8. QED
  BY <1>2, <1>4, <1>5, <1>6, <1>7 DEF ClientCall

\* The timer interrupt, which the walk over gEventSignalQueue does not let in.
LEMMA CalmInterrupt ==
  ASSUME IInv, TimerInterruptHandler
  PROVE  Calm(stack, stack') /\ Top.k # "List"
<1> DEFINE f == Frame("Irq", "iret", gEfiCurrentTpl, NoEvent, 0)
           s == Call(stack, f)
<1>1. /\ stack \in Seq(Frames) /\ gEfiCurrentTpl \in Tpls /\ Top.tpl \in Tpls
      /\ \A t \in Tpls : t \in Nat
  BY StackSeq, TplFacts
<1>2. \/ CoreSignalEvent(mEfiCheckTimerEvent, s, gEfiCurrentTpl)
      \/ stack' = Call(s, RestoreFrame(gEfiCurrentTpl))
  BY DEF TimerInterruptHandler, CoreTimerTick
<1>3. ~Marked(f)
  BY CalmKinds
<1> HIDE DEF f
<1>4. Calm(stack, s) /\ s \in Seq(Frames \cup {f})
  BY <1>1, <1>3, CalmCall
<1> HIDE DEF s
<1>5. Calm(stack, stack')
  BY <1>2, <1>4, CalmSignal, CalmRelease, CalmTrans
<1>6. Top.k # "List"
  <2>1. gEfiCurrentTpl < TPL_HIGH_LEVEL /\ gEfiCurrentTpl >= Top.tpl
    BY DEF TimerInterruptHandler, IInv, LevelInv, InterruptsFollowTpl
  <2>2. Top.tpl # TPL_HIGH_LEVEL
    BY <1>1, <2>1 DEF TPL_HIGH_LEVEL
  <2>3. QED
    BY <2>2, TopFacts DEF LocalOk
<1>7. QED
  BY <1>5, <1>6

\* Every step is calm but those that dispatch, spread a signal or close.
LEMMA CalmSteps ==
  ASSUME IInv, Next, ~DispatchNext, ~GroupList, ~CoreNotifySignalList, ~CoreCloseEvent,
         ~ClientClose
  PROVE  Calm(stack, stack') /\ Top.k # "List"
BY CalmRestore, CalmDispatch, CalmRelock, CalmCheck, CalmTimers, CalmClient, CalmInterrupt
   DEF Next, Step, CoreDispatchEventNotifies

-----------------------------------------------------------------------------
(***************************************************************************)
(* Steps that lose no signal.                                              *)
(***************************************************************************)
Sounds(q, s, e) == InQueue(q, e) \/ \E i \in 1 .. Len(s) : Spreading(s[i]) /\ s[i].ev = e

\* The queues lose nothing, and an event that becomes signalled is queued or its
\* signal is going to be spread.
Quiet ==
  /\ UNCHANGED <<gEventSignalQueue, Signature>>
  /\ \A d : InQueue(gEventQueue, d) => InQueue(gEventQueue', d)
  /\ \A d \in EventIds :
       /\ IEvent'[d].Type = IEvent[d].Type
       /\ \/ IEvent'[d].SignalCount \in {IEvent[d].SignalCount, 0}
          \/ "NOTIFY_SIGNAL" \in IEvent[d].Type => Sounds(gEventQueue', stack', d)

\* Steps that change no event, or only times and periods.
LEMMA QuietSame ==
  ASSUME IInv, UNCHANGED <<gEventSignalQueue, Signature, gEventQueue>>,
         \/ UNCHANGED IEvent
         \/ \E e, n : IEvent' = [IEvent EXCEPT ![e].TriggerTime = n]
         \/ \E e, n, m : IEvent' = [IEvent EXCEPT ![e].TriggerTime = n, ![e].Period = m]
  PROVE  Quiet
<1>1. IEvent \in [EventIds -> EventStructs]
  BY DEF IInv, EventInv, StructOk
<1>2. \A d \in EventIds : /\ IEvent'[d].Type = IEvent[d].Type
                          /\ IEvent'[d].SignalCount = IEvent[d].SignalCount
  <2>1. CASE UNCHANGED IEvent
    BY <2>1
  <2>2. ASSUME NEW e, NEW n, IEvent' = [IEvent EXCEPT ![e].TriggerTime = n]
        PROVE  \A d \in EventIds : /\ IEvent'[d].Type = IEvent[d].Type
                                   /\ IEvent'[d].SignalCount = IEvent[d].SignalCount
    BY <1>1, <2>2 DEF EventStructs
  <2>3. ASSUME NEW e, NEW n, NEW m,
               IEvent' = [IEvent EXCEPT ![e].TriggerTime = n, ![e].Period = m]
        PROVE  \A d \in EventIds : /\ IEvent'[d].Type = IEvent[d].Type
                                   /\ IEvent'[d].SignalCount = IEvent[d].SignalCount
    BY <1>1, <2>3 DEF EventStructs
  <2>4. QED
    BY <2>1, <2>2, <2>3
<1>3. QED
  BY <1>2 DEF Quiet

\* CoreSignalEvent.
LEMMA QuietSignal ==
  ASSUME IInv, NEW e \in EventIds, NEW S, NEW s \in Seq(S), NEW tpl, CoreSignalEvent(e, s, tpl)
  PROVE  Quiet
<1> DEFINE G == Frame("Group", "list", tpl, e, 0)
           R == RestoreFrame(tpl)
<1>1. IEvent \in [EventIds -> EventStructs] /\ EventInv
  BY DEF IInv, EventInv, StructOk
<1>2. UNCHANGED <<gEventSignalQueue, Signature>>
  BY DEF CoreSignalEvent
<1>3. \/ UNCHANGED IEvent /\ UNCHANGED gEventQueue
      \/ /\ IEvent' = [IEvent EXCEPT ![e].SignalCount = 1]
         /\ \/ IsSignal(e) /\ CoreNotifyEvent(e)
            \/ ~IsSignal(e) /\ UNCHANGED gEventQueue
            \/ stack' = Call(Call(s, G), R) /\ UNCHANGED gEventQueue
  BY DEF CoreSignalEvent
<1>4. \A d \in EventIds : /\ IEvent'[d].Type = IEvent[d].Type
                          /\ d = e \/ IEvent'[d].SignalCount = IEvent[d].SignalCount
  BY <1>1, <1>3 DEF EventStructs
<1>5. CASE UNCHANGED IEvent /\ UNCHANGED gEventQueue
  BY <1>2, <1>5 DEF Quiet
<1>6. CASE IsSignal(e) /\ CoreNotifyEvent(e)
  <2>1. InQueue(gEventQueue', e) /\ \A d : InQueue(gEventQueue, d) => InQueue(gEventQueue', d)
    BY <1>1, <1>6, NotifyTplOk, NotifyQueues
  <2>2. QED
    BY <1>2, <1>4, <2>1 DEF Quiet, Sounds
<1>7. CASE ~IsSignal(e) /\ UNCHANGED gEventQueue
  BY <1>2, <1>4, <1>7 DEF Quiet, IsSignal
<1>8. CASE stack' = Call(Call(s, G), R) /\ UNCHANGED gEventQueue
  <2>1. Spreading(G) /\ G.ev = e
    BY DEF Spreading, Frame
  <2> HIDE DEF G, R
  <2>2. s \in Seq(S \cup {G, R})
    OBVIOUS
  <2>3. /\ Call(s, G) \in Seq(S \cup {G, R}) /\ Len(Call(s, G)) = Len(s) + 1
        /\ Call(s, G)[Len(s) + 1] = G /\ Len(s) \in Nat
    BY <2>2, AppendProperties, LenProperties DEF Call
  <2>4. Len(stack') = Len(s) + 2 /\ stack'[Len(s) + 1] = G
    BY <1>8, <2>3, AppendProperties DEF Call
  <2>5. Len(s) + 1 \in 1 .. Len(stack')
    BY <2>3, <2>4
  <2>6. Sounds(gEventQueue', stack', e)
    BY <2>1, <2>4, <2>5 DEF Sounds
  <2>7. QED
    BY <1>2, <1>4, <1>8, <2>6 DEF Quiet
<1>9. QED
  BY <1>3, <1>5, <1>6, <1>7, <1>8

\* CoreCheckEvent and CoreWaitForEvent.
LEMMA QuietCheck ==
  ASSUME IInv, CoreCheckEvent \/ CoreWaitForEvent
  PROVE  Quiet
<1>1. IEvent \in [EventIds -> EventStructs] /\ EventInv
  BY DEF IInv, EventInv, StructOk
<1>2. ASSUME UNCHANGED eventVars PROVE Quiet
  BY <1>2, QuietSame DEF eventVars
<1>3. ASSUME NEW e, NEW s, CheckQueue(e, s) PROVE Quiet
  <2>1. CASE CoreNotifyEvent(e) /\ IsWait(e) /\ e \in Signature
             /\ UNCHANGED <<gEventSignalQueue, IEvent, Signature>>
    <3>1. e \in EventIds
      BY <1>1, <2>1 DEF EventInv
    <3>2. IEvent[e].NotifyTpl \in NotifyTpls
      BY <1>1, <2>1, <3>1, NotifyTplOk
    <3>3. \A d : InQueue(gEventQueue, d) => InQueue(gEventQueue', d)
      BY <1>1, <2>1, <3>1, <3>2, NotifyQueues
    <3>4. QED
      BY <2>1, <3>3 DEF Quiet
  <2>2. QED
    BY <1>2, <1>3, <2>1 DEF CheckQueue
<1>4. ASSUME NEW e, NEW s, CheckPoll(e, s) PROVE Quiet
  <2>1. CASE /\ IEvent' = [IEvent EXCEPT ![e].SignalCount = 0]
             /\ UNCHANGED <<gEventQueue, gEventSignalQueue, Signature>>
    <3>1. \A d \in EventIds : /\ IEvent'[d].Type = IEvent[d].Type
                              /\ IEvent'[d].SignalCount \in {IEvent[d].SignalCount, 0}
      BY <1>1, <2>1 DEF EventStructs
    <3>2. QED
      BY <2>1, <3>1 DEF Quiet
  <2>2. QED
    BY <1>2, <1>4, <2>1 DEF CheckPoll
<1>5. ASSUME Running("Wait", "idle"), CoreSignalEvent(gIdleLoopEvent, Goto(stack, "queue"), Top.tpl)
      PROVE  Quiet
  <2>1. \E S : Goto(stack, "queue") \in Seq(S)
    BY <1>5, CalmGoes DEF Running
  <2>2. QED
    BY <1>5, <2>1, QuietSignal DEF EventIds
<1>6. QED
  BY <1>3, <1>4, <1>5 DEF CoreCheckEvent, CoreWaitForEvent

\* Every step is quiet but those that dispatch, spread a signal, create or close.
LEMMA QuietSteps ==
  ASSUME IInv, Next, ~DispatchNext, ~GroupList, ~CoreNotifySignalList, ~CoreCloseEvent,
         ~ClientClose, ~ClientCreate
  PROVE  Quiet
<1>1. stack \in Seq(Frames)
  BY StackSeq
<1>2. {mEfiCheckTimerEvent, gIdleLoopEvent} \subseteq EventIds /\ Events \subseteq EventIds
  BY DEF EventIds
<1>3. ASSUME UNCHANGED eventVars PROVE Quiet
  BY <1>3, QuietSame DEF eventVars
<1>4. CASE Step
  <2>1. ASSUME CoreRestoreTpl \/ DispatchCall \/ GroupRelock \/ InterruptReturn
               \/ NotifyReturn \/ ClientRestore
        PROVE  Quiet
    BY <1>3, <2>1 DEF CoreRestoreTpl, RestoreTest, RestoreEnter, RestoreSet, DispatchCall,
                      GroupRelock, InterruptReturn, NotifyReturn, ClientRestore
  <2>2. ASSUME CoreCheckTimers PROVE Quiet
    <3>0. Top.k = "Timers"
      BY <2>2 DEF CoreCheckTimers, TimersAcquire, TimersScan, TimersRearm, TimersKick,
                  TimersInsert, Running
    <3>1. ASSUME TimersAcquire \/ TimersInsert PROVE Quiet
      BY <1>3, <3>1 DEF TimersAcquire, TimersInsert
    <3>2. ASSUME TimersScan PROVE Quiet
      <4> DEFINE e == Head(mEfiTimerList)
                 s == Become(stack, [Top EXCEPT !.pc = "rearm", !.ev = e])
      <4>1. \E S : s \in Seq(S)
        BY <3>0, CalmGoes
      <4>2. \/ mEfiTimerList # <<>> /\ CoreSignalEvent(e, s, Top.tpl)
            \/ UNCHANGED eventVars
        BY <3>2 DEF TimersScan
      <4>3. mEfiTimerList # <<>> => e \in EventIds
        BY HeadTailProperties DEF IInv, TimerInv
      <4> HIDE DEF e, s
      <4>4. QED
        BY <1>3, <4>1, <4>2, <4>3, QuietSignal
    <3>3. ASSUME TimersRearm PROVE Quiet
      BY <3>3, QuietSame DEF TimersRearm
    <3>4. ASSUME TimersKick PROVE Quiet
      <4>1. \E S : Goto(stack, "insert") \in Seq(S)
        BY <3>0, CalmGoes
      <4>2. QED
        BY <1>2, <3>4, <4>1, QuietSignal DEF TimersKick
    <3>5. QED
      BY <2>2, <3>1, <3>2, <3>3, <3>4 DEF CoreCheckTimers
  <2>3. ASSUME SetTimerStep PROVE Quiet
    <3>0. Top.k = "SetTimer"
      BY <2>3 DEF SetTimerStep, SetTimerUnlink, SetTimerTime, SetTimerInsert, SetTimerRelease,
                  Running
    <3>1. ASSUME SetTimerUnlink PROVE Quiet
      BY <3>1, QuietSame DEF SetTimerUnlink
    <3>2. ASSUME SetTimerTime PROVE Quiet
      BY <3>2, QuietSame DEF SetTimerTime
    <3>3. ASSUME SetTimerInsert PROVE Quiet
      <4>1. \E S : Goto(stack, "release") \in Seq(S)
        BY <3>0, CalmGoes
      <4>2. QED
        BY <1>2, <1>3, <3>3, <4>1, QuietSignal DEF SetTimerInsert
    <3>4. ASSUME SetTimerRelease PROVE Quiet
      BY <1>3, <3>4 DEF SetTimerRelease
    <3>5. QED
      BY <2>3, <3>1, <3>2, <3>3, <3>4 DEF SetTimerStep
  <2>4. QED
    BY <1>4, <2>1, <2>2, <2>3, QuietCheck DEF Step, CoreDispatchEventNotifies
<1>5. CASE ClientCall
  <2>1. ClientSignal => Quiet
    BY <1>1, <1>2, QuietSignal DEF ClientSignal
  <2>2. ClientRaise \/ ClientCheck \/ ClientWait \/ ClientSetTimer => Quiet
    BY <1>3 DEF ClientRaise, ClientCheck, ClientWait, ClientSetTimer
  <2>3. QED
    BY <1>5, <2>1, <2>2 DEF ClientCall
<1>6. CASE TimerInterruptHandler
  <2> DEFINE f == Frame("Irq", "iret", gEfiCurrentTpl, NoEvent, 0)
  <2>1. Call(stack, f) \in Seq(Frames \cup {f})
    BY <1>1, CalmCall, CalmKinds
  <2>2. \/ UNCHANGED eventVars
        \/ CoreSignalEvent(mEfiCheckTimerEvent, Call(stack, f), gEfiCurrentTpl)
    BY <1>6 DEF TimerInterruptHandler, CoreTimerTick
  <2> HIDE DEF f
  <2>3. QED
    BY <1>2, <1>3, <2>1, <2>2, QuietSignal
<1>7. QED
  BY <1>4, <1>5, <1>6 DEF Next

\* A notification stays announced while the activations that carry it stay.
LEMMA CarriersKeep ==
  ASSUME NEW s, NEW t, NEW e,
         \A i \in 1 .. Len(s) : Carries(s[i]) /\ s[i].ev = e => i \in 1 .. Len(t) /\ t[i] = s[i],
         NEW q, NEW q2, NEW sq, Announced(s, q, sq, e),
         InQueue(q, e) => InQueue(q2, e)
  PROVE  Announced(t, q2, sq, e)
<1>1. CASE InQueue(q, e)
  BY <1>1 DEF Announced
<1>2. ASSUME NEW i \in 1 .. Len(s), s[i].ev = e, s[i].k = "Close" \/ Spreading(s[i])
      PROVE  Announced(t, q2, sq, e)
  BY <1>2 DEF Announced, Carries
<1>3. ASSUME NEW i \in 1 .. Len(s), s[i].ev = e, s[i].k = "List",
             NEW p \in 1 .. Len(sq), p >= s[i].x, sq[p] = e
      PROVE  Announced(t, q2, sq, e)
  <2>1. i \in 1 .. Len(t) /\ t[i] = s[i]
    BY <1>3 DEF Carries
  <2>2. QED
    BY <1>3, <2>1 DEF Announced
<1>4. QED
  BY <1>1, <1>2, <1>3 DEF Announced

\* A calm step that is not taken by the walk keeps the parts about the stack.
LEMMA CalmStack ==
  ASSUME IInv, SInv, Calm(stack, stack'), Top.k # "List", NEW sig, Signature \subseteq sig
  PROVE  ListOnTop(stack') /\ (SafeClose => NotClosed(stack', sig))
<1>1. \A i \in 1 .. Len(stack') : Marked(stack'[i]) =>
        /\ i \in 1 .. Len(stack) /\ Marked(stack[i])
        /\ stack[i].k = stack'[i].k /\ stack[i].ev = stack'[i].ev
  BY DEF Calm
<1>2. ListOnTop(stack')
  <2>1. \A i \in 1 .. Len(stack) : stack[i].k # "List"
    BY StackSeq DEF SInv, ListOnTop
  <2>2. QED
    BY <1>1, <2>1 DEF ListOnTop, Marked
<1>3. ASSUME SafeClose PROVE NotClosed(stack', sig)
  <2>1. \A i \in 1 .. Len(stack') : Dispatching(stack'[i]) =>
          i \in 1 .. Len(stack) /\ Dispatching(stack[i]) /\ stack[i].ev = stack'[i].ev
    BY <1>1 DEF Marked, Dispatching
  <2>2. \A i \in 1 .. Len(stack') : stack'[i].k = "Close" =>
          i \in 1 .. Len(stack) /\ stack[i].k = "Close" /\ stack[i].ev = stack'[i].ev
    BY <1>1 DEF Marked
  <2>3. QED
    BY <1>3, <2>1, <2>2 DEF NotClosed, SInv
<1>4. QED
  BY <1>2, <1>3

\* Calm and quiet steps keep the invariant.
LEMMA QuietInv ==
  ASSUME IInv, SInv, Calm(stack, stack'), Top.k # "List", Quiet
  PROVE  SInv'
<1>1. Signature \subseteq EventIds
  BY StackSeq
<1>2. /\ Signature' = Signature /\ gEventSignalQueue' = gEventSignalQueue
      /\ \A d : InQueue(gEventQueue, d) => InQueue(gEventQueue', d)
      /\ \A d \in Signature :
           /\ IEvent'[d].Type = IEvent[d].Type
           /\ \/ IEvent'[d].SignalCount \in {IEvent[d].SignalCount, 0}
              \/ "NOTIFY_SIGNAL" \in IEvent[d].Type => Sounds(gEventQueue', stack', d)
  BY <1>1 DEF Quiet
<1>3. Heard(stack', gEventQueue', gEventSignalQueue, Signature, IEvent')
  <2> SUFFICES ASSUME NEW e \in Signature, "NOTIFY_SIGNAL" \in IEvent'[e].Type,
                      IEvent'[e].SignalCount # 0
               PROVE  Announced(stack', gEventQueue', gEventSignalQueue, e)
    BY DEF Heard
  <2>1. CASE Sounds(gEventQueue', stack', e)
    BY <2>1 DEF Announced, Sounds
  <2>2. CASE IEvent'[e].SignalCount = IEvent[e].SignalCount
    <3>1. Announced(stack, gEventQueue, gEventSignalQueue, e)
      BY <1>2, <2>2 DEF SInv, Heard
    <3>2. QED
      BY <1>2, <3>1, CarriersKeep DEF Calm
  <2>3. QED
    BY <1>2, <2>1, <2>2
<1>4. Listed(stack', gEventSignalQueue, Signature, IEvent')
  <2>1. \A i \in 1 .. Len(stack) : Freeing(stack[i]) => i \in 1 .. Len(stack') /\ stack'[i] = stack[i]
    BY DEF Calm, Carries, Freeing
  <2>2. QED
    BY <1>2, <2>1 DEF SInv, Listed
<1>5. QED
  BY <1>2, <1>3, <1>4, CalmStack DEF SInv

-----------------------------------------------------------------------------
(***************************************************************************)
(* The steps that dispatch, spread a signal, create and close.             *)
(***************************************************************************)

\* Dispatching: the event that leaves the queue is no longer signalled.
LEMMA DispatchNextSignals ==
  ASSUME IInv, LInv, SInv, DispatchNext
  PROVE  SInv'
<1> DEFINE p == Top.tpl
           n == Len(stack)
<1>1. /\ stack \in Seq(Frames) /\ stack # <<>> /\ stack[n] = Top /\ Top \in Frames
      /\ Top.k = "Dispatch" /\ p \in NotifyTpls /\ p \in Tpls /\ n \in Nat /\ n \in 1 .. n
  <2>1. Top.k = "Dispatch" /\ n \in Nat /\ n # 0
    BY TopFacts DEF DispatchNext, Running
  <2>2. QED
    BY <2>1, StackSeq, TopFacts DEF LocalOk
<1>2. ~Carries(Top)
  BY <1>1, CalmKinds
<1>3. CASE stack' = Become(stack, RestoreFrame(p)) /\ UNCHANGED <<gEventQueue, IEvent>>
  <2>1. Calm(stack, stack')
    BY <1>1, <1>2, <1>3, CalmKinds, CalmBecome
  <2>2. Quiet
    BY <1>3, QuietSame DEF DispatchNext
  <2>3. QED
    BY <1>1, <2>1, <2>2, QuietInv
<1>4. ASSUME gEventQueue[p] # <<>>,
             NEW e, e = Head(gEventQueue[p]),
             gEventQueue' = [gEventQueue EXCEPT ![p] = Tail(@)],
             IEvent' = IF IsSignal(e) THEN [IEvent EXCEPT ![e].SignalCount = 0] ELSE IEvent,
             stack' = Call(Become(stack, Frame("Dispatch", "call", p, e, 0)), RestoreFrame(p))
      PROVE  SInv'
  <2> DEFINE D == Frame("Dispatch", "call", p, e, 0)
             R == RestoreFrame(p)
             q == gEventQueue[p]
  <2>1. /\ gEventQueue \in [NotifyTpls -> Seq(EventIds)] /\ IEvent \in [EventIds -> EventStructs]
        /\ UNCHANGED <<gEventSignalQueue, Signature>>
        /\ Signature \subseteq EventIds /\ gEventSignalQueue \in Seq(EventIds)
    BY DEF IInv, EventInv, QueueOk, StructOk, SignalQueueOk, DispatchNext
  <2>2. q \in Seq(EventIds) /\ Len(q) \in Nat /\ Len(q) # 0 /\ q # <<>>
    BY <1>1, <1>4, <2>1, LenProperties, EmptySeq
  <2>3. /\ Tail(q) \in Seq(EventIds) /\ Len(Tail(q)) = Len(q) - 1 /\ e = q[1]
        /\ \A i \in 1 .. Len(Tail(q)) : Tail(q)[i] = q[i + 1]
    BY <1>4, <2>2, HeadTailProperties
  <2>4. e \in Signature
    BY <1>1, <2>2, <2>3 DEF LInv, LI, QueuesLive
  <2>5. D \in Frames /\ Dispatching(D) /\ D.ev = e /\ R \in Frames
    BY <1>1, <2>1, <2>4 DEF Dispatching, RestoreFrame, Frame, Frames, Kinds, Pcs
  <2>6. ~Marked(R) /\ R.k = "Restore" /\ D.k = "Dispatch"
    BY CalmKinds DEF RestoreFrame, Frame
  <2>7. stack' = Call(Become(stack, D), R)
    BY <1>4
  <2> HIDE DEF D, R
  <2>8. /\ Len(stack') = n + 1 /\ stack'[n] = D /\ stack'[n + 1] = R
        /\ \A i \in 1 .. n : i # n => stack'[i] = stack[i]
    <3>1. /\ Become(stack, D) \in Seq(Frames) /\ Become(stack, D) # <<>>
          /\ Len(Become(stack, D)) = n /\ Become(stack, D)[n] = D
          /\ \A i \in 1 .. n : i # n => Become(stack, D)[i] = stack[i]
      BY <1>1, <2>5, StackShapes
    <3>2. /\ Len(stack') = Len(Become(stack, D)) + 1 /\ stack'[Len(Become(stack, D)) + 1] = R
          /\ \A i \in 1 .. Len(Become(stack, D)) : stack'[i] = Become(stack, D)[i]
      BY <2>5, <2>7, <3>1, StackShapes, ZenonT(40)
    <3>3. QED
      BY <1>1, <3>1, <3>2
  <2>9. /\ \A i \in 1 .. n : i \in 1 .. Len(stack')
        /\ \A i \in 1 .. Len(stack') : i \in 1 .. n \/ i = n + 1
        /\ ~(n + 1 < n) /\ ~(n < n)
        /\ \A i \in 1 .. n : ~(i > n)
    BY <1>1, <2>8
  <2>10. \A i \in 1 .. n : Carries(stack[i]) => i \in 1 .. Len(stack') /\ stack'[i] = stack[i]
    BY <1>1, <1>2, <2>8, <2>9
  <2>11. \A d : d # e /\ InQueue(gEventQueue, d) => InQueue(gEventQueue', d)
    <3> SUFFICES ASSUME NEW d, d # e, NEW t \in NotifyTpls, NEW i \in 1 .. Len(gEventQueue[t]),
                        gEventQueue[t][i] = d
                 PROVE  \E j \in 1 .. Len(gEventQueue'[t]) : gEventQueue'[t][j] = d
      BY DEF InQueue, Out
    <3>1. CASE t # p
      BY <1>4, <2>1, <3>1
    <3>2. CASE t = p
      <4>1. gEventQueue'[t] = Tail(q) /\ i # 1
        BY <1>1, <1>4, <2>1, <2>3, <3>2
      <4>2. i - 1 \in 1 .. Len(Tail(q)) /\ (i - 1) + 1 = i
        BY <2>2, <2>3, <3>2, <4>1
      <4>3. QED
        BY <2>3, <3>2, <4>1, <4>2
    <3>3. QED
      BY <3>1, <3>2
  <2>12. \A d \in EventIds :
           /\ IEvent'[d].Type = IEvent[d].Type
           /\ d # e => IEvent'[d].SignalCount = IEvent[d].SignalCount
           /\ "NOTIFY_SIGNAL" \in IEvent[e].Type => IEvent'[e].SignalCount = 0
    BY <1>4, <2>1, <2>4 DEF EventStructs, IsSignal
  <2>13. Heard(stack', gEventQueue', gEventSignalQueue, Signature, IEvent')
    <3> SUFFICES ASSUME NEW d \in Signature, "NOTIFY_SIGNAL" \in IEvent'[d].Type,
                        IEvent'[d].SignalCount # 0
                 PROVE  Announced(stack', gEventQueue', gEventSignalQueue, d)
      BY DEF Heard
    <3>1. /\ d # e /\ "NOTIFY_SIGNAL" \in IEvent[d].Type
          /\ IEvent[d].SignalCount # 0
      BY <2>1, <2>4, <2>12
    <3>2. Announced(stack, gEventQueue, gEventSignalQueue, d)
      BY <3>1 DEF SInv, Heard
    <3>3. QED
      BY <2>10, <2>11, <3>1, <3>2, CarriersKeep
  <2>14. Listed(stack', gEventSignalQueue, Signature, IEvent')
    <3>1. \A i \in 1 .. n : Freeing(stack[i]) => i \in 1 .. Len(stack') /\ stack'[i] = stack[i]
      BY <2>10 DEF Carries, Freeing
    <3>2. QED
      BY <2>1, <2>12, <3>1 DEF SInv, Listed
  <2>15. ListOnTop(stack')
    <3>1. \A i \in 1 .. n : stack[i].k # "List"
      BY <1>1 DEF SInv, ListOnTop
    <3>2. QED
      BY <2>6, <2>8, <2>9, <3>1 DEF ListOnTop
  <2>16. ASSUME SafeClose PROVE NotClosed(stack', Signature)
    <3>1. /\ \A i \in 1 .. Len(stack') : Dispatching(stack'[i]) =>
               i = n \/ (i \in 1 .. n /\ i # n /\ Dispatching(stack[i]) /\ stack[i] = stack'[i])
          /\ \A i \in 1 .. Len(stack') : stack'[i].k = "Close" =>
               i \in 1 .. n /\ i # n /\ stack[i].k = "Close" /\ stack[i] = stack'[i]
      BY <2>6, <2>8, <2>9 DEF Dispatching
    <3>2. \A i \in 1 .. n : i > n => FALSE
      BY <2>9
    <3>3. NotClosed(stack, Signature)
      BY <2>16 DEF SInv
    <3>4. QED
      BY <2>4, <2>5, <2>8, <3>1, <3>2, <3>3 DEF NotClosed
  <2>17. QED
    BY <2>1, <2>13, <2>14, <2>15, <2>16 DEF SInv
<1>5. QED
  BY <1>3, <1>4 DEF DispatchNext

\* GroupList: the signal of the group is handed to the walk over the signal queue.
LEMMA GroupListSignals ==
  ASSUME IInv, SInv, GroupList
  PROVE  SInv'
<1> DEFINE n == Len(stack)
           G == [Top EXCEPT !.pc = "relock"]
           L == Frame("List", "link", TPL_HIGH_LEVEL, Top.ev, 1)
<1>1. /\ stack \in Seq(Frames) /\ stack # <<>> /\ stack[n] = Top /\ Top \in Frames
      /\ Top.k = "Group" /\ Top.pc = "list" /\ n \in Nat /\ n \in 1 .. n
  <2>1. Top.k = "Group" /\ Top.pc = "list" /\ n \in Nat /\ n # 0
    BY TopFacts DEF GroupList, Running
  <2>2. QED
    BY <2>1, StackSeq
<1>2. /\ UNCHANGED <<gEventQueue, gEventSignalQueue, IEvent, Signature>>
      /\ stack' = Call(Become(stack, G), L)
  BY GotoIs DEF GroupList, eventVars
<1>3. /\ G \in Frames /\ G.k = "Group" /\ G.pc = "relock" /\ G.ev = Top.ev
      /\ L \in Frames /\ L.k = "List" /\ L.ev = Top.ev /\ L.x = 1
  <2>1. TPL_HIGH_LEVEL \in Tpls /\ Top.ev \in EventIds \cup {NoEvent}
    BY <1>1, TplFacts DEF Frames
  <2>2. QED
    BY <1>1, <2>1 DEF Frame, Frames, Kinds, Pcs
<1> HIDE DEF G, L
<1>4. /\ Len(stack') = n + 1 /\ stack'[n] = G /\ stack'[n + 1] = L
      /\ \A i \in 1 .. n : i # n => stack'[i] = stack[i]
  <2>1. /\ Become(stack, G) \in Seq(Frames) /\ Become(stack, G) # <<>>
        /\ Len(Become(stack, G)) = n /\ Become(stack, G)[n] = G
        /\ \A i \in 1 .. n : i # n => Become(stack, G)[i] = stack[i]
    BY <1>1, <1>3, StackShapes
  <2>2. /\ Len(stack') = Len(Become(stack, G)) + 1 /\ stack'[Len(Become(stack, G)) + 1] = L
        /\ \A i \in 1 .. Len(Become(stack, G)) : stack'[i] = Become(stack, G)[i]
    BY <1>2, <1>3, <2>1, StackShapes
  <2>3. QED
    BY <1>1, <2>1, <2>2
<1>5. /\ \A i \in 1 .. n : i \in 1 .. Len(stack')
      /\ \A i \in 1 .. Len(stack') : i \in 1 .. n \/ i = n + 1
      /\ n + 1 \in 1 .. Len(stack')
  BY <1>1, <1>4
<1>6. Heard(stack', gEventQueue, gEventSignalQueue, Signature, IEvent)
  <2> SUFFICES ASSUME NEW e \in Signature, "NOTIFY_SIGNAL" \in IEvent[e].Type,
                      IEvent[e].SignalCount # 0
               PROVE  Announced(stack', gEventQueue, gEventSignalQueue, e)
    BY DEF Heard
  <2>1. CASE e # Top.ev
    <3>1. \A i \in 1 .. n : Carries(stack[i]) /\ stack[i].ev = e =>
            i \in 1 .. Len(stack') /\ stack'[i] = stack[i]
      BY <1>1, <1>4, <1>5, <2>1
    <3>2. Announced(stack, gEventQueue, gEventSignalQueue, e)
      BY DEF SInv, Heard
    <3>3. QED
      BY <3>1, <3>2, CarriersKeep
  <2>2. CASE e = Top.ev
    <3>1. CASE ~Out(gEventSignalQueue, e)
      <4>1. PICK p \in 1 .. Len(gEventSignalQueue) : gEventSignalQueue[p] = e
        BY <3>1 DEF Out
      <4>2. p >= L.x
        BY <1>3
      <4>3. QED
        BY <1>3, <1>4, <1>5, <2>2, <4>1, <4>2 DEF Announced
    <3>2. ASSUME NEW i \in 1 .. n, Freeing(stack[i]), stack[i].ev = e
          PROVE  Announced(stack', gEventQueue, gEventSignalQueue, e)
      <4>1. i # n /\ stack'[i].k = "Close" /\ stack'[i].ev = e /\ i \in 1 .. Len(stack')
        BY <1>1, <1>4, <1>5, <3>2 DEF Freeing
      <4>2. QED
        BY <4>1 DEF Announced
    <3>3. QED
      BY <3>1, <3>2 DEF SInv, Listed
  <2>3. QED
    BY <2>1, <2>2
<1>7. Listed(stack', gEventSignalQueue, Signature, IEvent)
  <2>1. \A i \in 1 .. n : Freeing(stack[i]) => i \in 1 .. Len(stack') /\ stack'[i] = stack[i]
    BY <1>1, <1>4, <1>5 DEF Freeing
  <2>2. QED
    BY <2>1 DEF SInv, Listed
<1>8. ListOnTop(stack')
  <2>1. \A i \in 1 .. n : stack[i].k # "List"
    BY <1>1 DEF SInv, ListOnTop
  <2>2. QED
    BY <1>3, <1>4, <1>5, <2>1 DEF ListOnTop
<1>9. ASSUME SafeClose PROVE NotClosed(stack', Signature)
  <2>1. \A i \in 1 .. Len(stack') : Dispatching(stack'[i]) \/ stack'[i].k = "Close" =>
          i \in 1 .. n /\ stack[i] = stack'[i]
    BY <1>3, <1>4, <1>5 DEF Dispatching
  <2>2. NotClosed(stack, Signature)
    BY <1>9 DEF SInv
  <2>3. QED
    BY <2>1, <2>2 DEF NotClosed
<1>10. QED
  BY <1>2, <1>6, <1>7, <1>8, <1>9 DEF SInv

\* CoreNotifySignalList reaches every event of the group that is in the list.
LEMMA SignalListSignals ==
  ASSUME IInv, SInv, CoreNotifySignalList
  PROVE  SInv'
<1> DEFINE n == Len(stack)
           N == [Top EXCEPT !.x = @ + 1]
           R == RestoreFrame(Caller.tpl)
           sq == gEventSignalQueue
<1>1. /\ stack \in Seq(Frames) /\ stack # <<>> /\ stack[n] = Top /\ Top \in Frames
      /\ Top.k = "List" /\ n \in Nat /\ n \in 1 .. n /\ EventInv /\ Top.x \in Nat /\ Top.x # 0
  <2>1. Top.k = "List" /\ n \in Nat /\ n # 0 /\ Top.x # 0
    BY TopFacts DEF CoreNotifySignalList, Running, LocalOk
  <2>2. QED
    BY <2>1, StackSeq
<1>2. /\ UNCHANGED <<gEventSignalQueue, IEvent, Signature>>
      /\ sq \in Seq(EventIds) /\ Len(sq) \in Nat
      /\ \A i \in 1 .. Len(sq) : sq[i] \in EventIds /\ "NOTIFY_SIGNAL" \in IEvent[sq[i]].Type
  BY <1>1, LenProperties, ElementOfSeq DEF CoreNotifySignalList, EventInv, SignalQueueOk
<1>3. PICK f : /\ stack' = Become(stack, f) /\ ~Dispatching(f) /\ f.k # "Close"
               /\ \/ /\ Top.x <= Len(sq) /\ f = N
                     /\ IF IEvent[sq[Top.x]].EventGroup = IEvent[Top.ev].EventGroup
                        THEN CoreNotifyEvent(sq[Top.x])
                        ELSE UNCHANGED gEventQueue
                  \/ Top.x > Len(sq) /\ f.k = "Restore" /\ UNCHANGED gEventQueue
  <2>1. N.k = "List" /\ ~Dispatching(N) /\ N.k # "Close"
    BY <1>1 DEF Frames, Dispatching
  <2>2. R.k = "Restore" /\ ~Dispatching(R) /\ R.k # "Close"
    BY DEF RestoreFrame, Frame, Dispatching
  <2>3. CASE Top.x <= Len(sq)
    <3>1. ~(Top.x > Len(sq))
      BY <1>1, <1>2, <2>3
    <3>2. /\ stack' = Become(stack, N)
          /\ IF IEvent[sq[Top.x]].EventGroup = IEvent[Top.ev].EventGroup
             THEN CoreNotifyEvent(sq[Top.x])
             ELSE UNCHANGED gEventQueue
      BY <3>1 DEF CoreNotifySignalList
    <3> HIDE DEF N
    <3>3. QED
      BY <2>1, <2>3, <3>2
  <2>4. CASE Top.x > Len(sq)
    BY <1>1, <1>2, <2>2, <2>4 DEF CoreNotifySignalList
  <2>5. QED
    BY <1>1, <1>2, <2>3, <2>4
<1>4. N \in Frames /\ N.k = "List" /\ N.ev = Top.ev /\ N.x = Top.x + 1
  BY <1>1 DEF Frames
<1> HIDE DEF N
<1>5. /\ Len(stack') = n /\ stack'[n] = f
      /\ \A i \in 1 .. n : i # n => stack'[i] = stack[i]
  <2>1. stack \in Seq(Frames \cup {f}) /\ f \in Frames \cup {f}
    BY <1>1
  <2>2. QED
    BY <1>1, <1>3, <2>1, ExceptSeq DEF Become
<1>6. /\ \A d : InQueue(gEventQueue, d) => InQueue(gEventQueue', d)
      /\ Top.x <= Len(sq) /\ IEvent[sq[Top.x]].EventGroup = IEvent[Top.ev].EventGroup
           => InQueue(gEventQueue', sq[Top.x])
  <2>1. CASE UNCHANGED gEventQueue
           /\ ~(Top.x <= Len(sq) /\ IEvent[sq[Top.x]].EventGroup = IEvent[Top.ev].EventGroup)
    BY <2>1
  <2>2. CASE Top.x <= Len(sq) /\ CoreNotifyEvent(sq[Top.x])
    <3>1. Top.x \in 1 .. Len(sq)
      BY <1>1, <1>2, <2>2
    <3>2. sq[Top.x] \in EventIds /\ IsSignal(sq[Top.x])
      BY <1>2, <3>1 DEF IsSignal
    <3>3. QED
      BY <1>1, <2>2, <3>2, NotifyTplOk, NotifyQueues
  <2>3. QED
    BY <1>1, <1>2, <1>3, <2>1, <2>2
<1>7. Heard(stack', gEventQueue', sq, Signature, IEvent)
  <2> SUFFICES ASSUME NEW e \in Signature, "NOTIFY_SIGNAL" \in IEvent[e].Type,
                      IEvent[e].SignalCount # 0
               PROVE  Announced(stack', gEventQueue', sq, e)
    BY DEF Heard
  <2>1. Announced(stack, gEventQueue, sq, e)
    BY DEF SInv, Heard
  <2>2. CASE InQueue(gEventQueue, e)
    BY <1>6, <2>2 DEF Announced
  <2>3. ASSUME NEW i \in 1 .. n, i # n, stack[i].ev = e, stack[i].k = "Close" \/ Spreading(stack[i])
        PROVE  Announced(stack', gEventQueue', sq, e)
    BY <1>5, <2>3 DEF Announced
  <2>4. ASSUME Top.ev = e, NEW p \in 1 .. Len(sq), p >= Top.x, sq[p] = e
        PROVE  Announced(stack', gEventQueue', sq, e)
    <3>1. CASE p = Top.x
      <4>1. InQueue(gEventQueue', e)
        BY <1>6, <2>4, <3>1
      <4>2. QED
        BY <4>1 DEF Announced
    <3>2. CASE p # Top.x
      <4>1. Top.x <= Len(sq) /\ p >= Top.x + 1
        BY <1>1, <1>2, <2>4, <3>2
      <4>2. f = N
        BY <1>1, <1>2, <1>3, <4>1
      <4>3. QED
        BY <1>1, <1>4, <1>5, <2>4, <4>1, <4>2 DEF Announced
    <3>3. QED
      BY <3>1, <3>2
  <2>5. \A i \in 1 .. n : stack[i].k = "List" => i = n
    BY DEF SInv, ListOnTop
  <2>6. ~(Top.k = "Close" \/ Spreading(Top))
    BY <1>1 DEF Spreading
  <2>7. QED
    BY <1>1, <2>1, <2>2, <2>3, <2>4, <2>5, <2>6 DEF Announced
<1>8. Listed(stack', sq, Signature, IEvent)
  <2>1. \A i \in 1 .. n : Freeing(stack[i]) => i \in 1 .. Len(stack') /\ stack'[i] = stack[i]
    BY <1>1, <1>5 DEF Freeing
  <2>2. QED
    BY <2>1 DEF SInv, Listed
<1>9. ListOnTop(stack')
  <2>1. \A i \in 1 .. n : stack[i].k = "List" => i = n
    BY DEF SInv, ListOnTop
  <2>2. QED
    BY <1>5, <2>1 DEF ListOnTop
<1>10. ASSUME SafeClose PROVE NotClosed(stack', Signature)
  <2>1. \A i \in 1 .. Len(stack') : Dispatching(stack'[i]) \/ stack'[i].k = "Close" =>
          i \in 1 .. n /\ stack[i] = stack'[i]
    BY <1>3, <1>5 DEF Dispatching
  <2>2. NotClosed(stack, Signature)
    BY <1>10 DEF SInv
  <2>3. QED
    BY <2>1, <2>2 DEF NotClosed
<1>11. QED
  BY <1>2, <1>7, <1>8, <1>9, <1>10 DEF SInv

\* CoreCloseEvent goes on: its activation stays, and calls what is not marked.
LEMMA CloserStays ==
  ASSUME IInv, Top.k = "Close", NEW pc \in Pcs, NEW t, NEW f, ~Marked(f),
         t = Goto(stack, pc) \/ t = Call(Goto(stack, pc), f)
  PROVE  /\ Len(stack) \in 1 .. Len(t) /\ t[Len(stack)].k = "Close"
         /\ t[Len(stack)].ev = Top.ev /\ t[Len(stack)].pc = pc
         /\ \A i \in 1 .. Len(stack) : i # Len(stack) => i \in 1 .. Len(t) /\ t[i] = stack[i]
         /\ \A i \in 1 .. Len(t) : Marked(t[i]) => i \in 1 .. Len(stack)
<1> DEFINE n == Len(stack)
           g == [Top EXCEPT !.pc = pc]
           s == Become(stack, g)
<1>1. /\ stack \in Seq(Frames) /\ stack # <<>> /\ stack[n] = Top /\ Top \in Frames
      /\ n \in Nat /\ n \in 1 .. n
  <2>1. n \in Nat /\ n # 0
    BY TopFacts
  <2>2. QED
    BY <2>1, StackSeq
<1>2. g \in Frames /\ g.k = "Close" /\ g.ev = Top.ev /\ g.pc = pc
  BY <1>1, GotoFrame
<1>3. t = s \/ t = Call(s, f)
  BY GotoIs
<1> HIDE DEF g
<1>4. /\ s \in Seq(Frames) /\ Len(s) = n /\ s[n] = g
      /\ \A i \in 1 .. n : i # n => s[i] = stack[i]
  BY <1>1, <1>2, StackShapes
<1> HIDE DEF s
<1>5. CASE t = s
  BY <1>1, <1>2, <1>4, <1>5
<1>6. CASE t = Call(s, f)
  <2>1. s \in Seq(Frames \cup {f}) /\ f \in Frames \cup {f}
    BY <1>4
  <2>2. Len(t) = n + 1 /\ t[n + 1] = f /\ \A i \in 1 .. n : t[i] = s[i]
    BY <1>4, <1>6, <2>1, AppendProperties DEF Call
  <2>3. /\ \A i \in 1 .. n : i \in 1 .. Len(t)
        /\ \A i \in 1 .. Len(t) : i \in 1 .. n \/ i = n + 1
    BY <1>1, <2>2
  <2>4. QED
    BY <1>1, <1>2, <1>4, <2>2, <2>3
<1>7. QED
  BY <1>3, <1>5, <1>6

\* CloseCancel and CloseUnlink: the event is given up, the others are not touched.
LEMMA CloserSignals ==
  ASSUME IInv, SInv, Top.k = "Close", Top.pc # "free", NEW pc \in Pcs, NEW f, ~Marked(f),
         stack' = Goto(stack, pc) \/ stack' = Call(Goto(stack, pc), f),
         UNCHANGED <<IEvent, Signature>>,
         \A d : d # Top.ev /\ InQueue(gEventQueue, d) => InQueue(gEventQueue', d),
         \A d : d # Top.ev /\ Out(gEventSignalQueue', d) => Out(gEventSignalQueue, d),
         Out(gEventSignalQueue', Top.ev) => pc = "free" \/ Out(gEventSignalQueue, Top.ev)
  PROVE  SInv'
<1> DEFINE n == Len(stack)
           s == stack'
           q == gEventQueue'
           sq == gEventSignalQueue'
<1>1. /\ n \in 1 .. Len(s) /\ s[n].k = "Close" /\ s[n].ev = Top.ev /\ s[n].pc = pc
      /\ \A i \in 1 .. n : i # n => i \in 1 .. Len(s) /\ s[i] = stack[i]
      /\ \A i \in 1 .. Len(s) : Marked(s[i]) => i \in 1 .. n
  BY CloserStays
<1>2. stack[n] = Top /\ \A i \in 1 .. n : stack[i].k # "List"
  BY StackSeq DEF SInv, ListOnTop
<1> HIDE DEF s, q, sq
<1>3. Heard(s, q, sq, Signature, IEvent)
  <2> SUFFICES ASSUME NEW e \in Signature, "NOTIFY_SIGNAL" \in IEvent[e].Type,
                      IEvent[e].SignalCount # 0
               PROVE  Announced(s, q, sq, e)
    BY DEF Heard
  <2>1. CASE e = Top.ev
    BY <1>1, <2>1 DEF Announced
  <2>2. CASE e # Top.ev
    <3>1. Announced(stack, gEventQueue, gEventSignalQueue, e)
      BY DEF SInv, Heard
    <3>2. CASE InQueue(gEventQueue, e)
      BY <2>2, <3>2 DEF Announced, q
    <3>3. ASSUME NEW i \in 1 .. n, stack[i].ev = e, stack[i].k = "Close" \/ Spreading(stack[i])
          PROVE  Announced(s, q, sq, e)
      <4>1. i # n
        BY <1>2, <2>2, <3>3
      <4>2. QED
        BY <1>1, <3>3, <4>1 DEF Announced
    <3>4. QED
      BY <1>2, <3>1, <3>2, <3>3 DEF Announced
  <2>3. QED
    BY <2>1, <2>2
<1>4. Listed(s, sq, Signature, IEvent)
  <2> SUFFICES ASSUME NEW e \in Signature, "NOTIFY_SIGNAL" \in IEvent[e].Type, Out(sq, e)
               PROVE  \E i \in 1 .. Len(s) : Freeing(s[i]) /\ s[i].ev = e
    BY DEF Listed
  <2>1. CASE e = Top.ev /\ pc = "free"
    BY <1>1, <2>1 DEF Freeing
  <2>2. CASE Out(gEventSignalQueue, e)
    <3>1. PICK i \in 1 .. n : Freeing(stack[i]) /\ stack[i].ev = e
      BY <2>2 DEF SInv, Listed
    <3>2. i # n
      BY <1>2, <3>1 DEF Freeing
    <3>3. QED
      BY <1>1, <3>1, <3>2
  <2>3. QED
    BY <2>1, <2>2 DEF sq
<1>5. ListOnTop(s)
  <2>1. \A i \in 1 .. Len(s) : s[i].k = "List" => i \in 1 .. n
    BY <1>1 DEF Marked
  <2>2. QED
    BY <1>1, <1>2, <2>1 DEF ListOnTop
<1>6. ASSUME SafeClose PROVE NotClosed(s, Signature)
  <2>1. /\ \A i \in 1 .. Len(s) : Dispatching(s[i]) => i \in 1 .. n /\ stack[i] = s[i]
        /\ \A i \in 1 .. Len(s) : s[i].k = "Close" =>
             i \in 1 .. n /\ stack[i].k = "Close" /\ stack[i].ev = s[i].ev
    BY <1>1, <1>2 DEF Marked, Dispatching
  <2>2. NotClosed(stack, Signature)
    BY <1>6 DEF SInv
  <2>3. QED
    BY <2>1, <2>2 DEF NotClosed
<1>7. QED
  BY <1>3, <1>4, <1>5, <1>6 DEF SInv, s, q, sq

\* CoreCloseEvent.
LEMMA CloseSignals ==
  ASSUME IInv, SInv, CoreCloseEvent
  PROVE  SInv'
<1> DEFINE n == Len(stack)
<1>1. Top.k = "Close"
  BY DEF CoreCloseEvent, CloseCancel, CloseUnlink, CloseFree, Running
<1>2. /\ gEventQueue \in [NotifyTpls -> Seq(EventIds)] /\ gEventSignalQueue \in Seq(EventIds)
      /\ stack \in Seq(Frames) /\ stack # <<>> /\ stack[n] = Top
  BY StackSeq DEF EventInv, QueueOk, SignalQueueOk
<1>3. ASSUME CloseCancel PROVE SInv'
  <2> DEFINE f == Frame("SetTimer", "TimerCancel", TIMER_LOCK_TPL, Top.ev, 0)
  <2>1. ~Marked(f) /\ "unlink" \in Pcs /\ Top.pc # "free"
    BY <1>3, CalmKinds DEF Pcs, CloseCancel, Running
  <2>2. stack' = Goto(stack, "unlink") \/ stack' = Call(Goto(stack, "unlink"), f)
    BY <1>3 DEF CloseCancel, CoreSetTimer
  <2>3. UNCHANGED <<IEvent, Signature, gEventQueue, gEventSignalQueue>>
    BY <1>3 DEF CloseCancel, eventVars
  <2> HIDE DEF f
  <2>4. QED
    BY <1>1, <2>1, <2>2, <2>3, CloserSignals
<1>4. ASSUME CloseUnlink PROVE SInv'
  <2>1. /\ stack' = Call(Goto(stack, "free"), RestoreFrame(Top.tpl)) /\ UNCHANGED <<IEvent, Signature>>
        /\ gEventSignalQueue' = RemoveEntryList(gEventSignalQueue, Top.ev)
        /\ \A t \in NotifyTpls : gEventQueue'[t] = RemoveEntryList(gEventQueue[t], Top.ev)
        /\ "free" \in Pcs /\ Top.pc # "free"
    BY <1>4 DEF CloseUnlink, Pcs, Running
  <2>2. ~Marked(RestoreFrame(Top.tpl))
    BY CalmKinds
  <2>3. \A d : d # Top.ev /\ Out(gEventSignalQueue', d) => Out(gEventSignalQueue, d)
    BY <1>2, <2>1, RemoveKeeps
  <2>4. \A t \in NotifyTpls : \A d : d # Top.ev /\ Out(gEventQueue'[t], d) => Out(gEventQueue[t], d)
    BY <1>2, <2>1, RemoveKeeps
  <2>5. \A d : d # Top.ev /\ InQueue(gEventQueue, d) => InQueue(gEventQueue', d)
    BY <2>4 DEF InQueue
  <2>6. QED
    BY <1>1, <2>1, <2>2, <2>3, <2>5, CloserSignals
<1>5. ASSUME CloseFree PROVE SInv'
  <2>1. /\ stack' = Return(stack) /\ Signature' = Signature \ {Top.ev}
        /\ UNCHANGED <<IEvent, gEventQueue, gEventSignalQueue>>
    BY <1>5 DEF CloseFree
  <2>2. /\ n \in Nat /\ n # 0 /\ Len(stack') = n - 1
        /\ \A i \in 1 .. n - 1 : stack'[i] = stack[i]
    BY <1>2, <2>1, StackShapes, TopFacts
  <2>3. /\ \A i \in 1 .. Len(stack') : i \in 1 .. n /\ i # n /\ i < n /\ stack'[i] = stack[i]
        /\ \A i \in 1 .. n : i # n => i \in 1 .. Len(stack') /\ stack'[i] = stack[i]
        /\ n \in 1 .. n
    BY <2>2
  <2>4. Heard(stack', gEventQueue, gEventSignalQueue, Signature', IEvent)
    <3> SUFFICES ASSUME NEW e \in Signature, e # Top.ev, "NOTIFY_SIGNAL" \in IEvent[e].Type,
                        IEvent[e].SignalCount # 0
                 PROVE  Announced(stack', gEventQueue, gEventSignalQueue, e)
      BY <2>1 DEF Heard
    <3>1. Announced(stack, gEventQueue, gEventSignalQueue, e)
      BY DEF SInv, Heard
    <3>2. \A i \in 1 .. n : Carries(stack[i]) /\ stack[i].ev = e =>
            i \in 1 .. Len(stack') /\ stack'[i] = stack[i]
      BY <1>2, <2>3
    <3>3. QED
      BY <3>1, <3>2, CarriersKeep
  <2>5. Listed(stack', gEventSignalQueue, Signature', IEvent)
    BY <1>2, <2>1, <2>3, SMTT(30) DEF SInv, Listed
  <2>6. ListOnTop(stack')
    BY <2>3 DEF SInv, ListOnTop
  <2>7. ASSUME SafeClose PROVE NotClosed(stack', Signature')
    <3>1. NotClosed(stack, Signature)
      BY <2>7 DEF SInv
    <3>2. ASSUME NEW i \in 1 .. Len(stack'), Dispatching(stack'[i])
          PROVE  stack'[i].ev \in Signature'
      <4>1. n > i /\ Dispatching(stack[i]) /\ i \in 1 .. n /\ stack'[i] = stack[i]
        BY <2>2, <2>3, <3>2
      <4>2. QED
        BY <1>1, <1>2, <2>1, <2>3, <3>1, <4>1 DEF NotClosed
    <3>3. QED
      BY <2>3, <3>1, <3>2 DEF NotClosed
  <2>8. QED
    BY <2>1, <2>4, <2>5, <2>6, <2>7 DEF SInv
<1>6. QED
  BY <1>3, <1>4, <1>5 DEF CoreCloseEvent

\* CloseEvent is called, by a careful client when no dispatch holds the event.
LEMMA ClientCloseSignals ==
  ASSUME IInv, SInv, ClientClose
  PROVE  SInv'
<1> DEFINE n == Len(stack)
<1>1. /\ stack \in Seq(Frames) /\ stack # <<>> /\ stack[n] = Top /\ n \in Nat
      /\ DOMAIN stack = 1 .. n /\ n \in 1 .. n
  <2>1. n \in Nat /\ n # 0
    BY TopFacts
  <2>2. QED
    BY <2>1, StackSeq, LenProperties
<1>2. PICK e \in Events : Closable(e)
                          /\ stack' = Call(stack, Frame("Close", "cancel", gEfiCurrentTpl, e, 0))
  BY DEF ClientClose
<1> DEFINE f == Frame("Close", "cancel", gEfiCurrentTpl, e, 0)
<1>3. f.k = "Close" /\ f.ev = e
  BY DEF Frame
<1>4. UNCHANGED <<IEvent, Signature, gEventQueue, gEventSignalQueue>>
  BY DEF ClientClose, eventVars
<1>5. Top.k \in {"App", "Raised", "Notify"}
  BY DEF ClientClose, MayCall, ClientRuns
<1> HIDE DEF f
<1>6. Len(stack') = n + 1 /\ stack'[n + 1] = f /\ \A i \in 1 .. n : stack'[i] = stack[i]
  <2>1. stack \in Seq(Frames \cup {f}) /\ f \in Frames \cup {f}
    BY <1>1
  <2>2. QED
    BY <1>2, <2>1, AppendProperties DEF Call, f
<1>7. /\ \A i \in 1 .. n : i \in 1 .. Len(stack')
      /\ \A i \in 1 .. Len(stack') : i \in 1 .. n \/ i = n + 1
  BY <1>1, <1>6
<1>8. Heard(stack', gEventQueue, gEventSignalQueue, Signature, IEvent)
  <2>1. \A d : Announced(stack, gEventQueue, gEventSignalQueue, d)
                 => Announced(stack', gEventQueue, gEventSignalQueue, d)
    BY <1>6, <1>7, CarriersKeep
  <2>2. QED
    BY <2>1 DEF SInv, Heard
<1>9. Listed(stack', gEventSignalQueue, Signature, IEvent)
  BY <1>6, <1>7 DEF SInv, Listed
<1>10. ListOnTop(stack')
  <2>1. \A i \in 1 .. n : stack[i].k # "List"
    BY <1>1, <1>5 DEF SInv, ListOnTop
  <2>2. QED
    BY <1>3, <1>6, <1>7, <2>1 DEF ListOnTop
<1>11. ASSUME SafeClose PROVE NotClosed(stack', Signature)
  <2>1. \A i \in 1 .. n : Dispatching(stack[i]) => stack[i].ev # e
    BY <1>1, <1>2, <1>11 DEF Closable, Held, Dispatching
  <2>2. \A i \in 1 .. Len(stack') : Dispatching(stack'[i]) => i \in 1 .. n /\ stack[i] = stack'[i]
    BY <1>3, <1>6, <1>7 DEF Dispatching
  <2>3. NotClosed(stack, Signature)
    BY <1>11 DEF SInv
  <2>4. QED
    BY <1>3, <1>6, <1>7, <2>1, <2>2, <2>3 DEF NotClosed
<1>12. QED
  BY <1>4, <1>8, <1>9, <1>10, <1>11 DEF SInv

\* CreateEventEx: a new event is not signalled, and in the list when it notifies.
LEMMA ClientCreateSignals ==
  ASSUME IInv, SInv, ClientCreate
  PROVE  SInv'
<1> DEFINE n == Len(stack)
           sq == gEventSignalQueue
<1>1. /\ stack[n] = Top /\ sq \in Seq(EventIds) /\ Signature \subseteq EventIds
      /\ IEvent \in [EventIds -> EventStructs] /\ Len(sq) \in Nat
  BY StackSeq, LenProperties DEF EventInv, SignalQueueOk, StructOk
<1>2. PICK e \in Events \ Signature, a \in CreateArgs : CoreCreateEventEx(e, a)
  BY DEF ClientCreate
<1>3. Calm(stack, stack') /\ Top.k # "List"
  <2>1. ClientCall /\ ~ClientClose
    BY DEF ClientCall, ClientCreate, ClientClose, Counted, MayCall, CoreCreateEventEx, eventVars
  <2>2. QED
    BY <2>1, CalmClient
<1>4. \A i \in 1 .. n : stack[i].k # "List"
  BY <1>1, <1>3 DEF SInv, ListOnTop
<1>5. /\ Signature' = Signature \cup {e} /\ UNCHANGED gEventQueue
      /\ IEvent' = [IEvent EXCEPT ![e] =
                      NewEvent(ConvertedType(a), a.NotifyTpl, ConvertedGroup(a))]
      /\ gEventSignalQueue' = IF "NOTIFY_SIGNAL" \in ConvertedType(a) THEN <<e>> \o sq ELSE sq
  BY <1>2 DEF CoreCreateEventEx
<1>6. /\ e \in EventIds /\ \A d \in Signature : IEvent'[d] = IEvent[d]
      /\ IEvent'[e].Type = ConvertedType(a) /\ IEvent'[e].SignalCount = 0
  BY <1>1, <1>5 DEF NewEvent, EventIds
<1>7. /\ \A d : Out(gEventSignalQueue', d) => Out(sq, d)
      /\ "NOTIFY_SIGNAL" \in ConvertedType(a) => ~Out(gEventSignalQueue', e)
  <2>1. CASE "NOTIFY_SIGNAL" \in ConvertedType(a)
    <3> DEFINE r == <<e>> \o sq
    <3>1. <<e>> \in Seq(EventIds) /\ Len(<<e>>) = 1 /\ <<e>>[1] = e
      BY <1>6
    <3>2. Len(r) = 1 + Len(sq) /\ \A i \in 1 .. Len(r) : r[i] = IF i <= 1 THEN <<e>>[i] ELSE sq[i - 1]
      BY <1>1, <3>1, ConcatShape
    <3> HIDE DEF r
    <3>3. 1 \in 1 .. Len(r) /\ r[1] = e
      BY <1>1, <3>1, <3>2
    <3>4. \A i \in 1 .. Len(sq) : i + 1 \in 1 .. Len(r) /\ r[i + 1] = sq[i]
      <4> SUFFICES ASSUME NEW i \in 1 .. Len(sq) PROVE i + 1 \in 1 .. Len(r) /\ r[i + 1] = sq[i]
        OBVIOUS
      <4>1. i + 1 \in 1 .. Len(r) /\ ~(i + 1 <= 1) /\ (i + 1) - 1 = i
        BY <1>1, <3>2
      <4>2. QED
        BY <3>2, <4>1
    <3>5. gEventSignalQueue' = r
      BY <1>5, <2>1 DEF r
    <3>6. QED
      BY <3>3, <3>4, <3>5 DEF Out
  <2>2. CASE "NOTIFY_SIGNAL" \notin ConvertedType(a)
    BY <1>5, <2>2
  <2>3. QED
    BY <2>1, <2>2
<1>8. Heard(stack', gEventQueue', gEventSignalQueue', Signature', IEvent')
  <2> SUFFICES ASSUME NEW d \in Signature', "NOTIFY_SIGNAL" \in IEvent'[d].Type,
                      IEvent'[d].SignalCount # 0
               PROVE  Announced(stack', gEventQueue, gEventSignalQueue', d)
    BY <1>5 DEF Heard
  <2>1. d \in Signature /\ IEvent'[d] = IEvent[d]
    BY <1>5, <1>6
  <2>2. Announced(stack, gEventQueue, sq, d)
    BY <2>1 DEF SInv, Heard
  <2>3. Announced(stack, gEventQueue, gEventSignalQueue', d)
    BY <1>4, <2>2 DEF Announced
  <2>4. QED
    BY <1>3, <2>3, CarriersKeep DEF Calm
<1>9. Listed(stack', gEventSignalQueue', Signature', IEvent')
  <2>1. \A i \in 1 .. Len(stack) : Freeing(stack[i]) => i \in 1 .. Len(stack') /\ stack'[i] = stack[i]
    BY <1>3 DEF Calm, Carries, Freeing
  <2>2. \A d \in Signature' : d = e \/ (d \in Signature /\ IEvent'[d] = IEvent[d])
    BY <1>5, <1>6
  <2>3. QED
    BY <1>6, <1>7, <2>1, <2>2 DEF SInv, Listed
<1>10. QED
  BY <1>3, <1>5, <1>8, <1>9, CalmStack DEF SInv

-----------------------------------------------------------------------------
(***************************************************************************)
(* The invariant, and what follows from it.                                *)
(***************************************************************************)

\* Initially nothing is signalled, and the two events of the core are listed.
LEMMA SignalInit == Init => SInv
<1> SUFFICES ASSUME Init PROVE SInv
  OBVIOUS
<1>1. /\ Len(stack) = 1 /\ stack[1].k = "App" /\ Signature = {mEfiCheckTimerEvent, gIdleLoopEvent}
      /\ Len(gEventSignalQueue) = 2 /\ gEventSignalQueue[1] = gIdleLoopEvent
      /\ gEventSignalQueue[2] = mEfiCheckTimerEvent
  BY DEF Init, Frame
<1>2. \A e \in Signature : IEvent[e].SignalCount = 0
  BY <1>1 DEF Init, EventIds, NewEvent
<1>3. \A e \in Signature : ~Out(gEventSignalQueue, e)
  BY <1>1 DEF Out
<1>4. \A i \in 1 .. Len(stack) : stack[i].k # "List" /\ ~Dispatching(stack[i])
  BY <1>1 DEF Dispatching
<1>5. QED
  BY <1>2, <1>3, <1>4 DEF SInv, Heard, Listed, ListOnTop, NotClosed

\* Every step keeps the invariant.
LEMMA SignalStep == IInv /\ LInv /\ SInv /\ [Next]_vars => SInv'
<1> SUFFICES ASSUME IInv, LInv, SInv, [Next]_vars PROVE SInv'
  OBVIOUS
<1>1. CASE DispatchNext
  BY <1>1, DispatchNextSignals
<1>2. CASE GroupList \/ CoreNotifySignalList
  BY <1>2, GroupListSignals, SignalListSignals
<1>3. CASE CoreCloseEvent
  BY <1>3, CloseSignals
<1>4. CASE ClientClose \/ ClientCreate
  BY <1>4, ClientCloseSignals, ClientCreateSignals
<1>5. CASE UNCHANGED vars
  BY <1>5 DEF vars, SInv
<1>6. CASE Next /\ ~(DispatchNext \/ GroupList \/ CoreNotifySignalList \/ CoreCloseEvent
                     \/ ClientClose \/ ClientCreate)
  BY <1>6, CalmSteps, QuietSteps, QuietInv
<1>7. QED
  BY <1>1, <1>2, <1>3, <1>4, <1>5, <1>6

\* The signals are accounted for in every reachable state.
THEOREM SignalInvariance == Spec => [](IInv /\ LInv /\ SInv)
<1>1. IInv /\ LInv /\ SInv /\ [Next]_vars => SInv'
  BY SignalStep
<1>2. QED
  BY ListInvariance, SignalInit, <1>1, PTL DEF Spec

\* No event is stuck with SignalCount set and nothing on the way that would clear
\* it: SignalEvent, which drops the signals of such an event, loses none.
THEOREM SignalsReach == Spec => []NoStuckSignal
<1>1. IInv /\ SInv => NoStuckSignal
  <2> SUFFICES ASSUME IInv, SInv, NEW e \in Signature, IsSignal(e), IEvent[e].SignalCount # 0
               PROVE  \/ Queued(e)
                      \/ Held(e, {"Close"})
                      \/ \E i \in DOMAIN stack : /\ stack[i].ev = e
                                                 /\ \/ stack[i].k = "Group" /\ stack[i].pc = "list"
                                                    \/ stack[i].k = "List"
    BY DEF NoStuckSignal
  <2>1. /\ DOMAIN stack = 1 .. Len(stack)
        /\ \A t \in NotifyTpls : DOMAIN gEventQueue[t] = 1 .. Len(gEventQueue[t])
    BY StackSeq, LenProperties DEF EventInv, QueueOk
  <2>2. InQueue(gEventQueue, e) => Queued(e)
    BY <2>1 DEF InQueue, Out, Queued
  <2>3. Announced(stack, gEventQueue, gEventSignalQueue, e)
    BY DEF SInv, Heard, IsSignal
  <2>4. QED
    BY <2>1, <2>2, <2>3 DEF Announced, Held, Spreading
<1>2. QED
  BY SignalInvariance, <1>1, PTL

\* Clients that close only events no dispatch holds never see a notification
\* function called for a freed event, whatever close, timer and dispatch interleave.
THEOREM NotifiedAreOpen == SafeClose => (Spec => NoNotifyAfterClose)
<1> SUFFICES ASSUME SafeClose PROVE Spec => NoNotifyAfterClose
  OBVIOUS
<1>1. IInv /\ SInv /\ [Next]_vars => [DispatchCall => Top.ev \in Signature]_vars
  <2> SUFFICES ASSUME IInv, SInv, DispatchCall PROVE Top.ev \in Signature
    OBVIOUS
  <2>1. Len(stack) \in Nat /\ Len(stack) # 0 /\ stack[Len(stack)] = Top
    BY TopFacts
  <2>2. Len(stack) \in 1 .. Len(stack) /\ Dispatching(Top)
    BY <2>1 DEF DispatchCall, Running, Dispatching
  <2>3. QED
    BY <2>1, <2>2 DEF SInv, NotClosed
<1>2. QED
  BY SignalInvariance, <1>1, PTL DEF Spec, NoNotifyAfterClose
=============================================================================
