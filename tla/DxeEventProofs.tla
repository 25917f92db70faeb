--------------------------- MODULE DxeEventProofs ---------------------------
(***************************************************************************)
(* Proofs about DxeEvent for all sets of events, groups and client calls.  *)
(*                                                                         *)
(* The inductive invariant IInv says how activations may lie on the stack. *)
(* Everything is stated about pairs of positions (not only neighbours), so *)
(* that no induction over the stack is needed.                             *)
(***************************************************************************)
EXTENDS DxeEvent, SequenceTheorems, TLAPS

ClientKinds == {"App", "Raised", "Notify"}
Holds(f) == f.k = "SetTimer" \/ (f.k = "Timers" /\ f.pc # "acquire")

\* What the locals of an activation must be for its kind and program counter.
LocalOk(f) ==
  /\ f.k = "Restore" /\ f.pc = "enter" => f.x \in NotifyTpls /\ f.x > f.tpl
  /\ f.k \in {"Dispatch", "Notify", "Timers"} => f.tpl \in NotifyTpls
  /\ f.k = "Dispatch" /\ f.pc = "call" => f.ev \in EventIds
  /\ f.k = "Dispatch" /\ f.pc = "call" /\ f.ev = mEfiCheckTimerEvent
       => f.tpl = CHECK_TIMER_TPL
  /\ f.k = "Timers" => f.tpl = CHECK_TIMER_TPL
  /\ f.k = "Timers" /\ f.pc \in {"rearm", "kick", "insert"} => f.ev \in EventIds
  /\ f.k = "SetTimer" => f.tpl = TIMER_LOCK_TPL /\ f.ev \in Events
  /\ f.k \in {"Group", "List"} => f.ev \in EventIds
  /\ f.k = "List" => f.tpl = TPL_HIGH_LEVEL /\ f.x # 0
  /\ f.k \in {"Check", "Close"} => f.ev \in Events
  /\ f.k = "Wait" => f.tpl = TPL_APPLICATION /\ f.ev = NoEvent
  /\ f.k = "Raised" => f.x \in Tpls

\* The level f's caller runs at once f has returned.
ReturnTpl(f) == IF f.k = "Raised" THEN f.x ELSE f.tpl

\* Activation f may lie at position j on the activations below it in s.
Fits(s, j, f) ==
  /\ LocalOk(f)
  /\ j = 1 <=> f.k = "App"
  /\ \A i \in 1 .. j - 1 : s[i].tpl <= f.tpl
  /\ f.k = "Dispatch" => \A i \in 1 .. j - 1 : s[i].tpl < f.tpl
  /\ f.k \in NotifyKinds =>
       \A i \in 1 .. j - 1 : s[i].k # "Dispatch" => s[i].tpl < f.tpl
  /\ \A i \in 1 .. j - 1 : Holds(s[i]) => f.k \in {"Restore", "Irq", "Group", "List"}
  /\ \A i \in 1 .. j - 1 :
       s[i].k = "Wait" /\ f.k \in ClientKinds => f.tpl > TPL_APPLICATION
  /\ j > 1 => IF s[j - 1].k = "Restore"
              THEN f.k \in {"Restore", "Dispatch", "Irq"}
              ELSE /\ f.k # "Dispatch"
                   /\ f.k \notin {"SetTimer", "List"} => ReturnTpl(f) = s[j - 1].tpl

StackOk(s) == \A j \in 1 .. Len(s) : Fits(s, j, s[j])

\* The timer lock is held exactly while an activation holds it, and its OwnerTpl
\* is the level of the caller.
LockOk(s, lock) ==
  /\ lock # Released => \E i \in 1 .. Len(s) : Holds(s[i])
  /\ \A i \in 1 .. Len(s) : Holds(s[i]) => lock = s[i - 1].tpl

\* An event is closed by one activation, which has taken it off the signal queue
\* before it frees it.
CloseOk(s, sig, sq) ==
  \A i \in 1 .. Len(s) : s[i].k = "Close" =>
    /\ s[i].ev \in sig
    /\ \A j \in 1 .. Len(s) : j # i /\ s[j].k = "Close" => s[j].ev # s[i].ev
    /\ s[i].pc = "free" => \A j \in 1 .. Len(sq) : sq[j] # s[i].ev

WaitOk(s, n) == \A i \in 1 .. Len(s) : s[i].k = "Wait" => s[i].x \in 1 .. n

Stk(s, lock, sig, sq, n) ==
  /\ s \in Seq(Frames) /\ s # <<>>
  /\ StackOk(s) /\ LockOk(s, lock) /\ CloseOk(s, sig, sq) /\ WaitOk(s, n)

StructOk(ie) ==
  /\ ie \in [EventIds -> EventStructs]
  /\ \A e \in EventIds : IsNotify(ie[e].Type) => ie[e].NotifyTpl \in NotifyTpls
  /\ ie[mEfiCheckTimerEvent].NotifyTpl = CHECK_TIMER_TPL

QueueOk(q) ==
  /\ q \in [NotifyTpls -> Seq(EventIds)]
  /\ \A t \in NotifyTpls : \A i \in 1 .. Len(q[t]) :
       q[t][i] = mEfiCheckTimerEvent => t = CHECK_TIMER_TPL

\* gEventSignalQueue holds NOTIFY_SIGNAL events that are not freed, each once.
SignalQueueOk(sq, sig, ie) ==
  /\ sq \in Seq(EventIds)
  /\ \A i, j \in 1 .. Len(sq) : i # j => sq[i] # sq[j]
  /\ \A i \in 1 .. Len(sq) : sq[i] \in sig /\ "NOTIFY_SIGNAL" \in ie[sq[i]].Type

StackInv == Stk(stack, mEfiTimerLock, Signature, gEventSignalQueue, Len(UserEvents))
LevelInv == /\ gEfiCurrentTpl \in Tpls /\ interrupts \in BOOLEAN
            /\ gEfiCurrentTpl >= Top.tpl /\ ResumedAtOwnTpl /\ InterruptsFollowTpl
EventInv == /\ StructOk(IEvent) /\ QueueOk(gEventQueue)
            /\ SignalQueueOk(gEventSignalQueue, Signature, IEvent)
            /\ gEventPending \in SUBSET NotifyTpls
            /\ Signature \in SUBSET EventIds
TimerInv == /\ mEfiTimerList \in Seq(EventIds)
            /\ mEfiTimerLock \in Tpls \cup {Released}
            /\ mEfiSystemTime \in Nat
CallInv  == UserEvents \in Seq(Events) /\ calls \in Nat

IInv == StackInv /\ LevelInv /\ EventInv /\ TimerInv /\ CallInv

-----------------------------------------------------------------------------
(***************************************************************************)
(* Facts about constants and lists.                                        *)
(***************************************************************************)

\* The levels are numbers, those of notifications lie between TPL_APPLICATION
\* and TPL_HIGH_LEVEL, and none is above the timer lock's.
LEMMA TplFacts ==
  /\ Tpls \subseteq Nat /\ NotifyTpls \subseteq Tpls /\ Released \notin Tpls
  /\ TPL_APPLICATION \in Tpls /\ TPL_HIGH_LEVEL \in Tpls /\ TIMER_LOCK_TPL \in NotifyTpls
  /\ TPL_CALLBACK \in Tpls /\ TPL_NOTIFY \in NotifyTpls
  /\ CHECK_TIMER_TPL = TIMER_LOCK_TPL
  /\ \A t \in Tpls : TPL_APPLICATION <= t /\ t <= TPL_HIGH_LEVEL
  /\ \A t \in Tpls : t < TPL_HIGH_LEVEL => t <= TIMER_LOCK_TPL
  /\ \A t \in NotifyTpls : TPL_APPLICATION < t /\ t <= TIMER_LOCK_TPL /\ t < TPL_HIGH_LEVEL
  /\ \A t \in Tpls : TPL_APPLICATION < t /\ t < TPL_HIGH_LEVEL => t \in NotifyTpls
BY DEF Tpls, NotifyTpls, TPL_APPLICATION, TPL_CALLBACK, TPL_NOTIFY, TPL_HIGH_LEVEL,
       CHECK_TIMER_TPL, TIMER_LOCK_TPL, Released

\* The levels are numbers.
LEMMA LevelNat ==
  (\A t \in Tpls : t \in Nat) /\ TPL_HIGH_LEVEL \in Nat /\ TIMER_LOCK_TPL \in Nat
BY TplFacts

\* What concatenation and dropping one position do, position by position.
LEMMA ConcatShape ==
  ASSUME NEW S, NEW a \in Seq(S), NEW b \in Seq(S)
  PROVE  /\ a \o b \in Seq(S) /\ Len(a \o b) = Len(a) + Len(b)
         /\ Len(a) \in Nat /\ Len(b) \in Nat
         /\ \A i \in 1 .. Len(a) : (a \o b)[i] = a[i]
         /\ \A i \in 1 .. Len(b) : (a \o b)[i + Len(a)] = b[i]
BY SMT

Without(s, k) == SubSeq(s, 1, k - 1) \o SubSeq(s, k + 1, Len(s))

\* Without drops position k and keeps the order of the rest.
LEMMA WithoutShape ==
  ASSUME NEW S, NEW s \in Seq(S), NEW k \in 1 .. Len(s)
  PROVE  /\ Without(s, k) \in Seq(S)
         /\ Len(Without(s, k)) = Len(s) - 1
         /\ \A i \in 1 .. Len(s) - 1 :
              Without(s, k)[i] = IF i < k THEN s[i] ELSE s[i + 1]
<1> DEFINE a == SubSeq(s, 1, k - 1)
           b == SubSeq(s, k + 1, Len(s))
           r == Without(s, k)
<1>0. Len(s) \in Nat
  BY LenProperties
<1>1. a \in Seq(S) /\ Len(a) = k - 1 /\ \A i \in 1 .. k - 1 : a[i] = s[i]
  BY <1>0, SubSeqProperties, ElementOfSeq
<1>2. b \in Seq(S) /\ Len(b) = Len(s) - k /\ \A i \in 1 .. Len(s) - k : b[i] = s[k + i]
  BY <1>0, SubSeqProperties, ElementOfSeq
<1>3. r = a \o b
  BY DEF Without
<1> HIDE DEF a, b, r
<1>4. a \in Seq(S) /\ b \in Seq(S)
  BY <1>1, <1>2
<1>5. /\ r \in Seq(S) /\ Len(r) = Len(a) + Len(b)
      /\ \A i \in 1 .. Len(a) : r[i] = a[i]
      /\ \A i \in 1 .. Len(b) : r[i + Len(a)] = b[i]
  BY ONLY <1>3, <1>4, ConcatShape
<1>6. Len(r) = Len(s) - 1
  BY <1>0, <1>1, <1>2, <1>5
<1>7. ASSUME NEW i \in 1 .. Len(s) - 1
      PROVE  r[i] = IF i < k THEN s[i] ELSE s[i + 1]
  <2>1. i < k => r[i] = a[i] /\ a[i] = s[i]
    BY <1>0, <1>1, <1>5
  <2>2. i >= k => i - (k - 1) \in 1 .. Len(s) - k /\ k + (i - (k - 1)) = i + 1
    BY <1>0
  <2>3. i >= k => r[i] = b[i - (k - 1)]
    BY <1>0, <1>1, <1>2, <1>5, <2>2
  <2>4. i >= k => b[i - (k - 1)] = s[i + 1]
    BY <1>0, <1>2, <2>2
  <2>5. QED
    BY <2>1, <2>3, <2>4, <1>0
<1>8. QED
  BY <1>5, <1>6, <1>7 DEF r

\* RemoveEntryList takes out the position of e, if there is one.
LEMMA RemoveShape ==
  ASSUME NEW S, NEW s \in Seq(S), NEW e, NEW r, r = RemoveEntryList(s, e)
  PROVE  /\ r \in Seq(S)
         /\ \/ r = s /\ \A i \in 1 .. Len(s) : s[i] # e
            \/ \E k \in 1 .. Len(s) :
                 /\ s[k] = e /\ Len(r) = Len(s) - 1
                 /\ \A i \in 1 .. Len(r) : r[i] = IF i < k THEN s[i] ELSE s[i + 1]
<1>0. DOMAIN s = 1 .. Len(s)
  BY LenProperties
<1>1. CASE \E i \in DOMAIN s : s[i] = e
  <2>1. IndexOf(s, e) \in 1 .. Len(s) /\ s[IndexOf(s, e)] = e
    BY <1>0, <1>1 DEF IndexOf
  <2>2. r = Without(s, IndexOf(s, e))
    BY <1>1 DEF RemoveEntryList, Without
  <2>3. PICK k \in 1 .. Len(s) : s[k] = e /\ r = Without(s, k)
    BY <2>1, <2>2
  <2>4. /\ r \in Seq(S) /\ Len(r) = Len(s) - 1
        /\ \A i \in 1 .. Len(s) - 1 : r[i] = IF i < k THEN s[i] ELSE s[i + 1]
    BY <2>3, WithoutShape
  <2>5. QED
    BY <2>3, <2>4
<1>2. CASE ~ \E i \in DOMAIN s : s[i] = e
  BY <1>0, <1>2 DEF RemoveEntryList
<1>3. QED
  BY <1>1, <1>2

\* From a list without duplicates it removes e altogether, and it adds nothing.
LEMMA RemoveUnique ==
  ASSUME NEW S, NEW s \in Seq(S), NEW e, NEW r, r = RemoveEntryList(s, e),
         \A i, j \in 1 .. Len(s) : i # j => s[i] # s[j]
  PROVE  /\ \A i \in 1 .. Len(r) : r[i] # e
         /\ \A i, j \in 1 .. Len(r) : i # j => r[i] # r[j]
<1>0. Len(s) \in Nat
  BY LenProperties
<1>1. CASE r = s /\ \A i \in 1 .. Len(s) : s[i] # e
  BY <1>1
<1>2. ASSUME NEW k \in 1 .. Len(s), s[k] = e, Len(r) = Len(s) - 1,
             \A i \in 1 .. Len(r) : r[i] = IF i < k THEN s[i] ELSE s[i + 1]
      PROVE  /\ \A i \in 1 .. Len(r) : r[i] # e
             /\ \A i, j \in 1 .. Len(r) : i # j => r[i] # r[j]
  <2> DEFINE at(i) == IF i < k THEN i ELSE i + 1
  <2>1. \A i \in 1 .. Len(s) - 1 : at(i) \in 1 .. Len(s) /\ at(i) # k
    BY <1>0
  <2>2. \A i, j \in 1 .. Len(s) - 1 : i # j => at(i) # at(j)
    BY <1>0
  <2>3. \A i \in 1 .. Len(s) - 1 : r[i] = s[at(i)]
    BY <1>2
  <2> HIDE DEF at
  <2>4. QED
    BY <1>2, <2>1, <2>2, <2>3
<1>3. QED
  BY <1>1, <1>2, RemoveShape

\* RemoveEntryList adds no element.
LEMMA RemoveElements ==
  ASSUME NEW S, NEW s \in Seq(S), NEW e, NEW r, r = RemoveEntryList(s, e)
  PROVE  r \in Seq(S) /\ \A i \in 1 .. Len(r) : \E j \in 1 .. Len(s) : r[i] = s[j]
<1>0. Len(s) \in Nat
  BY LenProperties
<1>2. ASSUME NEW k \in 1 .. Len(s), s[k] = e, Len(r) = Len(s) - 1,
             \A i \in 1 .. Len(r) : r[i] = IF i < k THEN s[i] ELSE s[i + 1]
      PROVE  \A i \in 1 .. Len(r) : \E j \in 1 .. Len(s) : r[i] = s[j]
  BY <1>0, <1>2
<1>3. QED
  BY <1>2, RemoveShape

-----------------------------------------------------------------------------
(***************************************************************************)
(* What calling, going on and returning do to a stack that is in order.    *)
(***************************************************************************)

\* Whether f fits at position j depends only on the activations below j.
LEMMA FitsBelow ==
  ASSUME NEW s, NEW t, NEW j \in Nat, NEW f,
         \A i \in 1 .. j - 1 : s[i] = t[i], Fits(s, j, f)
  PROVE  Fits(t, j, f)
<1>1. j > 1 => j - 1 \in 1 .. j - 1
  OBVIOUS
<1>2. QED
  BY <1>1 DEF Fits

\* Below f lies its caller, or a CoreRestoreTpl that f interrupts or belongs to.
LEMMA FitsCaller ==
  ASSUME NEW s, NEW j \in Nat, j > 1, NEW f, Fits(s, j, f)
  PROVE  /\ s[j - 1].k = "Restore" => f.k \in {"Restore", "Dispatch", "Irq"}
         /\ s[j - 1].k # "Restore" =>
              /\ f.k # "Dispatch"
              /\ f.k \notin {"SetTimer", "List"} => ReturnTpl(f) = s[j - 1].tpl
BY DEF Fits

\* A call of f.  If f takes the timer lock, OwnerTpl becomes the caller's level.
LEMMA CallStk ==
  ASSUME NEW s, NEW lock, NEW sig, NEW sq, NEW n, NEW f \in Frames,
         Stk(s, lock, sig, sq, n), Fits(s, Len(s) + 1, f),
         NEW lock2, IF Holds(f) THEN lock2 = s[Len(s)].tpl ELSE lock2 = lock,
         NEW n2, IF f.k = "Wait" THEN f.x \in 1 .. n2 /\ \A i \in 1 .. Len(s) : s[i].k # "Wait"
                 ELSE n2 = n,
         f.k = "Close" => /\ f.ev \in sig /\ f.pc # "free"
                          /\ \A i \in 1 .. Len(s) : s[i].k = "Close" => s[i].ev # f.ev
  PROVE  /\ Stk(Call(s, f), lock2, sig, sq, n2)
         /\ Len(Call(s, f)) = Len(s) + 1 /\ Call(s, f)[Len(s) + 1] = f
         /\ \A i \in 1 .. Len(s) : Call(s, f)[i] = s[i]
<1> DEFINE t == Call(s, f)
           m == Len(s) + 1
<1>1. s \in Seq(Frames) /\ Len(s) \in Nat
  BY LenProperties DEF Stk
<1>2. /\ t \in Seq(Frames) /\ t # <<>> /\ Len(t) = m
      /\ \A i \in 1 .. Len(s) : t[i] = s[i]
      /\ t[m] = f
  BY <1>1, AppendProperties DEF Call
<1> HIDE DEF t
<1>3. StackOk(t)
  <2>1. ASSUME NEW j \in 1 .. Len(t) PROVE Fits(s, j, t[j])
    BY <1>1, <1>2 DEF Stk, StackOk
  <2>2. ASSUME NEW j \in 1 .. Len(t) PROVE Fits(t, j, t[j])
    BY <1>1, <1>2, <2>1, FitsBelow
  <2>3. QED
    BY <2>2 DEF StackOk
<1>4. \A i \in 1 .. m : i = m \/ (i \in 1 .. Len(s) /\ t[i] = s[i])
  BY <1>1, <1>2
<1>5. LockOk(t, lock2)
  <2>1. \A i \in 1 .. Len(s) : Holds(s[i]) => lock = s[i - 1].tpl /\ i # 1
    BY DEF Stk, LockOk, StackOk, Fits, Holds
  <2>2. CASE ~Holds(f)
    BY <1>1, <1>2, <1>4, <2>1, <2>2 DEF Stk, LockOk
  <2>3. CASE Holds(f)
    <3>1. \A i \in 1 .. Len(s) : ~Holds(s[i])
      BY <1>1, <2>3 DEF Fits, Holds
    <3>2. m - 1 = Len(s) /\ Len(s) # 0 /\ t[Len(s)] = s[Len(s)]
      BY <1>1, <1>2, EmptySeq DEF Stk
    <3>3. QED
      BY <1>1, <1>2, <1>4, <2>3, <3>1, <3>2 DEF LockOk
  <2>4. QED
    BY <2>2, <2>3
<1>6. CloseOk(t, sig, sq)
  <2>1. ASSUME NEW i \in 1 .. m, t[i].k = "Close"
        PROVE  t[i].ev \in sig /\ (t[i].pc = "free" => \A j \in 1 .. Len(sq) : sq[j] # t[i].ev)
    BY <1>2, <1>4, <2>1 DEF Stk, CloseOk
  <2>2. ASSUME NEW i \in 1 .. m, t[i].k = "Close", NEW j \in 1 .. m, j # i, t[j].k = "Close"
        PROVE  t[j].ev # t[i].ev
    BY <1>2, <1>4, <2>2 DEF Stk, CloseOk
  <2>3. QED
    BY <1>2, <2>1, <2>2 DEF CloseOk
<1>7. WaitOk(t, n2)
  BY <1>1, <1>2, <1>4 DEF Stk, WaitOk
<1>8. QED
  BY <1>2, <1>3, <1>5, <1>6, <1>7 DEF Stk, t

\* A call of an activation that does not take the lock, close or wait.
LEMMA CallOk ==
  ASSUME NEW s, NEW lock, NEW sig, NEW sq, NEW n, NEW f \in Frames,
         Stk(s, lock, sig, sq, n), Fits(s, Len(s) + 1, f),
         ~Holds(f), f.k \notin {"Close", "Wait"}
  PROVE  /\ Stk(Call(s, f), lock, sig, sq, n)
         /\ Len(Call(s, f)) = Len(s) + 1 /\ Call(s, f)[Len(s) + 1] = f
         /\ \A i \in 1 .. Len(s) : Call(s, f)[i] = s[i]
BY CallStk

\* Same, in the form the proofs of the actions use.
FitsOn(s, f) == Fits(s, Len(s) + 1, f)

\* CallOk for an activation that neither holds the timer lock nor closes nor waits.
LEMMA PushOk ==
  ASSUME NEW s, NEW lock, NEW sig, NEW sq, NEW n, NEW f \in Frames, NEW t,
         Stk(s, lock, sig, sq, n), FitsOn(s, f), ~Holds(f), f.k \notin {"Close", "Wait"},
         t = Call(s, f)
  PROVE  Stk(t, lock, sig, sq, n) /\ t[Len(t)] = f
BY CallOk DEF FitsOn

NoCloser(s, e) == \A i \in 1 .. Len(s) : s[i].k = "Close" => s[i].ev # e

\* The same for CloseEvent, of an event that nobody else is closing.
LEMMA PushCloseOk ==
  ASSUME NEW s, NEW lock, NEW sig, NEW sq, NEW n, NEW f \in Frames, NEW t,
         Stk(s, lock, sig, sq, n), FitsOn(s, f), f.k = "Close", f.ev \in sig, f.pc # "free",
         NoCloser(s, f.ev), t = Call(s, f)
  PROVE  Stk(t, lock, sig, sq, n) /\ t[Len(t)] = f
<1>1. ~Holds(f) /\ f.k # "Wait"
  BY DEF Holds
<1>2. QED
  BY <1>1, CallStk DEF FitsOn, NoCloser

\* The running activation goes on as f, and may take or release the timer lock.
LEMMA BecomeStk ==
  ASSUME NEW s, NEW lock, NEW sig, NEW sq, NEW n, NEW f \in Frames,
         Stk(s, lock, sig, sq, n), Fits(s, Len(s), f),
         NEW lock2,
         \/ lock2 = lock /\ (Holds(f) <=> Holds(s[Len(s)]))
         \/ lock2 = Released /\ ~Holds(f) /\ s[Len(s)].k \in {"SetTimer", "Timers"}
         \/ lock2 = s[Len(s) - 1].tpl /\ Holds(f),
         f.k = "Close" => /\ s[Len(s)].k = "Close" /\ f.ev = s[Len(s)].ev
                          /\ f.pc = "free" => \A j \in 1 .. Len(sq) : sq[j] # f.ev,
         f.k = "Wait" => f.x \in 1 .. n
  PROVE  /\ Stk(Become(s, f), lock2, sig, sq, n)
         /\ Len(Become(s, f)) = Len(s) /\ Become(s, f)[Len(s)] = f
         /\ \A i \in 1 .. Len(s) - 1 : Become(s, f)[i] = s[i]
<1> DEFINE t == Become(s, f)
           m == Len(s)
<1>1. s \in Seq(Frames) /\ m \in Nat /\ m # 0
  BY LenProperties, EmptySeq DEF Stk
<1>2. /\ t \in Seq(Frames) /\ Len(t) = m
      /\ \A i \in 1 .. m : t[i] = IF i = m THEN f ELSE s[i]
  BY <1>1, ExceptSeq DEF Become
<1> HIDE DEF t, m
<1>3. t # <<>>
  BY <1>1, <1>2, EmptySeq
<1>4. StackOk(t)
  <2>1. ASSUME NEW j \in 1 .. m PROVE Fits(s, j, t[j])
    BY <1>1, <1>2 DEF Stk, StackOk, m
  <2>2. ASSUME NEW j \in 1 .. m PROVE Fits(t, j, t[j])
    BY <1>1, <1>2, <2>1, FitsBelow
  <2>3. QED
    BY <1>2, <2>2 DEF StackOk
<1>5. LockOk(t, lock2)
  <2>1. \A i \in 1 .. m : i # m => (Holds(t[i]) <=> Holds(s[i])) /\ i - 1 # m
    BY <1>1, <1>2
  <2>2. \A i \in 1 .. m : Holds(t[i]) => i # 1 /\ t[i - 1] = s[i - 1]
    <3>1. \A i \in 1 .. m : Holds(t[i]) => i # 1
      BY <1>2, <1>4 DEF StackOk, Fits, Holds
    <3>2. QED
      BY <1>1, <1>2, <3>1
  <2>3. \A i \in 1 .. m : Holds(s[i]) => lock = s[i - 1].tpl
    BY DEF Stk, LockOk, m
  <2>4. CASE lock2 = lock /\ (Holds(f) <=> Holds(s[m]))
    <3>1. \A i \in 1 .. m : Holds(t[i]) <=> Holds(s[i])
      BY <1>2, <2>1, <2>4
    <3>2. QED
      BY <1>2, <2>2, <2>3, <2>4, <3>1 DEF Stk, LockOk, m
  <2>5. CASE lock2 = Released /\ ~Holds(f) /\ s[m].k \in {"SetTimer", "Timers"}
    <3>1. Fits(s, m, s[m])
      BY <1>1 DEF Stk, StackOk, m
    <3>2. \A i \in 1 .. m : i # m => ~Holds(s[i])
      BY <1>1, <2>5, <3>1 DEF Fits
    <3>3. QED
      BY <1>1, <1>2, <2>1, <2>5, <3>2 DEF LockOk
  <2>6. CASE lock2 = s[m - 1].tpl /\ Holds(f)
    <3>1. \A i \in 1 .. m : i # m => ~Holds(s[i])
      BY <1>1, <2>6 DEF Fits, Holds, m
    <3>2. QED
      BY <1>1, <1>2, <2>1, <2>2, <2>6, <3>1 DEF LockOk
  <2>7. QED
    BY <2>4, <2>5, <2>6 DEF m
<1>6. CloseOk(t, sig, sq)
  <2>1. \A i \in 1 .. m : t[i].k = "Close" => s[i].k = "Close" /\ t[i].ev = s[i].ev
    BY <1>1, <1>2 DEF m
  <2>2. \A i \in 1 .. m : t[i].k = "Close" /\ t[i].pc = "free" =>
          \A j \in 1 .. Len(sq) : sq[j] # t[i].ev
    BY <1>1, <1>2 DEF Stk, CloseOk, m
  <2>3. QED
    BY <1>2, <2>1, <2>2 DEF Stk, CloseOk, m
<1>7. WaitOk(t, n)
  BY <1>1, <1>2 DEF Stk, WaitOk, m
<1>8. QED
  BY <1>1, <1>2, <1>3, <1>4, <1>5, <1>6, <1>7 DEF Stk, t, m

\* The running activation goes on as f and keeps what it holds.
LEMMA BecomeOk ==
  ASSUME NEW s, NEW lock, NEW sig, NEW sq, NEW n, NEW f \in Frames,
         Stk(s, lock, sig, sq, n), Fits(s, Len(s), f),
         Holds(f) <=> Holds(s[Len(s)]),
         f.k = "Close" => /\ s[Len(s)].k = "Close" /\ f.ev = s[Len(s)].ev
                          /\ f.pc = "free" => \A j \in 1 .. Len(sq) : sq[j] # f.ev,
         f.k = "Wait" => f.x \in 1 .. n
  PROVE  /\ Stk(Become(s, f), lock, sig, sq, n)
         /\ Len(Become(s, f)) = Len(s) /\ Become(s, f)[Len(s)] = f
         /\ \A i \in 1 .. Len(s) - 1 : Become(s, f)[i] = s[i]
BY BecomeStk

\* The running activation, which does not hold the lock, returns.
LEMMA ReturnOk ==
  ASSUME NEW s, NEW lock, NEW sig, NEW sq, NEW n,
         Stk(s, lock, sig, sq, n), s[Len(s)].k # "App", ~Holds(s[Len(s)])
  PROVE  /\ Stk(Return(s), lock, sig, sq, n)
         /\ Len(s) > 1 /\ Len(Return(s)) = Len(s) - 1
         /\ \A i \in 1 .. Len(s) - 1 : Return(s)[i] = s[i]
<1> DEFINE t == Return(s)
           m == Len(s) - 1
<1>1. s \in Seq(Frames) /\ Len(s) \in Nat /\ Len(s) # 0
  BY LenProperties, EmptySeq DEF Stk
<1>2. Len(s) > 1
  BY <1>1 DEF Stk, StackOk, Fits
<1>3. /\ t \in Seq(Frames) /\ Len(t) = m
      /\ \A i \in 1 .. m : t[i] = s[i]
  BY <1>1, <1>2, SubSeqProperties, ElementOfSeq DEF Return
<1>a. m \in Nat /\ m > 0 /\ \A i \in 1 .. m : i \in 1 .. Len(s)
  BY <1>1, <1>2
<1> HIDE DEF t, m
<1>4. t # <<>>
  BY <1>a, <1>3, EmptySeq
<1>5. StackOk(t)
  <2>1. ASSUME NEW j \in 1 .. m PROVE Fits(s, j, t[j])
    BY <1>a, <1>3 DEF Stk, StackOk
  <2>2. ASSUME NEW j \in 1 .. m PROVE Fits(t, j, t[j])
    BY <1>a, <1>3, <2>1, FitsBelow
  <2>3. QED
    BY <1>3, <2>2 DEF StackOk
<1>6. LockOk(t, lock)
  <2>1. \A i \in 1 .. m : Holds(s[i]) => lock = s[i - 1].tpl /\ i # 1
    BY <1>a DEF Stk, LockOk, StackOk, Fits, Holds
  <2>2. \A i \in 1 .. Len(s) : Holds(s[i]) => i \in 1 .. m
    BY <1>1 DEF m
  <2>3. QED
    BY <1>a, <1>3, <2>1, <2>2 DEF Stk, LockOk
<1>7. CloseOk(t, sig, sq)
  BY <1>a, <1>3 DEF Stk, CloseOk
<1>8. WaitOk(t, n)
  BY <1>a, <1>3 DEF Stk, WaitOk
<1>9. QED
  BY <1>2, <1>3, <1>4, <1>5, <1>6, <1>7, <1>8 DEF Stk, t, m

\* The running activation is at the highest level of the stack.
LEMMA BelowTop ==
  ASSUME NEW s, NEW lock, NEW sig, NEW sq, NEW n, Stk(s, lock, sig, sq, n)
  PROVE  /\ Len(s) \in Nat /\ Len(s) # 0 /\ s[Len(s)] \in Frames
         /\ Fits(s, Len(s), s[Len(s)])
         /\ \A i \in 1 .. Len(s) : s[i] \in Frames /\ s[i].tpl <= s[Len(s)].tpl
<1>1. s \in Seq(Frames) /\ Len(s) \in Nat /\ Len(s) # 0
  BY LenProperties, EmptySeq DEF Stk
<1>2. \A i \in 1 .. Len(s) : s[i] \in Frames
  BY <1>1, ElementOfSeq
<1>3. Fits(s, Len(s), s[Len(s)])
  BY <1>1 DEF Stk, StackOk
<1>4. \A i \in 1 .. Len(s) : s[i].tpl \in Nat
  BY <1>2, TplFacts DEF Frames
<1>5. QED
  BY <1>1, <1>2, <1>3, <1>4 DEF Fits

\* Releasing a lock: CoreRestoreTpl to the level of the activation that took it.
LEMMA RestoreOk ==
  ASSUME NEW s, NEW lock, NEW sig, NEW sq, NEW n, Stk(s, lock, sig, sq, n),
         s[Len(s)].k # "Restore", NEW tpl, s[Len(s)].tpl = tpl
  PROVE  /\ Stk(Call(s, RestoreFrame(tpl)), lock, sig, sq, n)
         /\ Len(Call(s, RestoreFrame(tpl))) = Len(s) + 1
         /\ Call(s, RestoreFrame(tpl))[Len(s) + 1] = RestoreFrame(tpl)
<1> DEFINE f == RestoreFrame(tpl)
<1>1. f \in Frames /\ f.k = "Restore" /\ f.pc = "test" /\ f.tpl = tpl
  BY BelowTop DEF RestoreFrame, Frame, Frames, Kinds, Pcs
<1> HIDE DEF f
<1>2. LocalOk(f) /\ ~Holds(f) /\ f.k \notin {"Close", "Wait"}
  BY <1>1 DEF LocalOk, Holds
<1>3. Fits(s, Len(s) + 1, f)
  BY <1>1, <1>2, BelowTop DEF Fits, NotifyKinds, ClientKinds, ReturnTpl
<1>4. /\ Stk(Call(s, f), lock, sig, sq, n)
      /\ Len(Call(s, f)) = Len(s) + 1 /\ Call(s, f)[Len(s) + 1] = f
  BY <1>1, <1>2, <1>3, CallOk, BelowTop
<1>5. QED
  BY <1>4 DEF f

\* Same, when the running activation ends with the release: f replaces it.
LEMMA BecomeRestoreOk ==
  ASSUME NEW s, NEW lock, NEW sig, NEW sq, NEW n, Stk(s, lock, sig, sq, n),
         ~Holds(s[Len(s)]), s[Len(s)].k \notin {"App", "Restore", "List"},
         NEW tpl, tpl = ReturnTpl(s[Len(s)])
  PROVE  /\ Stk(Become(s, RestoreFrame(tpl)), lock, sig, sq, n)
         /\ Len(Become(s, RestoreFrame(tpl))) = Len(s)
         /\ Become(s, RestoreFrame(tpl))[Len(s)] = RestoreFrame(tpl)
<1> DEFINE f == RestoreFrame(tpl)
           g == s[Len(s)]
<1>0. g \in Frames /\ Fits(s, Len(s), g)
  BY BelowTop
<1>a. tpl \in Tpls
  BY <1>0 DEF Frames, Fits, LocalOk, ReturnTpl
<1>1. f \in Frames /\ f.k = "Restore" /\ f.pc = "test" /\ f.tpl = tpl /\ tpl \in Tpls
  BY <1>a DEF RestoreFrame, Frame, Frames, Kinds, Pcs
<1>2. LocalOk(f) /\ ~Holds(f) /\ f.k \notin {"Close", "Wait"}
  BY <1>1 DEF LocalOk, Holds
<1>3. Fits(s, Len(s), f)
  <2>1. \A i \in 1 .. Len(s) - 1 : s[i].tpl <= tpl
    <3>1. CASE g.k # "Raised"
      BY <1>0, <3>1 DEF Fits, ReturnTpl
    <3>2. CASE g.k = "Raised"
      <4>0. Len(s) \in Nat /\ Len(s) # 0 /\ Len(s) # 1
        BY <1>0, <3>2, BelowTop DEF Fits
      <4>a. Len(s) > 1
        BY <4>0
      <4>b. s[Len(s) - 1].k # "Restore"
        BY <1>0, <3>2, <4>0, <4>a, FitsCaller
      <4>c. ReturnTpl(g) = s[Len(s) - 1].tpl
        BY <1>0, <3>2, <4>0, <4>a, <4>b, FitsCaller
      <4>1. Len(s) \in Nat /\ Len(s) > 1 /\ s[Len(s) - 1].tpl = tpl
        BY <4>0, <4>a, <4>c
      <4>2. Fits(s, Len(s) - 1, s[Len(s) - 1])
        BY <4>1 DEF Stk, StackOk
      <4>3. \A i \in 1 .. Len(s) - 1 : i = Len(s) - 1 \/ i \in 1 .. (Len(s) - 1) - 1
        BY ONLY <4>1
      <4>4. QED
        BY <4>1, <4>2, <4>3, <1>1, TplFacts DEF Fits
    <3>3. QED
      BY <3>1, <3>2
  <2>2. QED
    BY <1>0, <1>1, <1>2, <2>1 DEF Fits, NotifyKinds, ClientKinds, ReturnTpl, Holds
<1> HIDE DEF f, g
<1>4. QED
  BY <1>1, <1>2, <1>3, BecomeOk DEF f

\* An activation goes on at its level, with other locals.
LEMMA SameOk ==
  ASSUME NEW s, NEW lock, NEW sig, NEW sq, NEW n, Stk(s, lock, sig, sq, n),
         NEW f \in Frames, f.k = s[Len(s)].k, f.tpl = s[Len(s)].tpl, f.k # "Raised",
         LocalOk(f), Holds(f) <=> Holds(s[Len(s)]),
         f.k = "Close" => /\ f.ev = s[Len(s)].ev
                          /\ f.pc = "free" => \A j \in 1 .. Len(sq) : sq[j] # f.ev,
         f.k = "Wait" => f.x \in 1 .. n
  PROVE  /\ Stk(Become(s, f), lock, sig, sq, n)
         /\ Len(Become(s, f)) = Len(s) /\ Become(s, f)[Len(s)] = f
<1>1. Fits(s, Len(s), f)
  BY BelowTop DEF Fits, ReturnTpl
<1>2. QED
  BY <1>1, BecomeOk

\* An activation goes on at another program counter.
LEMMA GotoOk ==
  ASSUME NEW s, NEW lock, NEW sig, NEW sq, NEW n, Stk(s, lock, sig, sq, n),
         NEW pc \in Pcs, s[Len(s)].k \notin {"Raised", "Dispatch"},
         s[Len(s)].k = "Restore" => pc # "enter",
         s[Len(s)].k = "Timers" =>
           /\ pc # "acquire" /\ s[Len(s)].pc # "acquire"
           /\ pc \in {"rearm", "kick", "insert"} => s[Len(s)].ev \in EventIds,
         s[Len(s)].k = "Close" /\ pc = "free" =>
           \A j \in 1 .. Len(sq) : sq[j] # s[Len(s)].ev
  PROVE  /\ Stk(Goto(s, pc), lock, sig, sq, n) /\ Len(Goto(s, pc)) = Len(s)
         /\ Goto(s, pc)[Len(s)] = [s[Len(s)] EXCEPT !.pc = pc]
<1> DEFINE g == s[Len(s)]
           f == [g EXCEPT !.pc = pc]
<1>1. g \in Frames /\ Fits(s, Len(s), g) /\ Len(s) \in Nat /\ Len(s) # 0
  BY BelowTop
<1>2. /\ f \in Frames /\ f.k = g.k /\ f.pc = pc /\ f.tpl = g.tpl /\ f.ev = g.ev
      /\ f.x = g.x
  BY <1>1 DEF Frames
<1>3. LocalOk(f) /\ (Holds(f) <=> Holds(g))
  BY <1>1, <1>2 DEF Fits, LocalOk, Holds
<1>4. Goto(s, pc) = Become(s, f)
  BY DEF Goto, Become
<1>5. g.k = "Wait" => g.x \in 1 .. n
  BY <1>1 DEF Stk, WaitOk
<1> HIDE DEF f, g
<1>6. /\ Stk(Become(s, f), lock, sig, sq, n)
      /\ Len(Become(s, f)) = Len(s) /\ Become(s, f)[Len(s)] = f
  BY <1>2, <1>3, <1>5, SameOk DEF g
<1>7. QED
  BY <1>4, <1>6 DEF f, g

\* List, SetTimer and Timers end by a release to the level of their caller.
LEMMA CallerRestoreOk ==
  ASSUME NEW s, NEW lock, NEW sig, NEW sq, NEW n, Stk(s, lock, sig, sq, n),
         s[Len(s)].k \in {"List", "SetTimer", "Timers"}, NEW tpl, tpl = s[Len(s) - 1].tpl,
         NEW lock2, IF s[Len(s)].k = "List" THEN lock2 = lock ELSE lock2 = Released
  PROVE  /\ Stk(Become(s, RestoreFrame(tpl)), lock2, sig, sq, n)
         /\ Len(Become(s, RestoreFrame(tpl))) = Len(s)
         /\ Become(s, RestoreFrame(tpl))[Len(s)] = RestoreFrame(tpl)
         /\ tpl \in Tpls /\ tpl <= s[Len(s)].tpl
<1> DEFINE f == RestoreFrame(tpl)
           g == s[Len(s)]
           c == s[Len(s) - 1]
<1>0. g \in Frames /\ Fits(s, Len(s), g) /\ Len(s) \in Nat /\ Len(s) # 0
  BY BelowTop
<1>a. Len(s) # 1
  BY <1>0 DEF Fits
<1>b. \A i \in Nat : i # 0 /\ i # 1 => i > 1 /\ i - 1 \in 1 .. i
  OBVIOUS
<1>1. Len(s) > 1 /\ Len(s) - 1 \in 1 .. Len(s)
  BY <1>0, <1>a, <1>b
<1>2. c.k # "Restore" /\ c \in Frames /\ Fits(s, Len(s) - 1, c) /\ c.tpl <= g.tpl
  <2>1. c.k # "Restore"
    BY <1>0, <1>1, FitsCaller
  <2>2. c \in Frames /\ c.tpl <= g.tpl
    BY <1>1, BelowTop
  <2>3. Fits(s, Len(s) - 1, c)
    BY <1>1 DEF Stk, StackOk
  <2>4. QED
    BY <2>1, <2>2, <2>3
<1>3. f \in Frames /\ f.k = "Restore" /\ f.pc = "test" /\ f.tpl = tpl /\ tpl \in Tpls
  BY <1>2 DEF RestoreFrame, Frame, Frames, Kinds, Pcs
<1>4. LocalOk(f) /\ ~Holds(f)
  BY <1>3 DEF LocalOk, Holds
<1>5. Fits(s, Len(s), f)
  <2>1. \A i \in 1 .. Len(s) - 1 : i = Len(s) - 1 \/ i \in 1 .. (Len(s) - 1) - 1
    BY ONLY <1>0
  <2>2. \A i \in 1 .. Len(s) - 1 : s[i].tpl <= tpl
    BY <1>2, <1>3, <2>1, TplFacts DEF Fits
  <2>3. QED
    BY <1>0, <1>1, <1>2, <1>3, <1>4, <2>2 DEF Fits, NotifyKinds, ClientKinds, ReturnTpl
<1>6. \/ lock2 = lock /\ (Holds(f) <=> Holds(g))
      \/ lock2 = Released /\ ~Holds(f) /\ g.k \in {"SetTimer", "Timers"}
  BY <1>4 DEF Holds
<1> HIDE DEF f, g, c
<1>7. /\ Stk(Become(s, f), lock2, sig, sq, n)
      /\ Len(Become(s, f)) = Len(s) /\ Become(s, f)[Len(s)] = f
  BY <1>3, <1>5, <1>6, BecomeStk DEF g
<1>8. QED
  BY <1>2, <1>3, <1>7 DEF f, g, c

-----------------------------------------------------------------------------
(***************************************************************************)
(* The level of the processor.                                             *)
(***************************************************************************)

\* A critical section ends with a release on the stack, or at TPL_HIGH_LEVEL.
LEMMA LockLevel ==
  ASSUME LevelInv, CoreAcquireEventLock, Top'.tpl \in Tpls,
         Top'.k # "Restore" => Top'.tpl = TPL_HIGH_LEVEL
  PROVE  LevelInv'
<1>0. gEfiCurrentTpl \in Tpls /\ (interrupts <=> gEfiCurrentTpl < TPL_HIGH_LEVEL)
  BY DEF LevelInv, InterruptsFollowTpl
<1>a. TPL_HIGH_LEVEL >= TPL_HIGH_LEVEL
  BY DEF TPL_HIGH_LEVEL
<1>1. gEfiCurrentTpl' = TPL_HIGH_LEVEL /\ ~interrupts' /\ interrupts' \in BOOLEAN
  <2>1. CASE gEfiCurrentTpl < TPL_HIGH_LEVEL
    BY <1>0, <1>a, <2>1, Zenon DEF LevelInv, CoreAcquireEventLock, CoreRaiseTpl
  <2>2. CASE ~(gEfiCurrentTpl < TPL_HIGH_LEVEL)
    BY <1>0, <1>a, <2>2, Zenon DEF LevelInv, CoreAcquireEventLock, CoreRaiseTpl
  <2>3. QED
    BY <2>1, <2>2
<1>2. TPL_HIGH_LEVEL \in Tpls /\ Top'.tpl <= TPL_HIGH_LEVEL /\ TPL_HIGH_LEVEL \in Nat
  BY TplFacts
<1>3. QED
  BY <1>1, <1>2, TplFacts DEF LevelInv, ResumedAtOwnTpl, InterruptsFollowTpl, Top

\* LevelInv after a step that leaves the processor's level alone.
LEMMA KeepLevel ==
  ASSUME LevelInv, UNCHANGED cpuVars, Top'.tpl \in Tpls,
         IF Top'.k = "Restore" THEN Top'.tpl <= gEfiCurrentTpl
         ELSE Top'.tpl = gEfiCurrentTpl
  PROVE  LevelInv'
BY TplFacts DEF LevelInv, ResumedAtOwnTpl, InterruptsFollowTpl, Top, cpuVars

\* What the inductive invariant says of the running activation.
LEMMA TopFacts ==
  ASSUME IInv
  PROVE  /\ Len(stack) \in Nat /\ Len(stack) # 0 /\ stack[Len(stack)] = Top
         /\ Top \in Frames /\ Fits(stack, Len(stack), Top) /\ LocalOk(Top)
         /\ Top.tpl \in Tpls /\ gEfiCurrentTpl \in Tpls /\ Top.tpl <= gEfiCurrentTpl
         /\ Top.k # "Restore" => gEfiCurrentTpl = Top.tpl
<1>1. /\ Len(stack) \in Nat /\ Len(stack) # 0 /\ stack[Len(stack)] \in Frames
      /\ Fits(stack, Len(stack), stack[Len(stack)])
  BY BelowTop DEF IInv, StackInv
<1>2. Top.tpl \in Tpls
  BY <1>1 DEF Top, Frames
<1>3. Top.tpl <= gEfiCurrentTpl
  BY <1>2, TplFacts DEF IInv, LevelInv
<1>4. QED
  BY <1>1, <1>2, <1>3 DEF Top, Fits, IInv, LevelInv, ResumedAtOwnTpl

\* The activation below the one that returns is resumed at its own level.
LEMMA ReturnLevel ==
  ASSUME IInv, UNCHANGED cpuVars, stack' = Return(stack),
         Top.k \in {"Notify", "Irq", "Check", "Wait", "Close"}
  PROVE  /\ LevelInv'
         /\ Stk(stack', mEfiTimerLock, Signature, gEventSignalQueue, Len(UserEvents))
<1> DEFINE m == Len(stack) - 1
<1>0. Top.k # "App" /\ ~Holds(Top)
  BY DEF Holds
<1>1. Stk(stack, mEfiTimerLock, Signature, gEventSignalQueue, Len(UserEvents))
  BY DEF IInv, StackInv
<1>2. /\ Stk(stack', mEfiTimerLock, Signature, gEventSignalQueue, Len(UserEvents))
      /\ Len(stack) > 1 /\ Len(stack') = m
      /\ \A i \in 1 .. m : stack'[i] = stack[i]
  BY <1>0, <1>1, TopFacts, ReturnOk
<1>3. Len(stack) \in Nat /\ m \in 1 .. m
  BY <1>2, TopFacts
<1>4. Top' = stack[m]
  BY <1>2, <1>3 DEF Top
<1>5. stack[m] \in Frames /\ stack[m].tpl <= Top.tpl
  BY <1>1, <1>3, TopFacts, BelowTop
<1>6. stack[m].k # "Restore" => Top.tpl = stack[m].tpl
  BY <1>2, TopFacts, FitsCaller DEF ReturnTpl
<1>7. Top.tpl = gEfiCurrentTpl /\ stack[m].tpl \in Tpls
  BY <1>5, TopFacts DEF Frames
<1>8. LevelInv'
  BY <1>4, <1>5, <1>6, <1>7, KeepLevel DEF IInv
<1>9. QED
  BY <1>2, <1>8

-----------------------------------------------------------------------------
(***************************************************************************)
(* Event structures and queues.                                            *)
(***************************************************************************)

\* The highest pending bit is one of the pending bits.
LEMMA HighBitSetOk ==
  ASSUME gEventPending \in SUBSET NotifyTpls, gEventPending # {}
  PROVE  HighBitSet \in gEventPending
<1>1. NotifyTpls = {TPL_CALLBACK, TPL_NOTIFY, CHECK_TIMER_TPL}
  BY DEF NotifyTpls, Tpls, TPL_APPLICATION, TPL_CALLBACK, TPL_NOTIFY, CHECK_TIMER_TPL,
         TPL_HIGH_LEVEL
<1>2. \E t \in gEventPending : \A u \in gEventPending : u <= t
  <2>1. CASE CHECK_TIMER_TPL \in gEventPending
    BY <1>1, <2>1 DEF TPL_CALLBACK, TPL_NOTIFY, CHECK_TIMER_TPL, TPL_HIGH_LEVEL
  <2>2. CASE CHECK_TIMER_TPL \notin gEventPending /\ TPL_NOTIFY \in gEventPending
    BY <1>1, <2>2 DEF TPL_CALLBACK, TPL_NOTIFY
  <2>3. CASE CHECK_TIMER_TPL \notin gEventPending /\ TPL_NOTIFY \notin gEventPending
    <3>1. \A u \in gEventPending : u = TPL_CALLBACK
      BY <1>1, <2>3
    <3>2. QED
      BY <3>1 DEF TPL_CALLBACK
  <2>4. QED
    BY <2>1, <2>2, <2>3
<1>3. QED
  BY <1>2 DEF HighBitSet

\* Counters, trigger times and periods may change at will.
LEMMA StructKeep ==
  ASSUME NEW ie, NEW ie2, StructOk(ie), ie2 \in [EventIds -> EventStructs],
         \A e \in EventIds : ie2[e].Type = ie[e].Type /\ ie2[e].NotifyTpl = ie[e].NotifyTpl,
         NEW sq, NEW sig, SignalQueueOk(sq, sig, ie)
  PROVE  StructOk(ie2) /\ SignalQueueOk(sq, sig, ie2)
<1>1. mEfiCheckTimerEvent \in EventIds
  BY DEF EventIds
<1>2. StructOk(ie2)
  BY <1>1 DEF StructOk
<1>3. \A i \in 1 .. Len(sq) : sq[i] \in EventIds
  BY ElementOfSeq DEF SignalQueueOk
<1>4. QED
  BY <1>2, <1>3 DEF SignalQueueOk

\* Setting one of these fields of one event.
LEMMA FieldOk ==
  ASSUME NEW ie, NEW ie2, StructOk(ie), NEW e \in EventIds, NEW r \in EventStructs,
         r.Type = ie[e].Type, r.NotifyTpl = ie[e].NotifyTpl, ie2 = [ie EXCEPT ![e] = r],
         NEW sq, NEW sig, SignalQueueOk(sq, sig, ie)
  PROVE  StructOk(ie2) /\ SignalQueueOk(sq, sig, ie2)
<1>1. ie2 \in [EventIds -> EventStructs]
  BY DEF StructOk
<1>2. \A d \in EventIds : ie2[d].Type = ie[d].Type /\ ie2[d].NotifyTpl = ie[d].NotifyTpl
  BY DEF StructOk
<1>3. QED
  BY <1>1, <1>2, StructKeep

\* An event with a notification function has a queue.
LEMMA NotifyTplOk ==
  ASSUME EventInv, NEW e \in EventIds, IsSignal(e) \/ IsWait(e)
  PROVE  IEvent[e].NotifyTpl \in NotifyTpls
<1>1. IsNotify(IEvent[e].Type)
  BY DEF IsNotify, IsSignal, IsWait
<1>2. QED
  BY <1>1 DEF EventInv, StructOk

\* CoreNotifyEvent keeps the queues and the pending bits well-formed.
LEMMA NotifyOk ==
  ASSUME EventInv, NEW e \in EventIds, IEvent[e].NotifyTpl \in NotifyTpls,
         CoreNotifyEvent(e)
  PROVE  QueueOk(gEventQueue') /\ gEventPending' \in SUBSET NotifyTpls
<1> DEFINE t == IEvent[e].NotifyTpl
           q == gEventQueue[t]
           r == RemoveEntryList(q, e)
           a == Append(r, e)
<1>0. gEventQueue \in [NotifyTpls -> Seq(EventIds)] /\ q \in Seq(EventIds)
  BY DEF EventInv, QueueOk
<1>1. r \in Seq(EventIds) /\ \A i \in 1 .. Len(r) : \E j \in 1 .. Len(q) : r[i] = q[j]
  BY <1>0, RemoveElements
<1>2. gEventQueue' = [gEventQueue EXCEPT ![t] = a]
  BY DEF CoreNotifyEvent
<1> HIDE DEF r
<1>3. /\ a \in Seq(EventIds) /\ Len(a) = Len(r) + 1 /\ Len(r) \in Nat
      /\ a[Len(r) + 1] = e /\ \A i \in 1 .. Len(r) : a[i] = r[i]
  BY <1>1, AppendProperties, LenProperties
<1> HIDE DEF a, q
<1>4. e = mEfiCheckTimerEvent => t = CHECK_TIMER_TPL
  BY DEF EventInv, StructOk
<1>5. \A i \in 1 .. Len(q) : q[i] = mEfiCheckTimerEvent => t = CHECK_TIMER_TPL
  BY DEF EventInv, QueueOk, q
<1>6. \A i \in 1 .. Len(a) : a[i] = mEfiCheckTimerEvent => t = CHECK_TIMER_TPL
  <2>1. \A i \in 1 .. Len(a) : i = Len(r) + 1 \/ i \in 1 .. Len(r)
    BY <1>3
  <2>2. QED
    BY <1>1, <1>3, <1>4, <1>5, <2>1
<1>7. QueueOk(gEventQueue')
  <2>1. gEventQueue' \in [NotifyTpls -> Seq(EventIds)]
    BY <1>0, <1>2, <1>3
  <2>2. \A u \in NotifyTpls : gEventQueue'[u] = IF u = t THEN a ELSE gEventQueue[u]
    BY <1>0, <1>2
  <2>3. ASSUME NEW u \in NotifyTpls, NEW i \in 1 .. Len(gEventQueue'[u]),
               gEventQueue'[u][i] = mEfiCheckTimerEvent
        PROVE  u = CHECK_TIMER_TPL
    <3>1. CASE u = t
      BY <1>6, <2>2, <2>3, <3>1
    <3>2. CASE u # t
      BY <2>2, <2>3, <3>2 DEF EventInv, QueueOk
    <3>3. QED
      BY <3>1, <3>2
  <2>4. QED
    BY <2>1, <2>3 DEF QueueOk
<1>8. gEventPending' \in SUBSET NotifyTpls
  BY DEF EventInv, CoreNotifyEvent
<1>9. QED
  BY <1>7, <1>8

\* Inserting a timer keeps the list a list of events.
LEMMA InsertOk ==
  ASSUME mEfiTimerList \in Seq(EventIds), NEW e \in EventIds, CoreInsertEventTimer(e)
  PROVE  mEfiTimerList' \in Seq(EventIds)
<1>1. PICK i \in 1 .. Len(mEfiTimerList) + 1 :
        mEfiTimerList' = SubSeq(mEfiTimerList, 1, i - 1) \o <<e>>
                         \o SubSeq(mEfiTimerList, i, Len(mEfiTimerList))
  BY DEF CoreInsertEventTimer
<1>2. Len(mEfiTimerList) \in Nat
  BY LenProperties
<1>3. SubSeq(mEfiTimerList, 1, i - 1) \in Seq(EventIds)
  BY <1>2, SubSeqProperties
<1>4. SubSeq(mEfiTimerList, i, Len(mEfiTimerList)) \in Seq(EventIds)
  BY <1>2, SubSeqProperties
<1>5. <<e>> \in Seq(EventIds)
  OBVIOUS
<1>6. QED
  BY ONLY <1>1, <1>3, <1>4, <1>5, ConcatProperties

\* CoreSignalEvent (e) from the activations s leaves everything in order.
LEMMA SignalOk ==
  ASSUME LevelInv, EventInv, NEW s, NEW e \in EventIds, NEW tpl,
         Stk(s, mEfiTimerLock, Signature, gEventSignalQueue, Len(UserEvents)),
         s[Len(s)].k # "Restore", s[Len(s)].tpl = tpl,
         CoreSignalEvent(e, s, tpl), UNCHANGED <<mEfiTimerLock, UserEvents>>
  PROVE  StackInv' /\ LevelInv' /\ EventInv'
<1> DEFINE r == [IEvent[e] EXCEPT !.SignalCount = 1]
           G == Frame("Group", "list", tpl, e, 0)
           S(s2) == Stk(s2, mEfiTimerLock, Signature, gEventSignalQueue, Len(UserEvents))
<1>1. IEvent \in [EventIds -> EventStructs] /\ StructOk(IEvent)
      /\ SignalQueueOk(gEventSignalQueue, Signature, IEvent)
  BY DEF EventInv, StructOk
<1>2. /\ r \in EventStructs
      /\ r.Type = IEvent[e].Type /\ r.NotifyTpl = IEvent[e].NotifyTpl
  BY <1>1 DEF EventStructs
<1>3. IEvent' = IEvent \/ IEvent' = [IEvent EXCEPT ![e] = r]
  BY DEF CoreSignalEvent
<1> HIDE DEF r
<1>4. StructOk(IEvent') /\ SignalQueueOk(gEventSignalQueue, Signature, IEvent')
  BY <1>1, <1>2, <1>3, FieldOk
<1>5. QueueOk(gEventQueue') /\ gEventPending' \in SUBSET NotifyTpls
  <2>1. \/ IsSignal(e) /\ CoreNotifyEvent(e)
        \/ UNCHANGED <<gEventQueue, gEventPending>>
    BY DEF CoreSignalEvent
  <2>2. CASE IsSignal(e) /\ CoreNotifyEvent(e)
    BY <2>2, NotifyTplOk, NotifyOk
  <2>3. CASE UNCHANGED <<gEventQueue, gEventPending>>
    BY <2>3 DEF EventInv
  <2>4. QED
    BY <2>1, <2>2, <2>3
<1>6. UNCHANGED <<gEventSignalQueue, Signature>>
  BY DEF CoreSignalEvent
<1>7. EventInv'
  BY <1>4, <1>5, <1>6 DEF EventInv
<1>8. /\ Len(s) \in Nat /\ Len(s) # 0 /\ s[Len(s)] \in Frames
      /\ \A i \in 1 .. Len(s) : s[i] \in Frames /\ s[i].tpl <= tpl
  BY BelowTop
<1>9. tpl \in Tpls
  BY <1>8 DEF Frames
<1>10. G \in Frames /\ G.k = "Group" /\ G.tpl = tpl /\ G.ev = e
  BY <1>9 DEF Frame, Frames, Kinds, Pcs
<1>11. ~Holds(G) /\ LocalOk(G)
  BY <1>10 DEF Holds, LocalOk
<1>12. Fits(s, Len(s) + 1, G)
  BY <1>8, <1>10, <1>11 DEF Fits, NotifyKinds, ClientKinds, ReturnTpl
<1> HIDE DEF G
<1>13. S(Call(s, G)) /\ Len(Call(s, G)) = Len(s) + 1 /\ Call(s, G)[Len(s) + 1] = G
  BY <1>10, <1>11, <1>12, CallOk
<1>14. \/ stack' = Call(Call(s, G), RestoreFrame(tpl))
       \/ stack' = Call(s, RestoreFrame(tpl))
  BY DEF CoreSignalEvent, G
<1>15. S(stack') /\ stack'[Len(stack')] = RestoreFrame(tpl)
  <2>1. CASE stack' = Call(s, RestoreFrame(tpl))
    BY <2>1, RestoreOk
  <2>2. CASE stack' = Call(Call(s, G), RestoreFrame(tpl))
    <3>1. Call(s, G)[Len(Call(s, G))] = G
      BY <1>13
    <3>2. QED
      BY <1>10, <1>13, <2>2, <3>1, RestoreOk
  <2>3. QED
    BY <1>14, <2>1, <2>2
<1>16. StackInv'
  BY <1>6, <1>15 DEF StackInv
<1>17. Top'.k = "Restore" /\ Top'.tpl \in Tpls
  BY <1>9, <1>15 DEF Top, RestoreFrame, Frame
<1>18. LevelInv'
  BY <1>17, LockLevel DEF CoreSignalEvent
<1>19. QED
  BY <1>7, <1>16, <1>18

-----------------------------------------------------------------------------
(***************************************************************************)
(* Every action preserves IInv.                                            *)
(***************************************************************************)

\* A critical section whose activation goes on after the release.
LEMMA LockedCall ==
  ASSUME LevelInv, CoreAcquireEventLock, NEW s, NEW tpl,
         Stk(s, mEfiTimerLock', Signature', gEventSignalQueue', Len(UserEvents')),
         s[Len(s)].k # "Restore", s[Len(s)].tpl = tpl, stack' = Call(s, RestoreFrame(tpl))
  PROVE  StackInv' /\ LevelInv'
<1>1. /\ Stk(stack', mEfiTimerLock', Signature', gEventSignalQueue', Len(UserEvents'))
      /\ stack'[Len(stack')] = RestoreFrame(tpl)
  BY RestoreOk
<1>2. tpl \in Tpls
  BY BelowTop DEF Frames
<1>3. Top'.k = "Restore" /\ Top'.tpl \in Tpls
  BY <1>1, <1>2 DEF Top, RestoreFrame, Frame
<1>4. QED
  BY <1>1, <1>3, LockLevel DEF StackInv

\* A critical section at the end of an activation.
LEMMA LockedEnd ==
  ASSUME IInv, CoreAcquireEventLock, Top.k \in {"Dispatch", "Group", "Check", "Wait"},
         UNCHANGED <<mEfiTimerLock, Signature, gEventSignalQueue, UserEvents>>,
         stack' = Become(stack, RestoreFrame(Top.tpl))
  PROVE  StackInv' /\ LevelInv'
<1>1. Stk(stack, mEfiTimerLock, Signature, gEventSignalQueue, Len(UserEvents))
  BY DEF IInv, StackInv
<1>2. ~Holds(Top) /\ ReturnTpl(Top) = Top.tpl
  BY DEF Holds, ReturnTpl
<1>3. /\ Stk(stack', mEfiTimerLock, Signature, gEventSignalQueue, Len(UserEvents))
      /\ stack'[Len(stack')] = RestoreFrame(Top.tpl)
  BY <1>1, <1>2, TopFacts, BecomeRestoreOk
<1>4. Top'.k = "Restore" /\ Top'.tpl \in Tpls
  BY <1>3, TopFacts DEF Top, RestoreFrame, Frame
<1>5. QED
  BY <1>3, <1>4, LockLevel DEF StackInv, IInv

\* The loop test of CoreRestoreTpl keeps the invariant: PendingTpl exceeds NewTpl.
LEMMA RestoreTestStep == IInv /\ RestoreTest => IInv'
<1> SUFFICES ASSUME IInv, RestoreTest PROVE IInv'
  OBVIOUS
<1> DEFINE f == [Top EXCEPT !.pc = "enter", !.x = HighBitSet]
<1>1. Stk(stack, mEfiTimerLock, Signature, gEventSignalQueue, Len(UserEvents))
  BY DEF IInv, StackInv
<1>2. Top.k = "Restore"
  BY DEF RestoreTest, Running
<1>3. /\ Stk(stack', mEfiTimerLock, Signature, gEventSignalQueue, Len(UserEvents))
      /\ Top'.k = "Restore" /\ Top'.tpl = Top.tpl
  <2>1. CASE gEventPending # {} /\ HighBitSet > Top.tpl
    <3>1. HighBitSet \in NotifyTpls /\ HighBitSet \in Nat
      BY <2>1, HighBitSetOk, TplFacts DEF IInv, EventInv
    <3>2. /\ f \in Frames /\ f.k = "Restore" /\ f.pc = "enter" /\ f.tpl = Top.tpl
          /\ f.x = HighBitSet
      BY <1>2, <3>1, TopFacts DEF Frames, Pcs
    <3>3. LocalOk(f) /\ ~Holds(f) /\ ~Holds(Top)
      BY <1>2, <2>1, <3>1, <3>2 DEF LocalOk, Holds
    <3>4. stack' = Become(stack, f)
      BY <2>1 DEF RestoreTest
    <3> HIDE DEF f
    <3>5. QED
      BY <1>1, <1>2, <3>2, <3>3, <3>4, TopFacts, SameOk DEF Top
  <2>2. CASE ~(gEventPending # {} /\ HighBitSet > Top.tpl)
    <3>1. stack' = Goto(stack, "set") /\ "set" \in Pcs
      BY <2>2 DEF RestoreTest, Pcs
    <3>2. /\ Stk(stack', mEfiTimerLock, Signature, gEventSignalQueue, Len(UserEvents))
          /\ Top' = [Top EXCEPT !.pc = "set"]
      BY <1>1, <1>2, <3>1, TopFacts, GotoOk DEF Top
    <3>3. QED
      BY <1>2, <3>2, TopFacts DEF Frames
  <2>3. QED
    BY <2>1, <2>2
<1>4. LevelInv'
  BY <1>3, TopFacts, KeepLevel DEF IInv, RestoreTest
<1>5. QED
  BY <1>3, <1>4 DEF RestoreTest, IInv, StackInv, EventInv, TimerInv, CallInv, eventVars,
                    timerVars

\* CoreRestoreTpl enters the dispatcher above every activation below it.
LEMMA RestoreEnterStep == IInv /\ RestoreEnter => IInv'
<1> SUFFICES ASSUME IInv, RestoreEnter PROVE IInv'
  OBVIOUS
<1> DEFINE s == Goto(stack, "test")
           f == Frame("Dispatch", "next", Top.x, NoEvent, 0)
<1>1. Stk(stack, mEfiTimerLock, Signature, gEventSignalQueue, Len(UserEvents))
  BY DEF IInv, StackInv
<1>2. Top.k = "Restore" /\ Top.pc = "enter"
  BY DEF RestoreEnter, Running
<1>3. Top.x \in NotifyTpls /\ Top.x \in Tpls /\ Top.x > Top.tpl
  BY <1>2, TopFacts, TplFacts DEF LocalOk
<1>a. "test" \in Pcs
  BY DEF Pcs
<1>b. /\ Stk(s, mEfiTimerLock, Signature, gEventSignalQueue, Len(UserEvents))
      /\ Len(s) = Len(stack) /\ s[Len(stack)] = [Top EXCEPT !.pc = "test"]
  BY <1>1, <1>2, <1>a, TopFacts, GotoOk
<1>4. /\ Stk(s, mEfiTimerLock, Signature, gEventSignalQueue, Len(UserEvents))
      /\ s[Len(s)] = [Top EXCEPT !.pc = "test"]
  BY <1>b
<1>5. s[Len(s)].tpl = Top.tpl /\ s[Len(s)].k = "Restore"
  BY <1>2, <1>4, TopFacts DEF Frames
<1>6. f \in Frames /\ f.k = "Dispatch" /\ f.pc = "next" /\ f.tpl = Top.x
  BY <1>3 DEF Frame, Frames, Kinds, Pcs
<1>7. stack' = Call(s, f)
  BY DEF RestoreEnter
<1> HIDE DEF s, f
<1>8. /\ Len(s) \in Nat /\ Len(s) # 0
      /\ \A i \in 1 .. Len(s) : s[i] \in Frames /\ s[i].tpl <= Top.tpl
  BY <1>4, <1>5, BelowTop
<1>9. \A i \in 1 .. Len(s) : s[i].tpl < f.tpl /\ s[i].tpl <= f.tpl
  <2>1. \A i \in 1 .. Len(s) : s[i].tpl \in Nat
    BY <1>8, LevelNat DEF Frames
  <2>2. Top.tpl \in Nat /\ f.tpl \in Nat /\ f.tpl > Top.tpl
    BY <1>3, <1>6, TopFacts, LevelNat
  <2>3. QED
    BY <1>8, <2>1, <2>2
<1>10. \A i \in 1 .. Len(s) : ~Holds(s[i])
  <2>1. \A i \in 1 .. Len(s) : Holds(s[i]) => s[i].tpl = TIMER_LOCK_TPL
    BY <1>4, TplFacts DEF Stk, StackOk, Fits, LocalOk, Holds
  <2>2. TIMER_LOCK_TPL \in Nat /\ f.tpl <= TIMER_LOCK_TPL /\ f.tpl \in Nat
    BY <1>3, <1>6, TplFacts
  <2>3. QED
    BY <1>9, <2>1, <2>2
<1>11. LocalOk(f) /\ ~Holds(f)
  BY <1>3, <1>6 DEF LocalOk, Holds
<1>12. FitsOn(s, f)
  <2>1. Len(s) \in Nat /\ Len(s) # 0
    BY <1>8
  <2>2. QED
    BY <2>1, <1>5, <1>6, <1>9, <1>10, <1>11 DEF FitsOn, Fits, NotifyKinds, ClientKinds
<1>c. Stk(s, mEfiTimerLock, Signature, gEventSignalQueue, Len(UserEvents))
  BY <1>4
<1>d. /\ Stk(stack', mEfiTimerLock, Signature, gEventSignalQueue, Len(UserEvents))
      /\ stack'[Len(stack')] = f
  BY <1>c, <1>6, <1>7, <1>11, <1>12, PushOk
<1>13. /\ Stk(stack', mEfiTimerLock, Signature, gEventSignalQueue, Len(UserEvents))
       /\ Top' = f
  BY <1>d DEF Top
<1>14. LevelInv'
  <2>1. gEfiCurrentTpl' = f.tpl /\ f.tpl \in Tpls /\ f.tpl < TPL_HIGH_LEVEL /\ f.tpl \in Nat
    BY <1>3, <1>6, TplFacts DEF RestoreEnter
  <2>2. interrupts' = TRUE
    BY <1>6, <2>1 DEF RestoreEnter
  <2>3. QED
    BY <1>13, <2>1, <2>2 DEF LevelInv, ResumedAtOwnTpl, InterruptsFollowTpl, Top
<1>15. QED
  BY <1>13, <1>14 DEF RestoreEnter, IInv, StackInv, EventInv, TimerInv, CallInv, eventVars,
                      timerVars

\* CoreRestoreTpl returns to an activation of the level it sets.
LEMMA RestoreSetStep == IInv /\ RestoreSet => IInv'
<1> SUFFICES ASSUME IInv, RestoreSet PROVE IInv'
  OBVIOUS
<1> DEFINE m == Len(stack) - 1
<1>1. Stk(stack, mEfiTimerLock, Signature, gEventSignalQueue, Len(UserEvents))
  BY DEF IInv, StackInv
<1>2. Top.k = "Restore" /\ ~Holds(Top)
  BY DEF RestoreSet, Running, Holds
<1>3. /\ Stk(stack', mEfiTimerLock, Signature, gEventSignalQueue, Len(UserEvents))
      /\ Len(stack) > 1 /\ Len(stack') = m
      /\ \A i \in 1 .. m : stack'[i] = stack[i]
  BY <1>1, <1>2, TopFacts, ReturnOk DEF RestoreSet
<1>4. Len(stack) \in Nat /\ m \in 1 .. m
  BY <1>3, TopFacts
<1>5. Top' = stack[m]
  BY <1>3, <1>4 DEF Top
<1>6. stack[m] \in Frames /\ stack[m].tpl <= Top.tpl
  BY <1>1, <1>4, TopFacts, BelowTop
<1>7. stack[m].k # "Restore" => Top.tpl = stack[m].tpl
  <2>1. Len(stack) \in Nat /\ Len(stack) > 1 /\ Fits(stack, Len(stack), Top)
    BY <1>3, TopFacts
  <2>2. stack[m].k # "Restore" =>
          (Top.k \notin {"SetTimer", "List"} => ReturnTpl(Top) = stack[m].tpl)
    BY <2>1, FitsCaller
  <2>3. ReturnTpl(Top) = Top.tpl /\ Top.k \notin {"SetTimer", "List"}
    BY <1>2 DEF ReturnTpl
  <2>4. QED
    BY <2>2, <2>3
<1>8. LevelInv'
  <2>1. gEfiCurrentTpl' = Top.tpl /\ Top.tpl \in Tpls /\ stack[m].tpl \in Tpls
    BY <1>6, TopFacts DEF RestoreSet, Frames
  <2>2. interrupts' <=> Top.tpl < TPL_HIGH_LEVEL
    <3>1. CASE Top.tpl < TPL_HIGH_LEVEL
      BY <3>1 DEF RestoreSet
    <3>2. CASE ~(Top.tpl < TPL_HIGH_LEVEL)
      <4>1. ~(gEfiCurrentTpl < TPL_HIGH_LEVEL)
        BY <3>2, TopFacts, LevelNat
      <4>2. ~interrupts
        BY <4>1 DEF IInv, LevelInv, InterruptsFollowTpl
      <4>3. QED
        BY <3>2, <4>2 DEF RestoreSet
    <3>3. QED
      BY <3>1, <3>2
  <2>3. interrupts' \in BOOLEAN
    BY DEF RestoreSet
  <2>4. QED
    BY <1>5, <1>6, <1>7, <2>1, <2>2, <2>3, TplFacts
       DEF LevelInv, ResumedAtOwnTpl, InterruptsFollowTpl, Top
<1>9. QED
  BY <1>3, <1>8 DEF RestoreSet, IInv, StackInv, EventInv, TimerInv, CallInv, eventVars,
                    timerVars

\* The running activation goes on at pc: a stack that is in order.
LEMMA GotoTop ==
  ASSUME IInv, NEW pc \in Pcs, Top.k \notin {"Raised", "Dispatch", "Restore"},
         Top.k = "Timers" => pc # "acquire" /\ Top.pc # "acquire",
         Top.k = "Timers" /\ pc \in {"rearm", "kick", "insert"} => Top.ev \in EventIds,
         Top.k = "Close" => pc # "free"
  PROVE  LET s == Goto(stack, pc)
         IN  /\ Stk(s, mEfiTimerLock, Signature, gEventSignalQueue, Len(UserEvents))
             /\ s[Len(s)].k = Top.k /\ s[Len(s)].tpl = Top.tpl /\ s[Len(s)].ev = Top.ev
<1> DEFINE s == Goto(stack, pc)
<1>1. Stk(stack, mEfiTimerLock, Signature, gEventSignalQueue, Len(UserEvents))
  BY DEF IInv, StackInv
<1>2. /\ Stk(s, mEfiTimerLock, Signature, gEventSignalQueue, Len(UserEvents))
      /\ Len(s) = Len(stack) /\ s[Len(stack)] = [Top EXCEPT !.pc = pc]
  BY <1>1, TopFacts, GotoOk
<1> HIDE DEF s
<1>3. s[Len(s)] = [Top EXCEPT !.pc = pc]
  BY <1>2
<1>4. s[Len(s)].k = Top.k /\ s[Len(s)].tpl = Top.tpl /\ s[Len(s)].ev = Top.ev
  BY <1>3, TopFacts DEF Frames
<1>5. QED
  BY <1>2, <1>4 DEF s

\* Taking the next notification, or ending the dispatch, keeps the invariant.
LEMMA DispatchNextStep == IInv /\ DispatchNext => IInv'
<1> SUFFICES ASSUME IInv, DispatchNext PROVE IInv'
  OBVIOUS
<1> DEFINE p == Top.tpl
           q == gEventQueue[p]
           e == Head(q)
           f == Frame("Dispatch", "call", p, e, 0)
           s == Become(stack, f)
<1>1. Stk(stack, mEfiTimerLock, Signature, gEventSignalQueue, Len(UserEvents))
  BY DEF IInv, StackInv
<1>2. Top.k = "Dispatch" /\ Top.k # "Restore"
  BY DEF DispatchNext, Running
<1>3. CoreAcquireEventLock /\ UNCHANGED <<gEventSignalQueue, Signature, timerVars, UserEvents, calls>>
  BY DEF DispatchNext
<1>4. /\ TimerInv' /\ CallInv'
      /\ UNCHANGED <<mEfiTimerLock, Signature, gEventSignalQueue, UserEvents>>
  BY <1>3 DEF IInv, TimerInv, CallInv, timerVars
<1>5. p \in NotifyTpls /\ q \in Seq(EventIds) /\ gEventQueue \in [NotifyTpls -> Seq(EventIds)]
  BY <1>2, TopFacts DEF LocalOk, IInv, EventInv, QueueOk
<1>6. CASE q = <<>>
  <2>1. /\ gEventPending' = gEventPending \ {p} /\ stack' = Become(stack, RestoreFrame(p))
        /\ UNCHANGED <<gEventQueue, IEvent>>
    BY <1>6 DEF DispatchNext
  <2>2. StackInv' /\ LevelInv'
    BY <1>2, <1>3, <1>4, <2>1, LockedEnd
  <2>3. EventInv'
    BY <1>3, <2>1 DEF IInv, EventInv
  <2>4. QED
    BY <1>4, <2>2, <2>3 DEF IInv
<1>7. CASE q # <<>>
  <2>1. /\ gEventQueue' = [gEventQueue EXCEPT ![p] = Tail(@)]
        /\ IEvent' = IEvent \/ IEvent' = [IEvent EXCEPT ![e].SignalCount = 0]
        /\ stack' = Call(s, RestoreFrame(p)) /\ UNCHANGED gEventPending
    BY <1>7 DEF DispatchNext
  <2>2. /\ e \in EventIds /\ e = q[1] /\ Len(q) \in Nat /\ Len(q) # 0
        /\ Tail(q) \in Seq(EventIds)
        /\ Len(Tail(q)) = Len(q) - 1 /\ \A i \in 1 .. Len(q) - 1 : Tail(q)[i] = q[i + 1]
    BY <1>5, <1>7, HeadTailProperties, EmptySeq, LenProperties
  <2>3. \A i \in 1 .. Len(q) : q[i] = mEfiCheckTimerEvent => p = CHECK_TIMER_TPL
    BY <1>5 DEF IInv, EventInv, QueueOk
  <2>4. e = mEfiCheckTimerEvent => p = CHECK_TIMER_TPL
    BY <2>2, <2>3
  <2>5. /\ f \in Frames /\ f.k = "Dispatch" /\ f.pc = "call" /\ f.tpl = p /\ f.ev = e
    BY <2>2, TopFacts DEF Frame, Frames, Kinds, Pcs
  <2>6. LocalOk(f) /\ ~Holds(f) /\ ~Holds(Top)
    BY <1>2, <1>5, <2>2, <2>4, <2>5 DEF LocalOk, Holds
  <2> HIDE DEF f
  <2>7. /\ Stk(s, mEfiTimerLock, Signature, gEventSignalQueue, Len(UserEvents))
        /\ Len(s) = Len(stack) /\ s[Len(stack)] = f
    BY <1>1, <1>2, <2>5, <2>6, TopFacts, SameOk
  <2> HIDE DEF s
  <2>8. s[Len(s)].k # "Restore" /\ s[Len(s)].tpl = p
    BY <2>5, <2>7
  <2>9. StackInv' /\ LevelInv'
    BY <1>3, <1>4, <2>1, <2>7, <2>8, LockedCall DEF IInv
  <2>10. QueueOk(gEventQueue')
    <3>1. /\ gEventQueue' \in [NotifyTpls -> Seq(EventIds)]
          /\ \A t \in NotifyTpls : gEventQueue'[t] = IF t = p THEN Tail(q) ELSE gEventQueue[t]
      BY <1>5, <2>1, <2>2
    <3>2. \A i \in 1 .. Len(Tail(q)) : Tail(q)[i] = mEfiCheckTimerEvent => p = CHECK_TIMER_TPL
      BY <2>2, <2>3
    <3>3. \A t \in NotifyTpls : t # p => \A i \in 1 .. Len(gEventQueue[t]) :
             gEventQueue[t][i] = mEfiCheckTimerEvent => t = CHECK_TIMER_TPL
      BY DEF IInv, EventInv, QueueOk
    <3> HIDE DEF q
    <3>4. QED
      BY <3>1, <3>2, <3>3 DEF QueueOk
  <2>11. StructOk(IEvent') /\ SignalQueueOk(gEventSignalQueue, Signature, IEvent')
    <3> DEFINE r == [IEvent[e] EXCEPT !.SignalCount = 0]
    <3>1. StructOk(IEvent) /\ SignalQueueOk(gEventSignalQueue, Signature, IEvent)
      BY DEF IInv, EventInv
    <3>2. /\ r \in EventStructs
          /\ r.Type = IEvent[e].Type /\ r.NotifyTpl = IEvent[e].NotifyTpl
      BY <2>2, <3>1 DEF EventStructs, StructOk
    <3>3. IEvent' = IEvent \/ IEvent' = [IEvent EXCEPT ![e] = r]
      BY <2>1
    <3> HIDE DEF r, e
    <3>4. QED
      BY <2>2, <3>1, <3>2, <3>3, FieldOk
  <2>12. EventInv'
    BY <1>3, <2>1, <2>10, <2>11 DEF IInv, EventInv
  <2>13. QED
    BY <1>4, <2>9, <2>12 DEF IInv
<1>8. QED
  BY <1>6, <1>7

\* The notification function starts above all activations but its dispatcher.
LEMMA DispatchCallStep == IInv /\ DispatchCall => IInv'
<1> SUFFICES ASSUME IInv, DispatchCall PROVE IInv'
  OBVIOUS
<1> DEFINE p == Top.tpl
           g == Frame("Dispatch", "next", p, NoEvent, 0)
           s == Become(stack, g)
           f == NotifyFrame(p, Top.ev)
<1>1. Stk(stack, mEfiTimerLock, Signature, gEventSignalQueue, Len(UserEvents))
  BY DEF IInv, StackInv
<1>2. Top.k = "Dispatch" /\ Top.pc = "call"
  BY DEF DispatchCall, Running
<1>3. /\ p \in NotifyTpls /\ Top.ev \in EventIds /\ p \in Tpls
      /\ Top.ev = mEfiCheckTimerEvent => p = CHECK_TIMER_TPL
  BY <1>2, TopFacts DEF LocalOk
<1>4. g \in Frames /\ g.k = "Dispatch" /\ g.pc = "next" /\ g.tpl = p
  BY <1>3 DEF Frame, Frames, Kinds, Pcs
<1>5. LocalOk(g) /\ ~Holds(g) /\ ~Holds(Top)
  BY <1>2, <1>3, <1>4 DEF LocalOk, Holds
<1> HIDE DEF g
<1>6. /\ Stk(s, mEfiTimerLock, Signature, gEventSignalQueue, Len(UserEvents))
      /\ Len(s) = Len(stack) /\ s[Len(stack)] = g
  BY <1>1, <1>2, <1>4, <1>5, TopFacts, SameOk
<1>7. /\ f \in Frames /\ f.tpl = p /\ ~Holds(f)
      /\ f.k = "Notify" \/ (f.k = "Timers" /\ p = CHECK_TIMER_TPL)
      /\ f.pc \in {"acquire", "body"}
  BY <1>3 DEF NotifyFrame, Frame, Frames, Kinds, Pcs, Holds
<1>8. stack' = Call(s, f)
  BY DEF DispatchCall, g
<1> HIDE DEF s, f
<1>9. LocalOk(f)
  BY <1>3, <1>7 DEF LocalOk
<1>10. Len(s) \in Nat /\ Len(s) # 0 /\ Fits(s, Len(s), g) /\ s[Len(s)] = g
  BY <1>6, TopFacts, BelowTop
<1>11. \A i \in 1 .. Len(s) : i = Len(s) \/ i \in 1 .. Len(s) - 1
  BY <1>10
<1>12. \A i \in 1 .. Len(s) - 1 : s[i].tpl < p /\ s[i].tpl <= p /\ ~Holds(s[i])
  BY <1>4, <1>10 DEF Fits
<1>13. \A i \in 1 .. Len(s) : /\ s[i].tpl <= p /\ ~Holds(s[i])
                              /\ s[i].k # "Dispatch" => s[i].tpl < p
  BY <1>3, <1>4, <1>5, <1>10, <1>11, <1>12, LevelNat
<1>14. p > TPL_APPLICATION
  BY <1>3 DEF NotifyTpls, Tpls, TPL_APPLICATION, TPL_CALLBACK, TPL_NOTIFY, CHECK_TIMER_TPL,
              TPL_HIGH_LEVEL
<1>15. FitsOn(s, f)
  <2>1. Len(s) \in Nat /\ Len(s) # 0 /\ s[Len(s)].k = "Dispatch" /\ s[Len(s)].tpl = p
    BY <1>4, <1>10
  <2>2. QED
    BY <1>7, <1>9, <1>13, <1>14, <2>1 DEF FitsOn, Fits, NotifyKinds, ClientKinds, ReturnTpl
<1>16. /\ Stk(stack', mEfiTimerLock, Signature, gEventSignalQueue, Len(UserEvents))
       /\ stack'[Len(stack')] = f
  BY <1>6, <1>7, <1>8, <1>15, PushOk
<1>17. Top' = f
  BY <1>16 DEF Top
<1>18. LevelInv'
  BY <1>2, <1>3, <1>7, <1>17, TopFacts, KeepLevel DEF IInv, DispatchCall
<1>19. QED
  BY <1>8, <1>16, <1>18 DEF DispatchCall, IInv, StackInv, EventInv, TimerInv, CallInv,
                           eventVars, timerVars

\* CoreSignalEvent enters CoreNotifySignalList at TPL_HIGH_LEVEL.
LEMMA GroupListStep == IInv /\ GroupList => IInv'
<1> SUFFICES ASSUME IInv, GroupList PROVE IInv'
  OBVIOUS
<1> DEFINE s == Goto(stack, "relock")
           f == Frame("List", "link", TPL_HIGH_LEVEL, Top.ev, 1)
<1>1. Top.k = "Group" /\ "relock" \in Pcs
  BY DEF GroupList, Running, Pcs
<1>2. Top.ev \in EventIds
  BY <1>1, TopFacts DEF LocalOk
<1>3. /\ Stk(s, mEfiTimerLock, Signature, gEventSignalQueue, Len(UserEvents))
      /\ s[Len(s)].k = "Group" /\ s[Len(s)].tpl = Top.tpl
  BY <1>1, GotoTop
<1>4. /\ f \in Frames /\ f.k = "List" /\ f.tpl = TPL_HIGH_LEVEL /\ f.ev \in EventIds
      /\ f.x = 1
  BY <1>2, TplFacts DEF Frame, Frames, Kinds, Pcs
<1>5. LocalOk(f) /\ ~Holds(f)
  BY <1>4 DEF LocalOk, Holds
<1>6. stack' = Call(s, f)
  BY DEF GroupList
<1> HIDE DEF s, f
<1>7. Len(s) \in Nat /\ Len(s) # 0 /\ \A i \in 1 .. Len(s) : s[i] \in Frames
  BY <1>3, BelowTop
<1>8. \A i \in 1 .. Len(s) : s[i].tpl <= f.tpl
  BY <1>4, <1>7, TplFacts DEF Frames
<1>9. FitsOn(s, f)
  <2>1. Len(s) \in Nat /\ Len(s) # 0
    BY <1>7
  <2>2. QED
    BY <1>3, <1>4, <1>5, <1>8, <2>1 DEF FitsOn, Fits, NotifyKinds, ClientKinds
<1>10. /\ Stk(stack', mEfiTimerLock, Signature, gEventSignalQueue, Len(UserEvents))
       /\ stack'[Len(stack')] = f
  BY <1>3, <1>4, <1>5, <1>6, <1>9, PushOk
<1>11. Top' = f
  BY <1>10 DEF Top
<1>12. LevelInv'
  BY <1>4, <1>11, TplFacts, LockLevel DEF IInv, GroupList
<1>13. QED
  BY <1>6, <1>10, <1>12 DEF GroupList, IInv, StackInv, EventInv, TimerInv, CallInv,
                           eventVars, timerVars

\* Each step of the walk of gEventSignalQueue keeps the invariant.
LEMMA CoreNotifySignalListStep == IInv /\ CoreNotifySignalList => IInv'
<1> SUFFICES ASSUME IInv, CoreNotifySignalList PROVE IInv'
  OBVIOUS
<1>1. Stk(stack, mEfiTimerLock, Signature, gEventSignalQueue, Len(UserEvents))
  BY DEF IInv, StackInv
<1>2. Top.k = "List" /\ Top.pc = "link"
  BY DEF CoreNotifySignalList, Running
<1>3. Top.tpl = TPL_HIGH_LEVEL /\ Top.ev \in EventIds /\ Top.x \in Nat /\ Top.x # 0
  BY <1>2, TopFacts DEF LocalOk, Frames
<1>4. UNCHANGED <<cpuVars, gEventSignalQueue, IEvent, Signature, timerVars, UserEvents, calls>>
  BY DEF CoreNotifySignalList
<1>5. TimerInv' /\ CallInv'
  BY <1>4 DEF IInv, TimerInv, CallInv, timerVars
<1>6. CASE Top.x <= Len(gEventSignalQueue)
  <2> DEFINE e == gEventSignalQueue[Top.x]
             f == [Top EXCEPT !.x = @ + 1]
  <2>1. /\ stack' = Become(stack, f)
        /\ CoreNotifyEvent(e) \/ UNCHANGED <<gEventQueue, gEventPending>>
    <3>1. Len(gEventSignalQueue) \in Nat
      BY LenProperties DEF IInv, EventInv, SignalQueueOk
    <3>2. ~(Top.x > Len(gEventSignalQueue))
      BY <1>3, <1>6, <3>1
    <3>3. QED
      BY <3>2 DEF CoreNotifySignalList
  <2>2. Len(gEventSignalQueue) \in Nat /\ Top.x \in 1 .. Len(gEventSignalQueue)
    BY <1>3, <1>6, LenProperties DEF IInv, EventInv, SignalQueueOk
  <2>3. e \in EventIds /\ IsSignal(e)
    BY <2>2, ElementOfSeq DEF IInv, EventInv, SignalQueueOk, IsSignal
  <2>4. /\ f \in Frames /\ f.k = "List" /\ f.tpl = TPL_HIGH_LEVEL /\ f.ev = Top.ev
        /\ f.x # 0 /\ f.pc = Top.pc
    BY <1>2, <1>3, TopFacts DEF Frames
  <2>5. LocalOk(f) /\ ~Holds(f) /\ ~Holds(Top)
    BY <1>2, <1>3, <2>4 DEF LocalOk, Holds
  <2> HIDE DEF f, e
  <2>6. /\ Stk(Become(stack, f), mEfiTimerLock, Signature, gEventSignalQueue, Len(UserEvents))
        /\ Len(Become(stack, f)) = Len(stack) /\ Become(stack, f)[Len(stack)] = f
    BY <1>1, <1>2, <1>3, <2>4, <2>5, TopFacts, SameOk
  <2>7. Top' = f
    BY <2>1, <2>6 DEF Top
  <2>8. LevelInv'
    BY <1>2, <1>3, <1>4, <2>4, <2>7, TopFacts, KeepLevel DEF IInv
  <2>9. QueueOk(gEventQueue') /\ gEventPending' \in SUBSET NotifyTpls
    <3>1. CASE CoreNotifyEvent(e)
      BY <2>3, <3>1, NotifyTplOk, NotifyOk DEF IInv
    <3>2. CASE UNCHANGED <<gEventQueue, gEventPending>>
      BY <3>2 DEF IInv, EventInv
    <3>3. QED
      BY <2>1, <3>1, <3>2
  <2>10. QED
    BY <1>4, <1>5, <2>1, <2>6, <2>8, <2>9 DEF IInv, StackInv, EventInv, timerVars
<1>7. CASE ~(Top.x <= Len(gEventSignalQueue))
  <2>1. /\ stack' = Become(stack, RestoreFrame(Caller.tpl))
        /\ UNCHANGED <<gEventQueue, gEventPending>>
    BY <1>7 DEF CoreNotifySignalList
  <2>2. /\ Stk(stack', mEfiTimerLock, Signature, gEventSignalQueue, Len(UserEvents))
        /\ stack'[Len(stack')] = RestoreFrame(Caller.tpl)
        /\ Caller.tpl \in Tpls /\ Caller.tpl <= Top.tpl
    BY <1>1, <1>2, <2>1, TopFacts, CallerRestoreOk DEF Caller
  <2>3. Top'.k = "Restore" /\ Top'.tpl = Caller.tpl
    BY <2>2 DEF Top, RestoreFrame, Frame
  <2>4. Top.tpl = gEfiCurrentTpl
    BY <1>2, TopFacts
  <2>5. LevelInv'
    BY <1>4, <2>2, <2>3, <2>4, KeepLevel DEF IInv
  <2>6. QED
    BY <1>4, <1>5, <2>1, <2>2, <2>5 DEF IInv, StackInv, EventInv, timerVars
<1>8. QED
  BY <1>6, <1>7

\* The second lock and unlock of a group signal keeps the invariant.
LEMMA GroupRelockStep == IInv /\ GroupRelock => IInv'
<1> SUFFICES ASSUME IInv, GroupRelock PROVE IInv'
  OBVIOUS
<1>1. Top.k = "Group" /\ CoreAcquireEventLock /\ stack' = Become(stack, RestoreFrame(Top.tpl))
  BY DEF GroupRelock, Running
<1>2. UNCHANGED <<eventVars, timerVars, UserEvents, calls>>
  BY DEF GroupRelock
<1>3. StackInv' /\ LevelInv'
  BY <1>1, <1>2, LockedEnd DEF eventVars, timerVars
<1>4. QED
  BY <1>2, <1>3 DEF IInv, EventInv, TimerInv, CallInv, eventVars, timerVars

\* The two halves of CoreCheckEvent, for CoreWaitForEvent as well.
LEMMA CheckQueueOk ==
  ASSUME IInv, NEW e \in EventIds, Top.k \in {"Check", "Wait"},
         CheckQueue(e, Goto(stack, "poll")), UNCHANGED <<mEfiTimerLock, UserEvents>>
  PROVE  StackInv' /\ LevelInv' /\ EventInv'
<1> DEFINE s == Goto(stack, "poll")
<1>1. "poll" \in Pcs
  BY DEF Pcs
<1>2. /\ Stk(s, mEfiTimerLock, Signature, gEventSignalQueue, Len(UserEvents))
      /\ s[Len(s)].k = Top.k /\ s[Len(s)].tpl = Top.tpl
  BY <1>1, GotoTop
<1>3. CASE e \notin Signature \/ IsSignal(e)
  <2>1. stack' = Return(stack) /\ UNCHANGED <<cpuVars, eventVars>>
    BY <1>3 DEF CheckQueue
  <2>2. LevelInv' /\ Stk(stack', mEfiTimerLock, Signature, gEventSignalQueue, Len(UserEvents))
    BY <2>1, ReturnLevel
  <2>3. QED
    BY <2>1, <2>2 DEF IInv, StackInv, EventInv, eventVars
<1>4. CASE /\ ~(e \notin Signature \/ IsSignal(e))
           /\ IEvent[e].SignalCount = 0 /\ IsWait(e)
  <2>1. /\ CoreAcquireEventLock /\ CoreNotifyEvent(e) /\ stack' = Call(s, RestoreFrame(Top.tpl))
        /\ UNCHANGED <<gEventSignalQueue, IEvent, Signature>>
    BY <1>4 DEF CheckQueue
  <2>2. QueueOk(gEventQueue') /\ gEventPending' \in SUBSET NotifyTpls
    BY <1>4, <2>1, NotifyTplOk, NotifyOk DEF IInv
  <2>3. EventInv'
    BY <2>1, <2>2 DEF IInv, EventInv
  <2> HIDE DEF s
  <2>4. StackInv' /\ LevelInv'
    BY <1>2, <2>1, LockedCall DEF IInv
  <2>5. QED
    BY <2>3, <2>4
<1>5. CASE /\ ~(e \notin Signature \/ IsSignal(e))
           /\ ~(IEvent[e].SignalCount = 0 /\ IsWait(e))
  <2>1. stack' = s /\ UNCHANGED <<cpuVars, eventVars>>
    BY <1>5 DEF CheckQueue
  <2>2. Top'.k = Top.k /\ Top'.tpl = Top.tpl
    BY <1>2, <2>1 DEF Top
  <2>3. LevelInv'
    BY <2>1, <2>2, TopFacts, KeepLevel DEF IInv
  <2>4. QED
    BY <1>2, <2>1, <2>3 DEF IInv, StackInv, EventInv, eventVars
<1>6. QED
  BY <1>3, <1>4, <1>5

\* CheckPoll keeps the invariant, for CheckEvent and for WaitForEvent.
LEMMA CheckPollOk ==
  ASSUME IInv, NEW e \in EventIds, Top.k \in {"Check", "Wait"}, NEW s,
         CheckPoll(e, s), UNCHANGED <<mEfiTimerLock, UserEvents>>,
         stack' = s /\ UNCHANGED <<cpuVars, eventVars>> => StackInv' /\ LevelInv'
  PROVE  StackInv' /\ LevelInv' /\ EventInv'
<1>1. CASE IEvent[e].SignalCount # 0
  <2> DEFINE r == [IEvent[e] EXCEPT !.SignalCount = 0]
  <2>1. /\ CoreAcquireEventLock /\ stack' = Become(stack, RestoreFrame(Top.tpl))
        /\ IEvent' = [IEvent EXCEPT ![e] = r]
        /\ UNCHANGED <<gEventQueue, gEventPending, gEventSignalQueue, Signature>>
    BY <1>1 DEF CheckPoll
  <2>2. StructOk(IEvent) /\ SignalQueueOk(gEventSignalQueue, Signature, IEvent)
    BY DEF IInv, EventInv
  <2>3. /\ r \in EventStructs
        /\ r.Type = IEvent[e].Type /\ r.NotifyTpl = IEvent[e].NotifyTpl
    BY <2>2 DEF EventStructs, StructOk
  <2> HIDE DEF r
  <2>4. StructOk(IEvent') /\ SignalQueueOk(gEventSignalQueue, Signature, IEvent')
    BY <2>1, <2>2, <2>3, FieldOk
  <2>5. EventInv'
    BY <2>1, <2>4 DEF IInv, EventInv
  <2>6. StackInv' /\ LevelInv'
    BY <2>1, LockedEnd
  <2>7. QED
    BY <2>5, <2>6
<1>2. CASE IEvent[e].SignalCount = 0
  <2>1. stack' = s /\ UNCHANGED <<cpuVars, eventVars>>
    BY <1>2 DEF CheckPoll
  <2>2. QED
    BY <2>1 DEF IInv, EventInv, eventVars
<1>3. QED
  BY <1>1, <1>2

\* Both halves of CoreCheckEvent keep the invariant.
LEMMA CoreCheckEventStep == IInv /\ CoreCheckEvent => IInv'
<1> SUFFICES ASSUME IInv, CoreCheckEvent PROVE IInv'
  OBVIOUS
<1>1. UNCHANGED <<timerVars, UserEvents, calls>>
  BY DEF CoreCheckEvent
<1>2. TimerInv' /\ CallInv' /\ UNCHANGED <<mEfiTimerLock, UserEvents>>
  BY <1>1 DEF IInv, TimerInv, CallInv, timerVars
<1>3. Top.k = "Check" /\ Top.ev \in EventIds
  BY TopFacts DEF CoreCheckEvent, Running, LocalOk, EventIds
<1>4. CASE CheckQueue(Top.ev, Goto(stack, "poll"))
  BY <1>2, <1>3, <1>4, CheckQueueOk DEF IInv
<1>5. CASE CheckPoll(Top.ev, Return(stack))
  <2>1. stack' = Return(stack) /\ UNCHANGED <<cpuVars, eventVars>> => StackInv' /\ LevelInv'
    BY <1>2, <1>3, ReturnLevel DEF StackInv, eventVars
  <2>2. QED
    BY <1>2, <1>3, <1>5, <2>1, CheckPollOk DEF IInv
<1>6. QED
  BY <1>4, <1>5 DEF CoreCheckEvent

\* WaitForEvent stays within its array and signals the idle event.
LEMMA CoreWaitForEventStep == IInv /\ CoreWaitForEvent => IInv'
<1> SUFFICES ASSUME IInv, CoreWaitForEvent PROVE IInv'
  OBVIOUS
<1> DEFINE e == UserEvents[Top.x]
<1>0. Stk(stack, mEfiTimerLock, Signature, gEventSignalQueue, Len(UserEvents))
  BY DEF IInv, StackInv
<1>1. UNCHANGED <<timerVars, UserEvents, calls>>
  BY DEF CoreWaitForEvent
<1>2. TimerInv' /\ CallInv' /\ UNCHANGED <<mEfiTimerLock, UserEvents>>
  BY <1>1 DEF IInv, TimerInv, CallInv, timerVars
<1>3. Top.k = "Wait" /\ Top.tpl = TPL_APPLICATION
  BY TopFacts DEF CoreWaitForEvent, Running, LocalOk
<1>4. Len(UserEvents) \in Nat /\ UserEvents \in Seq(Events)
  BY LenProperties DEF IInv, CallInv
<1>5. Top.x \in 1 .. Len(UserEvents) /\ Top.x \in Nat
  BY <1>0, <1>3, <1>4, TopFacts DEF Stk, WaitOk, Frames
<1>6. e \in EventIds
  BY <1>4, <1>5, ElementOfSeq DEF EventIds
<1>7. CASE CheckQueue(e, Goto(stack, "poll"))
  BY <1>2, <1>3, <1>6, <1>7, CheckQueueOk DEF IInv
<1>8. CASE CheckPoll(e, Become(stack, WaitNext))
  <2>1. /\ WaitNext \in Frames /\ WaitNext.k = "Wait" /\ WaitNext.tpl = TPL_APPLICATION
        /\ WaitNext.ev = NoEvent /\ WaitNext.x \in 1 .. Len(UserEvents)
    BY <1>3, <1>4, <1>5, TplFacts DEF WaitNext, Frame, Frames, Kinds, Pcs
  <2>2. LocalOk(WaitNext) /\ ~Holds(WaitNext) /\ ~Holds(Top)
    BY <1>3, <2>1 DEF LocalOk, Holds
  <2>3. LET s == Become(stack, WaitNext)
        IN  /\ Stk(s, mEfiTimerLock, Signature, gEventSignalQueue, Len(UserEvents))
            /\ Len(s) = Len(stack) /\ s[Len(stack)] = WaitNext
    BY <1>0, <1>3, <2>1, <2>2, TopFacts, SameOk
  <2>4. ASSUME stack' = Become(stack, WaitNext), UNCHANGED <<cpuVars, eventVars>>
        PROVE  StackInv' /\ LevelInv'
    <3>1. Top' = WaitNext
      BY <2>3, <2>4 DEF Top
    <3>2. LevelInv'
      BY <1>3, <2>1, <2>4, <3>1, TopFacts, TplFacts, KeepLevel DEF IInv
    <3>3. QED
      BY <1>2, <2>3, <2>4, <3>2 DEF StackInv, eventVars
  <2>5. QED
    BY <1>2, <1>3, <1>6, <1>8, <2>4, CheckPollOk DEF IInv
<1>9. CASE CoreSignalEvent(gIdleLoopEvent, Goto(stack, "queue"), Top.tpl)
  <2> DEFINE s == Goto(stack, "queue")
  <2>1. "queue" \in Pcs /\ gIdleLoopEvent \in EventIds
    BY DEF Pcs, EventIds
  <2>2. /\ Stk(s, mEfiTimerLock, Signature, gEventSignalQueue, Len(UserEvents))
        /\ s[Len(s)].k = "Wait" /\ s[Len(s)].tpl = Top.tpl
    BY <1>3, <2>1, GotoTop
  <2> HIDE DEF s
  <2>3. StackInv' /\ LevelInv' /\ EventInv'
    BY <1>2, <1>9, <2>1, <2>2, SignalOk DEF IInv, s
  <2>4. QED
    BY <1>2, <2>3 DEF IInv
<1>10. QED
  BY <1>7, <1>8, <1>9 DEF CoreWaitForEvent

\* CoreCheckTimers finds the timer lock free and becomes its only holder.
LEMMA TimersAcquireStep == IInv /\ TimersAcquire => IInv'
<1> SUFFICES ASSUME IInv, TimersAcquire PROVE IInv'
  OBVIOUS
<1> DEFINE f == [Top EXCEPT !.pc = "scan", !.x = mEfiSystemTime]
           s == Become(stack, f)
<1>0. Stk(stack, mEfiTimerLock, Signature, gEventSignalQueue, Len(UserEvents))
  BY DEF IInv, StackInv
<1>1. Top.k = "Timers" /\ mEfiTimerLock' = gEfiCurrentTpl /\ CoreAcquireEventLock
      /\ stack' = Call(s, RestoreFrame(TIMER_LOCK_TPL))
  BY DEF TimersAcquire, Running, CoreAcquireEventLock
<1>2. UNCHANGED <<eventVars, mEfiTimerList, mEfiSystemTime, UserEvents, calls>>
  BY DEF TimersAcquire
<1>3. Top.tpl = TIMER_LOCK_TPL /\ gEfiCurrentTpl = Top.tpl
  BY <1>1, TopFacts, TplFacts DEF LocalOk
<1>4. /\ f \in Frames /\ f.k = "Timers" /\ f.pc = "scan" /\ f.tpl = Top.tpl
  BY <1>1, TopFacts DEF Frames, Pcs, IInv, TimerInv
<1>5. LocalOk(f) /\ Holds(f)
  BY <1>1, <1>4, TopFacts DEF LocalOk, Holds
<1> HIDE DEF f
<1>6. Fits(stack, Len(stack), f)
  BY <1>1, <1>4, <1>5, TopFacts DEF Fits, ReturnTpl
<1>7. stack[Len(stack) - 1].tpl = Top.tpl
  <2>1. Len(stack) # 1
    BY <1>1, TopFacts DEF Fits
  <2>a. \A i \in Nat : i # 0 /\ i # 1 => i > 1
    OBVIOUS
  <2>2. Len(stack) > 1
    BY <2>1, <2>a, TopFacts
  <2>3. stack[Len(stack) - 1].k # "Restore"
    BY <1>1, <2>2, TopFacts, FitsCaller
  <2>4. QED
    BY <1>1, <2>2, <2>3, TopFacts, FitsCaller DEF ReturnTpl
<1>8. /\ Stk(s, mEfiTimerLock', Signature, gEventSignalQueue, Len(UserEvents))
      /\ Len(s) = Len(stack) /\ s[Len(stack)] = f
  BY <1>0, <1>1, <1>3, <1>4, <1>5, <1>6, <1>7, BecomeStk
<1> HIDE DEF s
<1>9. s[Len(s)].k # "Restore" /\ s[Len(s)].tpl = TIMER_LOCK_TPL
  BY <1>3, <1>4, <1>8
<1>10. StackInv' /\ LevelInv'
  BY <1>1, <1>2, <1>8, <1>9, LockedCall DEF IInv, eventVars
<1>11. QED
  BY <1>1, <1>2, <1>3, <1>10, TopFacts DEF IInv, EventInv, TimerInv, CallInv, eventVars

\* The end of a critical section of the timer lock.
LEMMA TimerReleaseOk ==
  ASSUME IInv, Holds(Top), mEfiTimerLock' = Released, UNCHANGED <<cpuVars, eventVars>>,
         UNCHANGED <<mEfiTimerList, mEfiSystemTime, UserEvents, calls>>,
         stack' = Become(stack, RestoreFrame(mEfiTimerLock))
  PROVE  IInv'
<1>0. Stk(stack, mEfiTimerLock, Signature, gEventSignalQueue, Len(UserEvents))
  BY DEF IInv, StackInv
<1>1. Top.k \in {"SetTimer", "Timers"}
  BY DEF Holds
<1>2. mEfiTimerLock = stack[Len(stack) - 1].tpl
  <2>1. Len(stack) \in 1 .. Len(stack)
    BY TopFacts
  <2>2. QED
    BY <1>0, <2>1, TopFacts DEF Stk, LockOk
<1>3. /\ Stk(stack', Released, Signature, gEventSignalQueue, Len(UserEvents))
      /\ stack'[Len(stack')] = RestoreFrame(mEfiTimerLock)
      /\ mEfiTimerLock \in Tpls /\ mEfiTimerLock <= Top.tpl
  BY <1>0, <1>1, <1>2, TopFacts, CallerRestoreOk
<1>4. Top'.k = "Restore" /\ Top'.tpl = mEfiTimerLock
  BY <1>3 DEF Top, RestoreFrame, Frame
<1>5. Top.tpl = gEfiCurrentTpl
  BY <1>1, TopFacts
<1>6. LevelInv'
  BY <1>3, <1>4, <1>5, KeepLevel DEF IInv
<1>7. QED
  BY <1>3, <1>6 DEF IInv, StackInv, EventInv, TimerInv, CallInv, eventVars

\* Signalling the head of the timer list, or releasing the lock, keeps the invariant.
LEMMA TimersScanStep == IInv /\ TimersScan => IInv'
<1> SUFFICES ASSUME IInv, TimersScan PROVE IInv'
  OBVIOUS
<1> DEFINE e == Head(mEfiTimerList)
           f == [Top EXCEPT !.pc = "rearm", !.ev = e]
           s == Become(stack, f)
<1>0. Stk(stack, mEfiTimerLock, Signature, gEventSignalQueue, Len(UserEvents))
  BY DEF IInv, StackInv
<1>1. Top.k = "Timers" /\ Top.pc = "scan" /\ UNCHANGED <<mEfiSystemTime, UserEvents, calls>>
  BY DEF TimersScan, Running
<1>2. CASE /\ mEfiTimerList # <<>> /\ mEfiTimerList' = Tail(mEfiTimerList)
           /\ CoreSignalEvent(e, s, Top.tpl) /\ UNCHANGED mEfiTimerLock
  <2>1. mEfiTimerList \in Seq(EventIds)
    BY DEF IInv, TimerInv
  <2>2. e \in EventIds /\ mEfiTimerList' \in Seq(EventIds)
    BY <1>2, <2>1, HeadTailProperties
  <2>3. f \in Frames /\ f.k = "Timers" /\ f.pc = "rearm" /\ f.tpl = Top.tpl /\ f.ev = e
    BY <1>1, <2>2, TopFacts DEF Frames, Pcs
  <2>4. LocalOk(f) /\ Holds(f) /\ Holds(Top)
    BY <1>1, <2>2, <2>3, TopFacts DEF LocalOk, Holds
  <2> HIDE DEF f
  <2>5. /\ Stk(s, mEfiTimerLock, Signature, gEventSignalQueue, Len(UserEvents))
        /\ Len(s) = Len(stack) /\ s[Len(stack)] = f
    BY <1>0, <1>1, <2>3, <2>4, TopFacts, SameOk
  <2> HIDE DEF s, e
  <2>6. s[Len(s)].k # "Restore" /\ s[Len(s)].tpl = Top.tpl
    BY <2>3, <2>5
  <2>7. StackInv' /\ LevelInv' /\ EventInv'
    BY <1>1, <1>2, <2>2, <2>5, <2>6, SignalOk DEF IInv
  <2>8. QED
    BY <1>1, <1>2, <2>2, <2>7 DEF IInv, TimerInv, CallInv
<1>3. CASE /\ mEfiTimerLock' = Released /\ stack' = Become(stack, RestoreFrame(mEfiTimerLock))
           /\ UNCHANGED <<cpuVars, eventVars, mEfiTimerList>>
  BY <1>1, <1>3, TimerReleaseOk DEF Holds
<1>4. QED
  BY <1>2, <1>3 DEF TimersScan

\* A step of an activation that holds the timer lock, changes the times of one
\* event and goes on.
LEMMA TimesOk ==
  ASSUME IInv, NEW e \in EventIds, NEW r \in EventStructs,
         r.Type = IEvent[e].Type, r.NotifyTpl = IEvent[e].NotifyTpl,
         IEvent' = IEvent \/ IEvent' = [IEvent EXCEPT ![e] = r],
         UNCHANGED <<gEventQueue, gEventPending, gEventSignalQueue, Signature>>
  PROVE  EventInv'
<1>1. StructOk(IEvent) /\ SignalQueueOk(gEventSignalQueue, Signature, IEvent)
  BY DEF IInv, EventInv
<1>2. StructOk(IEvent') /\ SignalQueueOk(gEventSignalQueue, Signature, IEvent')
  BY <1>1, FieldOk
<1>3. QED
  BY <1>2 DEF IInv, EventInv

\* A new TriggerTime keeps the invariant.
LEMMA TimersRearmStep == IInv /\ TimersRearm => IInv'
<1> SUFFICES ASSUME IInv, TimersRearm PROVE IInv'
  OBVIOUS
<1> DEFINE e == Top.ev
           r(t) == [IEvent[e] EXCEPT !.TriggerTime = t]
<1>1. /\ Top.k = "Timers" /\ Top.pc = "rearm"
      /\ UNCHANGED <<cpuVars, gEventQueue, gEventPending, gEventSignalQueue, Signature,
                     timerVars, UserEvents, calls>>
  BY DEF TimersRearm, Running
<1>2. e \in EventIds /\ Top.x \in Nat
  BY <1>1, TopFacts DEF LocalOk, Frames
<1>3. IEvent[e] \in EventStructs
  BY <1>2 DEF IInv, EventInv, StructOk
<1>4. IEvent[e].TriggerTime \in Nat /\ IEvent[e].Period \in Nat
  BY <1>3 DEF EventStructs
<1>5. PICK t \in Nat : IEvent' = IEvent \/ IEvent' = [IEvent EXCEPT ![e].TriggerTime = t]
  BY <1>2, <1>4 DEF TimersRearm
<1>6. IEvent' = IEvent \/ IEvent' = [IEvent EXCEPT ![e] = r(t)]
  BY <1>5
<1>7. r(t) \in EventStructs /\ r(t).Type = IEvent[e].Type /\ r(t).NotifyTpl = IEvent[e].NotifyTpl
  BY <1>3 DEF EventStructs
<1> HIDE DEF r
<1>8. EventInv'
  BY <1>1, <1>2, <1>6, <1>7, TimesOk
<1>9. PICK pc \in {"scan", "insert", "kick"} : stack' = Goto(stack, pc)
  BY DEF TimersRearm
<1>10. pc \in Pcs
  BY DEF Pcs
<1>11. /\ Stk(stack', mEfiTimerLock, Signature, gEventSignalQueue, Len(UserEvents))
       /\ Top'.k = Top.k /\ Top'.tpl = Top.tpl
  BY <1>1, <1>2, <1>9, <1>10, GotoTop DEF Top
<1>12. LevelInv'
  BY <1>1, <1>11, TopFacts, KeepLevel DEF IInv
<1>13. QED
  BY <1>1, <1>8, <1>11, <1>12 DEF IInv, StackInv, TimerInv, CallInv, timerVars

\* Signalling mEfiCheckTimerEvent from CoreCheckTimers only queues it.
LEMMA TimersKickStep == IInv /\ TimersKick => IInv'
<1> SUFFICES ASSUME IInv, TimersKick PROVE IInv'
  OBVIOUS
<1> DEFINE s == Goto(stack, "insert")
<1>1. /\ Top.k = "Timers" /\ Top.pc = "kick" /\ UNCHANGED <<timerVars, UserEvents, calls>>
      /\ CoreSignalEvent(mEfiCheckTimerEvent, s, Top.tpl)
  BY DEF TimersKick, Running
<1>2. Top.ev \in EventIds
  BY <1>1, TopFacts DEF LocalOk
<1>3. "insert" \in Pcs /\ mEfiCheckTimerEvent \in EventIds
  BY DEF Pcs, EventIds
<1>4. /\ Stk(s, mEfiTimerLock, Signature, gEventSignalQueue, Len(UserEvents))
      /\ s[Len(s)].k = "Timers" /\ s[Len(s)].tpl = Top.tpl
  BY <1>1, <1>2, <1>3, GotoTop
<1> HIDE DEF s
<1>5. StackInv' /\ LevelInv' /\ EventInv'
  BY <1>1, <1>3, <1>4, SignalOk DEF IInv, timerVars
<1>6. QED
  BY <1>1, <1>5 DEF IInv, TimerInv, CallInv, timerVars

\* Putting a periodic timer back keeps the invariant.
LEMMA TimersInsertStep == IInv /\ TimersInsert => IInv'
<1> SUFFICES ASSUME IInv, TimersInsert PROVE IInv'
  OBVIOUS
<1>1. /\ Top.k = "Timers" /\ Top.pc = "insert" /\ stack' = Goto(stack, "scan")
      /\ CoreInsertEventTimer(Top.ev)
      /\ UNCHANGED <<cpuVars, eventVars, mEfiTimerLock, mEfiSystemTime, UserEvents, calls>>
  BY DEF TimersInsert, Running
<1>2. Top.ev \in EventIds /\ "scan" \in Pcs
  BY <1>1, TopFacts DEF LocalOk, Pcs
<1>3. mEfiTimerList' \in Seq(EventIds)
  BY <1>1, <1>2, InsertOk DEF IInv, TimerInv
<1>4. /\ Stk(stack', mEfiTimerLock, Signature, gEventSignalQueue, Len(UserEvents))
      /\ Top'.k = Top.k /\ Top'.tpl = Top.tpl
  BY <1>1, <1>2, GotoTop DEF Top
<1>5. LevelInv'
  BY <1>1, <1>4, TopFacts, KeepLevel DEF IInv
<1>6. QED
  BY <1>1, <1>3, <1>4, <1>5 DEF IInv, StackInv, EventInv, TimerInv, CallInv, eventVars

\* SetTimer unlinks the event and clears its times.
LEMMA SetTimerUnlinkStep == IInv /\ SetTimerUnlink => IInv'
<1> SUFFICES ASSUME IInv, SetTimerUnlink PROVE IInv'
  OBVIOUS
<1> DEFINE e == Top.ev
           time == IF Top.pc = "TimerPeriodic" /\ Top.x = 0 THEN TimerPeriod ELSE Top.x
           period == IF Top.pc = "TimerPeriodic" THEN time ELSE 0
           r == [IEvent[e] EXCEPT !.TriggerTime = 0, !.Period = period]
           f == [Top EXCEPT !.pc = IF Top.pc = "TimerCancel" THEN "release" ELSE "time",
                            !.x = time]
<1>0. Stk(stack, mEfiTimerLock, Signature, gEventSignalQueue, Len(UserEvents))
  BY DEF IInv, StackInv
<1>1. /\ Top.k = "SetTimer" /\ mEfiTimerList' = RemoveEntryList(mEfiTimerList, e)
      /\ stack' = Become(stack, f)
      /\ UNCHANGED <<cpuVars, gEventQueue, gEventPending, gEventSignalQueue, Signature,
                     mEfiTimerLock, mEfiSystemTime, UserEvents, calls>>
  BY DEF SetTimerUnlink
<1>2. e \in EventIds /\ e \in Events /\ Top.tpl = TIMER_LOCK_TPL
  BY <1>1, TopFacts DEF LocalOk, EventIds
<1>3. time \in Nat /\ period \in Nat
  BY TopFacts, BoundAssumption DEF Frames
<1> HIDE DEF time
<1>4. f \in Frames /\ f.k = "SetTimer" /\ f.tpl = TIMER_LOCK_TPL /\ f.ev = e
  BY <1>1, <1>2, <1>3, TopFacts DEF Frames, Pcs
<1>5. LocalOk(f) /\ Holds(f) /\ Holds(Top)
  BY <1>1, <1>2, <1>4 DEF LocalOk, Holds
<1> HIDE DEF f
<1>6. /\ Stk(Become(stack, f), mEfiTimerLock, Signature, gEventSignalQueue, Len(UserEvents))
      /\ Len(Become(stack, f)) = Len(stack) /\ Become(stack, f)[Len(stack)] = f
  BY <1>0, <1>1, <1>2, <1>4, <1>5, TopFacts, SameOk
<1>7. Top' = f
  BY <1>1, <1>6 DEF Top
<1>8. LevelInv'
  BY <1>1, <1>2, <1>4, <1>7, TopFacts, KeepLevel DEF IInv
<1>9. mEfiTimerList' \in Seq(EventIds)
  BY <1>1, RemoveElements DEF IInv, TimerInv
<1>10. IEvent[e] \in EventStructs
  BY <1>2 DEF IInv, EventInv, StructOk
<1> HIDE DEF period
<1>11. r \in EventStructs /\ r.Type = IEvent[e].Type /\ r.NotifyTpl = IEvent[e].NotifyTpl
  BY <1>3, <1>10 DEF EventStructs
<1>12. IEvent' = [IEvent EXCEPT ![e] = r]
  BY DEF SetTimerUnlink, period, time
<1> HIDE DEF r, e
<1>13. EventInv'
  BY <1>1, <1>2, <1>11, <1>12, TimesOk
<1>14. QED
  BY <1>1, <1>6, <1>8, <1>9, <1>13 DEF IInv, StackInv, TimerInv, CallInv

\* SetTimer reads the time at TPL_HIGH_LEVEL and comes back to the lock's level.
LEMMA SetTimerTimeStep == IInv /\ SetTimerTime => IInv'
<1> SUFFICES ASSUME IInv, SetTimerTime PROVE IInv'
  OBVIOUS
<1> DEFINE e == Top.ev
           r == [IEvent[e] EXCEPT !.TriggerTime = mEfiSystemTime + Top.x]
           s == Goto(stack, "insert")
<1>1. /\ Top.k = "SetTimer" /\ CoreAcquireEventLock
      /\ stack' = Call(s, RestoreFrame(Top.tpl))
      /\ UNCHANGED <<gEventQueue, gEventPending, gEventSignalQueue, Signature, timerVars,
                     UserEvents, calls>>
  BY DEF SetTimerTime, Running, CoreAcquireEventLock
<1>2. e \in EventIds /\ mEfiSystemTime + Top.x \in Nat /\ "insert" \in Pcs
  BY <1>1, TopFacts DEF LocalOk, EventIds, Frames, IInv, TimerInv, Pcs
<1>3. /\ Stk(s, mEfiTimerLock, Signature, gEventSignalQueue, Len(UserEvents))
      /\ s[Len(s)].k = "SetTimer" /\ s[Len(s)].tpl = Top.tpl
  BY <1>1, <1>2, GotoTop
<1>4. IEvent[e] \in EventStructs
  BY <1>2 DEF IInv, EventInv, StructOk
<1>5. r \in EventStructs /\ r.Type = IEvent[e].Type /\ r.NotifyTpl = IEvent[e].NotifyTpl
  BY <1>2, <1>4 DEF EventStructs
<1>6. IEvent' = [IEvent EXCEPT ![e] = r]
  BY DEF SetTimerTime
<1> HIDE DEF r, e, s
<1>7. EventInv'
  BY <1>1, <1>2, <1>5, <1>6, TimesOk
<1>8. StackInv' /\ LevelInv'
  BY <1>1, <1>3, LockedCall DEF IInv, timerVars
<1>9. QED
  BY <1>1, <1>7, <1>8 DEF IInv, TimerInv, CallInv, timerVars

\* SetTimer inserts the event and may signal mEfiCheckTimerEvent.
LEMMA SetTimerInsertStep == IInv /\ SetTimerInsert => IInv'
<1> SUFFICES ASSUME IInv, SetTimerInsert PROVE IInv'
  OBVIOUS
<1> DEFINE s == Goto(stack, "release")
<1>1. /\ Top.k = "SetTimer" /\ CoreInsertEventTimer(Top.ev)
      /\ UNCHANGED <<mEfiTimerLock, mEfiSystemTime, UserEvents, calls>>
  BY DEF SetTimerInsert, Running
<1>2. Top.ev \in EventIds /\ "release" \in Pcs /\ mEfiCheckTimerEvent \in EventIds
  BY <1>1, TopFacts DEF LocalOk, EventIds, Pcs
<1>3. mEfiTimerList' \in Seq(EventIds)
  BY <1>1, <1>2, InsertOk DEF IInv, TimerInv
<1>4. TimerInv' /\ CallInv'
  BY <1>1, <1>3 DEF IInv, TimerInv, CallInv
<1>5. /\ Stk(s, mEfiTimerLock, Signature, gEventSignalQueue, Len(UserEvents))
      /\ s[Len(s)].k = "SetTimer" /\ s[Len(s)].tpl = Top.tpl
  BY <1>1, <1>2, GotoTop
<1> HIDE DEF s
<1>6. CASE CoreSignalEvent(mEfiCheckTimerEvent, s, Top.tpl)
  BY <1>1, <1>2, <1>4, <1>5, <1>6, SignalOk DEF IInv
<1>7. CASE stack' = s /\ UNCHANGED <<cpuVars, eventVars>>
  <2>1. Top'.k = Top.k /\ Top'.tpl = Top.tpl
    BY <1>1, <1>5, <1>7 DEF Top
  <2>2. LevelInv'
    BY <1>1, <1>7, <2>1, TopFacts, KeepLevel DEF IInv
  <2>3. QED
    BY <1>1, <1>4, <1>5, <1>7, <2>2 DEF IInv, StackInv, EventInv, eventVars
<1>8. QED
  BY <1>6, <1>7 DEF SetTimerInsert, s

\* SetTimer releases the lock and restores OwnerTpl, its caller's level.
LEMMA SetTimerReleaseStep == IInv /\ SetTimerRelease => IInv'
<1> SUFFICES ASSUME IInv, SetTimerRelease PROVE IInv'
  OBVIOUS
<1>1. Holds(Top)
  BY DEF SetTimerRelease, Running, Holds
<1>2. QED
  BY <1>1, TimerReleaseOk DEF SetTimerRelease

\* CoreSetTimer called by a client, or by CoreCloseEvent.
LEMMA CoreSetTimerOk ==
  ASSUME IInv, NEW s, NEW e \in Events, NEW type, NEW time \in Nat,
         type \in {"TimerCancel", "TimerPeriodic", "TimerRelative"},
         Stk(s, mEfiTimerLock, Signature, gEventSignalQueue, Len(UserEvents)),
         s[Len(s)].k \in ClientKinds \cup {"Close"}, s[Len(s)].tpl = gEfiCurrentTpl,
         CoreSetTimer(e, type, time, s), UNCHANGED <<eventVars, UserEvents>>
  PROVE  StackInv' /\ LevelInv' /\ EventInv' /\ TimerInv'
<1> DEFINE f == Frame("SetTimer", type, TIMER_LOCK_TPL, e, time)
<1>1. /\ gEfiCurrentTpl <= TIMER_LOCK_TPL /\ mEfiTimerLock' = gEfiCurrentTpl
      /\ CoreRaiseTpl(TIMER_LOCK_TPL)
      /\ stack' = Call(s, f) /\ UNCHANGED <<mEfiTimerList, mEfiSystemTime>>
  BY DEF CoreSetTimer, AcquireTimerLock
<1>2. /\ f \in Frames /\ f.k = "SetTimer" /\ f.tpl = TIMER_LOCK_TPL /\ f.ev = e
  BY TplFacts DEF Frame, Frames, Kinds, Pcs, EventIds
<1>3. LocalOk(f) /\ Holds(f)
  BY <1>2 DEF LocalOk, Holds
<1>4. /\ Len(s) \in Nat /\ Len(s) # 0
      /\ Fits(s, Len(s), s[Len(s)])
      /\ \A i \in 1 .. Len(s) : s[i] \in Frames /\ s[i].tpl <= gEfiCurrentTpl
  BY BelowTop
<1> HIDE DEF f
<1>5. \A i \in 1 .. Len(s) : s[i].tpl <= TIMER_LOCK_TPL
  <2>1. \A i \in 1 .. Len(s) : s[i].tpl \in Nat
    BY <1>4, LevelNat DEF Frames
  <2>2. gEfiCurrentTpl \in Nat /\ TIMER_LOCK_TPL \in Nat
    BY TopFacts, LevelNat
  <2>3. QED
    BY <1>1, <1>4, <2>1, <2>2
<1>6. \A i \in 1 .. Len(s) : ~Holds(s[i])
  <2>1. \A i \in 1 .. Len(s) : i = Len(s) \/ i \in 1 .. Len(s) - 1
    BY <1>4
  <2>2. \A i \in 1 .. Len(s) - 1 : ~Holds(s[i])
    BY <1>4 DEF Fits, ClientKinds
  <2>3. ~Holds(s[Len(s)])
    BY DEF Holds, ClientKinds
  <2>4. QED
    BY <2>1, <2>2, <2>3
<1>7. Fits(s, Len(s) + 1, f)
  <2>1. Len(s) \in Nat /\ Len(s) # 0 /\ s[Len(s)].k # "Restore"
    BY <1>4 DEF ClientKinds
  <2>2. QED
    BY <1>2, <1>3, <1>5, <1>6, <2>1 DEF Fits, NotifyKinds, ClientKinds
<1>8. /\ Stk(Call(s, f), mEfiTimerLock', Signature, gEventSignalQueue, Len(UserEvents))
      /\ Call(s, f)[Len(Call(s, f))] = f
  BY <1>1, <1>2, <1>3, <1>7, CallStk, SMTT(30)
<1>9. Top' = f /\ StackInv'
  BY <1>1, <1>8 DEF Top, StackInv, eventVars
<1>10. LevelInv'
  <2>1. TIMER_LOCK_TPL < TPL_HIGH_LEVEL /\ ~(TIMER_LOCK_TPL >= TPL_HIGH_LEVEL)
    BY DEF TIMER_LOCK_TPL, TPL_HIGH_LEVEL
  <2>2. gEfiCurrentTpl' = TIMER_LOCK_TPL /\ interrupts' = interrupts
    BY <1>1, <2>1 DEF CoreRaiseTpl
  <2>3. interrupts
    <3>1. gEfiCurrentTpl < TPL_HIGH_LEVEL
      BY <1>1, <2>1, TopFacts, LevelNat
    <3>2. QED
      BY <3>1 DEF IInv, LevelInv, InterruptsFollowTpl
  <2>4. QED
    BY <1>2, <1>9, <2>1, <2>2, <2>3, TplFacts DEF IInv, LevelInv, ResumedAtOwnTpl, InterruptsFollowTpl, Top
<1>11. QED
  BY <1>1, <1>9, <1>10, TopFacts DEF IInv, EventInv, TimerInv, eventVars

\* An activation on top of the running code, at its level: an interrupt handler
\* (on whatever it interrupts), or a service called by a client.
LEMMA CallAtLevel ==
  ASSUME IInv, NEW f \in Frames, f.tpl = gEfiCurrentTpl, LocalOk(f),
         \/ f.k = "Irq"
         \/ f.k = "Check" /\ Top.k \in ClientKinds
  PROVE  LET s == Call(stack, f)
         IN  /\ Stk(s, mEfiTimerLock, Signature, gEventSignalQueue, Len(UserEvents))
             /\ s[Len(s)] = f
<1>0. Stk(stack, mEfiTimerLock, Signature, gEventSignalQueue, Len(UserEvents))
  BY DEF IInv, StackInv
<1>1. Len(stack) \in Nat /\ Len(stack) # 0 /\ stack[Len(stack)] = Top
  BY TopFacts
<1>2. \A i \in 1 .. Len(stack) : stack[i].tpl <= f.tpl
  <2>1. \A i \in 1 .. Len(stack) : stack[i] \in Frames /\ stack[i].tpl <= Top.tpl
    BY <1>0, <1>1, BelowTop
  <2>2. \A i \in 1 .. Len(stack) : stack[i].tpl \in Nat
    BY <2>1, LevelNat DEF Frames
  <2>3. Top.tpl \in Nat /\ gEfiCurrentTpl \in Nat /\ Top.tpl <= gEfiCurrentTpl
    BY TopFacts, LevelNat
  <2>4. QED
    BY <2>1, <2>2, <2>3
<1>3. f.k = "Check" => \A i \in 1 .. Len(stack) : ~Holds(stack[i])
  <2>1. ASSUME f.k = "Check", NEW i \in 1 .. Len(stack), Holds(stack[i]) PROVE FALSE
    <3>1. Top.k \in ClientKinds
      BY <2>1
    <3>2. i # Len(stack)
      BY <1>1, <2>1, <3>1 DEF Holds, ClientKinds
    <3>3. i \in 1 .. Len(stack) - 1
      BY <1>1, <3>2
    <3>4. Top.k \in {"Restore", "Irq", "Group", "List"}
      BY <2>1, <3>3, TopFacts DEF Fits
    <3>5. QED
      BY <3>1, <3>4 DEF ClientKinds
  <2>2. QED
    BY <2>1
<1>4. Top.k # "Restore" => f.tpl = Top.tpl
  BY TopFacts
<1>5. ~Holds(f)
  BY DEF Holds
<1>6. FitsOn(stack, f)
  BY <1>1, <1>2, <1>3, <1>4, <1>5 DEF FitsOn, Fits, NotifyKinds, ClientKinds, ReturnTpl
<1>7. QED
  BY <1>0, <1>5, <1>6, PushOk

\* A tick is taken below TPL_HIGH_LEVEL and restores the interrupted level.
LEMMA TimerInterruptHandlerStep == IInv /\ TimerInterruptHandler => IInv'
<1> SUFFICES ASSUME IInv, TimerInterruptHandler PROVE IInv'
  OBVIOUS
<1> DEFINE now == IF mEfiSystemTime < MaxTime THEN mEfiSystemTime + 1 ELSE MaxTime
           f == Frame("Irq", "iret", gEfiCurrentTpl, NoEvent, 0)
           s == Call(stack, f)
<1>1. UNCHANGED <<mEfiTimerList, mEfiTimerLock, UserEvents, calls>> /\ mEfiSystemTime' = now
  BY DEF TimerInterruptHandler, CoreTimerTick
<1>2. TimerInv' /\ CallInv'
  <2>1. now \in Nat
    BY BoundAssumption DEF IInv, TimerInv
  <2>2. QED
    BY <1>1, <2>1 DEF IInv, TimerInv, CallInv
<1>3. f \in Frames /\ f.k = "Irq" /\ f.tpl = gEfiCurrentTpl
  BY TopFacts DEF Frame, Frames, Kinds, Pcs
<1>4. LocalOk(f)
  BY <1>3 DEF LocalOk
<1>5. mEfiCheckTimerEvent \in EventIds
  BY DEF EventIds
<1> HIDE DEF f, now
<1>6. /\ Stk(s, mEfiTimerLock, Signature, gEventSignalQueue, Len(UserEvents))
      /\ s[Len(s)] = f
  BY <1>3, <1>4, CallAtLevel
<1>7. \/ CoreSignalEvent(mEfiCheckTimerEvent, s, gEfiCurrentTpl)
      \/ /\ CoreAcquireEventLock /\ stack' = Call(s, RestoreFrame(gEfiCurrentTpl))
         /\ UNCHANGED eventVars
  BY DEF TimerInterruptHandler, CoreTimerTick, CoreAcquireEventLock, f
<1> HIDE DEF s
<1>8. CASE CoreSignalEvent(mEfiCheckTimerEvent, s, gEfiCurrentTpl)
  BY <1>1, <1>2, <1>3, <1>5, <1>6, <1>8, SignalOk DEF IInv
<1>9. CASE /\ CoreAcquireEventLock /\ stack' = Call(s, RestoreFrame(gEfiCurrentTpl))
           /\ UNCHANGED eventVars
  <2>1. StackInv' /\ LevelInv'
    BY <1>1, <1>3, <1>6, <1>9, LockedCall DEF IInv, eventVars
  <2>2. QED
    BY <1>2, <1>9, <2>1 DEF IInv, EventInv, eventVars
<1>10. QED
  BY <1>7, <1>8, <1>9

\* The returns from an interrupt and from a notification function.
LEMMA ReturnStep == IInv /\ (InterruptReturn \/ NotifyReturn) => IInv'
<1> SUFFICES ASSUME IInv, InterruptReturn \/ NotifyReturn PROVE IInv'
  OBVIOUS
<1>1. /\ Top.k \in {"Irq", "Notify"} /\ stack' = Return(stack)
      /\ UNCHANGED <<cpuVars, eventVars, timerVars, UserEvents, calls>>
  BY DEF InterruptReturn, NotifyReturn, Running
<1>2. LevelInv' /\ Stk(stack', mEfiTimerLock, Signature, gEventSignalQueue, Len(UserEvents))
  BY <1>1, ReturnLevel
<1>3. QED
  BY <1>1, <1>2 DEF IInv, StackInv, EventInv, TimerInv, CallInv, eventVars, timerVars

\* CloseEvent of a timer finds the timer lock free.
LEMMA CloseCancelStep == IInv /\ CloseCancel => IInv'
<1> SUFFICES ASSUME IInv, CloseCancel PROVE IInv'
  OBVIOUS
<1> DEFINE s == Goto(stack, "unlink")
<1>1. Top.k = "Close" /\ UNCHANGED <<eventVars, UserEvents, calls>>
  BY DEF CloseCancel, Running
<1>2. Top.ev \in Events /\ "unlink" \in Pcs /\ gEfiCurrentTpl = Top.tpl
  BY <1>1, TopFacts DEF LocalOk, Pcs
<1>3. /\ Stk(s, mEfiTimerLock, Signature, gEventSignalQueue, Len(UserEvents))
      /\ s[Len(s)].k = "Close" /\ s[Len(s)].tpl = Top.tpl
  BY <1>1, <1>2, GotoTop
<1>4. CallInv'
  BY <1>1 DEF IInv, CallInv
<1> HIDE DEF s
<1>5. CASE CoreSetTimer(Top.ev, "TimerCancel", 0, s)
  BY <1>1, <1>2, <1>3, <1>4, <1>5, CoreSetTimerOk DEF IInv
<1>6. CASE stack' = s /\ UNCHANGED <<cpuVars, timerVars>>
  <2>1. Top'.k = Top.k /\ Top'.tpl = Top.tpl
    BY <1>1, <1>3, <1>6 DEF Top
  <2>2. LevelInv'
    BY <1>1, <1>6, <2>1, TopFacts, KeepLevel DEF IInv
  <2>3. QED
    BY <1>1, <1>3, <1>4, <1>6, <2>2 DEF IInv, StackInv, EventInv, TimerInv, eventVars, timerVars
<1>7. QED
  BY <1>5, <1>6 DEF CloseCancel, s

\* CloseEvent takes the event off the queues, the signal queue included.
LEMMA CloseUnlinkStep == IInv /\ CloseUnlink => IInv'
<1> SUFFICES ASSUME IInv, CloseUnlink PROVE IInv'
  OBVIOUS
<1> DEFINE e == Top.ev
           sq == gEventSignalQueue
           s == Goto(stack, "free")
<1>0. Stk(stack, mEfiTimerLock, Signature, sq, Len(UserEvents))
  BY DEF IInv, StackInv
<1>1. /\ Top.k = "Close" /\ CoreAcquireEventLock /\ sq' = RemoveEntryList(sq, e)
      /\ gEventQueue' = [t \in NotifyTpls |-> RemoveEntryList(gEventQueue[t], e)]
      /\ stack' = Call(s, RestoreFrame(Top.tpl))
      /\ UNCHANGED <<gEventPending, IEvent, Signature, timerVars, UserEvents, calls>>
  BY DEF CloseUnlink, Running
<1>2. SignalQueueOk(sq, Signature, IEvent) /\ sq \in Seq(EventIds)
  BY DEF IInv, EventInv, SignalQueueOk
<1>3. /\ sq' \in Seq(EventIds)
      /\ \A i \in 1 .. Len(sq') : \E j \in 1 .. Len(sq) : sq'[i] = sq[j]
  BY <1>1, <1>2, RemoveElements
<1>4. /\ \A i \in 1 .. Len(sq') : sq'[i] # e
      /\ \A i, j \in 1 .. Len(sq') : i # j => sq'[i] # sq'[j]
  BY <1>1, <1>2, RemoveUnique DEF SignalQueueOk
<1>5. SignalQueueOk(sq', Signature, IEvent)
  BY <1>2, <1>3, <1>4 DEF SignalQueueOk
<1>6. QueueOk(gEventQueue')
  <2>1. gEventQueue \in [NotifyTpls -> Seq(EventIds)]
    BY DEF IInv, EventInv, QueueOk
  <2>2. ASSUME NEW t \in NotifyTpls
        PROVE  /\ gEventQueue'[t] \in Seq(EventIds)
               /\ \A i \in 1 .. Len(gEventQueue'[t]) :
                    \E j \in 1 .. Len(gEventQueue[t]) : gEventQueue'[t][i] = gEventQueue[t][j]
    <3>1. gEventQueue[t] \in Seq(EventIds) /\ gEventQueue'[t] = RemoveEntryList(gEventQueue[t], e)
      BY <1>1, <2>1
    <3>2. QED
      BY <3>1, RemoveElements
  <2>3. gEventQueue' \in [NotifyTpls -> Seq(EventIds)]
    <3>1. gEventQueue' = [t \in NotifyTpls |-> gEventQueue'[t]]
      BY <1>1
    <3>2. QED
      BY <2>2, <3>1
  <2>4. \A t \in NotifyTpls : \A i \in 1 .. Len(gEventQueue[t]) :
          gEventQueue[t][i] = mEfiCheckTimerEvent => t = CHECK_TIMER_TPL
    BY DEF IInv, EventInv, QueueOk
  <2>5. QED
    BY <2>2, <2>3, <2>4 DEF QueueOk
<1>7. EventInv'
  BY <1>1, <1>5, <1>6 DEF IInv, EventInv
<1>8. Stk(stack, mEfiTimerLock, Signature, sq', Len(UserEvents))
  <2>1. CloseOk(stack, Signature, sq')
    BY <1>0, <1>3 DEF Stk, CloseOk
  <2>2. QED
    BY <1>0, <2>1 DEF Stk
<1>9. "free" \in Pcs
  BY DEF Pcs
<1>10. /\ Stk(s, mEfiTimerLock, Signature, sq', Len(UserEvents))
       /\ Len(s) = Len(stack) /\ s[Len(stack)] = [Top EXCEPT !.pc = "free"]
  BY <1>1, <1>4, <1>8, <1>9, TopFacts, GotoOk
<1> HIDE DEF s
<1>11. s[Len(s)] = [Top EXCEPT !.pc = "free"]
  BY <1>10
<1>12. s[Len(s)].k = "Close" /\ s[Len(s)].tpl = Top.tpl
  BY <1>1, <1>11, TopFacts DEF Frames
<1>13. StackInv' /\ LevelInv'
  BY <1>1, <1>10, <1>12, LockedCall DEF IInv, timerVars
<1>14. QED
  BY <1>1, <1>7, <1>13 DEF IInv, TimerInv, CallInv, timerVars

\* CloseEvent frees an event that is off the signal queue.
LEMMA CloseFreeStep == IInv /\ CloseFree => IInv'
<1> SUFFICES ASSUME IInv, CloseFree PROVE IInv'
  OBVIOUS
<1> DEFINE m == Len(stack) - 1
<1>0. Stk(stack, mEfiTimerLock, Signature, gEventSignalQueue, Len(UserEvents))
  BY DEF IInv, StackInv
<1>1. /\ Top.k = "Close" /\ Top.pc = "free" /\ stack' = Return(stack)
      /\ Signature' = Signature \ {Top.ev}
      /\ UNCHANGED <<cpuVars, gEventQueue, gEventPending, gEventSignalQueue, IEvent,
                     timerVars, UserEvents, calls>>
  BY DEF CloseFree, Running
<1>2. LevelInv' /\ Stk(stack', mEfiTimerLock, Signature, gEventSignalQueue, Len(UserEvents))
  BY <1>1, ReturnLevel
<1>3. ~Holds(Top)
  BY <1>1 DEF Holds
<1>4. Len(stack) > 1 /\ Len(stack') = m /\ \A i \in 1 .. m : stack'[i] = stack[i]
  BY <1>0, <1>1, <1>3, TopFacts, ReturnOk
<1>5. \A i \in 1 .. m : i \in 1 .. Len(stack) /\ i # Len(stack)
  BY TopFacts
<1>6. /\ \A j \in 1 .. Len(gEventSignalQueue) : gEventSignalQueue[j] # Top.ev
      /\ \A j \in 1 .. Len(stack) : j # Len(stack) /\ stack[j].k = "Close" => stack[j].ev # Top.ev
  <2>1. Len(stack) \in 1 .. Len(stack) /\ stack[Len(stack)] = Top
    BY TopFacts
  <2>2. QED
    BY <1>0, <1>1, <2>1 DEF Stk, CloseOk
<1>7. \A i \in 1 .. Len(stack') : stack'[i].k = "Close" => stack'[i].ev # Top.ev
  BY <1>4, <1>5, <1>6
<1>8. CloseOk(stack', Signature', gEventSignalQueue)
  BY <1>1, <1>2, <1>7 DEF Stk, CloseOk
<1>9. StackInv'
  BY <1>1, <1>2, <1>8 DEF Stk, StackInv, timerVars
<1>10. SignalQueueOk(gEventSignalQueue, Signature', IEvent)
  BY <1>1, <1>6 DEF IInv, EventInv, SignalQueueOk
<1>11. QED
  BY <1>1, <1>2, <1>9, <1>10 DEF IInv, EventInv, TimerInv, CallInv, timerVars

\* A client runs: nobody holds the timer lock, and it is not in a wait unless it
\* is a notification above TPL_APPLICATION.
LEMMA ClientFacts ==
  ASSUME IInv, Top.k \in ClientKinds
  PROVE  /\ Top.k # "Restore" /\ gEfiCurrentTpl = Top.tpl
         /\ \A i \in 1 .. Len(stack) : ~Holds(stack[i])
         /\ \A i \in 1 .. Len(stack) : stack[i].k = "Wait" => Top.tpl > TPL_APPLICATION
         /\ \A i \in 1 .. Len(stack) : stack[i].tpl <= Top.tpl
         /\ Stk(stack, mEfiTimerLock, Signature, gEventSignalQueue, Len(UserEvents))
<1>1. Stk(stack, mEfiTimerLock, Signature, gEventSignalQueue, Len(UserEvents))
  BY DEF IInv, StackInv
<1>2. Len(stack) \in Nat /\ Len(stack) # 0 /\ stack[Len(stack)] = Top
  BY TopFacts
<1>3. \A i \in 1 .. Len(stack) : i = Len(stack) \/ i \in 1 .. Len(stack) - 1
  BY <1>2
<1>4. ~Holds(Top) /\ Top.k # "Wait" /\ Top.k \notin {"Restore", "Irq", "Group", "List"}
  BY DEF Holds, ClientKinds
<1>5. \A i \in 1 .. Len(stack) - 1 :
        ~Holds(stack[i]) /\ (stack[i].k = "Wait" => Top.tpl > TPL_APPLICATION)
  BY <1>4, TopFacts DEF Fits
<1>6. \A i \in 1 .. Len(stack) : stack[i].tpl <= Top.tpl
  BY <1>1, <1>2, BelowTop
<1>7. QED
  BY <1>1, <1>2, <1>3, <1>4, <1>5, <1>6, TopFacts

\* A service called by a client fits on the stack at the client's level.
LEMMA ClientCallFits ==
  ASSUME IInv, Top.k \in ClientKinds, NEW f \in Frames, LocalOk(f),
         \/ f.k \in {"Check", "Close", "Wait"} /\ f.tpl = gEfiCurrentTpl
         \/ f.k = "Raised" /\ f.tpl >= gEfiCurrentTpl /\ f.x = gEfiCurrentTpl
  PROVE  FitsOn(stack, f)
<1>1. /\ Len(stack) \in Nat /\ Len(stack) # 0 /\ stack[Len(stack)] = Top
      /\ Top.tpl \in Nat /\ f.tpl \in Nat /\ gEfiCurrentTpl = Top.tpl
  BY TopFacts, ClientFacts, LevelNat DEF Frames
<1>2. \A i \in 1 .. Len(stack) : stack[i].tpl <= f.tpl
  <2>1. \A i \in 1 .. Len(stack) : stack[i] \in Frames
    BY BelowTop DEF IInv, StackInv
  <2>2. \A i \in 1 .. Len(stack) : stack[i].tpl \in Nat
    BY <2>1, LevelNat DEF Frames
  <2>3. Top.tpl <= f.tpl
    BY <1>1
  <2>4. \A i \in 1 .. Len(stack) : stack[i].tpl <= Top.tpl
    BY ClientFacts
  <2>5. QED
    BY <1>1, <2>2, <2>3, <2>4
<1>3. f.k = "Raised" => \A i \in 1 .. Len(stack) : stack[i].k = "Wait" => f.tpl > TPL_APPLICATION
  BY <1>1, ClientFacts DEF TPL_APPLICATION
<1>4. \A i \in 1 .. Len(stack) : ~Holds(stack[i])
  BY ClientFacts
<1>5. Top.k # "Restore"
  BY ClientFacts
<1>6. ReturnTpl(f) = Top.tpl
  BY <1>1 DEF ReturnTpl
<1>7. f.k \in {"Check", "Close", "Wait", "Raised"}
  OBVIOUS
<1>8. QED
  BY <1>1, <1>2, <1>3, <1>4, <1>5, <1>6, <1>7 DEF FitsOn, Fits, NotifyKinds, ClientKinds

\* RaiseTPL keeps the invariant.
LEMMA ClientRaiseStep == IInv /\ ClientRaise => IInv'
<1> SUFFICES ASSUME IInv, ClientRaise PROVE IInv'
  OBVIOUS
<1>1. Top.k \in ClientKinds
  BY DEF ClientRaise, MayCall, ClientRuns, ClientKinds
<1>2. PICK tpl \in {TPL_CALLBACK, TPL_NOTIFY, TPL_HIGH_LEVEL} :
        /\ tpl >= gEfiCurrentTpl /\ CoreRaiseTpl(tpl)
        /\ stack' = Call(stack, Frame("Raised", "body", tpl, NoEvent, gEfiCurrentTpl))
  BY DEF ClientRaise
<1> DEFINE f == Frame("Raised", "body", tpl, NoEvent, gEfiCurrentTpl)
<1>3. UNCHANGED <<eventVars, timerVars, UserEvents>> /\ calls' = calls + 1
  BY DEF ClientRaise, Counted
<1>4. tpl \in Tpls /\ tpl \in Nat /\ gEfiCurrentTpl \in Tpls /\ gEfiCurrentTpl \in Nat
  BY TopFacts, LevelNat, TplFacts
<1>5. f \in Frames /\ f.k = "Raised" /\ f.tpl = tpl /\ f.x = gEfiCurrentTpl
  BY <1>4 DEF Frame, Frames, Kinds, Pcs
<1>6. LocalOk(f) /\ ~Holds(f)
  BY <1>4, <1>5 DEF LocalOk, Holds
<1> HIDE DEF f
<1>7. FitsOn(stack, f)
  BY <1>1, <1>2, <1>5, <1>6, ClientCallFits
<1>8. /\ Stk(stack', mEfiTimerLock, Signature, gEventSignalQueue, Len(UserEvents))
      /\ stack'[Len(stack')] = f
  <2>1. stack' = Call(stack, f)
    BY <1>2 DEF f
  <2>2. Stk(stack, mEfiTimerLock, Signature, gEventSignalQueue, Len(UserEvents))
    BY DEF IInv, StackInv
  <2>3. QED
    BY <1>5, <1>6, <1>7, <2>1, <2>2, PushOk
<1>9. LevelInv'
  <2>1. gEfiCurrentTpl' = tpl /\ interrupts \in BOOLEAN
        /\ (interrupts <=> gEfiCurrentTpl < TPL_HIGH_LEVEL)
    BY <1>2 DEF CoreRaiseTpl, IInv, LevelInv, InterruptsFollowTpl
  <2>2. interrupts' \in BOOLEAN /\ (interrupts' <=> tpl < TPL_HIGH_LEVEL)
    <3>1. CASE tpl >= TPL_HIGH_LEVEL /\ gEfiCurrentTpl < TPL_HIGH_LEVEL
      <4>1. interrupts' = FALSE
        BY <1>2, <3>1 DEF CoreRaiseTpl
      <4>2. ~(tpl < TPL_HIGH_LEVEL)
        BY <1>4, <3>1, LevelNat
      <4>3. QED
        BY <4>1, <4>2
    <3>2. CASE ~(tpl >= TPL_HIGH_LEVEL /\ gEfiCurrentTpl < TPL_HIGH_LEVEL)
      <4>1. interrupts' = interrupts
        BY <1>2, <3>2 DEF CoreRaiseTpl
      <4>2. tpl < TPL_HIGH_LEVEL <=> gEfiCurrentTpl < TPL_HIGH_LEVEL
        BY <1>2, <1>4, <3>2, LevelNat
      <4>3. QED
        BY <2>1, <4>1, <4>2
    <3>3. QED
      BY <3>1, <3>2
  <2>3. Top'.tpl = tpl
    BY <1>5, <1>8 DEF Top
  <2>4. tpl >= tpl
    BY <1>4
  <2>5. QED
    BY <1>4, <2>1, <2>2, <2>3, <2>4 DEF LevelInv, ResumedAtOwnTpl, InterruptsFollowTpl, Top
<1>10. QED
  BY <1>3, <1>8, <1>9 DEF IInv, StackInv, EventInv, TimerInv, CallInv, eventVars, timerVars

\* RestoreTPL of the level that RaiseTPL returned keeps the invariant.
LEMMA ClientRestoreStep == IInv /\ ClientRestore => IInv'
<1> SUFFICES ASSUME IInv, ClientRestore PROVE IInv'
  OBVIOUS
<1>0. Stk(stack, mEfiTimerLock, Signature, gEventSignalQueue, Len(UserEvents))
  BY DEF IInv, StackInv
<1>1. /\ Top.k = "Raised" /\ stack' = Become(stack, RestoreFrame(Top.x))
      /\ UNCHANGED <<cpuVars, eventVars, timerVars, UserEvents, calls>>
  BY DEF ClientRestore, Running
<1>2. ~Holds(Top) /\ ReturnTpl(Top) = Top.x /\ Top.x \in Tpls
  BY <1>1, TopFacts DEF Holds, ReturnTpl, LocalOk
<1>3. /\ Stk(stack', mEfiTimerLock, Signature, gEventSignalQueue, Len(UserEvents))
      /\ stack'[Len(stack')] = RestoreFrame(Top.x)
  BY <1>0, <1>1, <1>2, TopFacts, BecomeRestoreOk
<1>4. Top'.k = "Restore" /\ Top'.tpl = Top.x
  BY <1>3 DEF Top, RestoreFrame, Frame
<1>5. Top.x <= gEfiCurrentTpl
  <2>1. Len(stack) # 1
    BY <1>1, TopFacts DEF Fits
  <2>a. \A i \in Nat : i # 0 /\ i # 1 => i > 1 /\ i - 1 \in 1 .. i
    OBVIOUS
  <2>2. Len(stack) > 1 /\ Len(stack) - 1 \in 1 .. Len(stack)
    BY <2>1, <2>a, TopFacts
  <2>3. stack[Len(stack) - 1].k # "Restore"
    BY <1>1, <2>2, TopFacts, FitsCaller
  <2>4. stack[Len(stack) - 1].tpl = Top.x
    BY <1>1, <1>2, <2>2, <2>3, TopFacts, FitsCaller
  <2>5. stack[Len(stack) - 1].tpl <= Top.tpl
    BY <1>0, <2>2, TopFacts, BelowTop
  <2>6. QED
    BY <1>1, <2>4, <2>5, TopFacts
<1>6. LevelInv'
  BY <1>1, <1>2, <1>4, <1>5, KeepLevel DEF IInv
<1>7. QED
  BY <1>1, <1>3, <1>6 DEF IInv, StackInv, EventInv, TimerInv, CallInv, eventVars, timerVars

\* SignalEvent of a client keeps the invariant.
LEMMA ClientSignalStep == IInv /\ ClientSignal => IInv'
<1> SUFFICES ASSUME IInv, ClientSignal PROVE IInv'
  OBVIOUS
<1>1. /\ Top.k \in ClientKinds /\ UNCHANGED <<timerVars, UserEvents>> /\ calls' = calls + 1
  BY DEF ClientSignal, MayCall, ClientRuns, ClientKinds, Counted
<1>2. PICK e \in Events : CoreSignalEvent(e, stack, gEfiCurrentTpl)
  BY DEF ClientSignal
<1>3. e \in EventIds
  BY DEF EventIds
<1>4. StackInv' /\ LevelInv' /\ EventInv'
  BY <1>1, <1>2, <1>3, ClientFacts, TopFacts, SignalOk DEF IInv, timerVars
<1>5. QED
  BY <1>1, <1>4 DEF IInv, TimerInv, CallInv, timerVars

\* CheckEvent of a client keeps the invariant.
LEMMA ClientCheckStep == IInv /\ ClientCheck => IInv'
<1> SUFFICES ASSUME IInv, ClientCheck PROVE IInv'
  OBVIOUS
<1>1. /\ Top.k \in ClientKinds /\ calls' = calls + 1
      /\ UNCHANGED <<cpuVars, eventVars, timerVars, UserEvents>>
  BY DEF ClientCheck, MayCall, ClientRuns, ClientKinds, Counted
<1>2. PICK e \in Events : stack' = Call(stack, Frame("Check", "queue", gEfiCurrentTpl, e, 0))
  BY DEF ClientCheck
<1> DEFINE f == Frame("Check", "queue", gEfiCurrentTpl, e, 0)
<1>3. f \in Frames /\ f.k = "Check" /\ f.tpl = gEfiCurrentTpl /\ f.ev = e
  BY TopFacts DEF Frame, Frames, Kinds, Pcs, EventIds
<1>4. LocalOk(f)
  BY <1>3 DEF LocalOk
<1>5. stack' = Call(stack, f)
  BY <1>2
<1> HIDE DEF f
<1>6. /\ Stk(stack', mEfiTimerLock, Signature, gEventSignalQueue, Len(UserEvents))
      /\ stack'[Len(stack')] = f
  BY <1>1, <1>3, <1>4, <1>5, CallAtLevel
<1>7. Top' = f
  BY <1>6 DEF Top
<1>8. LevelInv'
  BY <1>1, <1>3, <1>7, TopFacts, KeepLevel DEF IInv
<1>9. QED
  BY <1>1, <1>6, <1>8 DEF IInv, StackInv, EventInv, TimerInv, CallInv, eventVars, timerVars

\* WaitForEvent starts at TPL_APPLICATION, where no other is in progress.
LEMMA ClientWaitStep == IInv /\ ClientWait => IInv'
<1> SUFFICES ASSUME IInv, ClientWait PROVE IInv'
  OBVIOUS
<1>1. /\ Top.k \in ClientKinds /\ calls' = calls + 1 /\ gEfiCurrentTpl = TPL_APPLICATION
      /\ UNCHANGED <<cpuVars, eventVars, timerVars>>
  BY DEF ClientWait, MayCall, ClientRuns, ClientKinds, Counted
<1> DEFINE f == Frame("Wait", "queue", TPL_APPLICATION, NoEvent, 1)
<1>2. PICK evs \in WaitArgs : UserEvents' = evs /\ stack' = Call(stack, f)
  BY DEF ClientWait
<1>3. evs \in Seq(Events) /\ evs # <<>>
  BY ArgsAssumption
<1>4. 1 \in 1 .. Len(evs)
  <2>1. Len(evs) \in Nat /\ Len(evs) # 0
    BY <1>3, LenProperties, EmptySeq
  <2>2. QED
    BY <2>1
<1>5. f \in Frames /\ f.k = "Wait" /\ f.tpl = TPL_APPLICATION /\ f.ev = NoEvent /\ f.x = 1
  BY TplFacts DEF Frame, Frames, Kinds, Pcs
<1>6. LocalOk(f) /\ ~Holds(f)
  BY <1>5 DEF LocalOk, Holds
<1> HIDE DEF f
<1>7. FitsOn(stack, f)
  BY <1>1, <1>5, <1>6, ClientCallFits
<1>8. \A i \in 1 .. Len(stack) : stack[i].k # "Wait"
  BY <1>1, ClientFacts DEF TPL_APPLICATION
<1>9. /\ Stk(Call(stack, f), mEfiTimerLock, Signature, gEventSignalQueue, Len(evs))
      /\ Len(Call(stack, f)) = Len(stack) + 1 /\ Call(stack, f)[Len(stack) + 1] = f
  <2>1. Fits(stack, Len(stack) + 1, f)
    BY <1>7 DEF FitsOn
  <2>2. f.x \in 1 .. Len(evs)
    BY <1>4, <1>5
  <2>3. QED
    BY <1>1, <1>5, <1>6, <1>8, <2>1, <2>2, ClientFacts, CallStk
<1>10. Top' = f
  BY <1>2, <1>9 DEF Top
<1>11. LevelInv'
  BY <1>1, <1>5, <1>10, TplFacts, KeepLevel DEF IInv
<1>12. QED
  BY <1>1, <1>2, <1>3, <1>9, <1>11 DEF IInv, StackInv, EventInv, TimerInv, CallInv, eventVars,
                                   timerVars

\* SetTimer of a client finds the timer lock free.
LEMMA ClientSetTimerStep == IInv /\ ClientSetTimer => IInv'
<1> SUFFICES ASSUME IInv, ClientSetTimer PROVE IInv'
  OBVIOUS
<1>1. /\ Top.k \in ClientKinds /\ calls' = calls + 1 /\ UNCHANGED <<eventVars, UserEvents>>
  BY DEF ClientSetTimer, MayCall, ClientRuns, ClientKinds, Counted
<1>2. PICK e \in Events, a \in TimerArgs : CoreSetTimer(e, a[1], a[2], stack)
  BY DEF ClientSetTimer
<1>3. a[1] \in {"TimerCancel", "TimerPeriodic", "TimerRelative"} /\ a[2] \in Nat
  BY ArgsAssumption
<1>4. StackInv' /\ LevelInv' /\ EventInv' /\ TimerInv'
  BY <1>1, <1>2, <1>3, ClientFacts, TopFacts, CoreSetTimerOk
<1>5. QED
  BY <1>1, <1>4 DEF IInv, CallInv

\* CloseEvent of a client starts on an event that nobody is closing.
LEMMA ClientCloseStep == IInv /\ ClientClose => IInv'
<1> SUFFICES ASSUME IInv, ClientClose PROVE IInv'
  OBVIOUS
<1>1. /\ Top.k \in ClientKinds /\ calls' = calls + 1
      /\ UNCHANGED <<cpuVars, eventVars, timerVars, UserEvents>>
  BY DEF ClientClose, MayCall, ClientRuns, ClientKinds, Counted
<1>2. PICK e \in Events :
        /\ Closable(e)
        /\ stack' = Call(stack, Frame("Close", "cancel", gEfiCurrentTpl, e, 0))
  BY DEF ClientClose
<1> DEFINE f == Frame("Close", "cancel", gEfiCurrentTpl, e, 0)
<1>3. e \in Signature /\ \A i \in 1 .. Len(stack) : stack[i].k = "Close" => stack[i].ev # e
  <2>1. DOMAIN stack = 1 .. Len(stack)
    BY LenProperties DEF IInv, StackInv, Stk
  <2>2. QED
    BY <1>2, <2>1 DEF Closable, Usable, Held
<1>4. f \in Frames /\ f.k = "Close" /\ f.tpl = gEfiCurrentTpl /\ f.ev = e /\ f.pc = "cancel"
  BY TopFacts DEF Frame, Frames, Kinds, Pcs, EventIds
<1>5. LocalOk(f) /\ ~Holds(f)
  BY <1>4 DEF LocalOk, Holds
<1>6. stack' = Call(stack, f)
  BY <1>2
<1> HIDE DEF f
<1>7. FitsOn(stack, f)
  BY <1>1, <1>4, <1>5, ClientCallFits
<1>8. /\ Stk(stack', mEfiTimerLock, Signature, gEventSignalQueue, Len(UserEvents))
      /\ stack'[Len(stack')] = f
  <2>1. Stk(stack, mEfiTimerLock, Signature, gEventSignalQueue, Len(UserEvents))
    BY DEF IInv, StackInv
  <2>2. f.ev \in Signature /\ f.pc # "free" /\ NoCloser(stack, f.ev)
    BY <1>3, <1>4 DEF NoCloser
  <2>3. f \in Frames /\ f.k = "Close"
    BY <1>4
  <2>4. QED
    BY <1>6, <1>7, <2>1, <2>2, <2>3, PushCloseOk
<1>9. Top' = f
  BY <1>8 DEF Top
<1>10. LevelInv'
  BY <1>1, <1>4, <1>9, TopFacts, KeepLevel DEF IInv
<1>11. QED
  BY <1>1, <1>8, <1>10 DEF IInv, StackInv, EventInv, TimerInv, CallInv, eventVars,
                                 timerVars

\* CreateEventEx adds an event with a NotifyTpl that has a queue.
LEMMA ClientCreateStep == IInv /\ ClientCreate => IInv'
<1> SUFFICES ASSUME IInv, ClientCreate PROVE IInv'
  OBVIOUS
<1>1. /\ Top.k \in ClientKinds /\ calls' = calls + 1 /\ UNCHANGED <<timerVars, UserEvents>>
  BY DEF ClientCreate, MayCall, ClientRuns, ClientKinds, Counted
<1>2. PICK e \in Events \ Signature, a \in CreateArgs : CoreCreateEventEx(e, a)
  BY DEF ClientCreate
<1> DEFINE type == ConvertedType(a)
           new == NewEvent(type, a.NotifyTpl, ConvertedGroup(a))
           sq == gEventSignalQueue
<1>3. /\ CreateEventInternalAccepts(a) /\ CoreAcquireEventLock
      /\ Signature' = Signature \cup {e} /\ IEvent' = [IEvent EXCEPT ![e] = new]
      /\ sq' = IF "NOTIFY_SIGNAL" \in type THEN <<e>> \o sq ELSE sq
      /\ stack' = Call(stack, RestoreFrame(gEfiCurrentTpl))
      /\ UNCHANGED <<gEventQueue, gEventPending>>
  BY <1>2 DEF CoreCreateEventEx
<1>4. e \in EventIds /\ e # mEfiCheckTimerEvent /\ e \notin Signature /\ e \in Events
  BY EventAssumption DEF EventIds
<1>5. /\ a.Type \in SUBSET Flags /\ a.NotifyTpl \in Tpls /\ a.EventGroup \in AllGroups
  BY ArgsAssumption
<1>6. type \in SUBSET Flags /\ ConvertedGroup(a) \in AllGroups
  BY <1>5 DEF ConvertedType, ConvertedGroup, EVT_SIGNAL_EXIT_BOOT_SERVICES, Flags, AllGroups
<1>7. IsNotify(type) => a.NotifyTpl \in NotifyTpls
  BY <1>3, <1>5, TplFacts DEF CreateEventInternalAccepts
<1> HIDE DEF type
<1>8. new \in EventStructs /\ new.Type = type /\ (IsNotify(type) => new.NotifyTpl \in NotifyTpls)
  BY <1>6, <1>7 DEF NewEvent, EventStructs
<1> HIDE DEF new
<1>9. StructOk(IEvent')
  BY <1>3, <1>4, <1>8 DEF IInv, EventInv, StructOk
<1>10. SignalQueueOk(sq, Signature, IEvent) /\ sq \in Seq(EventIds) /\ Len(sq) \in Nat
  BY LenProperties DEF IInv, EventInv, SignalQueueOk
<1>11. \A i \in 1 .. Len(sq) : /\ sq[i] \in EventIds /\ sq[i] # e /\ sq[i] \in Signature'
                               /\ "NOTIFY_SIGNAL" \in IEvent'[sq[i]].Type
  <2>1. \A i \in 1 .. Len(sq) : /\ sq[i] \in EventIds /\ sq[i] \in Signature
                                /\ "NOTIFY_SIGNAL" \in IEvent[sq[i]].Type
    BY <1>10, ElementOfSeq DEF SignalQueueOk
  <2>2. \A d \in EventIds : d # e => IEvent'[d] = IEvent[d]
    BY <1>3, <1>4 DEF IInv, EventInv, StructOk
  <2>3. QED
    BY <1>3, <1>4, <2>1, <2>2
<1>12. SignalQueueOk(sq', Signature', IEvent') /\ \A i \in 1 .. Len(sq') : sq'[i] \in Signature =>
         \E j \in 1 .. Len(sq) : sq'[i] = sq[j]
  <2>1. CASE sq' = sq
    BY <1>10, <1>11, <2>1 DEF SignalQueueOk
  <2>2. CASE "NOTIFY_SIGNAL" \in type /\ sq' = <<e>> \o sq
    <3>1. <<e>> \in Seq(EventIds) /\ Len(<<e>>) = 1 /\ <<e>>[1] = e
      BY <1>4
    <3>2. /\ sq' \in Seq(EventIds) /\ Len(sq') = 1 + Len(sq)
          /\ sq'[1] = e /\ \A i \in 1 .. Len(sq) : sq'[i + 1] = sq[i]
      BY <1>10, <2>2, <3>1, ConcatShape
    <3>3. ASSUME NEW i \in 1 .. Len(sq'), i # 1
          PROVE  i - 1 \in 1 .. Len(sq) /\ sq'[i] = sq[i - 1]
      <4>1. i - 1 \in 1 .. Len(sq) /\ (i - 1) + 1 = i
        BY <1>10, <3>2, <3>3
      <4>2. QED
        BY <3>2, <4>1
    <3>4. IEvent'[e].Type = type /\ e \in Signature'
      BY <1>3, <1>4, <1>8 DEF IInv, EventInv, StructOk
    <3>5. \A i \in 1 .. Len(sq') : sq'[i] \in Signature' /\ "NOTIFY_SIGNAL" \in IEvent'[sq'[i]].Type
      BY <1>11, <2>2, <3>2, <3>3, <3>4
    <3>6. ASSUME NEW i \in 1 .. Len(sq'), NEW j \in 1 .. Len(sq'), i # j PROVE sq'[i] # sq'[j]
      <4>1. CASE i = 1
        BY <1>11, <3>2, <3>3, <3>6, <4>1
      <4>2. CASE j = 1
        BY <1>11, <3>2, <3>3, <3>6, <4>2
      <4>3. CASE i # 1 /\ j # 1
        <5>1. i - 1 \in 1 .. Len(sq) /\ j - 1 \in 1 .. Len(sq) /\ i - 1 # j - 1
          BY <1>10, <3>3, <3>6, <4>3
        <5>2. sq[i - 1] # sq[j - 1]
          BY <1>10, <5>1 DEF SignalQueueOk
        <5>3. QED
          BY <3>3, <4>3, <5>2
      <4>4. QED
        BY <4>1, <4>2, <4>3
    <3>7. QED
      BY <1>4, <3>2, <3>3, <3>5, <3>6 DEF SignalQueueOk
  <2>3. QED
    BY <1>3, <2>1, <2>2
<1>13. EventInv'
  BY <1>3, <1>4, <1>9, <1>12 DEF IInv, EventInv
<1>14. Stk(stack, mEfiTimerLock, Signature', sq', Len(UserEvents))
  <2>1. Stk(stack, mEfiTimerLock, Signature, sq, Len(UserEvents))
    BY DEF IInv, StackInv
  <2>2. CloseOk(stack, Signature, sq)
    BY <2>1 DEF Stk
  <2>3. CloseOk(stack, Signature', sq')
    BY <1>3, <1>12, <2>2 DEF CloseOk
  <2>4. QED
    BY <2>1, <2>3 DEF Stk
<1>15. StackInv' /\ LevelInv'
  BY <1>1, <1>3, <1>14, ClientFacts, TopFacts, LockedCall DEF IInv, timerVars
<1>16. QED
  BY <1>1, <1>13, <1>15 DEF IInv, TimerInv, CallInv, timerVars

-----------------------------------------------------------------------------
(***************************************************************************)
(* The theorems.                                                           *)
(***************************************************************************)

\* The initial state satisfies the invariant.
LEMMA InitInv == Init => IInv
<1> SUFFICES ASSUME Init PROVE IInv
  OBVIOUS
<1> DEFINE f == Frame("App", "body", TPL_APPLICATION, NoEvent, 0)
<1>1. f \in Frames /\ f.k = "App" /\ f.tpl = TPL_APPLICATION /\ stack = <<f>>
  BY TplFacts DEF Init, Frame, Frames, Kinds, Pcs
<1>2. LocalOk(f) /\ ~Holds(f)
  BY <1>1 DEF LocalOk, Holds
<1> HIDE DEF f
<1>3. stack \in Seq(Frames) /\ stack # <<>> /\ Len(stack) = 1 /\ stack[1] = f
  BY <1>1
<1>4. Fits(stack, 1, f)
  BY <1>1, <1>2 DEF Fits, NotifyKinds
<1>5. StackInv
  BY <1>1, <1>2, <1>3, <1>4
     DEF Init, StackInv, Stk, StackOk, LockOk, CloseOk, WaitOk
<1>6. Top = f
  BY <1>3 DEF Top
<1>7. LevelInv
  BY <1>1, <1>6, TplFacts
     DEF Init, LevelInv, ResumedAtOwnTpl, InterruptsFollowTpl, TPL_APPLICATION, TPL_HIGH_LEVEL
<1>8. StructOk(IEvent)
  <2>1. /\ CHECK_TIMER_TPL \in NotifyTpls /\ TPL_NOTIFY \in NotifyTpls /\ 0 \in Nat
        /\ {"NOTIFY_SIGNAL"} \in SUBSET Flags /\ {} \in SUBSET Flags
        /\ NoGroup \in AllGroups /\ IdleLoopGuid \in AllGroups
        /\ IsNotify({"NOTIFY_SIGNAL"}) /\ ~IsNotify({})
    BY TplFacts DEF Flags, AllGroups, IsNotify
  <2>2. ASSUME NEW type \in SUBSET Flags, NEW tpl, IsNotify(type) => tpl \in NotifyTpls,
               NEW group \in AllGroups
        PROVE  /\ NewEvent(type, tpl, group) \in EventStructs
               /\ NewEvent(type, tpl, group).Type = type
               /\ IsNotify(type) => NewEvent(type, tpl, group).NotifyTpl = tpl
    BY <2>2 DEF NewEvent, EventStructs
  <2>3. /\ DOMAIN IEvent = EventIds
        /\ \A e \in EventIds :
             /\ IEvent[e] \in EventStructs
             /\ IsNotify(IEvent[e].Type) => IEvent[e].NotifyTpl \in NotifyTpls
             /\ e = mEfiCheckTimerEvent => IEvent[e].NotifyTpl = CHECK_TIMER_TPL
    <3>1. DOMAIN IEvent = EventIds
      BY DEF Init
    <3>2. ASSUME NEW e \in EventIds
          PROVE  /\ IEvent[e] \in EventStructs
                 /\ IsNotify(IEvent[e].Type) => IEvent[e].NotifyTpl \in NotifyTpls
                 /\ e = mEfiCheckTimerEvent => IEvent[e].NotifyTpl = CHECK_TIMER_TPL
      <4>1. CASE e = mEfiCheckTimerEvent
        <5>1. IEvent[e] = NewEvent({"NOTIFY_SIGNAL"}, CHECK_TIMER_TPL, NoGroup)
          BY <4>1 DEF Init
        <5>2. QED
          BY <2>1, <2>2, <5>1
      <4>2. CASE e # mEfiCheckTimerEvent /\ e = gIdleLoopEvent
        <5>1. IEvent[e] = NewEvent({"NOTIFY_SIGNAL"}, TPL_NOTIFY, IdleLoopGuid)
          BY <4>2 DEF Init
        <5>2. /\ IEvent[e] \in EventStructs /\ IEvent[e].NotifyTpl = TPL_NOTIFY
          BY <2>1, <2>2, <5>1
        <5>3. QED
          BY <2>1, <4>2, <5>2
      <4>3. CASE e # mEfiCheckTimerEvent /\ e # gIdleLoopEvent
        <5>1. IEvent[e] = NewEvent({}, 0, NoGroup)
          BY <4>3 DEF Init
        <5>2. NewEvent({}, 0, NoGroup) \in EventStructs /\ NewEvent({}, 0, NoGroup).Type = {}
          BY <2>1 DEF NewEvent, EventStructs
        <5>3. QED
          BY <2>1, <4>3, <5>1, <5>2
      <4>4. QED
        BY <4>1, <4>2, <4>3
    <3>3. QED
      BY <3>1, <3>2
  <2>4. mEfiCheckTimerEvent \in EventIds /\ IEvent = [e \in EventIds |-> IEvent[e]]
    BY DEF EventIds, Init
  <2>5. QED
    BY <2>3, <2>4 DEF StructOk
<1>9. QueueOk(gEventQueue)
  BY DEF Init, QueueOk
<1>10. SignalQueueOk(gEventSignalQueue, Signature, IEvent)
  <2>1. /\ gIdleLoopEvent \in EventIds /\ mEfiCheckTimerEvent \in EventIds
        /\ gIdleLoopEvent # mEfiCheckTimerEvent
    BY EventAssumption DEF EventIds
  <2>2. /\ "NOTIFY_SIGNAL" \in IEvent[gIdleLoopEvent].Type
        /\ "NOTIFY_SIGNAL" \in IEvent[mEfiCheckTimerEvent].Type
    BY <2>1 DEF Init, NewEvent
  <2>3. /\ gEventSignalQueue \in Seq(EventIds) /\ Len(gEventSignalQueue) = 2
        /\ gEventSignalQueue[1] = gIdleLoopEvent
        /\ gEventSignalQueue[2] = mEfiCheckTimerEvent
    BY <2>1 DEF Init
  <2>4. \A i \in 1 .. Len(gEventSignalQueue) : i = 1 \/ i = 2
    BY <2>3
  <2>5. QED
    BY <2>1, <2>2, <2>3, <2>4 DEF Init, SignalQueueOk
<1>11. EventInv
  BY <1>8, <1>9, <1>10 DEF EventInv, Init, EventIds
<1>12. TimerInv /\ CallInv
  BY DEF Init, TimerInv, CallInv
<1>13. QED
  BY <1>5, <1>7, <1>11, <1>12 DEF IInv

\* Every step of the running activation keeps the invariant.
LEMMA StepInv == IInv /\ Step => IInv'
BY RestoreTestStep, RestoreEnterStep, RestoreSetStep, DispatchNextStep, DispatchCallStep,
   GroupListStep, CoreNotifySignalListStep, GroupRelockStep, CoreCheckEventStep,
   CoreWaitForEventStep, TimersAcquireStep, TimersScanStep, TimersRearmStep,
   TimersKickStep, TimersInsertStep, SetTimerUnlinkStep, SetTimerTimeStep,
   SetTimerInsertStep, SetTimerReleaseStep, CloseCancelStep, CloseUnlinkStep,
   CloseFreeStep, ReturnStep, ClientRestoreStep
   DEF Step, CoreRestoreTpl, CoreDispatchEventNotifies, CoreCheckTimers, SetTimerStep,
       CoreCloseEvent

\* Every call of a client keeps the invariant.
LEMMA ClientCallInv == IInv /\ ClientCall => IInv'
BY ClientRaiseStep, ClientCreateStep, ClientSignalStep, ClientCheckStep, ClientWaitStep,
   ClientSetTimerStep, ClientCloseStep DEF ClientCall

\* A stuttering step keeps the invariant.
LEMMA StutterInv == IInv /\ UNCHANGED vars => IInv'
BY DEF vars, IInv, StackInv, LevelInv, EventInv, TimerInv, CallInv, ResumedAtOwnTpl,
       InterruptsFollowTpl, Top

\* The inductive invariant holds in every reachable state.
THEOREM Invariance == Spec => []IInv
<1>1. IInv /\ [Next]_vars => IInv'
  BY StepInv, ClientCallInv, TimerInterruptHandlerStep, StutterInv DEF Next
<1>2. QED
  BY InitInv, <1>1, PTL DEF Spec

\* The state of Event.c, Timer.c and Tpl.c always has its types: every queue and
\* list holds event structures, and every activation is at one of the TPLs.
THEOREM TypeCorrect == Spec => []TypeOK
<1>1. IInv => TypeOK
  BY DEF IInv, StackInv, Stk, LevelInv, EventInv, StructOk, QueueOk, SignalQueueOk, TimerInv,
         CallInv, TypeOK
<1>2. QED
  BY Invariance, <1>1, PTL

\* Notification functions nest at strictly rising TPLs, for any number of events,
\* timers, nested interrupts and client calls.
THEOREM NestingRises == Spec => []NotifyNesting
<1>1. IInv => NotifyNesting
  <2> SUFFICES ASSUME IInv, NEW i \in DOMAIN stack, NEW j \in DOMAIN stack, i < j,
                      stack[i].k \in NotifyKinds, stack[j].k \in NotifyKinds
               PROVE  stack[i].tpl < stack[j].tpl
    BY DEF NotifyNesting
  <2>1. StackOk(stack) /\ DOMAIN stack = 1 .. Len(stack) /\ Len(stack) \in Nat
    BY LenProperties DEF IInv, StackInv, Stk
  <2>2. Fits(stack, j, stack[j])
    BY <2>1 DEF StackOk
  <2>3. i \in 1 .. j - 1 /\ stack[i].k # "Dispatch"
    BY <2>1 DEF NotifyKinds
  <2>4. QED
    BY <2>2, <2>3 DEF Fits
<1>2. QED
  BY Invariance, <1>1, PTL

\* Every activation is resumed at the TPL it was left at.
THEOREM LevelsKept == Spec => []ResumedAtOwnTpl
<1>1. IInv => ResumedAtOwnTpl
  BY DEF IInv, LevelInv
<1>2. QED
  BY Invariance, <1>1, PTL

\* Interrupts are enabled exactly below TPL_HIGH_LEVEL: no critical section of an
\* event lock is interrupted.
THEOREM InterruptsFollow == Spec => []InterruptsFollowTpl
<1>1. IInv => InterruptsFollowTpl
  BY DEF IInv, LevelInv
<1>2. QED
  BY Invariance, <1>1, PTL

\* Nobody who is about to take mEfiTimerLock finds it taken: ASSERT (Lock->Lock ==
\* EfiLockReleased) of CoreAcquireLock never fails.
THEOREM TimerLockFree == Spec => []TimerLockExclusive
<1>1. IInv => TimerLockExclusive
  <2> SUFFICES ASSUME IInv,
                      Running("Timers", "acquire") \/ Running("Close", "cancel") \/ ClientRuns
               PROVE  mEfiTimerLock = Released
    BY DEF TimerLockExclusive
  <2>1. ~Holds(Top) /\ Top.k \notin {"Restore", "Irq", "Group", "List"}
    BY DEF Running, ClientRuns, Holds
  <2>2. Len(stack) \in Nat /\ \A i \in 1 .. Len(stack) : i = Len(stack) \/ i \in 1 .. Len(stack) - 1
    BY TopFacts
  <2>3. \A i \in 1 .. Len(stack) - 1 : ~Holds(stack[i])
    BY <2>1, TopFacts DEF Fits
  <2>4. \A i \in 1 .. Len(stack) : ~Holds(stack[i])
    BY <2>1, <2>2, <2>3 DEF Top
  <2>5. QED
    BY <2>4 DEF IInv, StackInv, Stk, LockOk
<1>2. QED
  BY Invariance, <1>1, PTL
=============================================================================
