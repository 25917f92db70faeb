------------------------- MODULE DxeEventListProofs -------------------------
(***************************************************************************)
(* Proofs about the queues and lists of DxeEvent: what they hold while     *)
(* timers are armed, expire and are re-armed and events are closed and     *)
(* freed by activations that interrupts interleave.                        *)
(*                                                                         *)
(* The invariant LI is stated with the parts of the state as parameters,   *)
(* so that a step can be followed through the activations it passes.       *)
(***************************************************************************)
EXTENDS DxeEventProofs

\* Activations that hold an event taken from the timer list, to put it back.
Rearms(f)     == f.k = "Timers" /\ f.pc \in {"rearm", "kick", "insert"}
Arms(f)       == f.k = "SetTimer" /\ f.pc \in {"time", "insert"}
Cancels(f, e) == f.k = "SetTimer" /\ f.pc = "TimerCancel" /\ f.ev = e

Out(l, e) == \A i \in 1 .. Len(l) : l[i] # e
Unique(l) == \A i, j \in 1 .. Len(l) : i # j => l[i] # l[j]
Sorted(l, ie) ==
  \A i, j \in 1 .. Len(l) : i < j => ie[l[i]].TriggerTime <= ie[l[j]].TriggerTime
LiveTimer(e, sig, ie) == e \in sig /\ "TIMER" \in ie[e].Type

\* The queues hold events that are not freed, none twice in a queue.
QueuesLive(q, sig) ==
  \A t \in NotifyTpls : (\A i \in 1 .. Len(q[t]) : q[t][i] \in sig) /\ Unique(q[t])

\* The timer list is sorted and holds timers that are not freed, each once.
TimersLive(l, sig, ie) ==
  (\A i \in 1 .. Len(l) : LiveTimer(l[i], sig, ie)) /\ Unique(l) /\ Sorted(l, ie)

\* A timer that an activation is to insert is not freed, and not in the list.
InFlight(s, l, sig, ie) ==
  \A i \in 1 .. Len(s) :
    /\ Rearms(s[i]) => LiveTimer(s[i].ev, sig, ie) /\ Out(l, s[i].ev)
    /\ s[i].k = "SetTimer" => LiveTimer(s[i].ev, sig, ie)
    /\ Arms(s[i]) => Out(l, s[i].ev)

\* Who refers to the event e that the activation at i is closing: no check or
\* wait, only the SetTimer that the close has called, and after that no timer
\* activation and no list.
ClosingAt(s, i, e, l, ue) ==
  /\ \A j \in 1 .. Len(s) : s[j].k = "Check" => s[j].ev # e
  /\ \A j \in 1 .. Len(s) : s[j].k = "Wait" => Out(ue, e)
  /\ \A j \in 1 .. Len(s) : s[j].k = "SetTimer" /\ s[j].ev = e =>
       j = i + 1 /\ s[j].pc \in {"TimerCancel", "release"} /\ s[i].pc = "unlink"
  /\ s[i].pc \in {"unlink", "free"} => \A j \in 1 .. Len(s) : Rearms(s[j]) => s[j].ev # e
  /\ s[i].pc = "unlink" => Out(l, e) \/ (i + 1 \in 1 .. Len(s) /\ Cancels(s[i + 1], e))
  /\ s[i].pc = "free" => Out(l, e)
Closing(s, l, ue) ==
  \A i \in 1 .. Len(s) : s[i].k = "Close" => ClosingAt(s, i, s[i].ev, l, ue)

\* No queue holds an event that is about to be freed.
Freeing(f) == f.k = "Close" /\ f.pc = "free"
Unqueued(s, q) ==
  \A i \in 1 .. Len(s) : Freeing(s[i]) => \A t \in NotifyTpls : Out(q[t], s[i].ev)

\* A periodic timer is in the list, or an activation is to insert it.
Kept(s, l, sig, ie) ==
  \A e \in sig : ie[e].Period # 0 =>
    ~Out(l, e) \/ \E i \in 1 .. Len(s) : (Rearms(s[i]) \/ Arms(s[i])) /\ s[i].ev = e

LI(s, l, q, sig, ie, ue) ==
  /\ {mEfiCheckTimerEvent, gIdleLoopEvent} \subseteq sig
  /\ QueuesLive(q, sig) /\ TimersLive(l, sig, ie) /\ InFlight(s, l, sig, ie)
  /\ Closing(s, l, ue) /\ Unqueued(s, q) /\ Kept(s, l, sig, ie)

LInv == LI(stack, mEfiTimerList, gEventQueue, Signature, IEvent, UserEvents)

-----------------------------------------------------------------------------
(***************************************************************************)
(* What the list operations do.                                            *)
(***************************************************************************)

\* RemoveEntryList keeps the other elements and their order.
LEMMA RemoveKeeps ==
  ASSUME NEW S, NEW s \in Seq(S), NEW e, NEW r, r = RemoveEntryList(s, e)
  PROVE  /\ \A d : Out(s, d) => Out(r, d)
         /\ \A d : d # e /\ Out(r, d) => Out(s, d)
         /\ Unique(s) => Unique(r) /\ Out(r, e)
         /\ \A ie : Sorted(s, ie) => Sorted(r, ie)
<1> DEFINE P == /\ \A d : Out(s, d) => Out(r, d)
                /\ \A d : d # e /\ Out(r, d) => Out(s, d)
                /\ \A ie : Sorted(s, ie) => Sorted(r, ie)
<1>0. Len(s) \in Nat
  BY LenProperties
<1>1. ASSUME r = s PROVE P
  BY <1>1 DEF Out
<1>2. ASSUME NEW k \in 1 .. Len(s), s[k] = e, Len(r) = Len(s) - 1,
             \A i \in 1 .. Len(r) : r[i] = IF i < k THEN s[i] ELSE s[i + 1]
      PROVE  P
  <2> DEFINE at(i) == IF i < k THEN i ELSE i + 1
  <2>1. \A i \in 1 .. Len(r) : at(i) \in 1 .. Len(s) /\ r[i] = s[at(i)]
    BY <1>0, <1>2
  <2>2. \A i, j \in 1 .. Len(r) : i < j => at(i) < at(j)
    BY <1>0, <1>2
  <2>3. \A i \in 1 .. Len(s) : i # k => \E j \in 1 .. Len(r) : r[j] = s[i]
    <3>1. \A i \in 1 .. Len(s) : i < k => i \in 1 .. Len(r) /\ r[i] = s[i]
      BY <1>0, <1>2
    <3>2. \A i \in 1 .. Len(s) : i > k => i - 1 \in 1 .. Len(r) /\ r[i - 1] = s[(i - 1) + 1]
      BY <1>0, <1>2
    <3>3. \A i \in 1 .. Len(s) : (i - 1) + 1 = i /\ (i # k => i < k \/ i > k)
      BY <1>0
    <3>4. QED
      BY <3>1, <3>2, <3>3
  <2> HIDE DEF at
  <2>4. \A d : Out(s, d) => Out(r, d)
    BY <2>1 DEF Out
  <2>5. \A d : d # e /\ Out(r, d) => Out(s, d)
    BY <1>2, <2>3, SMTT(30) DEF Out
  <2>6. \A ie : Sorted(s, ie) => Sorted(r, ie)
    BY <2>1, <2>2 DEF Sorted
  <2>7. QED
    BY <2>4, <2>5, <2>6
<1>3. Unique(s) => Unique(r) /\ Out(r, e)
  BY RemoveUnique DEF Unique, Out
<1> HIDE DEF P
<1>4. P
  BY <1>1, <1>2, RemoveShape
<1>5. QED
  BY <1>3, <1>4 DEF P

\* Appending one element.
LEMMA AppendKeeps ==
  ASSUME NEW S, NEW s \in Seq(S), NEW e \in S, NEW r, r = Append(s, e)
  PROVE  /\ \A d : d # e /\ Out(s, d) => Out(r, d)
         /\ \A d : Out(r, d) => Out(s, d) /\ d # e
         /\ Unique(s) /\ Out(s, e) => Unique(r)
<1>1. /\ Len(s) \in Nat /\ Len(r) = Len(s) + 1 /\ r[Len(s) + 1] = e
      /\ \A i \in 1 .. Len(s) : r[i] = s[i]
  BY AppendProperties, LenProperties
<1>2. /\ \A i \in 1 .. Len(s) : i \in 1 .. Len(r)
      /\ Len(s) + 1 \in 1 .. Len(r)
      /\ \A i \in 1 .. Len(r) : i \in 1 .. Len(s) \/ i = Len(s) + 1
  BY <1>1
<1>3. QED
  BY <1>1, <1>2 DEF Out, Unique

\* The tail of a list.
LEMMA TailKeeps ==
  ASSUME NEW S, NEW s \in Seq(S), NEW r \in Seq(S), Len(s) # 0, Len(r) = Len(s) - 1,
         \A i \in 1 .. Len(r) : r[i] = s[i + 1]
  PROVE  /\ 1 \in 1 .. Len(s) /\ \A i \in 1 .. Len(r) : i + 1 \in 1 .. Len(s)
         /\ \A d : Out(s, d) => Out(r, d)
         /\ \A d : d # s[1] /\ Out(r, d) => Out(s, d)
         /\ Unique(s) => Unique(r) /\ Out(r, s[1])
         /\ \A ie : Sorted(s, ie) => Sorted(r, ie)
<1>1. /\ Len(s) \in Nat /\ Len(s) # 0 /\ Len(r) = Len(s) - 1
      /\ \A i \in 1 .. Len(r) : r[i] = s[i + 1]
  BY LenProperties
<1>2. /\ 1 \in 1 .. Len(s)
      /\ \A i \in 1 .. Len(r) : i + 1 \in 1 .. Len(s) /\ i + 1 # 1
      /\ \A i \in 1 .. Len(s) : i = 1 \/ (i - 1 \in 1 .. Len(r) /\ (i - 1) + 1 = i)
  BY <1>1
<1>3. \A i \in 1 .. Len(s) : i = 1 \/ \E j \in 1 .. Len(r) : r[j] = s[i]
  BY <1>1, <1>2
<1>4. \A i, j \in 1 .. Len(r) : (i < j => i + 1 < j + 1) /\ (i # j => i + 1 # j + 1)
  BY <1>1
<1>a. \A i \in 1 .. Len(r) : \E j \in 1 .. Len(s) : r[i] = s[j] /\ j # 1
  BY <1>1, <1>2
<1>5. (\A d : Out(s, d) => Out(r, d)) /\ \A d : d # s[1] /\ Out(r, d) => Out(s, d)
  BY ONLY <1>a, <1>2, <1>3, ZenonT(40) DEF Out
<1>6. ASSUME Unique(s) PROVE Unique(r) /\ Out(r, s[1])
  <2>1. ASSUME NEW i \in 1 .. Len(r), NEW j \in 1 .. Len(r), i # j PROVE r[i] # r[j]
    <3>1. i + 1 \in 1 .. Len(s) /\ j + 1 \in 1 .. Len(s) /\ i + 1 # j + 1
      BY <1>2, <1>4, <2>1
    <3>2. s[i + 1] # s[j + 1]
      BY ONLY <1>6, <3>1 DEF Unique
    <3>3. QED
      BY <1>1, <3>2
  <2>2. ASSUME NEW i \in 1 .. Len(r) PROVE r[i] # s[1]
    <3>1. i + 1 \in 1 .. Len(s) /\ 1 \in 1 .. Len(s) /\ i + 1 # 1
      BY <1>2
    <3>2. s[i + 1] # s[1]
      BY ONLY <1>6, <3>1 DEF Unique
    <3>3. QED
      BY <1>1, <3>2
  <2>3. QED
    BY <2>1, <2>2 DEF Unique, Out
<1>7. ASSUME NEW ie, Sorted(s, ie), NEW i \in 1 .. Len(r), NEW j \in 1 .. Len(r), i < j
      PROVE  ie[r[i]].TriggerTime <= ie[r[j]].TriggerTime
  <2>1. i + 1 \in 1 .. Len(s) /\ j + 1 \in 1 .. Len(s) /\ i + 1 < j + 1
    BY <1>2, <1>4, <1>7
  <2>2. ie[s[i + 1]].TriggerTime <= ie[s[j + 1]].TriggerTime
    BY ONLY <1>7, <2>1 DEF Sorted
  <2>3. QED
    BY <1>1, <2>2
<1>8. \A ie : Sorted(s, ie) => Sorted(r, ie)
  BY <1>7 DEF Sorted
<1>9. QED
  BY <1>2, <1>5, <1>6, <1>8

\* Where CoreInsertEventTimer puts a timer.
LEMMA InsertShape ==
  ASSUME mEfiTimerList \in Seq(EventIds), NEW e \in EventIds, CoreInsertEventTimer(e)
  PROVE  \E k \in 1 .. Len(mEfiTimerList) + 1 :
           /\ \A j \in 1 .. k - 1 :
                IEvent[mEfiTimerList[j]].TriggerTime <= IEvent[e].TriggerTime
           /\ k <= Len(mEfiTimerList) =>
                IEvent[mEfiTimerList[k]].TriggerTime > IEvent[e].TriggerTime
           /\ Len(mEfiTimerList') = Len(mEfiTimerList) + 1
           /\ \A i \in 1 .. Len(mEfiTimerList) + 1 :
                mEfiTimerList'[i] = IF i < k THEN mEfiTimerList[i]
                                    ELSE IF i = k THEN e ELSE mEfiTimerList[i - 1]
<1> DEFINE l == mEfiTimerList
           r == mEfiTimerList'
<1>0. Len(l) \in Nat /\ l \in Seq(EventIds)
  BY LenProperties
<1>1. PICK k \in 1 .. Len(l) + 1 :
        /\ \A j \in 1 .. k - 1 : IEvent[l[j]].TriggerTime <= IEvent[e].TriggerTime
        /\ k <= Len(l) => IEvent[l[k]].TriggerTime > IEvent[e].TriggerTime
        /\ r = SubSeq(l, 1, k - 1) \o <<e>> \o SubSeq(l, k, Len(l))
  BY DEF CoreInsertEventTimer
<1> DEFINE a == SubSeq(l, 1, k - 1)
           u == <<e>>
           b == a \o u
           c == SubSeq(l, k, Len(l))
<1>2. a \in Seq(EventIds) /\ Len(a) = k - 1 /\ \A i \in 1 .. k - 1 : a[i] = l[i]
  BY <1>0, SubSeqProperties, ElementOfSeq
<1>3. c \in Seq(EventIds) /\ Len(c) = Len(l) - k + 1
      /\ \A i \in 1 .. Len(l) - k + 1 : c[i] = l[k + i - 1]
  BY <1>0, SubSeqProperties, ElementOfSeq
<1>4. u \in Seq(EventIds) /\ Len(u) = 1 /\ u[1] = e
  OBVIOUS
<1>5. r = b \o c
  BY <1>1
<1> HIDE DEF a, c, u
<1>6. /\ b \in Seq(EventIds) /\ Len(b) = k
      /\ \A i \in 1 .. k - 1 : b[i] = l[i]
      /\ b[k] = e
  <2>1. /\ b \in Seq(EventIds) /\ Len(b) = Len(a) + Len(u)
        /\ \A i \in 1 .. Len(a) : b[i] = a[i]
        /\ \A i \in 1 .. Len(u) : b[i + Len(a)] = u[i]
    <3>1. a \in Seq(EventIds) /\ u \in Seq(EventIds) /\ b = a \o u
      BY <1>2, <1>4
    <3> HIDE DEF b
    <3>2. QED
      BY ONLY <3>1, ConcatShape
  <2>2. b[1 + Len(a)] = e
    BY <1>4, <2>1
  <2> HIDE DEF b
  <2>3. QED
    BY <1>0, <1>2, <1>4, <2>1, <2>2
<1> HIDE DEF b, l, r
<1>7. /\ Len(r) = Len(b) + Len(c)
      /\ \A i \in 1 .. Len(b) : r[i] = b[i]
      /\ \A i \in 1 .. Len(c) : r[i + Len(b)] = c[i]
  <2>1. b \in Seq(EventIds) /\ c \in Seq(EventIds)
    BY <1>3, <1>6
  <2>2. QED
    BY ONLY <1>5, <2>1, ConcatShape
<1>8. Len(r) = Len(l) + 1
  BY <1>0, <1>3, <1>6, <1>7
<1>9. ASSUME NEW i \in 1 .. Len(l) + 1
      PROVE  r[i] = IF i < k THEN l[i] ELSE IF i = k THEN e ELSE l[i - 1]
  <2>1. CASE i <= k
    BY <1>0, <1>6, <1>7, <2>1
  <2>2. CASE i > k
    <3>1. i - k \in 1 .. Len(c) /\ (i - k) + Len(b) = i /\ k + (i - k) - 1 = i - 1
      BY <1>0, <1>3, <1>6, <2>2
    <3>2. r[i] = c[i - k]
      BY <1>7, <3>1
    <3>3. c[i - k] = l[i - 1]
      BY <1>0, <1>3, <3>1
    <3>4. QED
      BY <1>0, <2>2, <3>2, <3>3
  <2>3. QED
    BY <1>0, <2>1, <2>2
<1>10. QED
  BY <1>1, <1>8, <1>9 DEF l, r

\* It keeps the list sorted and without duplicates.
LEMMA InsertKeeps ==
  ASSUME mEfiTimerList \in Seq(EventIds), NEW e \in EventIds, CoreInsertEventTimer(e),
         IEvent \in [EventIds -> EventStructs]
  PROVE  /\ \A d : d # e /\ Out(mEfiTimerList, d) => Out(mEfiTimerList', d)
         /\ \A d : Out(mEfiTimerList', d) => Out(mEfiTimerList, d) /\ d # e
         /\ Unique(mEfiTimerList) /\ Out(mEfiTimerList, e) => Unique(mEfiTimerList')
         /\ Sorted(mEfiTimerList, IEvent) => Sorted(mEfiTimerList', IEvent)
         /\ \A i \in 1 .. Len(mEfiTimerList') :
              \/ mEfiTimerList'[i] = e
              \/ \E j \in 1 .. Len(mEfiTimerList) : mEfiTimerList'[i] = mEfiTimerList[j]
<1> DEFINE l == mEfiTimerList
           r == mEfiTimerList'
           T(d) == IEvent[d].TriggerTime
<1>0. Len(l) \in Nat /\ l \in Seq(EventIds)
  BY LenProperties
<1>1. PICK k \in 1 .. Len(l) + 1 :
        /\ \A j \in 1 .. k - 1 : T(l[j]) <= T(e)
        /\ k <= Len(l) => T(l[k]) > T(e)
        /\ Len(r) = Len(l) + 1
        /\ \A i \in 1 .. Len(l) + 1 :
             r[i] = IF i < k THEN l[i] ELSE IF i = k THEN e ELSE l[i - 1]
  BY InsertShape
<1>2. T(e) \in Nat /\ \A i \in 1 .. Len(l) : T(l[i]) \in Nat
  BY <1>0, ElementOfSeq DEF EventStructs
<1> DEFINE at(i) == IF i < k THEN i ELSE i - 1
           to(i) == IF i < k THEN i ELSE i + 1
<1>3. \A i \in 1 .. Len(r) : i # k => at(i) \in 1 .. Len(l) /\ r[i] = l[at(i)]
  BY <1>0, <1>1
<1>4. \A i \in 1 .. Len(l) : to(i) \in 1 .. Len(r) /\ to(i) # k /\ at(to(i)) = i
  BY <1>0, <1>1
<1>5. \A i, j \in 1 .. Len(r) : i < j /\ i # k /\ j # k => at(i) < at(j)
  BY <1>0, <1>1
<1>6. k \in 1 .. Len(r) /\ r[k] = e
  BY <1>0, <1>1
<1>7. \A i \in 1 .. Len(r) : (i < k => at(i) \in 1 .. k - 1) /\ (i > k => at(i) >= k)
  BY <1>0, <1>1
<1>8. \A i, j \in 1 .. Len(r) : i # j => i < j \/ j < i
  BY <1>0, <1>1
<1> HIDE DEF l, r, T, at, to
<1>9. /\ \A d : d # e /\ Out(l, d) => Out(r, d)
      /\ \A d : Out(r, d) => Out(l, d) /\ d # e
      /\ \A i \in 1 .. Len(r) : r[i] = e \/ \E j \in 1 .. Len(l) : r[i] = l[j]
  BY <1>3, <1>4, <1>6 DEF Out
<1>10. ASSUME Unique(l), Out(l, e), NEW i \in 1 .. Len(r), NEW j \in 1 .. Len(r), i < j
       PROVE  r[i] # r[j]
  <2>1. CASE i # k /\ j # k
    <3>1. at(i) \in 1 .. Len(l) /\ at(j) \in 1 .. Len(l) /\ at(i) < at(j)
      BY <1>3, <1>5, <1>10, <2>1
    <3>2. at(i) # at(j)
      BY <3>1
    <3>3. QED
      BY <1>3, <1>10, <2>1, <3>1, <3>2 DEF Unique
  <2>2. CASE i = k \/ j = k
    BY <1>3, <1>6, <1>10, <2>2 DEF Out
  <2>3. QED
    BY <2>1, <2>2
<1>11. ASSUME Sorted(l, IEvent), NEW i \in 1 .. Len(r), NEW j \in 1 .. Len(r), i < j
       PROVE  T(r[i]) <= T(r[j])
  <2>0. \A a, b \in 1 .. Len(l) : a <= b => T(l[a]) <= T(l[b])
    <3>1. \A a, b \in 1 .. Len(l) : a < b => T(l[a]) <= T(l[b])
      BY <1>11 DEF Sorted, T
    <3>2. \A a, b \in 1 .. Len(l) : a <= b => a < b \/ a = b
      BY <1>0
    <3>3. \A a \in 1 .. Len(l) : T(l[a]) <= T(l[a])
      BY <1>2
    <3>4. QED
      BY <3>1, <3>2, <3>3
  <2>1. CASE i # k /\ j # k
    <3>1. at(i) \in 1 .. Len(l) /\ at(j) \in 1 .. Len(l) /\ at(i) < at(j)
      BY <1>3, <1>5, <1>11, <2>1
    <3>2. at(i) <= at(j)
      BY <1>0, <3>1
    <3>3. QED
      BY <1>3, <2>0, <2>1, <3>1, <3>2
  <2>2. CASE i = k
    <3>1. at(j) \in 1 .. Len(l) /\ at(j) >= k /\ r[j] = l[at(j)] /\ k <= Len(l)
      BY <1>0, <1>3, <1>7, <1>11, <2>2
    <3>2. k \in 1 .. Len(l)
      BY <1>0, <3>1
    <3>3. T(l[k]) <= T(l[at(j)]) /\ T(l[k]) > T(e) /\ T(l[k]) \in Nat /\ T(l[at(j)]) \in Nat
      BY <1>1, <1>2, <2>0, <3>1, <3>2
    <3>4. T(e) <= T(l[at(j)])
      BY <1>2, <3>3
    <3>5. QED
      BY <1>6, <2>2, <3>1, <3>4
  <2>3. CASE j = k
    BY <1>1, <1>3, <1>6, <1>7, <1>11, <2>3 DEF at
  <2>4. QED
    BY <2>1, <2>2, <2>3
<1>12. Unique(l) /\ Out(l, e) => Unique(r)
  BY <1>8, <1>10 DEF Unique
<1>13. Sorted(l, IEvent) => Sorted(r, IEvent)
  BY <1>11 DEF Sorted, T
<1>14. QED
  BY <1>9, <1>12, <1>13 DEF l, r

-----------------------------------------------------------------------------
(***************************************************************************)
(* Steps that leave the activations LI speaks of alone.                    *)
(***************************************************************************)
Hard(f) == f.k \in {"SetTimer", "Close"} \/ Rearms(f)
Soft(f) == f.k \in {"Check", "Wait"}

\* The activations t have the same hard ones as s, and no new soft one.
Plain(s, t) ==
  /\ \A i \in 1 .. Len(s) : Hard(s[i]) => i \in 1 .. Len(t) /\ t[i] = s[i]
  /\ \A i \in 1 .. Len(t) : Hard(t[i]) => i \in 1 .. Len(s) /\ t[i] = s[i]
  /\ \A i \in 1 .. Len(t) : Soft(t[i]) =>
       \E j \in 1 .. Len(s) : s[j].k = t[i].k /\ s[j].ev = t[i].ev

\* What calling, going on and returning do, position by position.
LEMMA StackShapes ==
  ASSUME NEW s \in Seq(Frames), s # <<>>
  PROVE  /\ Len(s) \in Nat /\ Len(s) \in 1 .. Len(s)
         /\ \A f \in Frames :
              /\ Call(s, f) \in Seq(Frames) /\ Call(s, f) # <<>>
              /\ Len(Call(s, f)) = Len(s) + 1 /\ Call(s, f)[Len(s) + 1] = f
              /\ \A i \in 1 .. Len(s) : Call(s, f)[i] = s[i]
         /\ \A f \in Frames :
              /\ Become(s, f) \in Seq(Frames) /\ Become(s, f) # <<>>
              /\ Len(Become(s, f)) = Len(s) /\ Become(s, f)[Len(s)] = f
              /\ \A i \in 1 .. Len(s) : i # Len(s) => Become(s, f)[i] = s[i]
         /\ \A pc : Goto(s, pc) = Become(s, [s[Len(s)] EXCEPT !.pc = pc])
         /\ Len(Return(s)) = Len(s) - 1
         /\ \A i \in 1 .. Len(s) - 1 : Return(s)[i] = s[i]
<1>1. Len(s) \in Nat /\ Len(s) # 0 /\ Len(s) \in 1 .. Len(s)
  BY LenProperties, EmptySeq
<1>2. ASSUME NEW f \in Frames
      PROVE  /\ Call(s, f) \in Seq(Frames) /\ Call(s, f) # <<>>
             /\ Len(Call(s, f)) = Len(s) + 1 /\ Call(s, f)[Len(s) + 1] = f
             /\ \A i \in 1 .. Len(s) : Call(s, f)[i] = s[i]
  BY <1>1, AppendProperties DEF Call
<1>3. ASSUME NEW f \in Frames
      PROVE  /\ Become(s, f) \in Seq(Frames) /\ Become(s, f) # <<>>
             /\ Len(Become(s, f)) = Len(s) /\ Become(s, f)[Len(s)] = f
             /\ \A i \in 1 .. Len(s) : i # Len(s) => Become(s, f)[i] = s[i]
  BY <1>1, ExceptSeq, EmptySeq DEF Become
<1>4. \A pc : Goto(s, pc) = Become(s, [s[Len(s)] EXCEPT !.pc = pc])
  BY DEF Goto, Become
<1>5. /\ Len(Return(s)) = Len(s) - 1
      /\ \A i \in 1 .. Len(s) - 1 : Return(s)[i] = s[i]
  <2> DEFINE m == Len(s) - 1
  <2>1. m \in Int /\ 1 \in 1 .. Len(s) + 1 /\ m \in 1 - 1 .. Len(s)
    BY <1>1
  <2>2. Return(s) = SubSeq(s, 1, m) /\ m - 1 + 1 = m
    BY <2>1 DEF Return
  <2> HIDE DEF m
  <2>3. Len(SubSeq(s, 1, m)) = m /\ \A i \in 1 .. m : SubSeq(s, 1, m)[i] = s[i]
    BY <1>1, <2>1, SubSeqProperties
  <2>4. QED
    BY <2>2, <2>3 DEF m
<1>6. QED
  BY <1>1, <1>2, <1>3, <1>4, <1>5

\* A call of an activation that is neither hard nor soft.
LEMMA PlainCall ==
  ASSUME NEW s \in Seq(Frames), s # <<>>, NEW f \in Frames, ~Hard(f), ~Soft(f),
         NEW t, t = Call(s, f)
  PROVE  Plain(s, t) /\ t \in Seq(Frames) /\ t # <<>>
<1>1. /\ Len(s) \in Nat /\ t \in Seq(Frames) /\ t # <<>>
      /\ Len(t) = Len(s) + 1 /\ t[Len(s) + 1] = f
      /\ \A i \in 1 .. Len(s) : t[i] = s[i]
  BY StackShapes
<1>2. /\ \A i \in 1 .. Len(s) : i \in 1 .. Len(t)
      /\ \A i \in 1 .. Len(t) : i \in 1 .. Len(s) \/ i = Len(s) + 1
  BY <1>1
<1>3. QED
  BY <1>1, <1>2 DEF Plain

\* The running activation, which is not hard, goes on as one that is not, or as
\* the same check or wait.
LEMMA PlainBecome ==
  ASSUME NEW s \in Seq(Frames), s # <<>>, NEW f \in Frames, ~Hard(f), ~Hard(s[Len(s)]),
         Soft(f) => s[Len(s)].k = f.k /\ s[Len(s)].ev = f.ev, NEW t, t = Become(s, f)
  PROVE  Plain(s, t) /\ t \in Seq(Frames) /\ t # <<>> /\ t[Len(t)] = f
<1>1. /\ Len(s) \in Nat /\ Len(s) \in 1 .. Len(s) /\ t \in Seq(Frames) /\ t # <<>>
      /\ Len(t) = Len(s) /\ t[Len(s)] = f
      /\ \A i \in 1 .. Len(s) : i # Len(s) => t[i] = s[i]
  BY StackShapes
<1>2. QED
  BY <1>1 DEF Plain

\* The running activation, which is not hard, returns.
LEMMA PlainReturn ==
  ASSUME NEW s \in Seq(Frames), s # <<>>, ~Hard(s[Len(s)]), NEW t, t = Return(s)
  PROVE  Plain(s, t)
<1>1. /\ Len(s) \in Nat /\ Len(t) = Len(s) - 1
      /\ \A i \in 1 .. Len(s) - 1 : t[i] = s[i]
  BY StackShapes
<1>2. /\ \A i \in 1 .. Len(t) : i \in 1 .. Len(s)
      /\ \A i \in 1 .. Len(s) : i \in 1 .. Len(t) \/ i = Len(s)
  BY <1>1
<1>3. QED
  BY <1>1, <1>2 DEF Plain

\* One plain change after another.
LEMMA PlainTrans ==
  ASSUME NEW s, NEW t, NEW u, Plain(s, t), Plain(t, u)
  PROVE  Plain(s, u)
<1>1. /\ \A i \in 1 .. Len(s) : Hard(s[i]) => i \in 1 .. Len(u) /\ u[i] = s[i]
      /\ \A i \in 1 .. Len(u) : Hard(u[i]) => i \in 1 .. Len(s) /\ u[i] = s[i]
  BY DEF Plain
<1>2. ASSUME NEW i \in 1 .. Len(u), Soft(u[i])
      PROVE  \E j \in 1 .. Len(s) : s[j].k = u[i].k /\ s[j].ev = u[i].ev
  <2>1. PICK j \in 1 .. Len(t) : t[j].k = u[i].k /\ t[j].ev = u[i].ev
    BY <1>2 DEF Plain
  <2>2. Soft(t[j])
    BY <1>2, <2>1 DEF Soft
  <2>3. QED
    BY <2>1, <2>2 DEF Plain
<1>3. QED
  BY <1>1, <1>2 DEF Plain

SameTimers(ie, ie2) ==
  \A e \in EventIds : /\ ie2[e].Type = ie[e].Type
                      /\ ie2[e].TriggerTime = ie[e].TriggerTime
                      /\ ie2[e].Period = ie[e].Period

\* Plain changes keep LI, given what the step does to the queues.
LEMMA PlainLI ==
  ASSUME NEW s, NEW t, NEW l, NEW q, NEW q2, NEW sig, NEW ie, NEW ie2, NEW ue,
         LI(s, l, q, sig, ie, ue), Plain(s, t), SameTimers(ie, ie2), sig \subseteq EventIds,
         QueuesLive(q2, sig), Unqueued(s, q2)
  PROVE  LI(t, l, q2, sig, ie2, ue)
<1>1. \A e \in sig : /\ ie2[e].Type = ie[e].Type /\ ie2[e].Period = ie[e].Period
                     /\ ie2[e].TriggerTime = ie[e].TriggerTime
  BY DEF SameTimers
<1>2. \A e : LiveTimer(e, sig, ie) <=> LiveTimer(e, sig, ie2)
  BY <1>1 DEF LiveTimer
<1>3. /\ \A i \in 1 .. Len(s) : Hard(s[i]) => i \in 1 .. Len(t) /\ t[i] = s[i]
      /\ \A i \in 1 .. Len(t) : Hard(t[i]) => i \in 1 .. Len(s) /\ t[i] = s[i]
      /\ \A i \in 1 .. Len(t) : Soft(t[i]) =>
           \E j \in 1 .. Len(s) : s[j].k = t[i].k /\ s[j].ev = t[i].ev
  BY DEF Plain
<1>4. \A f : Rearms(f) \/ Arms(f) \/ Freeing(f) \/ f.k \in {"SetTimer", "Close"} => Hard(f)
  BY DEF Hard, Arms, Freeing
<1>5. TimersLive(l, sig, ie2)
  <2>1. \A i \in 1 .. Len(l) : LiveTimer(l[i], sig, ie) /\ l[i] \in sig
    BY DEF LI, TimersLive, LiveTimer
  <2>2. Sorted(l, ie2)
    BY <1>1, <2>1 DEF LI, TimersLive, Sorted
  <2>3. QED
    BY <1>2, <2>1, <2>2 DEF LI, TimersLive
<1>6. InFlight(t, l, sig, ie2)
  BY <1>2, <1>3, <1>4 DEF LI, InFlight
<1>7. Closing(t, l, ue)
  <2> SUFFICES ASSUME NEW i \in 1 .. Len(t), t[i].k = "Close"
               PROVE  ClosingAt(t, i, t[i].ev, l, ue)
    BY DEF Closing
  <2>1. i \in 1 .. Len(s) /\ t[i] = s[i] /\ ClosingAt(s, i, s[i].ev, l, ue)
    BY <1>3, <1>4 DEF LI, Closing
  <2>2. \A j \in 1 .. Len(t) : t[j].k = "Check" => t[j].ev # t[i].ev
    <3>1. \A j \in 1 .. Len(s) : s[j].k = "Check" => s[j].ev # s[i].ev
      BY <2>1 DEF ClosingAt
    <3>2. QED
      BY <1>3, <2>1, <3>1 DEF Soft
  <2>3. \A j \in 1 .. Len(t) : t[j].k = "Wait" => Out(ue, t[i].ev)
    <3>1. \A j \in 1 .. Len(s) : s[j].k = "Wait" => Out(ue, s[i].ev)
      BY <2>1 DEF ClosingAt
    <3>2. QED
      BY <1>3, <2>1, <3>1 DEF Soft
  <2>4. \A j \in 1 .. Len(t) : t[j].k = "SetTimer" /\ t[j].ev = t[i].ev =>
          j = i + 1 /\ t[j].pc \in {"TimerCancel", "release"} /\ t[i].pc = "unlink"
    BY <1>3, <1>4, <2>1 DEF ClosingAt
  <2>5. t[i].pc \in {"unlink", "free"} =>
          \A j \in 1 .. Len(t) : Rearms(t[j]) => t[j].ev # t[i].ev
    BY <1>3, <1>4, <2>1 DEF ClosingAt
  <2>6. t[i].pc = "unlink" =>
          Out(l, t[i].ev) \/ (i + 1 \in 1 .. Len(t) /\ Cancels(t[i + 1], t[i].ev))
    <3>1. Cancels(s[i + 1], t[i].ev) => Hard(s[i + 1])
      BY DEF Cancels, Hard
    <3>2. QED
      BY <1>3, <2>1, <3>1 DEF ClosingAt
  <2>7. t[i].pc = "free" => Out(l, t[i].ev)
    BY <2>1 DEF ClosingAt
  <2>8. QED
    BY <2>2, <2>3, <2>4, <2>5, <2>6, <2>7 DEF ClosingAt
<1>8. Unqueued(t, q2)
  BY <1>3, <1>4 DEF Unqueued
<1>9. Kept(t, l, sig, ie2)
  <2> SUFFICES ASSUME NEW e \in sig, ie2[e].Period # 0, Out(l, e)
               PROVE  \E i \in 1 .. Len(t) : (Rearms(t[i]) \/ Arms(t[i])) /\ t[i].ev = e
    BY DEF Kept
  <2>1. PICK i \in 1 .. Len(s) : (Rearms(s[i]) \/ Arms(s[i])) /\ s[i].ev = e
    BY <1>1 DEF LI, Kept
  <2>2. QED
    BY <1>3, <1>4, <2>1
<1>10. QED
  BY <1>5, <1>6, <1>7, <1>8, <1>9 DEF LI

\* A record of these fields is an activation.
LEMMA FrameIn ==
  ASSUME NEW k \in Kinds, NEW pc \in Pcs, NEW tpl \in Tpls,
         NEW ev \in EventIds \cup {NoEvent}, NEW x \in Nat
  PROVE  /\ Frame(k, pc, tpl, ev, x) \in Frames
         /\ Frame(k, pc, tpl, ev, x).k = k /\ Frame(k, pc, tpl, ev, x).pc = pc
         /\ Frame(k, pc, tpl, ev, x).tpl = tpl /\ Frame(k, pc, tpl, ev, x).ev = ev
         /\ Frame(k, pc, tpl, ev, x).x = x
BY DEF Frame, Frames

\* CoreRestoreTpl is neither hard nor soft.
LEMMA RestorePlain ==
  ASSUME NEW tpl \in Tpls
  PROVE  RestoreFrame(tpl) \in Frames /\ ~Hard(RestoreFrame(tpl)) /\ ~Soft(RestoreFrame(tpl))
<1>1. RestoreFrame(tpl) \in Frames /\ RestoreFrame(tpl).k = "Restore"
  BY DEF RestoreFrame, Frame, Frames, Kinds, Pcs
<1>2. QED
  BY <1>1 DEF Hard, Soft, Rearms

\* A critical section ends by a call of CoreRestoreTpl.
LEMMA PlainRelease ==
  ASSUME NEW s \in Seq(Frames), s # <<>>, NEW tpl \in Tpls, NEW t,
         t = Call(s, RestoreFrame(tpl))
  PROVE  Plain(s, t) /\ t \in Seq(Frames) /\ t # <<>>
BY RestorePlain, PlainCall

\* The running activation goes on at another program counter.
LEMMA GotoFrame ==
  ASSUME NEW f \in Frames, NEW pc \in Pcs, NEW g, g = [f EXCEPT !.pc = pc]
  PROVE  /\ g \in Frames /\ g.k = f.k /\ g.pc = pc /\ g.tpl = f.tpl /\ g.ev = f.ev
         /\ g.x = f.x
BY DEF Frames

\* An activation that is neither hard before nor after goes on.
LEMMA PlainGoto ==
  ASSUME NEW s \in Seq(Frames), s # <<>>, NEW pc \in Pcs,
         s[Len(s)].k \notin {"SetTimer", "Close", "Timers"}, NEW t, t = Goto(s, pc)
  PROVE  Plain(s, t) /\ t \in Seq(Frames) /\ t # <<>>
<1> DEFINE g == [s[Len(s)] EXCEPT !.pc = pc]
<1>0. Len(s) \in 1 .. Len(s) /\ t = Become(s, g)
  BY StackShapes, ZenonT(40)
<1>1. s[Len(s)] \in Frames /\ t = Become(s, g)
  BY <1>0, ElementOfSeq
<1>2. g \in Frames /\ g.k = s[Len(s)].k /\ g.ev = s[Len(s)].ev
  BY <1>1, GotoFrame
<1>3. ~Hard(g) /\ ~Hard(s[Len(s)])
  BY <1>2 DEF Hard, Rearms
<1> HIDE DEF g
<1>4. QED
  BY <1>1, <1>2, <1>3, PlainBecome

\* What the invariants say of the stack as a list.
LEMMA StackSeq ==
  ASSUME IInv
  PROVE  /\ stack \in Seq(Frames) /\ stack # <<>> /\ stack[Len(stack)] = Top
         /\ Top \in Frames /\ Top.tpl \in Tpls /\ Top.x \in Nat /\ Top.pc \in Pcs
         /\ Top.ev \in EventIds \cup {NoEvent}
         /\ Signature \subseteq EventIds /\ EventInv
         /\ gEfiCurrentTpl \in Tpls
BY TopFacts DEF IInv, StackInv, Stk, Frames, EventInv

\* A plain step that leaves the event structures and lists alone.
LEMMA PlainStep ==
  ASSUME IInv, LInv, Plain(stack, stack'),
         UNCHANGED <<eventVars, mEfiTimerList, UserEvents>>
  PROVE  LInv'
<1>1. SameTimers(IEvent, IEvent)
  BY DEF SameTimers
<1>2. QueuesLive(gEventQueue, Signature) /\ Unqueued(stack, gEventQueue)
  BY DEF LInv, LI
<1>3. LI(stack', mEfiTimerList, gEventQueue, Signature, IEvent, UserEvents)
  BY <1>1, <1>2, StackSeq, PlainLI DEF LInv
<1>4. QED
  BY <1>3 DEF LInv, eventVars

\* CoreRestoreTpl and the returns of interrupts, notifications and RaiseTPL.
LEMMA RestoreLists ==
  ASSUME IInv, LInv, CoreRestoreTpl \/ InterruptReturn \/ NotifyReturn \/ ClientRestore
  PROVE  LInv'
<1>1. UNCHANGED <<eventVars, mEfiTimerList, UserEvents>>
  BY DEF CoreRestoreTpl, RestoreTest, RestoreEnter, RestoreSet, InterruptReturn,
         NotifyReturn, ClientRestore, timerVars
<1>2. Top.k \in {"Restore", "Irq", "Notify", "Raised"} /\ ~Hard(Top)
  <2>1. Top.k \in {"Restore", "Irq", "Notify", "Raised"}
    BY DEF CoreRestoreTpl, RestoreTest, RestoreEnter, RestoreSet, InterruptReturn,
           NotifyReturn, ClientRestore, Running
  <2>2. QED
    BY <2>1 DEF Hard, Rearms
<1>3. Top.k \notin {"SetTimer", "Close", "Timers"} /\ "set" \in Pcs /\ "test" \in Pcs
  BY <1>2 DEF Pcs
<1>4. CASE stack' = Return(stack)
  BY <1>1, <1>2, <1>4, StackSeq, PlainReturn, PlainStep
<1>5. CASE stack' = Goto(stack, "set")
  BY <1>1, <1>3, <1>5, StackSeq, PlainGoto, PlainStep
<1>6. CASE RestoreTest /\ gEventPending # {}
             /\ stack' = Become(stack, [Top EXCEPT !.pc = "enter", !.x = HighBitSet])
  <2> DEFINE f == [Top EXCEPT !.pc = "enter", !.x = HighBitSet]
  <2>1. HighBitSet \in Nat
    BY <1>6, HighBitSetOk, StackSeq, TplFacts DEF EventInv
  <2>2. f \in Frames /\ f.k = Top.k
    BY <2>1, StackSeq DEF Frames, Pcs
  <2>3. ~Hard(f) /\ ~Soft(f)
    BY <1>2, <2>2 DEF Hard, Soft, Rearms
  <2> HIDE DEF f
  <2>4. Plain(stack, stack')
    BY <1>2, <1>6, <2>2, <2>3, StackSeq, PlainBecome DEF f
  <2>5. QED
    BY <1>1, <2>4, PlainStep
<1>7. CASE RestoreEnter
  <2> DEFINE f == Frame("Dispatch", "next", Top.x, NoEvent, 0)
             s == Goto(stack, "test")
  <2>1. Top.x \in Tpls
    BY <1>7, TopFacts, TplFacts DEF LocalOk, RestoreEnter, Running
  <2>2. f \in Frames /\ f.k = "Dispatch"
    BY <2>1 DEF Frame, Frames, Kinds, Pcs
  <2>3. ~Hard(f) /\ ~Soft(f)
    BY <2>2 DEF Hard, Soft, Rearms
  <2>4. stack' = Call(s, f)
    BY <1>7 DEF RestoreEnter
  <2> HIDE DEF f, s
  <2>5. Plain(stack, s) /\ s \in Seq(Frames) /\ s # <<>>
    BY <1>3, StackSeq, PlainGoto DEF s
  <2>6. Plain(s, stack')
    BY <2>2, <2>3, <2>4, <2>5, PlainCall
  <2>7. QED
    BY <1>1, <2>5, <2>6, PlainTrans, PlainStep
<1>8. CASE ClientRestore
  <2>1. Top.x \in Tpls
    BY <1>8, TopFacts DEF LocalOk, ClientRestore, Running
  <2>2. Plain(stack, stack')
    BY <1>2, <1>8, <2>1, StackSeq, RestorePlain, PlainBecome DEF ClientRestore
  <2>3. QED
    BY <1>1, <2>2, PlainStep
<1>9. QED
  BY <1>4, <1>5, <1>6, <1>7, <1>8
     DEF CoreRestoreTpl, RestoreTest, RestoreSet, InterruptReturn, NotifyReturn

-----------------------------------------------------------------------------
(***************************************************************************)
(* Steps that queue notifications and dispatch them.                       *)
(***************************************************************************)
NotFreed(s, e) == \A i \in 1 .. Len(s) : Freeing(s[i]) => s[i].ev # e
InQueue(q, e)  == \E t \in NotifyTpls : ~Out(q[t], e)

\* CoreNotifyEvent (e) queues e and drops nothing.
LEMMA NotifyQueues ==
  ASSUME EventInv, NEW e \in EventIds, IEvent[e].NotifyTpl \in NotifyTpls, CoreNotifyEvent(e)
  PROVE  /\ InQueue(gEventQueue', e)
         /\ \A d : InQueue(gEventQueue, d) => InQueue(gEventQueue', d)
         /\ e \in Signature /\ QueuesLive(gEventQueue, Signature)
              => QueuesLive(gEventQueue', Signature)
         /\ \A s : Unqueued(s, gEventQueue) /\ NotFreed(s, e) => Unqueued(s, gEventQueue')
<1> DEFINE t == IEvent[e].NotifyTpl
           q == gEventQueue[t]
           r == RemoveEntryList(q, e)
           a == Append(r, e)
<1>1. gEventQueue \in [NotifyTpls -> Seq(EventIds)] /\ q \in Seq(EventIds)
  BY DEF EventInv, QueueOk
<1>2. \A u \in NotifyTpls : gEventQueue'[u] = IF u = t THEN a ELSE gEventQueue[u]
  BY <1>1 DEF CoreNotifyEvent
<1> HIDE DEF a, r, q
<1>3. /\ r \in Seq(EventIds) /\ \A i \in 1 .. Len(r) : \E j \in 1 .. Len(q) : r[i] = q[j]
  BY <1>1, RemoveElements DEF r
<1>4. /\ \A d : Out(q, d) => Out(r, d)
      /\ \A d : d # e /\ Out(r, d) => Out(q, d)
      /\ Unique(q) => Unique(r) /\ Out(r, e)
  BY <1>1, RemoveKeeps DEF r
<1>5. /\ \A d : d # e /\ Out(r, d) => Out(a, d)
      /\ \A d : Out(a, d) => Out(r, d) /\ d # e
      /\ Unique(r) /\ Out(r, e) => Unique(a)
  BY <1>3, AppendKeeps DEF a
<1>6. \A i \in 1 .. Len(a) : a[i] = e \/ \E j \in 1 .. Len(q) : a[i] = q[j]
  BY <1>4, <1>5 DEF Out
<1>7. InQueue(gEventQueue', e)
  BY <1>2, <1>5 DEF InQueue
<1>8. \A d : InQueue(gEventQueue, d) => InQueue(gEventQueue', d)
  <2> SUFFICES ASSUME NEW d, NEW u \in NotifyTpls, ~Out(gEventQueue[u], d), d # e
               PROVE  InQueue(gEventQueue', d)
    BY <1>7 DEF InQueue
  <2>1. ~Out(gEventQueue'[u], d)
    BY <1>2, <1>4, <1>5 DEF q
  <2>2. QED
    BY <2>1 DEF InQueue
<1>9. ASSUME e \in Signature, QueuesLive(gEventQueue, Signature)
      PROVE  QueuesLive(gEventQueue', Signature)
  <2>1. Unique(a) /\ \A i \in 1 .. Len(a) : a[i] \in Signature
    BY <1>4, <1>5, <1>6, <1>9 DEF QueuesLive, q
  <2>2. QED
    BY <1>2, <1>9, <2>1 DEF QueuesLive
<1>10. ASSUME NEW s, Unqueued(s, gEventQueue), NotFreed(s, e)
       PROVE  Unqueued(s, gEventQueue')
  BY <1>2, <1>4, <1>5, <1>10 DEF Unqueued, NotFreed, q
<1>11. QED
  BY <1>7, <1>8, <1>9, <1>10

\* CoreSignalEvent touches no timer.
LEMMA SignalTimers ==
  ASSUME EventInv, NEW e \in EventIds, NEW n,
         IEvent' = IEvent \/ IEvent' = [IEvent EXCEPT ![e].SignalCount = n]
  PROVE  SameTimers(IEvent, IEvent')
<1>1. IEvent \in [EventIds -> EventStructs]
  BY DEF EventInv, StructOk
<1>2. CASE IEvent' = IEvent
  BY <1>2 DEF SameTimers
<1>3. CASE IEvent' = [IEvent EXCEPT ![e].SignalCount = n]
  BY <1>1, <1>3 DEF SameTimers, EventStructs
<1>4. QED
  BY <1>2, <1>3

\* CoreSignalEvent (e) keeps LI, for an event that is not freed or about to be.
LEMMA SignalLists ==
  ASSUME EventInv, NEW s \in Seq(Frames), s # <<>>, NEW e \in Signature, NEW tpl \in Tpls,
         NEW l, NEW ue, LI(s, l, gEventQueue, Signature, IEvent, ue),
         NotFreed(s, e), CoreSignalEvent(e, s, tpl)
  PROVE  LI(stack', l, gEventQueue', Signature', IEvent', ue)
<1> DEFINE G == Frame("Group", "list", tpl, e, 0)
<1>1. e \in EventIds /\ Signature \subseteq EventIds
  BY DEF EventInv
<1>2. /\ UNCHANGED Signature
      /\ IEvent' = IEvent \/ IEvent' = [IEvent EXCEPT ![e].SignalCount = 1]
      /\ (IsSignal(e) /\ CoreNotifyEvent(e)) \/ UNCHANGED gEventQueue
      /\ \/ stack' = Call(Call(s, G), RestoreFrame(tpl))
         \/ stack' = Call(s, RestoreFrame(tpl))
  BY DEF CoreSignalEvent
<1>3. SameTimers(IEvent, IEvent')
  BY <1>1, <1>2, SignalTimers
<1>4. QueuesLive(gEventQueue, Signature) /\ Unqueued(s, gEventQueue)
  BY DEF LI
<1>5. QueuesLive(gEventQueue', Signature) /\ Unqueued(s, gEventQueue')
  <2>1. CASE IsSignal(e) /\ CoreNotifyEvent(e)
    BY <1>1, <1>4, <2>1, NotifyTplOk, NotifyQueues
  <2>2. CASE UNCHANGED gEventQueue
    BY <1>4, <2>2
  <2>3. QED
    BY <1>2, <2>1, <2>2
<1>6. G \in Frames /\ G.k = "Group"
  BY <1>1 DEF Frame, Frames, Kinds, Pcs
<1>7. ~Hard(G) /\ ~Soft(G)
  BY <1>6 DEF Hard, Soft, Rearms
<1> HIDE DEF G
<1>8. Plain(s, Call(s, G)) /\ Call(s, G) \in Seq(Frames) /\ Call(s, G) # <<>>
  BY <1>6, <1>7, PlainCall
<1>9. Plain(s, stack')
  <2>1. CASE stack' = Call(s, RestoreFrame(tpl))
    BY <2>1, PlainRelease
  <2>2. CASE stack' = Call(Call(s, G), RestoreFrame(tpl))
    BY <1>8, <2>2, PlainRelease, PlainTrans
  <2>3. QED
    BY <1>2, <2>1, <2>2
<1>10. QED
  BY <1>1, <1>2, <1>3, <1>5, <1>9, PlainLI

\* Only events of clients are closed.
LEMMA BuiltInNotFreed ==
  ASSUME IInv, NEW e \in {mEfiCheckTimerEvent, gIdleLoopEvent}
  PROVE  NotFreed(stack, e)
<1>1. e \notin Events
  BY EventAssumption
<1>2. \A i \in 1 .. Len(stack) : LocalOk(stack[i])
  BY DEF IInv, StackInv, Stk, StackOk, Fits
<1>3. QED
  BY <1>1, <1>2 DEF NotFreed, Freeing, LocalOk

\* CoreDispatchEventNotifies takes the first notification of its queue.
LEMMA DispatchNextLists ==
  ASSUME IInv, LInv, DispatchNext
  PROVE  LInv'
<1> DEFINE p == Top.tpl
           q == gEventQueue[p]
           e == Head(q)
           f == Frame("Dispatch", "call", p, e, 0)
           s == Become(stack, f)
<1>1. Top.k = "Dispatch" /\ UNCHANGED <<Signature, mEfiTimerList, UserEvents>>
  BY DEF DispatchNext, Running, timerVars
<1>2. p \in NotifyTpls /\ p \in Tpls /\ q \in Seq(EventIds)
      /\ gEventQueue \in [NotifyTpls -> Seq(EventIds)]
  BY <1>1, TopFacts DEF LocalOk, IInv, EventInv, QueueOk
<1>3. ~Hard(Top)
  BY <1>1 DEF Hard, Rearms
<1>4. QueuesLive(gEventQueue, Signature) /\ Unqueued(stack, gEventQueue)
  BY DEF LInv, LI
<1>5. CASE q = <<>>
  <2>1. stack' = Become(stack, RestoreFrame(p)) /\ UNCHANGED <<gEventQueue, IEvent>>
    BY <1>5 DEF DispatchNext
  <2>2. Plain(stack, stack')
    BY <1>2, <1>3, <2>1, StackSeq, RestorePlain, PlainBecome
  <2>3. SameTimers(IEvent, IEvent') /\ UNCHANGED <<gEventQueue, IEvent>>
    BY <2>1 DEF SameTimers, eventVars
  <2>4. LI(stack', mEfiTimerList, gEventQueue, Signature, IEvent', UserEvents)
    BY <1>4, <2>2, <2>3, StackSeq, PlainLI DEF LInv
  <2>5. QED
    BY <1>1, <2>3, <2>4 DEF LInv
<1>6. CASE q # <<>>
  <2>1. /\ gEventQueue' = [gEventQueue EXCEPT ![p] = Tail(@)]
        /\ IEvent' = IEvent \/ IEvent' = [IEvent EXCEPT ![e].SignalCount = 0]
        /\ stack' = Call(s, RestoreFrame(p))
    BY <1>6 DEF DispatchNext
  <2>2. \A t \in NotifyTpls : gEventQueue'[t] = IF t = p THEN Tail(q) ELSE gEventQueue[t]
    BY <1>2, <2>1
  <2>3. /\ Head(q) = q[1] /\ 1 \in 1 .. Len(q)
        /\ \A i \in 1 .. Len(Tail(q)) : i + 1 \in 1 .. Len(q) /\ Tail(q)[i] = q[i + 1]
        /\ \A d : Out(q, d) => Out(Tail(q), d)
        /\ Unique(q) => Unique(Tail(q))
    <3> DEFINE r == Tail(q)
    <3>1. /\ q \in Seq(EventIds) /\ r \in Seq(EventIds) /\ Len(q) # 0 /\ Head(q) = q[1]
          /\ Len(r) = Len(q) - 1 /\ \A i \in 1 .. Len(r) : r[i] = q[i + 1]
      BY <1>2, <1>6, HeadTailProperties, EmptySeq
    <3> HIDE DEF q, r
    <3>2. /\ 1 \in 1 .. Len(q) /\ \A i \in 1 .. Len(r) : i + 1 \in 1 .. Len(q)
          /\ \A d : Out(q, d) => Out(r, d)
          /\ Unique(q) => Unique(r)
      BY ONLY <3>1, TailKeeps
    <3>3. QED
      BY <3>1, <3>2 DEF r
  <2>4. e \in EventIds
    BY <1>2, <2>3, ElementOfSeq
  <2>5. f \in Frames /\ f.k = "Dispatch"
    BY <1>2, <2>4 DEF Frame, Frames, Kinds, Pcs
  <2>6. SameTimers(IEvent, IEvent')
    BY <2>1, <2>4, SignalTimers, StackSeq
  <2>7. ~Hard(f) /\ ~Soft(f)
    BY <2>5 DEF Hard, Soft, Rearms
  <2>8. QueuesLive(gEventQueue', Signature) /\ Unqueued(stack, gEventQueue')
    <3>1. (\A i \in 1 .. Len(q) : q[i] \in Signature) /\ Unique(q)
      BY <1>2, <1>4 DEF QueuesLive
    <3>2. (\A i \in 1 .. Len(Tail(q)) : Tail(q)[i] \in Signature) /\ Unique(Tail(q))
      BY <2>3, <3>1
    <3>3. QueuesLive(gEventQueue', Signature)
      BY <1>4, <2>2, <3>2 DEF QueuesLive
    <3>4. Unqueued(stack, gEventQueue')
      BY <1>4, <2>2, <2>3 DEF Unqueued
    <3>5. QED
      BY <3>3, <3>4
  <2> HIDE DEF f, e
  <2>9. Plain(stack, s) /\ s \in Seq(Frames) /\ s # <<>>
    BY <1>3, <2>5, <2>7, StackSeq, PlainBecome
  <2> HIDE DEF s
  <2>10. Plain(stack, stack')
    BY <1>2, <2>1, <2>9, PlainRelease, PlainTrans
  <2>11. LI(stack', mEfiTimerList, gEventQueue', Signature, IEvent', UserEvents)
    BY <2>6, <2>8, <2>10, StackSeq, PlainLI DEF LInv
  <2>12. QED
    BY <1>1, <2>11 DEF LInv
<1>7. QED
  BY <1>5, <1>6

\* CoreDispatchEventNotifies calls the notification function.
LEMMA DispatchCallLists ==
  ASSUME IInv, LInv, DispatchCall
  PROVE  LInv'
<1> DEFINE f == Frame("Dispatch", "next", Top.tpl, NoEvent, 0)
           g == NotifyFrame(Top.tpl, Top.ev)
           s == Become(stack, f)
<1>1. /\ Top.k = "Dispatch" /\ stack' = Call(s, g)
      /\ UNCHANGED <<eventVars, mEfiTimerList, UserEvents>>
  BY DEF DispatchCall, Running, timerVars
<1>2. f \in Frames /\ f.k = "Dispatch"
  BY StackSeq DEF Frame, Frames, Kinds, Pcs
<1>3. g \in Frames /\ (g.k = "Notify" \/ (g.k = "Timers" /\ g.pc = "acquire"))
  BY StackSeq DEF NotifyFrame, Frame, Frames, Kinds, Pcs
<1>4. ~Hard(f) /\ ~Hard(g) /\ ~Soft(f) /\ ~Soft(g) /\ ~Hard(Top)
  BY <1>1, <1>2, <1>3 DEF Hard, Soft, Rearms
<1> HIDE DEF f, g
<1>5. Plain(stack, s) /\ s \in Seq(Frames) /\ s # <<>>
  BY <1>2, <1>4, StackSeq, PlainBecome
<1> HIDE DEF s
<1>6. Plain(stack, stack')
  BY <1>1, <1>3, <1>4, <1>5, PlainCall, PlainTrans
<1>7. QED
  BY <1>1, <1>6, PlainStep

\* The steps of CoreSignalEvent for a group: those that queue nothing.
LEMMA GroupLists ==
  ASSUME IInv, LInv, GroupList \/ GroupRelock
  PROVE  LInv'
<1> DEFINE f == Frame("List", "link", TPL_HIGH_LEVEL, Top.ev, 1)
           s == Goto(stack, "relock")
<1>1. Top.k = "Group" /\ UNCHANGED <<eventVars, mEfiTimerList, UserEvents>>
  BY DEF GroupList, GroupRelock, Running, timerVars
<1>2. ~Hard(Top)
  BY <1>1 DEF Hard, Rearms
<1>3. CASE GroupRelock
  <2>1. Plain(stack, stack')
    BY <1>2, <1>3, StackSeq, RestorePlain, PlainBecome DEF GroupRelock
  <2>2. QED
    BY <1>1, <2>1, PlainStep
<1>4. CASE GroupList
  <2>1. f \in Frames /\ f.k = "List"
    BY StackSeq, TplFacts DEF Frame, Frames, Kinds, Pcs
  <2>2. ~Hard(f) /\ ~Soft(f)
    BY <2>1 DEF Hard, Soft, Rearms
  <2>3. stack' = Call(s, f) /\ "relock" \in Pcs
    BY <1>4 DEF GroupList, Pcs
  <2> HIDE DEF f, s
  <2>4. Plain(stack, s) /\ s \in Seq(Frames) /\ s # <<>>
    BY <1>1, <2>3, StackSeq, PlainGoto DEF s
  <2>5. Plain(stack, stack')
    BY <2>1, <2>2, <2>3, <2>4, PlainCall, PlainTrans
  <2>6. QED
    BY <1>1, <2>5, PlainStep
<1>5. QED
  BY <1>3, <1>4

\* A plain step that queues at most one event, neither freed nor about to be.
LEMMA NotifyLists ==
  ASSUME IInv, LInv, Plain(stack, stack'),
         UNCHANGED <<IEvent, Signature, mEfiTimerList, UserEvents>>,
         \/ UNCHANGED gEventQueue
         \/ \E e \in Signature : /\ IsSignal(e) \/ IsWait(e)
                                 /\ NotFreed(stack, e) /\ CoreNotifyEvent(e)
  PROVE  LInv'
<1>1. QueuesLive(gEventQueue, Signature) /\ Unqueued(stack, gEventQueue)
  BY DEF LInv, LI
<1>2. QueuesLive(gEventQueue', Signature) /\ Unqueued(stack, gEventQueue')
  <2>1. CASE UNCHANGED gEventQueue
    BY <1>1, <2>1
  <2>2. ASSUME NEW e \in Signature, IsSignal(e) \/ IsWait(e), NotFreed(stack, e),
               CoreNotifyEvent(e)
        PROVE  QueuesLive(gEventQueue', Signature) /\ Unqueued(stack, gEventQueue')
    <3>1. e \in EventIds
      BY StackSeq
    <3>2. QED
      BY <1>1, <2>2, <3>1, StackSeq, NotifyTplOk, NotifyQueues
  <2>3. QED
    BY <2>1, <2>2
<1>3. SameTimers(IEvent, IEvent)
  BY DEF SameTimers
<1>4. LI(stack', mEfiTimerList, gEventQueue', Signature, IEvent, UserEvents)
  BY <1>2, <1>3, StackSeq, PlainLI DEF LInv
<1>5. QED
  BY <1>4 DEF LInv

\* CoreNotifySignalList queues the members of the group: what it finds on
\* gEventSignalQueue is not freed, and not about to be.
LEMMA SignalListLists ==
  ASSUME IInv, LInv, CoreNotifySignalList
  PROVE  LInv'
<1> DEFINE f == [Top EXCEPT !.x = @ + 1]
           e == gEventSignalQueue[Top.x]
<1>1. Top.k = "List" /\ UNCHANGED <<IEvent, Signature, mEfiTimerList, UserEvents>>
  BY DEF CoreNotifySignalList, Running, timerVars
<1>2. ~Hard(Top)
  BY <1>1 DEF Hard, Rearms
<1>3. CASE Top.x <= Len(gEventSignalQueue)
  <2>1. /\ CoreNotifyEvent(e) \/ UNCHANGED gEventQueue
        /\ stack' = Become(stack, f)
    <3>1. ~(Top.x > Len(gEventSignalQueue))
      BY <1>3, StackSeq, LenProperties DEF EventInv, SignalQueueOk
    <3>2. QED
      BY <1>3, <3>1 DEF CoreNotifySignalList
  <2>2. f \in Frames /\ f.k = "List"
    BY <1>1, StackSeq DEF Frames
  <2>3. ~Hard(f) /\ ~Soft(f)
    BY <2>2 DEF Hard, Soft, Rearms
  <2> HIDE DEF f
  <2>4. Plain(stack, stack')
    BY <1>2, <2>1, <2>2, <2>3, StackSeq, PlainBecome
  <2>5. Top.x \in 1 .. Len(gEventSignalQueue)
    <3>1. Top.x \in Nat /\ Top.x # 0
      BY <1>1, StackSeq, TopFacts DEF LocalOk
    <3>2. Len(gEventSignalQueue) \in Nat
      BY StackSeq, LenProperties DEF EventInv, SignalQueueOk
    <3>3. QED
      BY <1>3, <3>1, <3>2
  <2>6. e \in Signature /\ IsSignal(e)
    BY <2>5, StackSeq DEF EventInv, SignalQueueOk, IsSignal
  <2>7. NotFreed(stack, e)
    BY <2>5 DEF NotFreed, Freeing, IInv, StackInv, Stk, CloseOk
  <2>8. QED
    BY <1>1, <2>1, <2>4, <2>6, <2>7, NotifyLists
<1>4. CASE Top.x > Len(gEventSignalQueue)
  <2>1. stack' = Become(stack, RestoreFrame(Caller.tpl)) /\ UNCHANGED gEventQueue
    <3>1. ~(Top.x <= Len(gEventSignalQueue))
      BY <1>4, StackSeq, LenProperties DEF EventInv, SignalQueueOk
    <3>2. QED
      BY <1>4, <3>1 DEF CoreNotifySignalList
  <2>2. Caller.tpl \in Tpls
    <3>1. Len(stack) \in Nat /\ Len(stack) # 0 /\ Len(stack) # 1
      BY <1>1, TopFacts DEF Fits
    <3>2. Len(stack) - 1 \in 1 .. Len(stack)
      BY ONLY <3>1
    <3>3. QED
      <4>1. Caller \in Frames
        BY <3>2, StackSeq, ElementOfSeq DEF Caller
      <4>2. QED
        BY <4>1 DEF Frames
  <2>3. Plain(stack, stack')
    BY <1>2, <2>1, <2>2, StackSeq, RestorePlain, PlainBecome
  <2>4. QED
    BY <1>1, <2>1, <2>3, NotifyLists
<1>5. QED
  BY <1>3, <1>4 DEF CoreNotifySignalList

\* An event that is being checked or waited for is not about to be freed.
LEMMA CheckedNotFreed ==
  ASSUME IInv, LInv, NEW e,
         \/ Top.k = "Check" /\ e = Top.ev
         \/ Top.k = "Wait" /\ e = UserEvents[Top.x]
  PROVE  NotFreed(stack, e)
<1> SUFFICES ASSUME NEW i \in 1 .. Len(stack), Freeing(stack[i]) PROVE stack[i].ev # e
  BY DEF NotFreed
<1>1. ClosingAt(stack, i, stack[i].ev, mEfiTimerList, UserEvents)
  BY DEF LInv, LI, Closing, Freeing
<1>2. Len(stack) \in 1 .. Len(stack) /\ stack[Len(stack)] = Top
  BY TopFacts
<1>3. Top.k = "Wait" => Top.x \in 1 .. Len(UserEvents)
  BY <1>2 DEF IInv, StackInv, Stk, WaitOk
<1>4. QED
  BY <1>1, <1>2, <1>3 DEF ClosingAt, Out

\* The first half of CoreCheckEvent.
LEMMA CheckQueueLists ==
  ASSUME IInv, LInv, NEW e \in EventIds, NEW s, CheckQueue(e, s), Top.k \in {"Check", "Wait"},
         NotFreed(stack, e), Plain(stack, s), s \in Seq(Frames), s # <<>>,
         UNCHANGED <<timerVars, UserEvents>>
  PROVE  LInv'
<1>1. ~Hard(Top)
  BY DEF Hard, Rearms
<1>2. CASE stack' = Return(stack) /\ UNCHANGED eventVars
  BY <1>1, <1>2, StackSeq, PlainReturn, PlainStep DEF timerVars
<1>3. CASE stack' = s /\ UNCHANGED eventVars
  BY <1>3, PlainStep DEF timerVars
<1>4. CASE /\ e \in Signature /\ IsWait(e) /\ CoreNotifyEvent(e)
           /\ stack' = Call(s, RestoreFrame(Top.tpl)) /\ UNCHANGED <<IEvent, Signature>>
  <2>1. Plain(stack, stack')
    BY <1>4, StackSeq, PlainRelease, PlainTrans
  <2>2. QED
    BY <1>4, <2>1, NotifyLists DEF timerVars
<1>5. QED
  BY <1>2, <1>3, <1>4 DEF CheckQueue

\* The second half of CoreCheckEvent.
LEMMA CheckPollLists ==
  ASSUME IInv, LInv, NEW e \in EventIds, NEW s, CheckPoll(e, s), Top.k \in {"Check", "Wait"},
         Plain(stack, s), UNCHANGED <<timerVars, UserEvents>>
  PROVE  LInv'
<1>1. ~Hard(Top)
  BY DEF Hard, Rearms
<1>2. CASE stack' = s /\ UNCHANGED eventVars
  BY <1>2, PlainStep DEF timerVars
<1>3. CASE /\ IEvent' = [IEvent EXCEPT ![e].SignalCount = 0]
           /\ stack' = Become(stack, RestoreFrame(Top.tpl))
           /\ UNCHANGED <<gEventQueue, Signature>>
  <2>1. Plain(stack, stack')
    BY <1>1, <1>3, StackSeq, RestorePlain, PlainBecome
  <2>2. SameTimers(IEvent, IEvent')
    BY <1>3, StackSeq, SignalTimers
  <2>3. QueuesLive(gEventQueue, Signature) /\ Unqueued(stack, gEventQueue)
    BY DEF LInv, LI
  <2>4. LI(stack', mEfiTimerList, gEventQueue, Signature, IEvent', UserEvents)
    BY <2>1, <2>2, <2>3, StackSeq, PlainLI DEF LInv
  <2>5. QED
    BY <1>3, <2>4 DEF LInv, timerVars
<1>4. QED
  BY <1>2, <1>3 DEF CheckPoll

\* CoreCheckEvent and CoreWaitForEvent.
LEMMA CheckLists ==
  ASSUME IInv, LInv, CoreCheckEvent \/ CoreWaitForEvent
  PROVE  LInv'
<1>1. Top.k \in {"Check", "Wait"} /\ UNCHANGED <<timerVars, UserEvents>>
  BY DEF CoreCheckEvent, CoreWaitForEvent, Running
<1>2. ~Hard(Top) /\ Top.k \notin {"SetTimer", "Close", "Timers"}
  BY <1>1 DEF Hard, Rearms
<1>3. "poll" \in Pcs /\ "queue" \in Pcs
  BY DEF Pcs
<1>4. \A pc \in Pcs : /\ Plain(stack, Goto(stack, pc)) /\ Goto(stack, pc) \in Seq(Frames)
                      /\ Goto(stack, pc) # <<>>
  BY <1>2, StackSeq, PlainGoto
<1>5. Plain(stack, Return(stack))
  BY <1>2, StackSeq, PlainReturn
<1>6. CASE CoreCheckEvent
  <2>1. Top.k = "Check" /\ Top.ev \in EventIds
    BY <1>6, TopFacts DEF CoreCheckEvent, Running, LocalOk, EventIds
  <2>2. NotFreed(stack, Top.ev)
    BY <2>1, CheckedNotFreed
  <2>3. CASE CheckQueue(Top.ev, Goto(stack, "poll"))
    BY <1>1, <1>3, <1>4, <2>1, <2>2, <2>3, CheckQueueLists
  <2>4. CASE CheckPoll(Top.ev, Return(stack))
    BY <1>1, <1>5, <2>1, <2>4, CheckPollLists
  <2>5. QED
    BY <1>6, <2>3, <2>4 DEF CoreCheckEvent
<1>7. CASE CoreWaitForEvent
  <2> DEFINE e == UserEvents[Top.x]
  <2>1. Top.k = "Wait"
    BY <1>7 DEF CoreWaitForEvent, Running
  <2>2. e \in EventIds
    <3>1. Top.x \in 1 .. Len(UserEvents)
      BY <2>1, TopFacts DEF IInv, StackInv, Stk, WaitOk
    <3>2. QED
      BY <3>1, ElementOfSeq DEF IInv, CallInv, EventIds
  <2>3. NotFreed(stack, e)
    BY <2>1, CheckedNotFreed
  <2>4. CASE CheckQueue(e, Goto(stack, "poll"))
    BY <1>1, <1>3, <1>4, <2>2, <2>3, <2>4, CheckQueueLists
  <2>5. CASE CheckPoll(e, Become(stack, WaitNext))
    <3>1. WaitNext \in Frames /\ WaitNext.k = "Wait" /\ WaitNext.ev = NoEvent
      <4>1. /\ NoEvent \in EventIds \cup {NoEvent} /\ Top.x + 1 \in Nat /\ 1 \in Nat
            /\ "Wait" \in Kinds /\ "idle" \in Pcs /\ "queue" \in Pcs /\ Top.tpl \in Tpls
        BY StackSeq DEF Kinds, Pcs
      <4>2. \/ WaitNext = Frame("Wait", "queue", Top.tpl, NoEvent, Top.x + 1)
            \/ WaitNext = Frame("Wait", "idle", Top.tpl, NoEvent, 1)
        BY DEF WaitNext
      <4>3. QED
        BY <4>1, <4>2 DEF Frame, Frames
    <3>2. Top.ev = NoEvent
      BY <2>1, TopFacts DEF LocalOk
    <3>3. ~Hard(WaitNext)
      BY <3>1 DEF Hard, Rearms
    <3>4. Plain(stack, Become(stack, WaitNext))
      BY <1>2, <2>1, <3>1, <3>2, <3>3, StackSeq, PlainBecome
    <3>5. QED
      BY <1>1, <2>2, <2>5, <3>4, CheckPollLists
  <2>6. CASE CoreSignalEvent(gIdleLoopEvent, Goto(stack, "queue"), Top.tpl)
    <3> DEFINE s == Goto(stack, "queue")
    <3>1. Plain(stack, s) /\ s \in Seq(Frames) /\ s # <<>>
      BY <1>3, <1>4
    <3>2. SameTimers(IEvent, IEvent)
      BY DEF SameTimers
    <3>3. QueuesLive(gEventQueue, Signature) /\ Unqueued(stack, gEventQueue)
      BY DEF LInv, LI
    <3> HIDE DEF s
    <3>4. LI(s, mEfiTimerList, gEventQueue, Signature, IEvent, UserEvents)
      BY <3>1, <3>2, <3>3, StackSeq, PlainLI DEF LInv
    <3>5. NotFreed(s, gIdleLoopEvent)
      <4>1. NotFreed(stack, gIdleLoopEvent)
        BY BuiltInNotFreed
      <4>2. \A f : Freeing(f) => Hard(f)
        BY DEF Freeing, Hard
      <4>3. QED
        BY <3>1, <4>1, <4>2 DEF NotFreed, Plain
    <3>6. gIdleLoopEvent \in Signature
      BY DEF LInv, LI
    <3>7. LI(stack', mEfiTimerList, gEventQueue', Signature', IEvent', UserEvents)
      BY <2>6, <3>1, <3>4, <3>5, <3>6, StackSeq, SignalLists DEF s
    <3>8. QED
      BY <1>1, <3>7 DEF LInv, timerVars
  <2>7. QED
    BY <1>7, <2>4, <2>5, <2>6 DEF CoreWaitForEvent
<1>8. QED
  BY <1>6, <1>7

-----------------------------------------------------------------------------
(***************************************************************************)
(* Steps of CoreCheckTimers and CoreSetTimer.  Their activations hold the  *)
(* timer lock, so that only the running one can be one of them.            *)
(***************************************************************************)

\* No activation below one that is not part of a critical section holds the lock.
LEMMA OnlyTop ==
  ASSUME IInv, Top.k \notin {"Restore", "Irq", "Group", "List"}
  PROVE  \A i \in 1 .. Len(stack) : i # Len(stack) =>
           ~Rearms(stack[i]) /\ ~Arms(stack[i]) /\ stack[i].k # "SetTimer"
<1>1. Len(stack) \in Nat /\ \A i \in 1 .. Len(stack) - 1 : ~Holds(stack[i])
  BY TopFacts DEF Fits
<1>2. \A i \in 1 .. Len(stack) : i # Len(stack) => i \in 1 .. Len(stack) - 1
  BY <1>1
<1>3. QED
  BY <1>1, <1>2 DEF Holds, Rearms, Arms

\* What LI says when g is the running timer activation.
TopFlight(g, l, ie) ==
  /\ Rearms(g) \/ g.k = "SetTimer" => LiveTimer(g.ev, Signature, ie)
  /\ Rearms(g) \/ Arms(g) => Out(l, g.ev)
TopClosed(g, l) ==
  \A i \in 1 .. Len(stack) : stack[i].k = "Close" /\ stack[i].pc \in {"unlink", "free"} =>
    /\ \/ Out(l, stack[i].ev)
       \/ stack[i].pc = "unlink" /\ i + 1 = Len(stack) /\ Cancels(g, stack[i].ev)
    /\ Rearms(g) => g.ev # stack[i].ev
TopKept(g, l, ie) ==
  \A e \in Signature : ie[e].Period # 0 =>
    ~Out(l, e) \/ ((Rearms(g) \/ Arms(g)) /\ g.ev = e)

\* A running timer activation is the only one that holds a timer, so that the
\* invariant about all activations is one about it.
LEMMA TopTimers ==
  ASSUME IInv, LInv, Top.k \in {"Timers", "SetTimer"}
  PROVE  /\ TopFlight(Top, mEfiTimerList, IEvent) /\ TopClosed(Top, mEfiTimerList)
         /\ TopKept(Top, mEfiTimerList, IEvent)
<1>1. /\ Len(stack) \in Nat /\ Len(stack) \in 1 .. Len(stack) /\ stack[Len(stack)] = Top
      /\ \A i \in 1 .. Len(stack) : i # Len(stack) =>
           ~Rearms(stack[i]) /\ ~Arms(stack[i]) /\ stack[i].k # "SetTimer"
  BY TopFacts, OnlyTop
<1>2. TopFlight(Top, mEfiTimerList, IEvent)
  BY <1>1 DEF LInv, LI, InFlight, TopFlight
<1>3. TopKept(Top, mEfiTimerList, IEvent)
  BY <1>1 DEF LInv, LI, Kept, TopKept
<1>4. TopClosed(Top, mEfiTimerList)
  <2> SUFFICES ASSUME NEW i \in 1 .. Len(stack), stack[i].k = "Close",
                      stack[i].pc \in {"unlink", "free"}
               PROVE  /\ \/ Out(mEfiTimerList, stack[i].ev)
                         \/ /\ stack[i].pc = "unlink" /\ i + 1 = Len(stack)
                            /\ Cancels(Top, stack[i].ev)
                      /\ Rearms(Top) => Top.ev # stack[i].ev
    BY DEF TopClosed
  <2>1. ClosingAt(stack, i, stack[i].ev, mEfiTimerList, UserEvents)
    BY DEF LInv, LI, Closing
  <2>2. Rearms(Top) => Top.ev # stack[i].ev
    BY <1>1, <2>1 DEF ClosingAt
  <2>3. \/ Out(mEfiTimerList, stack[i].ev)
        \/ /\ stack[i].pc = "unlink" /\ i + 1 \in 1 .. Len(stack)
           /\ Cancels(stack[i + 1], stack[i].ev)
    BY <2>1 DEF ClosingAt
  <2>4. QED
    BY <1>1, <2>2, <2>3 DEF Cancels
<1>5. QED
  BY <1>2, <1>3, <1>4

\* LI again after the running timer activation has gone on as g.
LEMMA TimerTop ==
  ASSUME IInv, LInv, Top.k \in {"Timers", "SetTimer"}, NEW g \in Frames,
         g.k \notin {"Close", "Check", "Wait"},
         g.k = "SetTimer" => /\ Top.k = "SetTimer" /\ g.ev = Top.ev
                             /\ Top.pc \in {"TimerCancel", "release"} =>
                                  g.pc \in {"TimerCancel", "release"},
         NEW l, NEW ie, TimersLive(l, Signature, ie),
         TopFlight(g, l, ie), TopClosed(g, l), TopKept(g, l, ie), NEW s, s = Become(stack, g)
  PROVE  /\ LI(s, l, gEventQueue, Signature, ie, UserEvents)
         /\ s \in Seq(Frames) /\ s # <<>>
         /\ \A e : NotFreed(stack, e) => NotFreed(s, e)
<1> DEFINE n == Len(stack)
<1>1. /\ n \in Nat /\ n \in 1 .. n /\ stack[n] = Top
      /\ \A i \in 1 .. n : i # n =>
           ~Rearms(stack[i]) /\ ~Arms(stack[i]) /\ stack[i].k # "SetTimer"
  BY TopFacts, OnlyTop
<1>2. /\ s \in Seq(Frames) /\ s # <<>> /\ Len(s) = n /\ s[n] = g
      /\ \A i \in 1 .. n : i # n => s[i] = stack[i]
  <2>1. stack \in Seq(Frames) /\ stack # <<>>
    BY StackSeq
  <2>2. QED
    BY ONLY g \in Frames, s = Become(stack, g), <2>1, StackShapes, ZenonT(40)
<1> HIDE DEF n
<1>3. /\ {mEfiCheckTimerEvent, gIdleLoopEvent} \subseteq Signature
      /\ QueuesLive(gEventQueue, Signature)
      /\ Closing(stack, mEfiTimerList, UserEvents) /\ Unqueued(stack, gEventQueue)
  BY DEF LInv, LI
<1>4. InFlight(s, l, Signature, ie)
  BY <1>1, <1>2 DEF InFlight, TopFlight
<1>5. Kept(s, l, Signature, ie)
  BY <1>1, <1>2 DEF Kept, TopKept
<1>6. Unqueued(s, gEventQueue)
  BY <1>1, <1>2, <1>3 DEF Unqueued, Freeing, n
<1>7. \A e : NotFreed(stack, e) => NotFreed(s, e)
  BY <1>1, <1>2 DEF NotFreed, Freeing, n
<1>8. Closing(s, l, UserEvents)
  <2> SUFFICES ASSUME NEW i \in 1 .. n, s[i].k = "Close"
               PROVE  ClosingAt(s, i, s[i].ev, l, UserEvents)
    BY <1>2 DEF Closing
  <2>1. i # n /\ s[i] = stack[i]
    BY <1>2
  <2>2. ClosingAt(stack, i, stack[i].ev, mEfiTimerList, UserEvents)
    BY <1>3, <2>1 DEF Closing, n
  <2>3. /\ \A j \in 1 .. n : s[j].k = "Check" => s[j].ev # s[i].ev
        /\ \A j \in 1 .. n : s[j].k = "Wait" => Out(UserEvents, s[i].ev)
    BY <1>2, <2>1, <2>2 DEF ClosingAt, n
  <2>4. ASSUME NEW j \in 1 .. n, s[j].k = "SetTimer", s[j].ev = s[i].ev
        PROVE  j = i + 1 /\ s[j].pc \in {"TimerCancel", "release"} /\ s[i].pc = "unlink"
    <3>1. j = n /\ s[j] = g
      BY <1>1, <1>2, <2>4
    <3>2. Top.k = "SetTimer" /\ Top.ev = stack[i].ev
      BY <2>1, <2>4, <3>1
    <3>3. n = i + 1 /\ Top.pc \in {"TimerCancel", "release"} /\ stack[i].pc = "unlink"
      BY <1>1, <2>2, <3>2 DEF ClosingAt, n
    <3>4. QED
      BY <2>1, <2>4, <3>1, <3>3
  <2>5. s[i].pc \in {"unlink", "free"} =>
          /\ \/ Out(l, s[i].ev)
             \/ s[i].pc = "unlink" /\ i + 1 = n /\ Cancels(g, s[i].ev)
          /\ Rearms(g) => g.ev # s[i].ev
    BY <2>1 DEF TopClosed, n
  <2>6. s[i].pc \in {"unlink", "free"} =>
          \A j \in 1 .. n : Rearms(s[j]) => s[j].ev # s[i].ev
    BY <1>1, <1>2, <2>5
  <2>7. s[i].pc = "unlink" => Out(l, s[i].ev) \/ (i + 1 \in 1 .. n /\ Cancels(s[i + 1], s[i].ev))
    BY <1>1, <1>2, <2>5
  <2>8. s[i].pc = "free" => Out(l, s[i].ev)
    BY <2>5
  <2>9. QED
    BY <1>2, <2>3, <2>4, <2>6, <2>7, <2>8 DEF ClosingAt
<1>9. QED
  BY <1>2, <1>3, <1>4, <1>5, <1>6, <1>7, <1>8 DEF LI

\* CoreCheckTimers takes the lock and reads the time.
LEMMA TimersAcquireLists ==
  ASSUME IInv, LInv, TimersAcquire
  PROVE  LInv'
<1> DEFINE f == [Top EXCEPT !.pc = "scan", !.x = mEfiSystemTime]
           s == Become(stack, f)
<1>1. /\ Top.k = "Timers" /\ Top.pc = "acquire"
      /\ stack' = Call(s, RestoreFrame(TIMER_LOCK_TPL))
      /\ UNCHANGED <<eventVars, mEfiTimerList, UserEvents>>
  BY DEF TimersAcquire, Running
<1>2. f \in Frames /\ f.k = "Timers" /\ f.pc = "scan"
  <2>1. mEfiSystemTime \in Nat
    BY DEF IInv, TimerInv
  <2>2. QED
    BY <1>1, <2>1, StackSeq DEF Frames, Pcs
<1>3. ~Hard(f) /\ ~Soft(f) /\ ~Hard(Top)
  BY <1>1, <1>2 DEF Hard, Soft, Rearms
<1> HIDE DEF f
<1>4. Plain(stack, s) /\ s \in Seq(Frames) /\ s # <<>>
  BY <1>2, <1>3, StackSeq, PlainBecome
<1>5. TIMER_LOCK_TPL \in Tpls
  BY TplFacts
<1> HIDE DEF s
<1>6. Plain(stack, stack')
  BY <1>1, <1>4, <1>5, PlainRelease, PlainTrans
<1>7. QED
  BY <1>1, <1>6, PlainStep

\* OwnerTpl of the timer lock is the level of the caller of the running holder.
LEMMA OwnerTpl ==
  ASSUME IInv, Holds(Top)
  PROVE  mEfiTimerLock \in Tpls
<1>1. Len(stack) \in Nat /\ Len(stack) # 0 /\ Len(stack) # 1 /\ stack[Len(stack)] = Top
  BY TopFacts DEF Fits, Holds
<1>2. Len(stack) \in 1 .. Len(stack) /\ Len(stack) - 1 \in 1 .. Len(stack)
  BY ONLY <1>1
<1>3. mEfiTimerLock = stack[Len(stack) - 1].tpl
  BY <1>1, <1>2 DEF IInv, StackInv, Stk, LockOk
<1>4. stack[Len(stack) - 1] \in Frames
  BY <1>2, StackSeq, ElementOfSeq
<1>5. QED
  BY <1>3, <1>4 DEF Frames

\* Timers at the head of the list expire.
LEMMA TimersScanLists ==
  ASSUME IInv, LInv, TimersScan
  PROVE  LInv'
<1> DEFINE l == mEfiTimerList
           r == Tail(l)
           e == Head(l)
           g == [Top EXCEPT !.pc = "rearm", !.ev = e]
           s == Become(stack, g)
<1>1. Top.k = "Timers" /\ Top.pc = "scan" /\ UNCHANGED UserEvents
  BY DEF TimersScan, Running
<1>2. CASE /\ stack' = Become(stack, RestoreFrame(mEfiTimerLock))
           /\ UNCHANGED <<eventVars, mEfiTimerList>>
  <2>1. /\ stack' = Become(stack, RestoreFrame(mEfiTimerLock))
        /\ UNCHANGED <<eventVars, mEfiTimerList>>
    BY <1>2
  <2>2. mEfiTimerLock \in Tpls
    BY <1>1, OwnerTpl DEF Holds
  <2>3. ~Hard(Top)
    BY <1>1 DEF Hard, Rearms
  <2>4. Plain(stack, stack')
    BY <2>1, <2>2, <2>3, StackSeq, RestorePlain, PlainBecome
  <2>5. QED
    BY <1>1, <2>1, <2>4, PlainStep
<1>3. CASE l # <<>> /\ mEfiTimerList' = r /\ CoreSignalEvent(e, s, Top.tpl)
  <2>0. l \in Seq(EventIds)
    BY DEF IInv, TimerInv
  <2>1. /\ r \in Seq(EventIds) /\ Len(l) # 0 /\ e = l[1] /\ Len(r) = Len(l) - 1
        /\ \A i \in 1 .. Len(r) : r[i] = l[i + 1]
    BY <1>3, <2>0, HeadTailProperties, EmptySeq
  <2>2. TimersLive(l, Signature, IEvent)
    BY DEF LInv, LI
  <2> HIDE DEF l, r, e
  <2>3. /\ 1 \in 1 .. Len(l) /\ \A i \in 1 .. Len(r) : i + 1 \in 1 .. Len(l)
        /\ \A d : Out(l, d) => Out(r, d)
        /\ \A d : d # e /\ Out(r, d) => Out(l, d)
        /\ Unique(l) => Unique(r) /\ Out(r, e)
        /\ \A ie : Sorted(l, ie) => Sorted(r, ie)
    BY <2>0, <2>1, TailKeeps
  <2>4. LiveTimer(e, Signature, IEvent) /\ Out(r, e) /\ e \in Signature
    BY <2>1, <2>2, <2>3 DEF TimersLive, LiveTimer
  <2>5. TimersLive(r, Signature, IEvent)
    BY <2>1, <2>2, <2>3 DEF TimersLive
  <2>6. g \in Frames /\ g.k = "Timers" /\ g.pc = "rearm" /\ g.ev = e
    BY <1>1, <2>4, StackSeq DEF Frames, Pcs
  <2>7. Rearms(g) /\ ~Arms(g) /\ \A d : ~Cancels(g, d)
    BY <2>6 DEF Rearms, Arms, Cancels
  <2>8. ~Rearms(Top) /\ ~Arms(Top) /\ \A d : ~Cancels(Top, d)
    BY <1>1 DEF Rearms, Arms, Cancels
  <2> HIDE DEF g
  <2>9. TopClosed(Top, l) /\ TopKept(Top, l, IEvent)
    BY <1>1, TopTimers DEF l
  <2>10. ~Out(l, e)
    BY <2>1, <2>3 DEF Out
  <2>11. TopFlight(g, r, IEvent) /\ TopClosed(g, r) /\ TopKept(g, r, IEvent)
    <3>1. TopFlight(g, r, IEvent)
      BY <2>4, <2>6 DEF TopFlight
    <3>2. TopClosed(g, r)
      BY <2>3, <2>6, <2>8, <2>9, <2>10 DEF TopClosed
    <3>3. TopKept(g, r, IEvent)
      BY <2>3, <2>6, <2>7, <2>8, <2>9 DEF TopKept
    <3>4. QED
      BY <3>1, <3>2, <3>3
  <2>12. /\ LI(s, r, gEventQueue, Signature, IEvent, UserEvents)
         /\ s \in Seq(Frames) /\ s # <<>>
         /\ \A d : NotFreed(stack, d) => NotFreed(s, d)
    BY <1>1, <2>5, <2>6, <2>11, TimerTop
  <2>13. NotFreed(stack, e)
    BY <2>8, <2>9, <2>10 DEF NotFreed, Freeing, TopClosed
  <2> HIDE DEF s
  <2>14. LI(stack', r, gEventQueue', Signature', IEvent', UserEvents)
    BY <1>3, <2>4, <2>12, <2>13, StackSeq, SignalLists
  <2>15. QED
    BY <1>1, <1>3, <2>14 DEF LInv
<1>4. QED
  BY <1>2, <1>3 DEF TimersScan

\* The times of an event that is not in the list may change.
LEMMA TimesChange ==
  ASSUME EventInv, NEW l \in Seq(EventIds), NEW e \in EventIds, NEW ie, Out(l, e),
         TimersLive(l, Signature, IEvent),
         \A d \in EventIds : ie[d].Type = IEvent[d].Type,
         \A d \in EventIds : d # e => ie[d].TriggerTime = IEvent[d].TriggerTime
  PROVE  TimersLive(l, Signature, ie)
<1>1. \A i \in 1 .. Len(l) : l[i] \in EventIds /\ l[i] # e
  BY ElementOfSeq DEF Out
<1>2. QED
  BY <1>1 DEF TimersLive, LiveTimer, Sorted

\* The fields of the event structures after new times for e.
LEMMA TimesFields ==
  ASSUME EventInv, NEW e \in EventIds, NEW n, NEW p,
         \/ IEvent' = [IEvent EXCEPT ![e].TriggerTime = n]
         \/ IEvent' = [IEvent EXCEPT ![e].TriggerTime = n, ![e].Period = p]
  PROVE  /\ \A d \in EventIds : IEvent'[d].Type = IEvent[d].Type
         /\ \A d \in EventIds : d # e => IEvent'[d] = IEvent[d]
         /\ IEvent' = [IEvent EXCEPT ![e].TriggerTime = n] =>
              IEvent'[e].Period = IEvent[e].Period
         /\ IEvent' = [IEvent EXCEPT ![e].TriggerTime = n, ![e].Period = p] =>
              IEvent'[e].Period = p
<1>1. IEvent \in [EventIds -> EventStructs]
  BY DEF EventInv, StructOk
<1>2. CASE IEvent' = [IEvent EXCEPT ![e].TriggerTime = n]
  <2>1. /\ \A d \in EventIds : d # e => IEvent'[d] = IEvent[d]
        /\ IEvent'[e] = [IEvent[e] EXCEPT !.TriggerTime = n]
    BY <1>1, <1>2
  <2>2. IEvent'[e].Type = IEvent[e].Type /\ IEvent'[e].Period = IEvent[e].Period
    BY <1>1, <2>1 DEF EventStructs
  <2>3. IEvent' = [IEvent EXCEPT ![e].TriggerTime = n, ![e].Period = p] =>
          IEvent'[e].Period = p
    BY <1>1 DEF EventStructs
  <2>4. QED
    BY <2>1, <2>2, <2>3
<1>3. CASE IEvent' = [IEvent EXCEPT ![e].TriggerTime = n, ![e].Period = p]
  <2>1. /\ \A d \in EventIds : d # e => IEvent'[d] = IEvent[d]
        /\ IEvent'[e] = [IEvent[e] EXCEPT !.TriggerTime = n, !.Period = p]
    BY <1>1, <1>3
  <2>2. IEvent'[e].Type = IEvent[e].Type /\ IEvent'[e].Period = p
    BY <1>1, <2>1 DEF EventStructs
  <2>3. IEvent' = [IEvent EXCEPT ![e].TriggerTime = n] =>
          IEvent'[e].Period = IEvent[e].Period
    BY <1>1 DEF EventStructs
  <2>4. QED
    BY <2>1, <2>2, <2>3
<1>4. QED
  BY <1>2, <1>3

\* The lists as the timer steps find them.
LEMMA TimerLists ==
  ASSUME IInv, LInv
  PROVE  /\ mEfiTimerList \in Seq(EventIds) /\ TimersLive(mEfiTimerList, Signature, IEvent)
         /\ IEvent \in [EventIds -> EventStructs]
         /\ {mEfiCheckTimerEvent, gIdleLoopEvent} \subseteq Signature
         /\ EventInv /\ Signature \subseteq EventIds
BY StackSeq DEF IInv, TimerInv, LInv, LI, EventInv, StructOk

\* Going on is becoming the same activation at another program counter.
LEMMA GotoIs == \A pc : Goto(stack, pc) = Become(stack, [Top EXCEPT !.pc = pc])
BY DEF Goto, Become, Top

\* CoreCheckTimers computes the next time of a periodic timer.
LEMMA TimersRearmLists ==
  ASSUME IInv, LInv, TimersRearm
  PROVE  LInv'
<1> DEFINE e == Top.ev
           l == mEfiTimerList
<1>1. Top.k = "Timers" /\ Top.pc = "rearm"
      /\ UNCHANGED <<gEventQueue, Signature, mEfiTimerList, UserEvents>>
  BY DEF TimersRearm, Running, timerVars
<1>2. Rearms(Top) /\ ~Arms(Top) /\ \A d : ~Cancels(Top, d)
  BY <1>1 DEF Rearms, Arms, Cancels
<1>3. TopFlight(Top, l, IEvent) /\ TopClosed(Top, l) /\ TopKept(Top, l, IEvent)
  BY <1>1, TopTimers
<1>4. LiveTimer(e, Signature, IEvent) /\ Out(l, e) /\ e \in EventIds
  BY <1>2, <1>3, StackSeq DEF TopFlight, LiveTimer
<1>5. CASE IEvent[e].Period = 0 /\ stack' = Goto(stack, "scan") /\ UNCHANGED IEvent
  <2> DEFINE g == [Top EXCEPT !.pc = "scan"]
  <2>1. g \in Frames /\ g.k = "Timers" /\ g.pc = "scan"
    BY <1>1, StackSeq, GotoFrame DEF Pcs
  <2>2. ~Rearms(g) /\ ~Arms(g)
    BY <2>1 DEF Rearms, Arms
  <2>3. stack' = Become(stack, g)
    BY <1>5, GotoIs
  <2> HIDE DEF g
  <2>4. TopFlight(g, l, IEvent) /\ TopClosed(g, l) /\ TopKept(g, l, IEvent)
    BY <1>2, <1>3, <1>5, <2>1, <2>2 DEF TopFlight, TopClosed, TopKept
  <2>5. LI(stack', l, gEventQueue, Signature, IEvent, UserEvents)
    BY <1>1, <2>1, <2>3, <2>4, TimerLists, TimerTop
  <2>6. QED
    BY <1>1, <1>5, <2>5 DEF LInv
<1>6. ASSUME NEW n, NEW pc \in {"insert", "kick"}, stack' = Goto(stack, pc),
             IEvent' = [IEvent EXCEPT ![e].TriggerTime = n]
      PROVE  LInv'
  <2> DEFINE g == [Top EXCEPT !.pc = pc]
  <2>1. g \in Frames /\ g.k = "Timers" /\ g.pc = pc /\ g.ev = e
    BY <1>1, StackSeq, GotoFrame DEF Pcs
  <2>2. Rearms(g) /\ ~Arms(g)
    BY <2>1 DEF Rearms, Arms
  <2>3. stack' = Become(stack, g)
    BY <1>6, GotoIs
  <2>4. /\ \A d \in EventIds : IEvent'[d].Type = IEvent[d].Type
        /\ \A d \in EventIds : IEvent'[d].Period = IEvent[d].Period
        /\ \A d \in EventIds : d # e => IEvent'[d].TriggerTime = IEvent[d].TriggerTime
    BY <1>4, <1>6, StackSeq, TimesFields
  <2>5. TimersLive(l, Signature, IEvent')
    BY <1>4, <2>4, TimerLists, TimesChange
  <2> HIDE DEF g
  <2>6. TopFlight(g, l, IEvent') /\ TopClosed(g, l) /\ TopKept(g, l, IEvent')
    <3>1. LiveTimer(e, Signature, IEvent')
      BY <1>4, <2>4 DEF LiveTimer
    <3>2. TopFlight(g, l, IEvent')
      BY <1>4, <2>1, <3>1 DEF TopFlight
    <3>3. TopClosed(g, l)
      BY <1>2, <1>3, <2>1 DEF TopClosed
    <3>4. TopKept(g, l, IEvent')
      BY <1>2, <1>3, <2>1, <2>2, <2>4, StackSeq DEF TopKept
    <3>5. QED
      BY <3>2, <3>3, <3>4
  <2>7. LI(stack', l, gEventQueue, Signature, IEvent', UserEvents)
    BY <1>1, <2>1, <2>3, <2>5, <2>6, TimerTop
  <2>8. QED
    BY <1>1, <2>7 DEF LInv
<1>7. QED
  BY <1>5, <1>6 DEF TimersRearm

\* CoreCheckTimers signals its own event for a timer that is behind.
LEMMA TimersKickLists ==
  ASSUME IInv, LInv, TimersKick
  PROVE  LInv'
<1> DEFINE g == [Top EXCEPT !.pc = "insert"]
           s == Goto(stack, "insert")
           l == mEfiTimerList
<1>1. /\ Top.k = "Timers" /\ Top.pc = "kick" /\ UNCHANGED <<mEfiTimerList, UserEvents>>
      /\ CoreSignalEvent(mEfiCheckTimerEvent, s, Top.tpl)
  BY DEF TimersKick, Running, timerVars
<1>2. g \in Frames /\ g.k = "Timers" /\ g.pc = "insert" /\ g.ev = Top.ev
  BY <1>1, StackSeq, GotoFrame DEF Pcs
<1>3. Rearms(g) /\ ~Arms(g) /\ Rearms(Top) /\ \A d : ~Cancels(Top, d)
  BY <1>1, <1>2 DEF Rearms, Arms, Cancels
<1>4. s = Become(stack, g)
  BY GotoIs
<1> HIDE DEF g, s
<1>5. TopFlight(Top, l, IEvent) /\ TopClosed(Top, l) /\ TopKept(Top, l, IEvent)
  BY <1>1, TopTimers
<1>6. TopFlight(g, l, IEvent) /\ TopClosed(g, l) /\ TopKept(g, l, IEvent)
  BY <1>2, <1>3, <1>5 DEF TopFlight, TopClosed, TopKept
<1>7. /\ LI(s, l, gEventQueue, Signature, IEvent, UserEvents)
      /\ s \in Seq(Frames) /\ s # <<>>
      /\ \A d : NotFreed(stack, d) => NotFreed(s, d)
  BY <1>1, <1>2, <1>4, <1>6, TimerLists, TimerTop
<1>8. NotFreed(s, mEfiCheckTimerEvent) /\ mEfiCheckTimerEvent \in Signature
  BY <1>7, BuiltInNotFreed, TimerLists
<1>9. LI(stack', l, gEventQueue', Signature', IEvent', UserEvents)
  BY <1>1, <1>7, <1>8, StackSeq, SignalLists
<1>10. QED
  BY <1>1, <1>9 DEF LInv

\* Inserting the timer that the running activation holds: it becomes g.
LEMMA InsertTop ==
  ASSUME IInv, LInv, Top.k \in {"Timers", "SetTimer"}, Rearms(Top) \/ Arms(Top),
         CoreInsertEventTimer(Top.ev), NEW pc \in {"scan", "release"},
         Top.k = "Timers" => pc = "scan", Top.k = "SetTimer" => pc = "release",
         NEW s, s = Goto(stack, pc)
  PROVE  /\ LI(s, mEfiTimerList', gEventQueue, Signature, IEvent, UserEvents)
         /\ s \in Seq(Frames) /\ s # <<>>
         /\ \A d : NotFreed(stack, d) => NotFreed(s, d)
<1> DEFINE g == [Top EXCEPT !.pc = pc]
           l == mEfiTimerList
           r == mEfiTimerList'
           e == Top.ev
<1>1. g \in Frames /\ g.k = Top.k /\ g.pc = pc /\ g.ev = e
  BY StackSeq, GotoFrame DEF Pcs
<1>2. ~Rearms(g) /\ ~Arms(g) /\ ~(Top.k = "SetTimer" /\ Top.pc \in {"TimerCancel", "release"})
  BY <1>1 DEF Rearms, Arms
<1>3. s = Become(stack, g)
  BY GotoIs
<1> HIDE DEF g
<1>4. TopFlight(Top, l, IEvent) /\ TopClosed(Top, l) /\ TopKept(Top, l, IEvent)
  BY TopTimers
<1>5. Out(l, e) /\ LiveTimer(e, Signature, IEvent) /\ e \in EventIds
  BY <1>4, StackSeq DEF TopFlight, LiveTimer, Arms
<1>6. /\ \A d : d # e /\ Out(l, d) => Out(r, d)
      /\ \A d : Out(r, d) => Out(l, d) /\ d # e
      /\ Unique(l) /\ Out(l, e) => Unique(r)
      /\ Sorted(l, IEvent) => Sorted(r, IEvent)
      /\ \A i \in 1 .. Len(r) : r[i] = e \/ \E j \in 1 .. Len(l) : r[i] = l[j]
  BY <1>5, TimerLists, InsertKeeps
<1>7. TimersLive(l, Signature, IEvent)
  BY TimerLists
<1> HIDE DEF l, r, e
<1>8. TimersLive(r, Signature, IEvent)
  BY <1>5, <1>6, <1>7 DEF TimersLive
<1>9. TopFlight(g, r, IEvent)
  BY <1>1, <1>2, <1>5 DEF TopFlight
<1>10. TopKept(g, r, IEvent)
  BY <1>4, <1>6 DEF TopKept, e
<1>11. TopClosed(g, r)
  <2> SUFFICES ASSUME NEW i \in 1 .. Len(stack), stack[i].k = "Close",
                      stack[i].pc \in {"unlink", "free"}
               PROVE  Out(r, stack[i].ev)
    BY <1>2 DEF TopClosed
  <2>1. Out(l, stack[i].ev)
    BY <1>2, <1>4 DEF TopClosed, Cancels
  <2>2. stack[i].ev # e
    <3>1. CASE Rearms(Top)
      BY <1>4, <3>1 DEF TopClosed, e
    <3>2. CASE Arms(Top)
      <4>1. ClosingAt(stack, i, stack[i].ev, mEfiTimerList, UserEvents)
        BY DEF LInv, LI, Closing
      <4>2. Len(stack) \in 1 .. Len(stack) /\ stack[Len(stack)] = Top
        BY TopFacts
      <4>3. QED
        BY <1>2, <3>2, <4>1, <4>2 DEF ClosingAt, Arms, e
    <3>3. QED
      BY <3>1, <3>2
  <2>3. QED
    BY <1>6, <2>1, <2>2
<1>12. QED
  BY <1>1, <1>2, <1>3, <1>8, <1>9, <1>10, <1>11, TimerTop DEF r, e

\* CoreCheckTimers puts the timer back.
LEMMA TimersInsertLists ==
  ASSUME IInv, LInv, TimersInsert
  PROVE  LInv'
<1>1. /\ Top.k = "Timers" /\ Top.pc = "insert" /\ CoreInsertEventTimer(Top.ev)
      /\ stack' = Goto(stack, "scan") /\ UNCHANGED <<eventVars, UserEvents>>
  BY DEF TimersInsert, Running
<1>2. Rearms(Top)
  BY <1>1 DEF Rearms
<1>3. LI(stack', mEfiTimerList', gEventQueue, Signature, IEvent, UserEvents)
  BY <1>1, <1>2, InsertTop
<1>4. QED
  BY <1>1, <1>3 DEF LInv, eventVars

\* CoreSetTimer takes the event off the list and sets its period.
LEMMA SetTimerUnlinkLists ==
  ASSUME IInv, LInv, SetTimerUnlink
  PROVE  LInv'
<1> DEFINE e == Top.ev
           l == mEfiTimerList
           r == RemoveEntryList(l, e)
           time == IF Top.pc = "TimerPeriodic" /\ Top.x = 0 THEN TimerPeriod ELSE Top.x
           period == IF Top.pc = "TimerPeriodic" THEN time ELSE 0
           pc == IF Top.pc = "TimerCancel" THEN "release" ELSE "time"
           g == [Top EXCEPT !.pc = pc, !.x = time]
<1>1. /\ Top.k = "SetTimer" /\ Top.pc \in {"TimerCancel", "TimerPeriodic", "TimerRelative"}
      /\ mEfiTimerList' = r /\ stack' = Become(stack, g)
      /\ IEvent' = [IEvent EXCEPT ![e].TriggerTime = 0, ![e].Period = period]
      /\ UNCHANGED <<gEventQueue, Signature, UserEvents>>
  BY DEF SetTimerUnlink
<1>2. /\ ~Rearms(Top) /\ ~Arms(Top) /\ \A d : Cancels(Top, d) => d = e
  BY <1>1 DEF Rearms, Arms, Cancels
<1>3. TopFlight(Top, l, IEvent) /\ TopClosed(Top, l) /\ TopKept(Top, l, IEvent)
  BY <1>1, TopTimers
<1>4. LiveTimer(e, Signature, IEvent) /\ e \in EventIds
  BY <1>1, <1>3, StackSeq DEF TopFlight, LiveTimer
<1>5. time \in Nat /\ (Top.pc # "TimerPeriodic" => period = 0)
      /\ (Top.pc = "TimerCancel" => pc = "release") /\ (Top.pc # "TimerCancel" => pc = "time")
  BY BoundAssumption, StackSeq
<1> HIDE DEF time, period, pc
<1>6. g \in Frames /\ g.k = "SetTimer" /\ g.ev = e /\ g.pc = pc
  BY <1>1, <1>5, StackSeq DEF Frames, Pcs
<1>7. ~Rearms(g) /\ (Arms(g) <=> Top.pc # "TimerCancel") /\ pc \in {"time", "release"}
  BY <1>5, <1>6 DEF Rearms, Arms
<1>8. /\ \A d \in EventIds : IEvent'[d].Type = IEvent[d].Type
      /\ \A d \in EventIds : d # e => IEvent'[d] = IEvent[d]
      /\ IEvent'[e].Period = period
  BY <1>1, <1>4, StackSeq, TimesFields
<1>9. l \in Seq(EventIds) /\ TimersLive(l, Signature, IEvent)
  BY TimerLists
<1> HIDE DEF l, r, g
<1>10. /\ \A d : Out(l, d) => Out(r, d)
       /\ \A d : d # e /\ Out(r, d) => Out(l, d)
       /\ Unique(l) => Unique(r) /\ Out(r, e)
       /\ \A ie : Sorted(l, ie) => Sorted(r, ie)
  BY <1>9, RemoveKeeps DEF r
<1>11. r \in Seq(EventIds) /\ \A i \in 1 .. Len(r) : \E j \in 1 .. Len(l) : r[i] = l[j]
  BY <1>9, RemoveElements DEF r
<1>12. TimersLive(r, Signature, IEvent) /\ Out(r, e)
  BY <1>9, <1>10, <1>11 DEF TimersLive
<1>13. TimersLive(r, Signature, IEvent')
  BY <1>4, <1>8, <1>11, <1>12, StackSeq, TimesChange
<1>14. TopFlight(g, r, IEvent')
  BY <1>4, <1>6, <1>8, <1>12 DEF TopFlight, LiveTimer
<1>15. TopClosed(g, r)
  BY <1>2, <1>3, <1>7, <1>10, <1>12 DEF TopClosed
<1>16. TopKept(g, r, IEvent')
  <2> SUFFICES ASSUME NEW d \in Signature, IEvent'[d].Period # 0, Out(r, d)
               PROVE  Arms(g) /\ g.ev = d
    BY DEF TopKept
  <2>1. d \in EventIds
    BY StackSeq
  <2>2. CASE d # e
    BY <1>2, <1>3, <1>8, <1>10, <2>1, <2>2 DEF TopKept
  <2>3. CASE d = e
    BY <1>1, <1>5, <1>6, <1>7, <1>8, <2>3
  <2>4. QED
    BY <2>2, <2>3
<1>17. LI(stack', r, gEventQueue, Signature, IEvent', UserEvents)
  BY <1>1, <1>5, <1>6, <1>7, <1>13, <1>14, <1>15, <1>16, TimerTop
<1>18. QED
  BY <1>1, <1>17 DEF LInv

\* CoreSetTimer reads the time.
LEMMA SetTimerTimeLists ==
  ASSUME IInv, LInv, SetTimerTime
  PROVE  LInv'
<1> DEFINE e == Top.ev
           l == mEfiTimerList
           g == [Top EXCEPT !.pc = "insert"]
           s == Goto(stack, "insert")
<1>1. /\ Top.k = "SetTimer" /\ Top.pc = "time" /\ stack' = Call(s, RestoreFrame(Top.tpl))
      /\ UNCHANGED <<gEventQueue, Signature, mEfiTimerList, UserEvents>>
  BY DEF SetTimerTime, Running, timerVars
<1>2. Arms(Top) /\ ~Rearms(Top) /\ \A d : ~Cancels(Top, d)
  BY <1>1 DEF Rearms, Arms, Cancels
<1>3. TopFlight(Top, l, IEvent) /\ TopClosed(Top, l) /\ TopKept(Top, l, IEvent)
  BY <1>1, TopTimers
<1>4. LiveTimer(e, Signature, IEvent) /\ Out(l, e) /\ e \in EventIds
  BY <1>1, <1>2, <1>3, StackSeq DEF TopFlight, LiveTimer
<1>5. g \in Frames /\ g.k = "SetTimer" /\ g.pc = "insert" /\ g.ev = e
  BY <1>1, StackSeq, GotoFrame DEF Pcs
<1>6. Arms(g) /\ ~Rearms(g) /\ s = Become(stack, g)
  BY <1>5, GotoIs DEF Rearms, Arms
<1>7. /\ \A d \in EventIds : IEvent'[d].Type = IEvent[d].Type
      /\ \A d \in EventIds : IEvent'[d].Period = IEvent[d].Period
      /\ \A d \in EventIds : d # e => IEvent'[d].TriggerTime = IEvent[d].TriggerTime
  <2>1. IEvent' = [IEvent EXCEPT ![e].TriggerTime = mEfiSystemTime + Top.x]
    BY DEF SetTimerTime
  <2>2. QED
    BY <1>4, <2>1, StackSeq, TimesFields
<1>8. TimersLive(l, Signature, IEvent')
  BY <1>4, <1>7, TimerLists, TimesChange
<1> HIDE DEF g, s
<1>9. TopFlight(g, l, IEvent') /\ TopClosed(g, l)
  BY <1>2, <1>3, <1>4, <1>5, <1>6, <1>7 DEF TopFlight, TopClosed, LiveTimer
<1>10. TopKept(g, l, IEvent')
  BY <1>2, <1>3, <1>5, <1>6, <1>7, StackSeq DEF TopKept
<1>11. /\ LI(s, l, gEventQueue, Signature, IEvent', UserEvents)
       /\ s \in Seq(Frames) /\ s # <<>>
  BY <1>1, <1>5, <1>6, <1>8, <1>9, <1>10, TimerTop
<1>12. Plain(s, stack')
  BY <1>1, <1>11, StackSeq, PlainRelease
<1>13. LI(stack', l, gEventQueue, Signature, IEvent', UserEvents)
  <2>1. SameTimers(IEvent', IEvent')
    BY DEF SameTimers
  <2>2. QueuesLive(gEventQueue, Signature) /\ Unqueued(s, gEventQueue)
    BY <1>11 DEF LI
  <2>3. QED
    BY <1>11, <1>12, <2>1, <2>2, StackSeq, PlainLI
<1>14. QED
  BY <1>1, <1>13 DEF LInv

\* CoreSetTimer inserts the timer, and signals mEfiCheckTimerEvent if it is due.
LEMMA SetTimerInsertLists ==
  ASSUME IInv, LInv, SetTimerInsert
  PROVE  LInv'
<1> DEFINE s == Goto(stack, "release")
<1>1. /\ Top.k = "SetTimer" /\ Top.pc = "insert" /\ CoreInsertEventTimer(Top.ev)
      /\ UNCHANGED UserEvents
      /\ \/ CoreSignalEvent(mEfiCheckTimerEvent, s, Top.tpl)
         \/ stack' = s /\ UNCHANGED eventVars
  BY DEF SetTimerInsert, Running
<1>2. Arms(Top)
  BY <1>1 DEF Arms
<1> HIDE DEF s
<1>3. /\ LI(s, mEfiTimerList', gEventQueue, Signature, IEvent, UserEvents)
      /\ s \in Seq(Frames) /\ s # <<>>
      /\ \A d : NotFreed(stack, d) => NotFreed(s, d)
  BY <1>1, <1>2, InsertTop DEF s
<1>4. CASE stack' = s /\ UNCHANGED eventVars
  BY <1>1, <1>3, <1>4 DEF LInv, eventVars
<1>5. CASE CoreSignalEvent(mEfiCheckTimerEvent, s, Top.tpl)
  <2>1. NotFreed(s, mEfiCheckTimerEvent) /\ mEfiCheckTimerEvent \in Signature
    BY <1>3, BuiltInNotFreed, TimerLists
  <2>2. LI(stack', mEfiTimerList', gEventQueue', Signature', IEvent', UserEvents)
    BY <1>3, <1>5, <2>1, StackSeq, SignalLists
  <2>3. QED
    BY <1>1, <2>2 DEF LInv
<1>6. QED
  BY <1>1, <1>4, <1>5

\* CoreSetTimer releases the lock.
LEMMA SetTimerReleaseLists ==
  ASSUME IInv, LInv, SetTimerRelease
  PROVE  LInv'
<1> DEFINE g == RestoreFrame(mEfiTimerLock)
           l == mEfiTimerList
<1>1. /\ Top.k = "SetTimer" /\ Top.pc = "release" /\ stack' = Become(stack, g)
      /\ UNCHANGED <<eventVars, mEfiTimerList, UserEvents>>
  BY DEF SetTimerRelease, Running
<1>2. mEfiTimerLock \in Tpls
  BY <1>1, OwnerTpl DEF Holds
<1>3. g \in Frames /\ g.k = "Restore"
  BY <1>2 DEF RestoreFrame, Frame, Frames, Kinds, Pcs
<1>4. ~Rearms(g) /\ ~Arms(g) /\ ~Rearms(Top) /\ ~Arms(Top) /\ \A d : ~Cancels(Top, d)
  BY <1>1, <1>3 DEF Rearms, Arms, Cancels
<1> HIDE DEF g
<1>5. TopFlight(Top, l, IEvent) /\ TopClosed(Top, l) /\ TopKept(Top, l, IEvent)
  BY <1>1, TopTimers
<1>6. TopFlight(g, l, IEvent) /\ TopClosed(g, l) /\ TopKept(g, l, IEvent)
  BY <1>3, <1>4, <1>5 DEF TopFlight, TopClosed, TopKept
<1>7. LI(stack', l, gEventQueue, Signature, IEvent, UserEvents)
  BY <1>1, <1>3, <1>6, TimerLists, TimerTop
<1>8. QED
  BY <1>1, <1>7 DEF LInv, eventVars

-----------------------------------------------------------------------------
(***************************************************************************)
(* Steps of CoreCloseEvent, of the clients and of the timer interrupt.     *)
(***************************************************************************)

\* While a client or CoreCloseEvent runs no timer is on its way back to the list.
LEMMA NoTimer ==
  ASSUME IInv, LInv, Top.k \in ClientKinds \cup {"Close"}
  PROVE  /\ \A i \in 1 .. Len(stack) :
              ~Rearms(stack[i]) /\ ~Arms(stack[i]) /\ stack[i].k # "SetTimer"
         /\ \A i \in 1 .. Len(stack) :
              stack[i].k = "Close" /\ stack[i].pc \in {"unlink", "free"} =>
                Out(mEfiTimerList, stack[i].ev)
         /\ \A e \in Signature : IEvent[e].Period # 0 => ~Out(mEfiTimerList, e)
<1>1. Top.k \notin {"Restore", "Irq", "Group", "List"} /\ ~Rearms(Top) /\ ~Arms(Top)
      /\ Top.k # "SetTimer"
  BY DEF ClientKinds, Rearms, Arms
<1>2. stack[Len(stack)] = Top
  BY TopFacts
<1>3. \A i \in 1 .. Len(stack) :
        ~Rearms(stack[i]) /\ ~Arms(stack[i]) /\ stack[i].k # "SetTimer"
  BY <1>1, <1>2, OnlyTop
<1>4. ASSUME NEW i \in 1 .. Len(stack), stack[i].k = "Close",
             stack[i].pc \in {"unlink", "free"}
      PROVE  Out(mEfiTimerList, stack[i].ev)
  <2>1. ClosingAt(stack, i, stack[i].ev, mEfiTimerList, UserEvents)
    BY <1>4 DEF LInv, LI, Closing
  <2>2. QED
    BY <1>3, <1>4, <2>1 DEF ClosingAt, Cancels
<1>5. \A e \in Signature : IEvent[e].Period # 0 => ~Out(mEfiTimerList, e)
  BY <1>3 DEF LInv, LI, Kept
<1>6. QED
  BY <1>3, <1>4, <1>5

\* What LI says of the running CoreCloseEvent.
LEMMA CloserFacts ==
  ASSUME IInv, LInv, Top.k = "Close"
  PROVE  /\ Top.ev \in Signature /\ Top.ev \in Events /\ Top.ev \in EventIds
         /\ ClosingAt(stack, Len(stack), Top.ev, mEfiTimerList, UserEvents)
         /\ \A i \in 1 .. Len(stack) :
              i # Len(stack) /\ stack[i].k = "Close" => stack[i].ev # Top.ev
<1>1. Len(stack) \in 1 .. Len(stack) /\ stack[Len(stack)] = Top /\ LocalOk(Top)
  BY TopFacts
<1>2. ClosingAt(stack, Len(stack), Top.ev, mEfiTimerList, UserEvents)
  BY <1>1 DEF LInv, LI, Closing
<1>3. CloseOk(stack, Signature, gEventSignalQueue)
  BY DEF IInv, StackInv, Stk
<1>4. QED
  BY <1>1, <1>2, <1>3 DEF CloseOk, LocalOk, EventIds

\* CoreCloseEvent goes on at pc: LI without what it says of the queues.
LEMMA CloserGoes ==
  ASSUME IInv, LInv, Top.k = "Close", NEW pc \in {"unlink", "free"}, NEW s,
         s = Goto(stack, pc), Out(mEfiTimerList, Top.ev)
  PROVE  /\ InFlight(s, mEfiTimerList, Signature, IEvent)
         /\ Closing(s, mEfiTimerList, UserEvents)
         /\ Kept(s, mEfiTimerList, Signature, IEvent)
         /\ s \in Seq(Frames) /\ s # <<>> /\ Len(s) = Len(stack)
         /\ s[Len(stack)].k = "Close" /\ s[Len(stack)].ev = Top.ev
         /\ s[Len(stack)].pc = pc
         /\ \A i \in 1 .. Len(stack) : i # Len(stack) => s[i] = stack[i]
<1> DEFINE g == [Top EXCEPT !.pc = pc]
           n == Len(stack)
           e == Top.ev
           l == mEfiTimerList
<1>1. g \in Frames /\ g.k = "Close" /\ g.pc = pc /\ g.ev = e
  BY StackSeq, GotoFrame DEF Pcs
<1>2. s = Become(stack, g)
  BY GotoIs
<1> HIDE DEF g
<1>3. /\ n \in Nat /\ n \in 1 .. n /\ s \in Seq(Frames) /\ s # <<>> /\ Len(s) = n
      /\ s[n] = g /\ \A i \in 1 .. n : i # n => s[i] = stack[i]
  <2>1. stack \in Seq(Frames) /\ stack # <<>>
    BY StackSeq
  <2>2. QED
    BY ONLY <1>1, <1>2, <2>1, StackShapes
<1>4. \A i \in 1 .. n : ~Rearms(s[i]) /\ ~Arms(s[i]) /\ s[i].k # "SetTimer"
  <2>1. ~Rearms(g) /\ ~Arms(g)
    BY <1>1 DEF Rearms, Arms
  <2>2. QED
    BY <1>1, <1>3, <2>1, NoTimer
<1>5. InFlight(s, l, Signature, IEvent)
  BY <1>3, <1>4 DEF InFlight
<1>6. Kept(s, l, Signature, IEvent)
  BY NoTimer DEF Kept
<1>7. ASSUME NEW i \in 1 .. n, s[i].k = "Close"
      PROVE  ClosingAt(s, i, s[i].ev, l, UserEvents)
  <2>1. s[i].ev = stack[i].ev /\ stack[i].k = "Close" /\ stack[n] = Top
    BY <1>1, <1>3, <1>7, TopFacts
  <2>2. ClosingAt(stack, i, s[i].ev, l, UserEvents)
    BY <2>1 DEF LInv, LI, Closing
  <2>3. /\ \A j \in 1 .. n : s[j].k = "Check" => s[j].ev # s[i].ev
        /\ \A j \in 1 .. n : s[j].k = "Wait" => Out(UserEvents, s[i].ev)
    BY <1>1, <1>3, <2>2 DEF ClosingAt
  <2>4. s[i].pc \in {"unlink", "free"} => Out(l, s[i].ev)
    <3>1. CASE i = n
      BY <2>1, <3>1
    <3>2. CASE i # n
      BY <1>3, <2>1, <3>2, NoTimer
    <3>3. QED
      BY <3>1, <3>2
  <2>5. QED
    BY <1>3, <1>4, <2>3, <2>4 DEF ClosingAt
<1>8. Closing(s, l, UserEvents)
  BY <1>3, <1>7 DEF Closing
<1>9. QED
  BY <1>1, <1>3, <1>5, <1>6, <1>8

\* CoreCloseEvent of an event that is no timer: the list does not hold it.
LEMMA CloseNoTimerLists ==
  ASSUME IInv, LInv, CloseCancel, ~IsTimer(Top.ev)
  PROVE  LInv'
<1>1. /\ Top.k = "Close" /\ Top.pc = "cancel" /\ stack' = Goto(stack, "unlink")
      /\ UNCHANGED <<eventVars, mEfiTimerList, UserEvents>>
  BY DEF CloseCancel, Running, timerVars
<1>2. Out(mEfiTimerList, Top.ev)
  BY TimerLists DEF TimersLive, LiveTimer, IsTimer, Out
<1>3. /\ InFlight(stack', mEfiTimerList, Signature, IEvent)
      /\ Closing(stack', mEfiTimerList, UserEvents)
      /\ Kept(stack', mEfiTimerList, Signature, IEvent)
      /\ Len(stack') = Len(stack) /\ stack'[Len(stack)].pc = "unlink"
      /\ \A i \in 1 .. Len(stack) : i # Len(stack) => stack'[i] = stack[i]
  BY <1>1, <1>2, CloserGoes
<1>4. Unqueued(stack', gEventQueue)
  BY <1>3 DEF LInv, LI, Unqueued, Freeing
<1>5. LI(stack', mEfiTimerList, gEventQueue, Signature, IEvent, UserEvents)
  BY <1>3, <1>4 DEF LInv, LI
<1>6. QED
  BY <1>1, <1>5 DEF LInv, eventVars

\* CoreCloseEvent of a timer calls CoreSetTimer to cancel it.
LEMMA CloseTimerLists ==
  ASSUME IInv, LInv, CloseCancel, IsTimer(Top.ev)
  PROVE  LInv'
<1> DEFINE e == Top.ev
           n == Len(stack)
           l == mEfiTimerList
           g == [Top EXCEPT !.pc = "unlink"]
           f == Frame("SetTimer", "TimerCancel", TIMER_LOCK_TPL, e, 0)
           s == Goto(stack, "unlink")
           t == stack'
<1>1. /\ Top.k = "Close" /\ Top.pc = "cancel" /\ stack' = Call(s, f)
      /\ UNCHANGED <<eventVars, mEfiTimerList, UserEvents>>
  BY DEF CloseCancel, Running, CoreSetTimer
<1>2. /\ e \in Signature /\ e \in EventIds
      /\ ClosingAt(stack, n, e, l, UserEvents)
      /\ \A i \in 1 .. n : i # n /\ stack[i].k = "Close" => stack[i].ev # e
  BY <1>1, CloserFacts
<1>3. /\ f \in Frames /\ f.k = "SetTimer" /\ f.pc = "TimerCancel" /\ f.ev = e
  BY <1>2, TplFacts DEF Frame, Frames, Kinds, Pcs
<1>4. g \in Frames /\ g.k = "Close" /\ g.pc = "unlink" /\ g.ev = e
  BY <1>1, StackSeq, GotoFrame DEF Pcs
<1>5. s = Become(stack, g)
  BY GotoIs
<1> HIDE DEF f, g, s
<1>6. /\ n \in Nat /\ n \in 1 .. n /\ s \in Seq(Frames) /\ s # <<>> /\ Len(s) = n
      /\ s[n] = g /\ \A i \in 1 .. n : i # n => s[i] = stack[i]
  <2>1. stack \in Seq(Frames) /\ stack # <<>>
    BY StackSeq
  <2>2. QED
    BY ONLY <1>4, <1>5, <2>1, StackShapes
<1>7. /\ Len(t) = n + 1 /\ t[n + 1] = f /\ \A i \in 1 .. n : t[i] = s[i]
  BY ONLY <1>1, <1>3, <1>6, StackShapes, ZenonT(40)
<1> HIDE DEF t, n, l, e
<1>8. \A i \in 1 .. Len(t) : i \in 1 .. n \/ i = n + 1
  BY <1>6, <1>7
<1>9. \A i \in 1 .. n : ~Rearms(t[i]) /\ ~Arms(t[i]) /\ t[i].k # "SetTimer"
  <2>1. ~Rearms(g) /\ ~Arms(g)
    BY <1>4 DEF Rearms, Arms
  <2>2. QED
    BY <1>1, <1>4, <1>6, <1>7, <2>1, NoTimer DEF n
<1>10. ~Rearms(f) /\ ~Arms(f) /\ Cancels(f, e)
  BY <1>3 DEF Rearms, Arms, Cancels
<1>11. InFlight(t, l, Signature, IEvent)
  <2>1. LiveTimer(e, Signature, IEvent)
    BY <1>2 DEF LiveTimer, IsTimer, e
  <2>2. QED
    BY <1>3, <1>7, <1>8, <1>9, <1>10, <2>1 DEF InFlight
<1>12. Kept(t, l, Signature, IEvent)
  BY <1>1, NoTimer DEF Kept, l
<1>13. Unqueued(t, gEventQueue)
  BY <1>3, <1>4, <1>6, <1>7, <1>8 DEF LInv, LI, Unqueued, Freeing, n
<1>14. ASSUME NEW i \in 1 .. Len(t), t[i].k = "Close"
       PROVE  ClosingAt(t, i, t[i].ev, l, UserEvents)
  <2>1. i \in 1 .. n /\ t[i].ev = stack[i].ev /\ stack[i].k = "Close" /\ stack[n] = Top
    BY <1>1, <1>3, <1>4, <1>6, <1>7, <1>8, <1>14, TopFacts DEF e, n
  <2>2. ClosingAt(stack, i, t[i].ev, l, UserEvents)
    BY <2>1 DEF LInv, LI, Closing, n, l
  <2>3. /\ \A j \in 1 .. Len(t) : t[j].k = "Check" => t[j].ev # t[i].ev
        /\ \A j \in 1 .. Len(t) : t[j].k = "Wait" => Out(UserEvents, t[i].ev)
    BY <1>3, <1>4, <1>6, <1>7, <1>8, <2>2 DEF ClosingAt, n
  <2>4. \A j \in 1 .. Len(t) : ~Rearms(t[j])
    BY <1>7, <1>8, <1>9, <1>10
  <2>5. CASE i = n
    <3>1. t[i].pc = "unlink" /\ t[i].ev = e /\ n + 1 \in 1 .. Len(t)
      BY <1>4, <1>6, <1>7, <2>5
    <3>2. \A j \in 1 .. Len(t) : t[j].k = "SetTimer" => j = n + 1
      BY <1>8, <1>9
    <3>3. QED
      BY <1>3, <1>7, <1>10, <2>3, <2>4, <2>5, <3>1, <3>2 DEF ClosingAt
  <2>6. CASE i # n
    <3>1. t[i] = stack[i] /\ t[i].ev # e
      BY <1>2, <1>6, <1>7, <2>1, <2>6 DEF n
    <3>2. \A j \in 1 .. Len(t) : t[j].k = "SetTimer" => t[j].ev = e
      BY <1>3, <1>7, <1>8, <1>9
    <3>3. t[i].pc \in {"unlink", "free"} => Out(l, t[i].ev)
      BY <1>1, <2>1, <3>1, NoTimer DEF n, l
    <3>4. QED
      BY <2>3, <2>4, <3>1, <3>2, <3>3 DEF ClosingAt
  <2>7. QED
    BY <2>5, <2>6
<1>15. LI(t, l, gEventQueue, Signature, IEvent, UserEvents)
  BY <1>11, <1>12, <1>13, <1>14 DEF LInv, LI, Closing, l
<1>16. QED
  BY <1>1, <1>15 DEF LInv, eventVars, t, l

\* CoreCloseEvent takes the event off the queues.
LEMMA CloseUnlinkLists ==
  ASSUME IInv, LInv, CloseUnlink
  PROVE  LInv'
<1> DEFINE e == Top.ev
           n == Len(stack)
           s == Goto(stack, "free")
<1>1. /\ Top.k = "Close" /\ Top.pc = "unlink" /\ stack' = Call(s, RestoreFrame(Top.tpl))
      /\ gEventQueue' = [t \in NotifyTpls |-> RemoveEntryList(gEventQueue[t], e)]
      /\ UNCHANGED <<IEvent, Signature, mEfiTimerList, UserEvents>>
  BY DEF CloseUnlink, Running, timerVars
<1>2. Out(mEfiTimerList, e)
  <2>1. n \in Nat /\ n \in 1 .. n /\ stack[n] = Top
    BY TopFacts
  <2>2. QED
    BY <1>1, <2>1, NoTimer
<1>3. /\ InFlight(s, mEfiTimerList, Signature, IEvent)
      /\ Closing(s, mEfiTimerList, UserEvents)
      /\ Kept(s, mEfiTimerList, Signature, IEvent)
      /\ s \in Seq(Frames) /\ s # <<>> /\ Len(s) = n
      /\ s[n].k = "Close" /\ s[n].ev = e
      /\ \A i \in 1 .. n : i # n => s[i] = stack[i]
  BY <1>1, <1>2, CloserGoes
<1>4. QueuesLive(gEventQueue, Signature) /\ Unqueued(stack, gEventQueue)
  BY DEF LInv, LI
<1> HIDE DEF s, e, n
<1>5. ASSUME NEW t \in NotifyTpls
      PROVE  /\ \A i \in 1 .. Len(gEventQueue'[t]) : gEventQueue'[t][i] \in Signature
             /\ Unique(gEventQueue'[t]) /\ Out(gEventQueue'[t], e)
             /\ \A d : Out(gEventQueue[t], d) => Out(gEventQueue'[t], d)
  <2> DEFINE q == gEventQueue[t]
             r == gEventQueue'[t]
  <2>1. q \in Seq(EventIds) /\ r = RemoveEntryList(q, e)
    BY <1>1 DEF IInv, EventInv, QueueOk
  <2>2. (\A i \in 1 .. Len(q) : q[i] \in Signature) /\ Unique(q)
    BY <1>4 DEF QueuesLive
  <2> HIDE DEF q, r
  <2>3. /\ \A d : Out(q, d) => Out(r, d)
        /\ Unique(r) /\ Out(r, e)
    BY <2>1, <2>2, RemoveKeeps
  <2>4. \A i \in 1 .. Len(r) : r[i] \in Signature
    BY <2>1, <2>2, RemoveElements
  <2>5. QED
    BY <2>3, <2>4 DEF q, r
<1>6. QueuesLive(gEventQueue', Signature)
  BY <1>5 DEF QueuesLive
<1>7. Unqueued(s, gEventQueue')
  BY <1>3, <1>4, <1>5 DEF Unqueued, n
<1>8. LI(s, mEfiTimerList, gEventQueue', Signature, IEvent, UserEvents)
  BY <1>3, <1>6, <1>7 DEF LInv, LI
<1>9. Plain(s, stack')
  BY <1>1, <1>3, StackSeq, PlainRelease
<1>10. SameTimers(IEvent, IEvent)
  BY DEF SameTimers
<1>11. LI(stack', mEfiTimerList, gEventQueue', Signature, IEvent, UserEvents)
  BY <1>6, <1>7, <1>8, <1>9, <1>10, StackSeq, PlainLI
<1>12. QED
  BY <1>1, <1>11 DEF LInv

\* CoreCloseEvent frees the event: nothing refers to it any more.
LEMMA CloseFreeLists ==
  ASSUME IInv, LInv, CloseFree
  PROVE  LInv'
<1> DEFINE e == Top.ev
           n == Len(stack)
           l == mEfiTimerList
           t == stack'
           sig == Signature \ {e}
<1>1. /\ Top.k = "Close" /\ Top.pc = "free" /\ stack' = Return(stack) /\ Signature' = sig
      /\ UNCHANGED <<gEventQueue, IEvent, mEfiTimerList, UserEvents>>
  BY DEF CloseFree, Running, timerVars
<1>2. n \in Nat /\ n \in 1 .. n /\ stack[n] = Top
  BY TopFacts
<1>3. Len(t) = n - 1 /\ \A i \in 1 .. n - 1 : t[i] = stack[i]
  BY ONLY <1>1, StackSeq, StackShapes, IInv
<1>4. \A i \in 1 .. Len(t) : i \in 1 .. n /\ t[i] = stack[i]
  BY <1>2, <1>3
<1>5. Out(l, e) /\ \A u \in NotifyTpls : Out(gEventQueue[u], e)
  BY <1>1, <1>2, NoTimer DEF LInv, LI, Unqueued, Freeing
<1>6. e \in Events
  BY <1>1, CloserFacts
<1>7. {mEfiCheckTimerEvent, gIdleLoopEvent} \subseteq sig
  BY <1>6, TimerLists, EventAssumption
<1> HIDE DEF t, n
<1>8. QueuesLive(gEventQueue, sig)
  BY <1>5 DEF LInv, LI, QueuesLive, Out
<1>9. TimersLive(l, sig, IEvent)
  BY <1>5 DEF LInv, LI, TimersLive, LiveTimer, Out
<1>10. \A i \in 1 .. Len(t) : ~Rearms(t[i]) /\ ~Arms(t[i]) /\ t[i].k # "SetTimer"
  BY <1>1, <1>4, NoTimer DEF n
<1>11. InFlight(t, l, sig, IEvent)
  BY <1>10 DEF InFlight
<1>12. Kept(t, l, sig, IEvent)
  BY <1>1, NoTimer DEF Kept
<1>13. Unqueued(t, gEventQueue)
  BY <1>4 DEF LInv, LI, Unqueued, n
<1>14. ASSUME NEW i \in 1 .. Len(t), t[i].k = "Close"
       PROVE  ClosingAt(t, i, t[i].ev, l, UserEvents)
  <2>1. ClosingAt(stack, i, t[i].ev, l, UserEvents) /\ stack[i].k = "Close" /\ t[i] = stack[i]
    BY <1>4, <1>14 DEF LInv, LI, Closing, n
  <2>2. t[i].pc \in {"unlink", "free"} => Out(l, t[i].ev)
    BY <1>1, <1>4, <2>1, NoTimer DEF n
  <2>3. /\ \A j \in 1 .. Len(t) : t[j].k = "Check" => t[j].ev # t[i].ev
        /\ \A j \in 1 .. Len(t) : t[j].k = "Wait" => Out(UserEvents, t[i].ev)
    BY <1>4, <2>1 DEF ClosingAt, n
  <2>4. QED
    BY <1>10, <2>2, <2>3 DEF ClosingAt
<1>15. LI(t, l, gEventQueue, sig, IEvent, UserEvents)
  BY <1>7, <1>8, <1>9, <1>11, <1>12, <1>13, <1>14 DEF LI, Closing
<1>16. QED
  BY <1>1, <1>15 DEF LInv, t

\* A client calls a service, whose activation is f.
LEMMA ClientCallLI ==
  ASSUME IInv, LInv, Top.k \in ClientKinds, NEW f \in Frames, NEW t, t = Call(stack, f), NEW ue,
         ~Rearms(f) /\ ~Arms(f) /\ ~Freeing(f),
         f.k = "SetTimer" => LiveTimer(f.ev, Signature, IEvent),
         f.k \in {"Check", "SetTimer"} => NoCloser(stack, f.ev),
         \/ f.k # "Wait" /\ ue = UserEvents
         \/ \A i \in 1 .. Len(stack) : stack[i].k = "Close" => Out(ue, stack[i].ev),
         f.k = "Close" =>
           /\ f.pc = "cancel"
           /\ \A j \in 1 .. Len(stack) : stack[j].k = "Check" => stack[j].ev # f.ev
           /\ \A j \in 1 .. Len(stack) : stack[j].k = "Wait" => Out(ue, f.ev)
  PROVE  LI(t, mEfiTimerList, gEventQueue, Signature, IEvent, ue)
<1> DEFINE n == Len(stack)
           l == mEfiTimerList
<1>1. n \in Nat /\ Len(t) = n + 1 /\ t[n + 1] = f /\ \A i \in 1 .. n : t[i] = stack[i]
  <2>1. stack \in Seq(Frames) /\ stack # <<>>
    BY StackSeq
  <2>2. QED
    BY ONLY f \in Frames, t = Call(stack, f), <2>1, StackShapes
<1> HIDE DEF n
<1>2. \A i \in 1 .. Len(t) : i \in 1 .. n \/ i = n + 1
  BY <1>1
<1>3. \A i \in 1 .. n : ~Rearms(stack[i]) /\ ~Arms(stack[i]) /\ stack[i].k # "SetTimer"
  BY NoTimer DEF n
<1>4. InFlight(t, l, Signature, IEvent)
  BY <1>1, <1>2, <1>3 DEF InFlight
<1>5. Kept(t, l, Signature, IEvent)
  BY NoTimer DEF Kept
<1>6. Unqueued(t, gEventQueue)
  BY <1>1, <1>2 DEF LInv, LI, Unqueued, n
<1>7. \A j \in 1 .. Len(t) : ~Rearms(t[j])
  BY <1>1, <1>2, <1>3
<1>8. ASSUME NEW i \in 1 .. Len(t), t[i].k = "Close"
      PROVE  ClosingAt(t, i, t[i].ev, l, ue)
  <2>1. CASE i \in 1 .. n
    <3>1. t[i] = stack[i] /\ ClosingAt(stack, i, stack[i].ev, l, UserEvents)
      BY <1>1, <1>8, <2>1 DEF LInv, LI, Closing, n
    <3>2. f.k \in {"Check", "SetTimer"} => f.ev # t[i].ev
      BY <1>8, <2>1, <3>1 DEF NoCloser, n
    <3>3. \A j \in 1 .. Len(t) : t[j].k = "Check" => t[j].ev # t[i].ev
      BY <1>1, <1>2, <3>1, <3>2 DEF ClosingAt, n
    <3>4. \A j \in 1 .. Len(t) : t[j].k = "Wait" => Out(ue, t[i].ev)
      <4>1. CASE f.k # "Wait" /\ ue = UserEvents
        BY <1>1, <1>2, <3>1, <4>1 DEF ClosingAt, n
      <4>2. CASE \A j \in 1 .. Len(stack) : stack[j].k = "Close" => Out(ue, stack[j].ev)
        BY <1>8, <2>1, <3>1, <4>2 DEF n
      <4>3. QED
        BY <4>1, <4>2
    <3>5. \A j \in 1 .. Len(t) : t[j].k = "SetTimer" => t[j].ev # t[i].ev
      BY <1>1, <1>2, <1>3, <3>2
    <3>6. t[i].pc \in {"unlink", "free"} => Out(l, t[i].ev)
      BY <1>8, <2>1, <3>1, NoTimer DEF n
    <3>7. QED
      BY <1>7, <3>3, <3>4, <3>5, <3>6 DEF ClosingAt
  <2>2. CASE i = n + 1
    <3>1. t[i] = f /\ f.k = "Close" /\ f.pc = "cancel"
      BY <1>1, <1>8, <2>2
    <3>2. /\ \A j \in 1 .. Len(t) : t[j].k = "Check" => t[j].ev # t[i].ev
          /\ \A j \in 1 .. Len(t) : t[j].k = "Wait" => Out(ue, t[i].ev)
          /\ \A j \in 1 .. Len(t) : t[j].k # "SetTimer"
      BY <1>1, <1>2, <1>3, <3>1 DEF n
    <3>3. QED
      BY <3>1, <3>2 DEF ClosingAt
  <2>3. QED
    BY <1>2, <2>1, <2>2
<1>9. QED
  BY <1>4, <1>5, <1>6, <1>8 DEF LInv, LI, Closing

\* A client that calls a service runs, and uses only events nobody closes.
LEMMA ClientUses ==
  ASSUME IInv, NEW op, MayCall(op)
  PROVE  /\ Top.k \in ClientKinds
         /\ DOMAIN stack = 1 .. Len(stack)
         /\ \A e : Usable(e) => /\ e \in Events /\ e \in Signature /\ e \in EventIds
                                /\ NoCloser(stack, e) /\ NotFreed(stack, e)
<1>1. Top.k \in ClientKinds
  BY DEF MayCall, ClientRuns, ClientKinds
<1>2. DOMAIN stack = 1 .. Len(stack)
  BY StackSeq, LenProperties
<1>3. QED
  BY <1>1, <1>2, StackSeq DEF Usable, Held, NoCloser, NotFreed, Freeing

\* SetTimer, CheckEvent, WaitForEvent and CloseEvent.
LEMMA ClientServiceLists ==
  ASSUME IInv, LInv, ClientSetTimer \/ ClientCheck \/ ClientWait \/ ClientClose
  PROVE  LInv'
<1>1. UNCHANGED <<eventVars, mEfiTimerList>>
  BY DEF ClientSetTimer, ClientCheck, ClientWait, ClientClose, CoreSetTimer, timerVars
<1>2. Top.k \in ClientKinds /\ DOMAIN stack = 1 .. Len(stack)
      /\ \A e : Usable(e) => /\ e \in Events /\ e \in Signature /\ e \in EventIds
                             /\ NoCloser(stack, e)
  BY ClientUses DEF ClientSetTimer, ClientCheck, ClientWait, ClientClose
<1>3. ASSUME LI(stack', mEfiTimerList, gEventQueue, Signature, IEvent, UserEvents')
      PROVE  LInv'
  BY <1>1, <1>3 DEF LInv, eventVars
<1>4. CASE ClientSetTimer
  <2>1. PICK e \in Events, a \in TimerArgs :
          Usable(e) /\ IsTimer(e) /\ CoreSetTimer(e, a[1], a[2], stack)
    BY <1>4 DEF ClientSetTimer
  <2> DEFINE f == Frame("SetTimer", a[1], TIMER_LOCK_TPL, e, a[2])
  <2>2. a[1] \in {"TimerCancel", "TimerPeriodic", "TimerRelative"} /\ a[2] \in Nat
    BY ArgsAssumption
  <2>3. f \in Frames /\ f.k = "SetTimer" /\ f.pc = a[1] /\ f.ev = e
    BY <1>2, <2>1, <2>2, TplFacts DEF Frame, Frames, Kinds, Pcs
  <2>4. ~Rearms(f) /\ ~Arms(f) /\ ~Freeing(f)
    BY <2>2, <2>3 DEF Rearms, Arms, Freeing
  <2>5. stack' = Call(stack, f) /\ UserEvents' = UserEvents
    BY <1>4, <2>1 DEF CoreSetTimer, ClientSetTimer
  <2>6. LiveTimer(e, Signature, IEvent) /\ NoCloser(stack, e)
    BY <1>2, <2>1 DEF LiveTimer, IsTimer
  <2> HIDE DEF f
  <2>7. LI(stack', mEfiTimerList, gEventQueue, Signature, IEvent, UserEvents)
    BY <1>2, <2>3, <2>4, <2>5, <2>6, ClientCallLI
  <2>8. QED
    BY <1>3, <2>5, <2>7
<1>5. CASE ClientCheck
  <2>1. PICK e \in Events :
          Usable(e) /\ stack' = Call(stack, Frame("Check", "queue", gEfiCurrentTpl, e, 0))
    BY <1>5 DEF ClientCheck
  <2> DEFINE f == Frame("Check", "queue", gEfiCurrentTpl, e, 0)
  <2>2. f \in Frames /\ f.k = "Check" /\ f.ev = e
    BY <1>2, <2>1, StackSeq DEF Frame, Frames, Kinds, Pcs
  <2>3. ~Rearms(f) /\ ~Arms(f) /\ ~Freeing(f)
    BY <2>2 DEF Rearms, Arms, Freeing
  <2>4. UserEvents' = UserEvents /\ stack' = Call(stack, f)
    BY <1>5, <2>1 DEF ClientCheck
  <2> HIDE DEF f
  <2>5. LI(stack', mEfiTimerList, gEventQueue, Signature, IEvent, UserEvents)
    BY <1>2, <2>1, <2>2, <2>3, <2>4, ClientCallLI
  <2>6. QED
    BY <1>3, <2>4, <2>5
<1>6. CASE ClientWait
  <2> DEFINE f == Frame("Wait", "queue", TPL_APPLICATION, NoEvent, 1)
  <2>1. /\ \A i \in DOMAIN UserEvents' : Usable(UserEvents'[i])
        /\ UserEvents' \in Seq(Events) /\ stack' = Call(stack, f)
    BY <1>6, ArgsAssumption DEF ClientWait
  <2>2. f \in Frames /\ f.k = "Wait"
    BY TplFacts DEF Frame, Frames, Kinds, Pcs
  <2>3. ~Rearms(f) /\ ~Arms(f) /\ ~Freeing(f)
    BY <2>2 DEF Rearms, Arms, Freeing
  <2>4. \A i \in 1 .. Len(UserEvents') : NoCloser(stack, UserEvents'[i])
    <3>1. DOMAIN UserEvents' = 1 .. Len(UserEvents')
      BY <2>1, LenProperties
    <3>2. QED
      BY <1>2, <2>1, <3>1
  <2>5. \A i \in 1 .. Len(stack) : stack[i].k = "Close" => Out(UserEvents', stack[i].ev)
    BY <2>4 DEF Out, NoCloser
  <2> HIDE DEF f
  <2>6. LI(stack', mEfiTimerList, gEventQueue, Signature, IEvent, UserEvents')
    BY <1>2, <2>1, <2>2, <2>3, <2>5, ClientCallLI
  <2>7. QED
    BY <1>3, <2>6
<1>7. CASE ClientClose
  <2>1. PICK e \in Events :
          Closable(e) /\ stack' = Call(stack, Frame("Close", "cancel", gEfiCurrentTpl, e, 0))
    BY <1>7 DEF ClientClose
  <2> DEFINE f == Frame("Close", "cancel", gEfiCurrentTpl, e, 0)
  <2>2. f \in Frames /\ f.k = "Close" /\ f.pc = "cancel" /\ f.ev = e
    BY <1>2, <2>1, StackSeq DEF Frame, Frames, Kinds, Pcs, Closable
  <2>3. ~Rearms(f) /\ ~Arms(f) /\ ~Freeing(f)
    BY <2>2 DEF Rearms, Arms, Freeing
  <2>4. UserEvents' = UserEvents /\ stack' = Call(stack, f)
    BY <1>7, <2>1 DEF ClientClose
  <2>5. \A j \in 1 .. Len(stack) : stack[j].k = "Check" => stack[j].ev # e
    BY <1>2, <2>1 DEF Closable, Held
  <2>6. \A j \in 1 .. Len(stack) : stack[j].k = "Wait" => Out(UserEvents, e)
    <3>1. DOMAIN UserEvents = 1 .. Len(UserEvents)
      BY LenProperties DEF IInv, CallInv
    <3>2. QED
      BY <1>2, <2>1, <3>1 DEF Closable, Waited, Out
  <2> HIDE DEF f
  <2>7. LI(stack', mEfiTimerList, gEventQueue, Signature, IEvent, UserEvents)
    BY <1>2, <2>2, <2>3, <2>4, <2>5, <2>6, ClientCallLI
  <2>8. QED
    BY <1>3, <2>4, <2>7
<1>8. QED
  BY <1>4, <1>5, <1>6, <1>7

\* RaiseTPL and SignalEvent.
LEMMA ClientPlainLists ==
  ASSUME IInv, LInv, ClientRaise \/ ClientSignal
  PROVE  LInv'
<1>1. CASE ClientRaise
  <2>1. PICK tpl \in {TPL_CALLBACK, TPL_NOTIFY, TPL_HIGH_LEVEL} :
          stack' = Call(stack, Frame("Raised", "body", tpl, NoEvent, gEfiCurrentTpl))
    BY <1>1 DEF ClientRaise
  <2> DEFINE f == Frame("Raised", "body", tpl, NoEvent, gEfiCurrentTpl)
  <2>2. f \in Frames /\ f.k = "Raised"
    <3>1. tpl \in Tpls /\ gEfiCurrentTpl \in Nat
      BY StackSeq, TplFacts
    <3>2. QED
      BY <3>1 DEF Frame, Frames, Kinds, Pcs
  <2>3. ~Hard(f) /\ ~Soft(f)
    BY <2>2 DEF Hard, Soft, Rearms
  <2> HIDE DEF f
  <2>4. Plain(stack, stack')
    BY <2>1, <2>2, <2>3, StackSeq, PlainCall DEF f
  <2>5. QED
    BY <1>1, <2>4, PlainStep DEF ClientRaise, timerVars
<1>2. CASE ClientSignal
  <2>1. PICK e \in Events : Usable(e) /\ CoreSignalEvent(e, stack, gEfiCurrentTpl)
    BY <1>2 DEF ClientSignal
  <2>2. e \in Signature /\ NotFreed(stack, e)
    BY <1>2, <2>1, ClientUses DEF ClientSignal
  <2>3. LI(stack', mEfiTimerList, gEventQueue', Signature', IEvent', UserEvents)
    BY <2>1, <2>2, StackSeq, SignalLists DEF LInv
  <2>4. QED
    BY <1>2, <2>3 DEF LInv, ClientSignal, timerVars
<1>3. QED
  BY <1>1, <1>2

\* CreateEventEx of a structure that nothing refers to.
LEMMA ClientCreateLists ==
  ASSUME IInv, LInv, ClientCreate
  PROVE  LInv'
<1>1. PICK e \in Events \ Signature, a \in CreateArgs : CoreCreateEventEx(e, a)
  BY DEF ClientCreate
<1> DEFINE ev == NewEvent(ConvertedType(a), a.NotifyTpl, ConvertedGroup(a))
           sig == Signature \cup {e}
           l == mEfiTimerList
<1>2. /\ Signature' = sig /\ IEvent' = [IEvent EXCEPT ![e] = ev]
      /\ stack' = Call(stack, RestoreFrame(gEfiCurrentTpl)) /\ UNCHANGED gEventQueue
      /\ UNCHANGED <<mEfiTimerList, UserEvents>>
  BY <1>1 DEF CoreCreateEventEx, ClientCreate, timerVars
<1>3. ev.Period = 0
  BY DEF NewEvent
<1> HIDE DEF ev
<1>4. e \in EventIds /\ sig \subseteq EventIds /\ e \notin Signature
  BY StackSeq DEF EventIds
<1>5. \A d \in Signature : d # e /\ IEvent'[d] = IEvent[d]
  BY <1>2, <1>4, TimerLists
<1>6. IEvent'[e].Period = 0
  BY <1>2, <1>3, <1>4, TimerLists
<1>7. QueuesLive(gEventQueue, sig) /\ Unqueued(stack, gEventQueue)
  BY DEF LInv, LI, QueuesLive
<1>8. \A d : LiveTimer(d, Signature, IEvent) => LiveTimer(d, sig, IEvent')
  BY <1>5 DEF LiveTimer
<1>9. TimersLive(l, sig, IEvent')
  <2>1. TimersLive(l, Signature, IEvent)
    BY DEF LInv, LI
  <2>2. \A i \in 1 .. Len(l) : l[i] \in Signature
    BY <2>1 DEF TimersLive, LiveTimer
  <2>3. Sorted(l, IEvent')
    BY <1>5, <2>1, <2>2 DEF TimersLive, Sorted
  <2>4. QED
    BY <1>8, <2>1, <2>3 DEF TimersLive
<1>10. InFlight(stack, l, sig, IEvent')
  BY <1>8 DEF LInv, LI, InFlight
<1>11. Kept(stack, l, sig, IEvent')
  BY <1>5, <1>6 DEF LInv, LI, Kept
<1>12. LI(stack, l, gEventQueue, sig, IEvent', UserEvents)
  BY <1>7, <1>9, <1>10, <1>11 DEF LInv, LI
<1>13. Plain(stack, stack')
  BY <1>2, StackSeq, PlainRelease
<1>14. SameTimers(IEvent', IEvent')
  BY DEF SameTimers
<1>15. LI(stack', l, gEventQueue, sig, IEvent', UserEvents)
  BY <1>4, <1>7, <1>12, <1>13, <1>14, PlainLI
<1>16. QED
  BY <1>2, <1>15 DEF LInv

\* The timer interrupt signals mEfiCheckTimerEvent when a timer is due.
LEMMA InterruptLists ==
  ASSUME IInv, LInv, TimerInterruptHandler
  PROVE  LInv'
<1> DEFINE f == Frame("Irq", "iret", gEfiCurrentTpl, NoEvent, 0)
           s == Call(stack, f)
<1>1. /\ UNCHANGED <<mEfiTimerList, UserEvents>>
      /\ \/ CoreSignalEvent(mEfiCheckTimerEvent, s, gEfiCurrentTpl)
         \/ stack' = Call(s, RestoreFrame(gEfiCurrentTpl)) /\ UNCHANGED eventVars
  BY DEF TimerInterruptHandler, CoreTimerTick
<1>2. f \in Frames /\ f.k = "Irq"
  BY StackSeq DEF Frame, Frames, Kinds, Pcs
<1>3. ~Hard(f) /\ ~Soft(f)
  BY <1>2 DEF Hard, Soft, Rearms
<1> HIDE DEF f
<1>4. Plain(stack, s) /\ s \in Seq(Frames) /\ s # <<>>
  BY <1>2, <1>3, StackSeq, PlainCall
<1> HIDE DEF s
<1>5. CASE stack' = Call(s, RestoreFrame(gEfiCurrentTpl)) /\ UNCHANGED eventVars
  BY <1>1, <1>4, <1>5, StackSeq, PlainRelease, PlainTrans, PlainStep
<1>6. CASE CoreSignalEvent(mEfiCheckTimerEvent, s, gEfiCurrentTpl)
  <2>1. SameTimers(IEvent, IEvent)
    BY DEF SameTimers
  <2>2. QueuesLive(gEventQueue, Signature) /\ Unqueued(stack, gEventQueue)
    BY DEF LInv, LI
  <2>3. LI(s, mEfiTimerList, gEventQueue, Signature, IEvent, UserEvents)
    BY <1>4, <2>1, <2>2, StackSeq, PlainLI DEF LInv
  <2>4. NotFreed(s, mEfiCheckTimerEvent)
    <3>1. NotFreed(stack, mEfiCheckTimerEvent)
      BY BuiltInNotFreed
    <3>2. \A g : Freeing(g) => Hard(g)
      BY DEF Freeing, Hard
    <3>3. QED
      BY <1>4, <3>1, <3>2 DEF NotFreed, Plain
  <2>5. LI(stack', mEfiTimerList, gEventQueue', Signature', IEvent', UserEvents)
    BY <1>4, <1>6, <2>3, <2>4, StackSeq, TimerLists, SignalLists
  <2>6. QED
    BY <1>1, <2>5 DEF LInv
<1>7. QED
  BY <1>1, <1>5, <1>6

-----------------------------------------------------------------------------
(***************************************************************************)
(* The invariant, and what follows from it.                                *)
(***************************************************************************)

\* After CoreInitializeEventServices the queues are empty and no timer runs.
LEMMA ListInit == Init => LInv
<1> SUFFICES ASSUME Init PROVE LInv
  OBVIOUS
<1>1. /\ Len(stack) = 1 /\ stack[1].k = "App" /\ mEfiTimerList = <<>> /\ Len(mEfiTimerList) = 0
      /\ \A t \in NotifyTpls : gEventQueue[t] = <<>> /\ Len(gEventQueue[t]) = 0
      /\ Signature = {mEfiCheckTimerEvent, gIdleLoopEvent}
  BY DEF Init, Frame
<1>2. \A i \in 1 .. Len(stack) :
        /\ stack[i].k \notin {"SetTimer", "Close"} /\ ~Rearms(stack[i]) /\ ~Freeing(stack[i])
        /\ ~Arms(stack[i])
  BY <1>1 DEF Rearms, Freeing, Arms
<1>3. QueuesLive(gEventQueue, Signature) /\ TimersLive(mEfiTimerList, Signature, IEvent)
  BY <1>1 DEF QueuesLive, TimersLive, Unique, Sorted
<1>4. /\ InFlight(stack, mEfiTimerList, Signature, IEvent)
      /\ Closing(stack, mEfiTimerList, UserEvents) /\ Unqueued(stack, gEventQueue)
  BY <1>2 DEF InFlight, Closing, Unqueued
<1>5. Kept(stack, mEfiTimerList, Signature, IEvent)
  <2>1. \A e \in Signature : IEvent[e].Period = 0
    BY <1>1 DEF Init, EventIds, NewEvent
  <2>2. QED
    BY <2>1 DEF Kept
<1>6. QED
  BY <1>1, <1>3, <1>4, <1>5 DEF LInv, LI

\* Every step keeps the invariant.
LEMMA ListStep == IInv /\ LInv /\ [Next]_vars => LInv'
<1> SUFFICES ASSUME IInv, LInv, [Next]_vars PROVE LInv'
  OBVIOUS
<1>1. CASE Step
  <2>1. ASSUME CoreRestoreTpl \/ InterruptReturn \/ NotifyReturn \/ ClientRestore
        PROVE  LInv'
    BY <2>1, RestoreLists
  <2>2. ASSUME CoreDispatchEventNotifies PROVE LInv'
    BY <2>2, DispatchNextLists, DispatchCallLists DEF CoreDispatchEventNotifies
  <2>3. ASSUME GroupList \/ CoreNotifySignalList \/ GroupRelock PROVE LInv'
    BY <2>3, GroupLists, SignalListLists
  <2>4. ASSUME CoreCheckEvent \/ CoreWaitForEvent PROVE LInv'
    BY <2>4, CheckLists
  <2>5. ASSUME CoreCheckTimers PROVE LInv'
    BY <2>5, TimersAcquireLists, TimersScanLists, TimersRearmLists, TimersKickLists,
       TimersInsertLists DEF CoreCheckTimers
  <2>6. ASSUME SetTimerStep PROVE LInv'
    BY <2>6, SetTimerUnlinkLists, SetTimerTimeLists, SetTimerInsertLists,
       SetTimerReleaseLists DEF SetTimerStep
  <2>7. ASSUME CoreCloseEvent PROVE LInv'
    <3>1. CASE CloseCancel
      BY <3>1, CloseNoTimerLists, CloseTimerLists
    <3>2. QED
      BY <2>7, <3>1, CloseUnlinkLists, CloseFreeLists DEF CoreCloseEvent
  <2>8. QED
    BY <1>1, <2>1, <2>2, <2>3, <2>4, <2>5, <2>6, <2>7 DEF Step
<1>2. CASE ClientCall
  BY <1>2, ClientServiceLists, ClientPlainLists, ClientCreateLists DEF ClientCall
<1>3. CASE TimerInterruptHandler
  BY <1>3, InterruptLists
<1>4. CASE UNCHANGED vars
  BY <1>4 DEF vars, LInv
<1>5. QED
  BY <1>1, <1>2, <1>3, <1>4 DEF Next

\* The queues and lists are consistent in every reachable state.
THEOREM ListInvariance == Spec => [](IInv /\ LInv)
<1>1. IInv /\ LInv /\ [Next]_vars => LInv'
  BY ListStep
<1>2. QED
  BY Invariance, ListInit, <1>1, PTL DEF Spec

\* The timer list stays sorted and without duplicates, although CoreCheckTimers
\* and CoreSetTimer change times, take timers out and put them back in steps that
\* ticks interleave.
THEOREM TimersSorted == Spec => []TimerListSorted
<1>1. IInv /\ LInv => TimerListSorted
  <2> SUFFICES ASSUME IInv, LInv PROVE TimerListSorted
    OBVIOUS
  <2>1. DOMAIN mEfiTimerList = 1 .. Len(mEfiTimerList) /\ Len(mEfiTimerList) \in Nat
    BY LenProperties DEF IInv, TimerInv
  <2>2. Unique(mEfiTimerList) /\ Sorted(mEfiTimerList, IEvent)
    BY DEF LInv, LI, TimersLive
  <2>3. \A i, j \in DOMAIN mEfiTimerList : i < j => i # j
    BY <2>1
  <2>4. QED
    BY <2>1, <2>2, <2>3 DEF Unique, Sorted, TimerListSorted
<1>2. QED
  BY ListInvariance, <1>1, PTL

\* No periodic timer is lost: it is in the timer list, or the CoreCheckTimers or
\* CoreSetTimer that took it out is going to insert it.
THEOREM PeriodicKept == Spec => []PeriodicTimerKept
<1>1. IInv /\ LInv => PeriodicTimerKept
  <2> SUFFICES ASSUME IInv, LInv, NEW e \in Signature, IEvent[e].Period # 0,
                      Out(mEfiTimerList, e)
               PROVE  Held(e, {"Timers", "SetTimer"})
    <3>1. DOMAIN mEfiTimerList = 1 .. Len(mEfiTimerList)
      BY LenProperties DEF IInv, TimerInv
    <3>2. QED
      BY <3>1 DEF PeriodicTimerKept, Out
  <2>1. DOMAIN stack = 1 .. Len(stack)
    BY LenProperties, StackSeq
  <2>2. PICK i \in 1 .. Len(stack) : (Rearms(stack[i]) \/ Arms(stack[i])) /\ stack[i].ev = e
    BY DEF LInv, LI, Kept
  <2>3. QED
    BY <2>1, <2>2 DEF Held, Rearms, Arms
<1>2. QED
  BY ListInvariance, <1>1, PTL

\* No queue, no timer list and no signal list refers to a freed event, whatever
\* activations are suspended when it is closed.
THEOREM NothingDangles == Spec => []NoDanglingEvent
<1>1. IInv /\ LInv => NoDanglingEvent
  <2> SUFFICES ASSUME IInv, LInv, NEW e \in EventIds \ Signature
               PROVE  /\ ~Queued(e)
                      /\ \A i \in DOMAIN mEfiTimerList : mEfiTimerList[i] # e
                      /\ \A i \in DOMAIN gEventSignalQueue : gEventSignalQueue[i] # e
    BY DEF NoDanglingEvent
  <2>1. /\ DOMAIN mEfiTimerList = 1 .. Len(mEfiTimerList)
        /\ DOMAIN gEventSignalQueue = 1 .. Len(gEventSignalQueue)
        /\ \A t \in NotifyTpls : DOMAIN gEventQueue[t] = 1 .. Len(gEventQueue[t])
    BY LenProperties DEF IInv, TimerInv, EventInv, SignalQueueOk, QueueOk
  <2>2. ~Queued(e)
    BY <2>1 DEF LInv, LI, QueuesLive, Queued
  <2>3. \A i \in DOMAIN mEfiTimerList : mEfiTimerList[i] # e
    BY <2>1 DEF LInv, LI, TimersLive, LiveTimer
  <2>4. \A i \in DOMAIN gEventSignalQueue : gEventSignalQueue[i] # e
    BY <2>1 DEF IInv, EventInv, SignalQueueOk
  <2>5. QED
    BY <2>2, <2>3, <2>4
<1>2. QED
  BY ListInvariance, <1>1, PTL

-----------------------------------------------------------------------------
(***************************************************************************)
(* The pending bits, and the signals of the events that are waited for.    *)
(***************************************************************************)

\* The steps that touch the notification queues: CoreNotifyEvent on the way
\* through a service, the dispatch of a notification, and CoreCloseEvent.
LEMMA QueueSteps ==
  ASSUME Next
  PROVE  \/ UNCHANGED <<gEventQueue, gEventPending>>
         \/ \E e : CoreNotifyEvent(e)
         \/ DispatchNext \/ CloseUnlink
<1> DEFINE Q == \/ UNCHANGED <<gEventQueue, gEventPending>>
                \/ \E e : CoreNotifyEvent(e)
<1>1. ASSUME NEW e, NEW s, NEW tpl, CoreSignalEvent(e, s, tpl) PROVE Q
  BY <1>1 DEF CoreSignalEvent
<1>2. ASSUME NEW e, NEW s, CheckQueue(e, s) \/ CheckPoll(e, s) PROVE Q
  BY <1>2 DEF CheckQueue, CheckPoll, eventVars
<1> HIDE DEF Q
<1>3. ASSUME CoreRestoreTpl \/ DispatchCall \/ GroupList \/ GroupRelock
             \/ InterruptReturn \/ NotifyReturn \/ ClientRestore
      PROVE  Q
  BY <1>3 DEF CoreRestoreTpl, RestoreTest, RestoreEnter, RestoreSet, DispatchCall, GroupList,
              GroupRelock, InterruptReturn, NotifyReturn, ClientRestore, eventVars, Q
<1>4. ASSUME CoreNotifySignalList PROVE Q
  BY <1>4 DEF CoreNotifySignalList, Q
<1>5. ASSUME CoreCheckEvent \/ CoreWaitForEvent PROVE Q
  BY <1>1, <1>2, <1>5 DEF CoreCheckEvent, CoreWaitForEvent
<1>6. ASSUME CoreCheckTimers PROVE Q
  <2>1. TimersScan => Q
    BY <1>1 DEF TimersScan, eventVars, Q
  <2>2. TimersKick => Q
    BY <1>1 DEF TimersKick
  <2>3. QED
    BY <1>6, <2>1, <2>2 DEF CoreCheckTimers, TimersAcquire, TimersRearm, TimersInsert, eventVars, Q
<1>7. ASSUME SetTimerStep PROVE Q
  <2>1. SetTimerInsert => Q
    BY <1>1 DEF SetTimerInsert, eventVars, Q
  <2>2. QED
    BY <1>7, <2>1 DEF SetTimerStep, SetTimerUnlink, SetTimerTime, SetTimerRelease, eventVars, Q
<1>8. ASSUME CloseCancel \/ CloseFree PROVE Q
  BY <1>8 DEF CloseCancel, CloseFree, eventVars, Q
<1>9. ASSUME ClientCall PROVE Q
  <2>1. ClientSignal => Q
    BY <1>1 DEF ClientSignal
  <2>2. QED
    BY <1>9, <2>1 DEF ClientCall, ClientRaise, ClientCreate, CoreCreateEventEx, ClientCheck,
                      ClientWait, ClientSetTimer, ClientClose, eventVars, Q
<1>10. ASSUME TimerInterruptHandler PROVE Q
  <2>1. \/ UNCHANGED eventVars
        \/ \E s : CoreSignalEvent(mEfiCheckTimerEvent, s, gEfiCurrentTpl)
    BY <1>10 DEF TimerInterruptHandler, CoreTimerTick
  <2>2. QED
    BY <1>1, <2>1 DEF eventVars, Q
<1>11. CASE Step
  BY <1>3, <1>4, <1>5, <1>6, <1>7, <1>8, <1>11 DEF Step, CoreDispatchEventNotifies, CoreCloseEvent, Q
<1>12. QED
  BY <1>9, <1>10, <1>11 DEF Next, Q

\* A queue that holds a notification keeps its pending bit in every step.
LEMMA PendingStep == IInv /\ QueuedIsPending /\ [Next]_vars => QueuedIsPending'
<1> SUFFICES ASSUME IInv, QueuedIsPending, [Next]_vars,
                    NEW t \in NotifyTpls, gEventQueue'[t] # <<>>
             PROVE  t \in gEventPending'
  BY DEF QueuedIsPending
<1>1. gEventQueue \in [NotifyTpls -> Seq(EventIds)]
  BY DEF IInv, EventInv, QueueOk
<1>2. CASE UNCHANGED <<gEventQueue, gEventPending>>
  BY <1>2 DEF QueuedIsPending
<1>3. ASSUME NEW e, CoreNotifyEvent(e) PROVE t \in gEventPending'
  BY <1>1, <1>3 DEF CoreNotifyEvent, QueuedIsPending
<1>4. CASE DispatchNext
  <2>1. CASE gEventQueue[Top.tpl] = <<>>
    BY <1>1, <1>4, <2>1 DEF DispatchNext, QueuedIsPending
  <2>2. CASE gEventQueue[Top.tpl] # <<>>
    BY <1>1, <1>4, <2>2 DEF DispatchNext, QueuedIsPending
  <2>3. QED
    BY <2>1, <2>2
<1>5. CASE CloseUnlink
  <2>1. gEventQueue'[t] = RemoveEntryList(gEventQueue[t], Top.ev) /\ UNCHANGED gEventPending
    BY <1>5 DEF CloseUnlink
  <2>2. gEventQueue[t] # <<>>
    BY <2>1 DEF RemoveEntryList
  <2>3. QED
    BY <2>1, <2>2 DEF QueuedIsPending
<1>6. CASE UNCHANGED vars
  BY <1>2, <1>6 DEF vars
<1>7. QED
  BY <1>2, <1>3, <1>4, <1>5, <1>6, QueueSteps

\* CoreRestoreTpl, which looks at the pending bits only, overlooks no queue.
THEOREM PendingCovers == Spec => []QueuedIsPending
<1>1. Init => QueuedIsPending
  BY DEF Init, QueuedIsPending
<1>2. IInv /\ QueuedIsPending /\ [Next]_vars => QueuedIsPending'
  BY PendingStep
<1>3. QED
  BY Invariance, <1>1, <1>2, PTL DEF Spec

\* The steps that clear the SignalCount of an event that is not NOTIFY_SIGNAL.
LEMMA CountSteps ==
  ASSUME IInv, Next, NEW e \in Signature, ~IsSignal(e),
         IEvent[e].SignalCount # 0, IEvent'[e].SignalCount = 0
  PROVE  \/ Running("Check", "poll") /\ Top.ev = e
         \/ Running("Wait", "poll") /\ UserEvents[Top.x] = e
<1> DEFINE P == \/ Running("Check", "poll") /\ Top.ev = e
                \/ Running("Wait", "poll") /\ UserEvents[Top.x] = e
<1>0. IEvent \in [EventIds -> EventStructs] /\ e \in EventIds
  BY DEF IInv, EventInv, StructOk
<1>1. IEvent' # IEvent
  OBVIOUS
<1>2. \A d, n : n # 0 => IEvent' # [IEvent EXCEPT ![d].SignalCount = n]
  BY <1>0 DEF EventStructs
<1>3. /\ \A d, n : IEvent' # [IEvent EXCEPT ![d].TriggerTime = n]
      /\ \A d, n, m : IEvent' # [IEvent EXCEPT ![d].TriggerTime = n, ![d].Period = m]
      /\ \A d, f : d # e => IEvent' # [IEvent EXCEPT ![d] = f]
  BY <1>0 DEF EventStructs
<1>4. \A d, n : d # e => IEvent' # [IEvent EXCEPT ![d].SignalCount = n]
  BY <1>0 DEF EventStructs
<1>5. ASSUME NEW d, NEW s, NEW tpl, CoreSignalEvent(d, s, tpl) PROVE FALSE
  BY <1>1, <1>2, <1>5 DEF CoreSignalEvent
<1>6. ASSUME NEW d, NEW s, CheckQueue(d, s) PROVE FALSE
  BY <1>1, <1>6 DEF CheckQueue, eventVars
<1>7. ASSUME NEW d, NEW s, CheckPoll(d, s) PROVE d = e
  BY <1>1, <1>4, <1>7 DEF CheckPoll, eventVars
<1>8. ~(CoreRestoreTpl \/ DispatchCall \/ GroupList \/ GroupRelock \/ CoreNotifySignalList
        \/ InterruptReturn \/ NotifyReturn \/ ClientRestore \/ CoreCloseEvent)
  BY <1>1 DEF CoreRestoreTpl, RestoreTest, RestoreEnter, RestoreSet, DispatchCall, GroupList,
              GroupRelock, CoreNotifySignalList, InterruptReturn, NotifyReturn, ClientRestore,
              CoreCloseEvent, CloseCancel, CloseUnlink, CloseFree, eventVars
<1>9. ~DispatchNext
  BY <1>1, <1>4 DEF DispatchNext, IsSignal
<1>10. ASSUME CoreCheckEvent \/ CoreWaitForEvent PROVE P
  BY <1>5, <1>6, <1>7, <1>10 DEF CoreCheckEvent, CoreWaitForEvent
<1>11. ~CoreCheckTimers
  BY <1>1, <1>3, <1>5 DEF CoreCheckTimers, TimersAcquire, TimersScan, TimersRearm, TimersKick,
                          TimersInsert, eventVars
<1>12. ~SetTimerStep
  BY <1>1, <1>3, <1>5, SMTT(30) DEF SetTimerStep, SetTimerUnlink, SetTimerTime, SetTimerInsert,
                          SetTimerRelease, eventVars
<1>13. ~ClientCall
  <2>1. ~ClientSignal
    BY <1>5 DEF ClientSignal
  <2>2. ~ClientCreate
    BY <1>3 DEF ClientCreate, CoreCreateEventEx
  <2>3. QED
    BY <1>1, <2>1, <2>2 DEF ClientCall, ClientRaise, ClientCheck, ClientWait, ClientSetTimer,
                            ClientClose, eventVars
<1>14. ~TimerInterruptHandler
  BY <1>1, <1>5 DEF TimerInterruptHandler, CoreTimerTick, eventVars
<1>15. QED
  BY <1>8, <1>9, <1>10, <1>11, <1>12, <1>13, <1>14 DEF Next, Step, CoreDispatchEventNotifies

\* "WAIT type events are only cleared in CheckEvent()": the signal of an event that
\* can be waited for is consumed by the poll that reports it, and by no dispatch of
\* its notification, no timer and no close of another event.
THEOREM SignalsConsumed == Spec => SignalConsumedByCheck
<1>1. IInv /\ [Next]_vars =>
        [\A e \in Signature :
           ~IsSignal(e) /\ IEvent[e].SignalCount # 0 /\ IEvent'[e].SignalCount = 0 =>
             \/ Running("Check", "poll") /\ Top.ev = e
             \/ Running("Wait", "poll") /\ UserEvents[Top.x] = e]_vars
  BY CountSteps
<1>2. QED
  BY Invariance, <1>1, PTL DEF Spec, SignalConsumedByCheck
=============================================================================
