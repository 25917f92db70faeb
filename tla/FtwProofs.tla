------------------------------ MODULE FtwProofs -----------------------------
(***************************************************************************)
(* Theorems about Ftw for any number of blocks, cells, values and requests *)
(* and any size of the queue, with write lists of one record, as FtwWrite  *)
(* makes them.                                                             *)
(*                                                                         *)
(* First the queue and the programs: IInv says, of the work space, that a  *)
(* power failure at any step leaves a queue the search for the last header *)
(* can use, and, of the driver, at which place of which service it is and  *)
(* what the flash and its memory hold there. It gives the types, the tidy  *)
(* queue and that a header FtwAllocate has written is found.               *)
(*                                                                         *)
(* Then the data: DInv says which write is pending and that no step that   *)
(* would lose its spare copy or its header is taken while it is. It gives  *)
(* the refinement of AtomicWrite, and what InitFtwProtocol recovers.       *)
(***************************************************************************)
EXTENDS Ftw, NaturalsInduction, SequenceTheorems, WellFoundedInduction, TLAPS

-----------------------------------------------------------------------------
(***************************************************************************)
(* The setting.                                                            *)
(***************************************************************************)

\* Lists of one record: no client in the repository calls Allocate, and FtwWrite, which
\* then allocates a list itself, passes 1.
SingleWrites == AllocSizes \subseteq {1}

\* The device may report an error of any flash operation of a service outside the
\* reclaim, except of the one that writes a header.
ServiceErrors ==
  FaultSteps \subseteq
    {"write_record", "erase_spare", "write_spare", "spare_complete", "erase_target",
     "write_target", "dest_complete", "writes_complete", "restore_spare", "abort",
     "writes_allocated"}

Setting == SingleWrites /\ ServiceErrors

-----------------------------------------------------------------------------
(***************************************************************************)
(* Queues.                                                                 *)
(***************************************************************************)
Queues == [Slots -> SlotType]

\* The search for the last header comes by slot h: the headers before it are
\* complete, each next one behind the records of the one before.
Route(q, h) ==
  \E S \in SUBSET Slots :
    /\ 1 \in S /\ h \in S
    /\ \A i \in S : /\ i <= h
                    /\ i # h => 4 \in q[i].bits /\ i + 1 + q[i].n \in S

\* It stops at h, or it comes to the end of the queue.
Open(q, h)   == Route(q, h) /\ 4 \notin q[h].bits
Ended(q)     == \E h \in Slots : Route(q, h) /\ 4 \in q[h].bits /\ h + 1 + q[h].n > QueueSize

BlankFrom(q, i) == \A j \in Slots : j >= i => q[j] = ErasedSlot

\* What can be found at the last header: nothing; the rest of a header whose write
\* was cut off before its state bit; a header that was cut off behind it; a header
\* with its record.
Fresh(q, h)   == Open(q, h) /\ BlankFrom(q, h)
Frayed(q, h)  == Open(q, h) /\ q[h].bits = {} /\ BlankFrom(q, h + 1)
Partial(q, h) == Open(q, h) /\ h < QueueSize /\ 1 \in q[h].bits /\ BlankFrom(q, h + 1)
Listed(q, h)  == /\ Open(q, h) /\ h < QueueSize
                 /\ 1 \in q[h].bits /\ q[h].n = 1 /\ BlankFrom(q, h + 2)

\* A header without a state bit, in a queue that may be half erased.
Unused(q, h)  == /\ Open(q, h) /\ q[h].bits = {}
                 /\ q[h].n > 1 => \A j \in Slots : j > h => 4 \notin q[j].bits

Dead(q)    == Ended(q) \/ \E h \in Slots : Unused(q, h)
Settled(q) == Ended(q) \/ \E h \in Slots : Fresh(q, h)
Clean(q)   == Ended(q) \/ \E h \in Slots : Fresh(q, h) \/ Listed(q, h)
Shape(q)   == Ended(q) \/ \E h \in Slots : Frayed(q, h) \/ Listed(q, h) \/ Partial(q, h)

\* What a power failure may leave; the same with a valid work space; what a service
\* needs and leaves; a work space that has just been reclaimed.
Safe(w)      == IF w.hdr = "Valid" THEN Shape(w.queue) ELSE Dead(w.queue)
SafeValid(w) == w.hdr = "Valid" /\ Shape(w.queue)
Ready(w)     == w.hdr = "Valid" /\ Clean(w.queue)
NewWork      == [hdr |-> "Valid", queue |-> EmptyQueue]

-----------------------------------------------------------------------------
(***************************************************************************)
(* Places.                                                                 *)
(***************************************************************************)
Push(op, p) == <<op>> \o p

PAbort      == Push("abort", <<>>)
PRefAbort   == Push("refresh", PAbort)
PISpare     == Push("check_spare", <<>>)
PIEmpty     == Push("check_empty", PISpare)
PILast      == Push("check_last", PIEmpty)
PIFirst     == Push("check_first", PILast)
PIValid     == Push("check_valid", PIFirst)
PAgain      == Push("refresh", PIFirst)
PFlushed    == Push("refresh", Push("abort", PAgain))

\* What follows a header that is written, a record that is complete, and a restart,
\* in service c.
PCheck      == Push("check_write", <<>>)
PBit(c)     == Push("writes_allocated", IF c = "Write" THEN PCheck ELSE <<>>)
PHeader(c)  == Push("write_header", PBit(c))
PAlloc(c)   == Push("allocate", PHeader(c))
PWrite      == Push("write", <<>>)
PGetLast    == Push("get_last", <<>>)
PRestart(c) == Push("restart", IF c = "Init" THEN PRefAbort ELSE <<>>)
PRestore    == Push("restore_spare", <<>>)
PAfterFree(c) == IF c = "Write" THEN PRestore ELSE IF c = "Init" THEN PRefAbort ELSE <<>>
PFree(c)    == Push("erase_spare", PAfterFree(c))
PDone(c)    == Push("writes_complete", PFree(c))
PDest(c)    == Push("dest_complete", PDone(c))
PFlush(c)   == Push("write_target", PDest(c))
PClear(c)   == Push("erase_target", PFlush(c))
PCommit     == Push("spare_complete", PClear("Write"))
PSpare      == Push("write_spare", PCommit)
PErase      == Push("erase_spare", PSpare)
PRecord     == Push("write_record", PErase)

\* The reclaim, from each of its steps on.
RRestore(t)   == Push("reclaim_restore", t)
RErase2(t)    == Push("reclaim_erase", RRestore(t))
RWorkValid(t) == Push("work_valid", t)
RWriteWork(t) == Push("write_work", RWorkValid(t))
REraseWork(t) == Push("erase_work", RWriteWork(t))
RInvalid2(t)  == Push("work_invalid", REraseWork(t))
RValid2(t)    == Push("spare_valid", RInvalid2(t))
RInvalid1(t)  == Push("work_invalid", RValid2(t))
RValid1(t)    == Push("spare_valid", RInvalid1(t))
RCopy(t)      == Push("reclaim_copy", RValid1(t))
RErase1(t)    == Push("reclaim_erase", RCopy(t))

\* What may follow WorkSpaceRefresh in the service in progress, by what it needs of
\* the work space.
AfterReady(t) ==
  \/ t = PAbort /\ call \in {"Abort", "GetLastWrite", "Init"}
  \/ t = PAlloc(call) /\ call \in {"Allocate", "Write"}
  \/ t = PWrite /\ call = "Write"
  \/ t = PRestart(call) /\ call \in {"Restart", "Init"}
  \/ t = PGetLast /\ call = "GetLastWrite"
  \/ t = Push("abort", PIEmpty) /\ call = "Init"
AfterValid(t) ==
  call = "Init" /\ t \in {Push("abort", PILast), Push("abort", PAgain), PIFirst}
AfterSafe(t)  == call = "Init" /\ t = PIValid

\* What may follow the reclaim: Reread and what WorkSpaceRefresh is followed by, or
\* the next check of InitFtwProtocol.
AfterReclaim(t) ==
  \/ \E u : t = Push("reread", u) /\ (AfterReady(u) \/ AfterValid(u) \/ AfterSafe(u))
  \/ call = "Init" /\ t \in {PIFirst, PISpare}

\* What may follow FlushSpareBlockToWorkingBlock, within the reclaim or on its own.
AfterFlush(t) ==
  \/ \E u : t = RErase2(u) /\ AfterReclaim(u) /\ dev.h = 1 /\ dev.r = 2
  \/ call = "Init" /\ t = PFlushed

\* The copy in memory is that of the flash, and the last header has been found.
Synced == /\ dev.ws = work /\ Open(work.queue, dev.h) /\ dev.h < QueueSize
          /\ dev.r = FtwGetLastWriteRecord(work.queue, dev.h)

\* Between WriteHeader and WritesComplete.
Amid ==
  /\ work.hdr = "Valid" /\ Listed(work.queue, dev.h) /\ dev.r = dev.h + 1
  /\ dev.ws.queue[dev.h].n = 1 /\ 4 \notin dev.ws.queue[dev.h].bits
  /\ dev.ws.queue[dev.r].bits = work.queue[dev.r].bits

\* InitFtwProtocol has completed the header it has found.
Closed == /\ dev.ws = work /\ Settled(work.queue) /\ EmptyAfter(work.queue, dev.h)
          /\ 4 \in work.queue[dev.h].bits

InIdle    == call = "none" /\ prog = <<>> /\ Ready(work)
InEnd     == call # "none" /\ prog = <<>> /\ Ready(work)
InRefresh == \E t :
    /\ prog = Push("refresh", t)
    /\ \/ AfterReady(t) /\ Ready(work)
       \/ AfterValid(t) /\ SafeValid(work)
       \/ AfterSafe(t)
InAbort   ==
    /\ Synced
    /\ \/ prog = PAbort /\ call \in {"Abort", "GetLastWrite", "Init"} /\ Ready(work)
       \/ prog = Push("abort", PIEmpty) /\ call = "Init" /\ Ready(work)
       \/ /\ prog \in {Push("abort", PILast), Push("abort", PAgain)} /\ call = "Init"
          /\ SafeValid(work)
InAllocate == prog = PAlloc(call) /\ call \in {"Allocate", "Write"} /\ Ready(work) /\ Synced
InHeader   == /\ prog = PHeader(call) /\ call \in {"Allocate", "Write"} /\ Ready(work) /\ Synced
              /\ Fresh(work.queue, dev.h) /\ dev.off = dev.h
InBit      == /\ prog = PBit(call) /\ call \in {"Allocate", "Write"} /\ Amid /\ dev.off = dev.h
InWrite    == prog = PWrite /\ call = "Write" /\ Ready(work) /\ Synced
InCheck    == prog = PCheck /\ call = "Write" /\ Amid
InRecord   == prog = PRecord /\ call = "Write" /\ Amid
InErase    == \/ prog = PErase /\ call = "Write" /\ Amid
              \/ prog = PFree(call) /\ call \in {"Write", "Restart", "Init"} /\ Ready(work)
InSpare    == prog = PSpare /\ call = "Write" /\ Amid
InCommit   == prog = PCommit /\ call = "Write" /\ Amid
InClear    == prog = PClear(call) /\ call \in {"Write", "Restart", "Init"} /\ Amid
InFlush    == prog = PFlush(call) /\ call \in {"Write", "Restart", "Init"} /\ Amid
InDest     == prog = PDest(call) /\ call \in {"Write", "Restart", "Init"} /\ Amid
InDone     == prog = PDone(call) /\ call \in {"Write", "Restart", "Init"} /\ Amid
InRestore  == prog = PRestore /\ call = "Write" /\ Ready(work)
InRestart  == prog = PRestart(call) /\ call \in {"Restart", "Init"} /\ Ready(work) /\ Synced
InGetLast  == prog = PGetLast /\ call = "GetLastWrite" /\ Ready(work) /\ Synced

InValid    == call = "Init" /\ prog = PIValid /\ Synced
InFirst    == call = "Init" /\ prog = PIFirst /\ SafeValid(work) /\ Synced
\* A header that is left is one with a complete spare copy.
Left == \/ Frayed(work.queue, dev.h)
        \/ Listed(work.queue, dev.h) /\ 2 \in work.queue[dev.r].bits
InLast     == /\ call = "Init" /\ prog = PILast /\ work.hdr = "Valid"
              /\ Closed \/ (Synced /\ Left)
InEmpty    == /\ call = "Init" /\ prog = PIEmpty /\ work.hdr = "Valid"
              /\ Closed \/ (Synced /\ Left)
InISpare   == /\ call = "Init" /\ prog = PISpare /\ Ready(work)
              /\ Closed \/ Synced

InCollect  ==
  /\ Dead(work.queue)
  /\ \/ /\ \E t : prog = Push("collect", RErase1(RErase2(t))) /\ AfterReclaim(t)
        /\ Dead(dev.ws.queue)
     \/ call = "Init" /\ prog = Push("collect_none", RErase1(RErase2(PIFirst)))
\* The steps of the reclaim before the working block is erased.
Gone       == dev.ws.queue = EmptyQueue /\ Dead(work.queue)
Renewed    == work = NewWork /\ dev.ws = NewWork /\ dev.h = 1 /\ dev.r = 2
InEraseR   == \E t :
    \/ prog = RErase1(t) /\ AfterFlush(t) /\ Gone
    \/ prog = RErase2(t) /\ AfterReclaim(t) /\ Renewed
InCopy     == \E t : prog = RCopy(t) /\ AfterFlush(t) /\ Gone
InSpareV   == \E t : prog \in {RValid1(t), RValid2(t)} /\ AfterFlush(t) /\ Gone
InWorkI    == \E t : prog \in {RInvalid1(t), RInvalid2(t)} /\ AfterFlush(t) /\ Gone
InEraseW   == \E t : prog = REraseWork(t) /\ AfterFlush(t) /\ Gone /\ work.hdr # "Valid"
InWriteW   == \E t : prog = RWriteWork(t) /\ AfterFlush(t) /\ Gone /\ work = ErasedWork
InWorkV    == \E t :
    /\ prog = RWorkValid(t) /\ AfterFlush(t) /\ Gone
    /\ work = [hdr |-> "Blank", queue |-> EmptyQueue]
InRestoreR == \E t : prog = RRestore(t) /\ AfterReclaim(t) /\ Renewed
InReread   == \E t :
    /\ prog = Push("reread", t) /\ Renewed
    /\ AfterReady(t) \/ AfterValid(t) \/ AfterSafe(t)

Typed == /\ FtwTypeOK
         /\ spare.queue = EmptyQueue /\ dev.save.queue = EmptyQueue
         /\ call = "Write" => arg \in Requests
         /\ call = "Allocate" => arg = 1

InService ==
  \/ InAllocate \/ InHeader \/ InBit \/ InWrite \/ InCheck \/ InRecord \/ InErase
  \/ InSpare \/ InCommit \/ InClear \/ InFlush \/ InDest \/ InDone \/ InRestore
  \/ InRestart \/ InGetLast \/ InAbort
InStart == InValid \/ InFirst \/ InLast \/ InEmpty \/ InISpare
InReclaim ==
  \/ InCollect \/ InEraseR \/ InCopy \/ InSpareV \/ InWorkI
  \/ InEraseW \/ InWriteW \/ InWorkV \/ InRestoreR \/ InReread

IInv == /\ Typed /\ Safe(work)
        /\ InIdle \/ InEnd \/ InRefresh \/ InService \/ InStart \/ InReclaim
-----------------------------------------------------------------------------
(***************************************************************************)
(* FtwGetLastWriteHeader.                                                  *)
(***************************************************************************)

\* A nonempty set of slots has a least and a greatest member.
LEMMA Extremes ==
  ASSUME NEW S, S \subseteq Slots, S # {}
  PROVE  /\ \E m \in S : \A n \in S : m <= n
         /\ \E m \in S : \A n \in S : n <= m
<1>1. ASSUME NEW T, T \subseteq Nat, T # {} PROVE \E m \in T : \A n \in T : m <= n
  <2>1. IsWellFoundedOn(OpToRel(<, Nat), Nat)
    BY NatLessThanWellFounded
  <2>2. PICK m \in T : \A n \in T : <<n, m>> \notin OpToRel(<, Nat)
    BY <1>1, <2>1, WFMin
  <2>3. \A n \in T : ~(n < m)
    BY <1>1, <2>2 DEF OpToRel
  <2>4. QED
    BY <1>1, <2>3
<1>2. QueueSize \in Nat /\ Slots = 1 .. QueueSize
  BY FlashAssumption DEF Slots
<1>3. \E m \in S : \A n \in S : m <= n
  <2>1. S \subseteq Nat
    BY <1>2
  <2>2. QED
    BY <1>1, <2>1
<1>4. \E m \in S : \A n \in S : n <= m
  <2> DEFINE T == {k \in Nat : \E n \in S : k = QueueSize - n}
  <2>1. T \subseteq Nat /\ T # {}
    <3>1. PICK n \in S : TRUE
      OBVIOUS
    <3>2. QueueSize - n \in T
      BY <1>2, <3>1
    <3>3. QED
      BY <3>2
  <2>2. PICK k \in T : \A j \in T : k <= j
    <3> HIDE DEF T
    <3>1. QED
      BY <1>1, <2>1
  <2>3. PICK m \in S : k = QueueSize - m
    BY <2>2
  <2>4. ASSUME NEW n \in S PROVE n <= m
    <3>1. QueueSize - n \in T
      BY <1>2
    <3>2. k <= QueueSize - n
      BY <2>2, <3>1
    <3>3. QED
      BY <1>2, <2>3, <3>2
  <2>5. QED
    BY <2>4
<1>5. QED
  BY <1>3, <1>4

\* The outcome of the search from each slot on.
Outcome == [ok : BOOLEAN, h : Slots]
Step(q, i, f) ==
  IF 4 \notin q[i].bits THEN [ok |-> TRUE, h |-> i]
  ELSE IF i + 1 + q[i].n > QueueSize THEN [ok |-> FALSE, h |-> i]
  ELSE f[i + 1 + q[i].n]
IsSearch(q, f) == f = [i \in Slots |-> Step(q, i, f)]

\* There is a function that follows the search from every slot.
LEMMA SearchExists ==
  ASSUME NEW q \in Queues
  PROVE  \E f : IsSearch(q, f)
<1> DEFINE From(k)  == {i \in Slots : i > k}
           Ok(k, f) == f \in [From(k) -> Outcome] /\ \A i \in From(k) : f[i] = Step(q, i, f)
           Bad == {k \in Slots : \E f : Ok(k - 1, f)}
<1>1. QueueSize \in Nat /\ Slots = 1 .. QueueSize /\ QueueSize >= 2
  BY FlashAssumption DEF Slots
<1>2. \A i \in Slots : q[i].n \in Nat /\ i \in Nat
  BY <1>1 DEF Queues, SlotType
<1>3. ASSUME NEW k \in Slots, NEW f, Ok(k, f) PROVE \E g : Ok(k - 1, g)
  <2> DEFINE g == [i \in From(k - 1) |-> IF i = k THEN Step(q, k, f) ELSE f[i]]
  <2>1. From(k - 1) = From(k) \cup {k} /\ k \notin From(k)
    BY <1>1
  <2>2. \A i \in From(k) : g[i] = f[i]
    BY <2>1
  <2>3. \A i \in From(k - 1) : i + 1 + q[i].n > QueueSize \/ i + 1 + q[i].n \in From(k)
    BY <1>1, <1>2
  <2>4. Step(q, k, f) \in Outcome
    BY <1>3, <2>1, <2>3 DEF Step, Outcome
  <2>5. g \in [From(k - 1) -> Outcome]
    BY <1>3, <2>1, <2>4
  <2>6. ASSUME NEW i \in From(k - 1) PROVE g[i] = Step(q, i, g)
    <3>1. Step(q, i, g) = Step(q, i, f)
      <4>1. CASE i + 1 + q[i].n > QueueSize
        BY <4>1 DEF Step
      <4>2. CASE i + 1 + q[i].n \in From(k)
        <5>1. g[i + 1 + q[i].n] = f[i + 1 + q[i].n]
          BY <4>2, <2>2
        <5> HIDE DEF g
        <5>2. QED
          BY <5>1 DEF Step
      <4>3. QED
        BY <4>1, <4>2, <2>3
    <3>2. QED
      BY <1>3, <3>1, <2>1
  <2>7. QED
    BY <2>5, <2>6
<1>4. \E f : Ok(0, f)
  <2>1. Bad # {}
    <3>1. QueueSize \in Slots /\ From(QueueSize) = {}
      BY <1>1
    <3>2. Ok(QueueSize, [i \in From(QueueSize) |-> [ok |-> TRUE, h |-> 1]])
      BY <3>1
    <3>3. \E g : Ok(QueueSize - 1, g)
      <4> HIDE DEF Ok
      <4>1. QED
        BY <3>1, <3>2, <1>3
    <3>4. QED
      BY <3>1, <3>3
  <2>2. PICK m \in Bad : \A n \in Bad : m <= n
    <3>1. Bad \subseteq Slots
      OBVIOUS
    <3> HIDE DEF Bad
    <3>2. QED
      BY <2>1, <3>1, Extremes
  <2>3. CASE m = 1
    BY <2>2, <2>3
  <2>4. CASE m # 1
    <3>1. m - 1 \in Slots /\ m \in Slots
      BY <1>1, <2>2, <2>4
    <3>2. PICK f : Ok(m - 1, f)
      BY <2>2
    <3>3. \E g : Ok((m - 1) - 1, g)
      <4> HIDE DEF Ok
      <4>1. QED
        BY <1>3, <3>1, <3>2
    <3>4. m - 1 \in Bad
      BY <3>1, <3>3
    <3>5. m <= m - 1
      <4> HIDE DEF Bad
      <4>1. QED
        BY <2>2, <3>4
    <3>6. QED
      BY <3>1, <3>5, <1>1
  <2>5. QED
    BY <2>3, <2>4
<1>5. PICK f : Ok(0, f)
  BY <1>4
<1>6. From(0) = Slots
  BY <1>1
<1>7. f = [i \in Slots |-> Step(q, i, f)]
  BY <1>5, <1>6
<1>8. QED
  BY <1>7 DEF IsSearch

\* What FtwGetLastWriteHeader finds is the outcome from the first slot.
LEMMA SearchFound ==
  ASSUME NEW q \in Queues
  PROVE  \E f : IsSearch(q, f) /\ FtwGetLastWriteHeader(q) = f[1]
<1> DEFINE f == CHOOSE f : IsSearch(q, f)
<1>1. IsSearch(q, f)
  BY SearchExists
<1>2. FtwGetLastWriteHeader(q) = f[1]
  BY DEF FtwGetLastWriteHeader, IsSearch, Step, Has, WRITES_COMPLETED
<1>3. QED
  BY <1>1, <1>2

\* The slots of the queue, and what a slot of a queue holds.
LEMMA SlotFacts ==
  /\ QueueSize \in Nat /\ QueueSize >= 2 /\ Slots = 1 .. QueueSize /\ 1 \in Slots /\ 2 \in Slots
  /\ \A q \in Queues, i \in Slots :
       /\ q[i] \in SlotType /\ q[i].bits \subseteq {1, 2, 4}
       /\ q[i].n \in Nat /\ q[i].n <= QueueSize /\ q[i].lba \subseteq Bits
<1>1. QueueSize \in Nat /\ Slots = 1 .. QueueSize /\ QueueSize >= 2
  BY FlashAssumption DEF Slots
<1>2. QED
  BY <1>1 DEF Queues, SlotType

\* The search that comes by h finds what it finds from h on.
LEMMA SearchPasses ==
  ASSUME NEW q \in Queues, NEW h \in Slots, Route(q, h), NEW f, IsSearch(q, f)
  PROVE  f[1] = f[h]
<1>1. PICK S \in SUBSET Slots :
        /\ 1 \in S /\ h \in S
        /\ \A i \in S : /\ i <= h
                        /\ i # h => 4 \in q[i].bits /\ i + 1 + q[i].n \in S
  BY DEF Route
<1> DEFINE T == {i \in S : f[i] # f[h]}
<1>2. SUFFICES ASSUME T # {} PROVE FALSE
  BY <1>1
<1>3. PICK i \in T : \A j \in T : j <= i
  <2>1. T \subseteq Slots
    OBVIOUS
  <2> HIDE DEF T
  <2>2. QED
    BY <1>2, <2>1, Extremes
<1>4. i \in S /\ i # h /\ i \in Slots
  BY <1>3
<1>5. 4 \in q[i].bits /\ i + 1 + q[i].n \in S /\ i + 1 + q[i].n \in Slots
  BY <1>1, <1>4
<1>6. i \in Nat /\ q[i].n \in Nat
  BY <1>4, SlotFacts
<1>7. i + 1 + q[i].n \notin T
  <2>1. ~(i + 1 + q[i].n <= i)
    BY <1>6
  <2> HIDE DEF T
  <2>2. QED
    BY <2>1, <1>3
<1>8. f[i + 1 + q[i].n] = f[h]
  BY <1>5, <1>7
<1>9. f[i] = f[i + 1 + q[i].n]
  <2>1. ~(i + 1 + q[i].n > QueueSize)
    BY <1>5, SlotFacts
  <2>2. f[i] = Step(q, i, f)
    BY <1>4 DEF IsSearch
  <2>3. QED
    BY <2>1, <2>2, <1>5 DEF Step
<1>10. QED
  BY <1>3, <1>8, <1>9

\* Where the search stops.
LEMMA SearchStops ==
  ASSUME NEW q \in Queues, NEW h \in Slots, Route(q, h)
  PROVE  /\ 4 \notin q[h].bits => FtwGetLastWriteHeader(q) = [ok |-> TRUE, h |-> h]
         /\ 4 \in q[h].bits /\ h + 1 + q[h].n > QueueSize =>
              FtwGetLastWriteHeader(q) = [ok |-> FALSE, h |-> h]
<1>1. PICK f : IsSearch(q, f) /\ FtwGetLastWriteHeader(q) = f[1]
  BY SearchFound
<1>2. f[1] = f[h]
  BY <1>1, SearchPasses
<1>3. f[h] = Step(q, h, f)
  BY <1>1 DEF IsSearch
<1>4. QED
  BY <1>1, <1>2, <1>3 DEF Step

\* The first slot is on the route, and behind a complete header the next one.
LEMMA RouteBegins ==
  ASSUME NEW q \in Queues
  PROVE  Route(q, 1)
<1> DEFINE S == {1}
<1>1. S \in SUBSET Slots /\ 1 \in S
  BY SlotFacts
<1>2. \A i \in S : i <= 1 /\ (i # 1 => 4 \in q[i].bits /\ i + 1 + q[i].n \in S)
  OBVIOUS
<1> HIDE DEF S
<1>3. QED
  BY <1>1, <1>2, Zenon DEF Route

\* Behind a complete header the search goes on behind its records.
LEMMA RouteGoesOn ==
  ASSUME NEW q \in Queues, NEW h \in Slots, Route(q, h), 4 \in q[h].bits,
         h + 1 + q[h].n <= QueueSize
  PROVE  h + 1 + q[h].n \in Slots /\ Route(q, h + 1 + q[h].n)
<1>1. PICK S \in SUBSET Slots :
        /\ 1 \in S /\ h \in S
        /\ \A i \in S : /\ i <= h
                        /\ i # h => 4 \in q[i].bits /\ i + 1 + q[i].n \in S
  BY DEF Route
<1>2. h \in Nat /\ q[h].n \in Nat /\ QueueSize \in Nat
  BY SlotFacts
<1> DEFINE m == h + 1 + q[h].n
           U == S \cup {m}
<1>3. m \in Slots /\ h < m
  BY <1>2, SlotFacts
<1>4. U \in SUBSET Slots /\ 1 \in U /\ m \in U
  BY <1>1, <1>3
<1>5. ASSUME NEW i \in U PROVE i <= m /\ (i # m => 4 \in q[i].bits /\ i + 1 + q[i].n \in U)
  <2>1. CASE i = m
    BY <2>1, <1>3, SlotFacts
  <2>2. CASE i # m
    <3>1. i \in S /\ i <= h /\ i \in Nat
      BY <2>2, <1>1, SlotFacts
    <3>2. i <= m
      BY <3>1, <1>2
    <3>3. 4 \in q[i].bits /\ i + 1 + q[i].n \in U
      BY <3>1, <1>1
    <3>4. QED
      BY <3>2, <3>3
  <2>3. QED
    BY <2>1, <2>2
<1>6. Route(q, m)
  <2> HIDE DEF m, U
  <2>1. QED
    BY <1>4, <1>5, Zenon DEF Route
<1>7. QED
  BY <1>3, <1>6

\* The route depends on what is before its end only.
LEMMA RouteSame ==
  ASSUME NEW q \in Queues, NEW p \in Queues, NEW h \in Slots, Route(q, h),
         \A i \in Slots : i < h => p[i] = q[i]
  PROVE  Route(p, h)
<1>1. PICK S \in SUBSET Slots :
        /\ 1 \in S /\ h \in S
        /\ \A i \in S : /\ i <= h
                        /\ i # h => 4 \in q[i].bits /\ i + 1 + q[i].n \in S
  BY DEF Route
<1>2. ASSUME NEW i \in S, i # h PROVE p[i] = q[i]
  BY <1>1, <1>2, SlotFacts
<1>3. QED
  BY <1>1, <1>2 DEF Route

\* The search ends, in one of the two ways.
LEMMA SearchEnds ==
  ASSUME NEW q \in Queues
  PROVE  Ended(q) \/ \E h \in Slots : Open(q, h)
<1> DEFINE T == {h \in Slots : Route(q, h)}
<1>1. T # {}
  BY RouteBegins, SlotFacts
<1>2. PICK h \in T : \A j \in T : j <= h
  <2>1. T \subseteq Slots
    OBVIOUS
  <2> HIDE DEF T
  <2>2. QED
    BY <1>1, <2>1, Extremes
<1>3. h \in Slots /\ Route(q, h) /\ h \in Nat /\ q[h].n \in Nat /\ QueueSize \in Nat
  BY <1>2, SlotFacts
<1>4. CASE 4 \in q[h].bits /\ h + 1 + q[h].n <= QueueSize
  <2>1. h + 1 + q[h].n \in T
    BY <1>3, <1>4, RouteGoesOn
  <2>2. h + 1 + q[h].n <= h
    BY <2>1, <1>2
  <2>3. QED
    BY <2>2, <1>3
<1>5. CASE 4 \in q[h].bits /\ h + 1 + q[h].n > QueueSize
  BY <1>3, <1>5 DEF Ended
<1>6. CASE 4 \notin q[h].bits
  BY <1>3, <1>6 DEF Open
<1>7. QED
  BY <1>3, <1>4, <1>5, <1>6

\* The two ways exclude each other, and what FtwGetLastWriteHeader returns tells them.
LEMMA LastHeader ==
  ASSUME NEW q \in Queues
  PROVE  /\ \A h \in Slots : Open(q, h) => FtwGetLastWriteHeader(q) = [ok |-> TRUE, h |-> h]
         /\ Ended(q) => /\ FtwGetLastWriteHeader(q).ok = FALSE
                        /\ FtwGetLastWriteHeader(q).h \in Slots
                        /\ LET h == FtwGetLastWriteHeader(q).h
                           IN  4 \in q[h].bits /\ h + 1 + q[h].n > QueueSize
<1>1. ASSUME NEW h \in Slots, Open(q, h)
      PROVE  FtwGetLastWriteHeader(q) = [ok |-> TRUE, h |-> h]
  BY <1>1, SearchStops DEF Open
<1>2. ASSUME Ended(q)
      PROVE  /\ FtwGetLastWriteHeader(q).ok = FALSE
             /\ FtwGetLastWriteHeader(q).h \in Slots
             /\ LET h == FtwGetLastWriteHeader(q).h
                IN  4 \in q[h].bits /\ h + 1 + q[h].n > QueueSize
  <2>1. PICK h \in Slots : Route(q, h) /\ 4 \in q[h].bits /\ h + 1 + q[h].n > QueueSize
    BY <1>2 DEF Ended
  <2>2. FtwGetLastWriteHeader(q) = [ok |-> FALSE, h |-> h]
    BY <2>1, SearchStops
  <2>3. FtwGetLastWriteHeader(q).ok = FALSE /\ FtwGetLastWriteHeader(q).h = h
    BY <2>2
  <2>4. QED
    BY <2>1, <2>3
<1>3. QED
  BY <1>1, <1>2

-----------------------------------------------------------------------------
(***************************************************************************)
(* FtwGetLastWriteRecord.                                                  *)
(***************************************************************************)

\* The record of a list of one, and the first record that is not complete.
LEMMA FirstRecord ==
  ASSUME NEW q \in Queues, NEW h \in Slots, h < QueueSize,
         q[h].n = 1 \/ 4 \notin q[h + 1].bits
  PROVE  FtwGetLastWriteRecord(q, h) = h + 1
<1> DEFINE open == {r \in h + 1 .. QueueSize :
                      (q[h].n = 0 \/ r <= h + q[h].n) /\ 4 \notin q[r].bits}
<1>1. h \in Nat /\ QueueSize \in Nat /\ q[h].n \in Nat /\ h + 1 \in h + 1 .. QueueSize
  BY SlotFacts
<1>2. FtwGetLastWriteRecord(q, h) =
        IF open = {} THEN h + q[h].n ELSE CHOOSE r \in open : \A s \in open : r <= s
  BY DEF FtwGetLastWriteRecord, Has, DEST_COMPLETED
<1>3. \A r \in open : h + 1 <= r /\ r \in Int
  BY <1>1
<1>4. CASE 4 \notin q[h + 1].bits
  <2>1. h + 1 \in open
    BY <1>1, <1>4
  <2> HIDE DEF open
  <2>2. \A r \in open : (\A s \in open : r <= s) => r = h + 1
    BY <2>1, <1>1, <1>3
  <2>3. \A s \in open : h + 1 <= s
    BY <1>3
  <2>4. QED
    BY <1>2, <2>1, <2>2, <2>3
<1>5. CASE 4 \in q[h + 1].bits /\ q[h].n = 1
  <2>1. \A r \in open : r = h + 1
    BY <1>1, <1>5
  <2>2. open = {}
    BY <1>5, <2>1
  <2> HIDE DEF open
  <2>3. QED
    BY <1>2, <1>5, <2>2
<1>6. QED
  BY <1>4, <1>5

\* It is a slot, unless all records of a list of several are complete.
LEMMA RecordIsSlot ==
  ASSUME NEW q \in Queues, NEW h \in Slots, h < QueueSize,
         q[h].n <= 1 \/ 4 \notin q[h + 1].bits
  PROVE  FtwGetLastWriteRecord(q, h) \in Slots
<1>1. h \in Nat /\ QueueSize \in Nat /\ q[h].n \in Nat /\ h + 1 \in Slots
  BY SlotFacts
<1>2. CASE q[h].n = 1 \/ 4 \notin q[h + 1].bits
  BY <1>1, <1>2, FirstRecord
<1>3. CASE q[h].n = 0
  <2> DEFINE open == {r \in h + 1 .. QueueSize :
                        (q[h].n = 0 \/ r <= h + q[h].n) /\ 4 \notin q[r].bits}
  <2>1. FtwGetLastWriteRecord(q, h) =
          IF open = {} THEN h + q[h].n ELSE CHOOSE r \in open : \A s \in open : r <= s
    BY DEF FtwGetLastWriteRecord, Has, DEST_COMPLETED
  <2>2. open \subseteq Slots
    BY <1>1, SlotFacts
  <2> HIDE DEF open
  <2>3. CASE open = {}
    BY <2>1, <2>3, <1>1, <1>3
  <2>4. CASE open # {}
    <3>1. \E r \in open : \A s \in open : r <= s
      BY <2>2, <2>4, Extremes
    <3>2. (CHOOSE r \in open : \A s \in open : r <= s) \in open
      BY <3>1
    <3>3. QED
      BY <2>1, <2>2, <2>4, <3>2
  <2>5. QED
    BY <2>3, <2>4
<1>4. QED
  BY <1>1, <1>2, <1>3

-----------------------------------------------------------------------------
(***************************************************************************)
(* What can be found at the last header.                                   *)
(***************************************************************************)

\* What an erased slot and an erased queue hold.
LEMMA EmptyFacts ==
  /\ ErasedSlot \in SlotType /\ ErasedSlot.bits = {} /\ ErasedSlot.n = 0 /\ ErasedSlot.lba = Bits
  /\ EmptyQueue \in Queues /\ \A i \in Slots : EmptyQueue[i] = ErasedSlot
  /\ Fresh(EmptyQueue, 1) /\ Settled(EmptyQueue) /\ Clean(EmptyQueue)
  /\ Shape(EmptyQueue) /\ Dead(EmptyQueue)
  /\ FtwGetLastWriteHeader(EmptyQueue) = [ok |-> TRUE, h |-> 1]
  /\ FtwGetLastWriteRecord(EmptyQueue, 1) = 2
<1>1. /\ ErasedSlot \in SlotType /\ ErasedSlot.bits = {} /\ ErasedSlot.n = 0
      /\ ErasedSlot.lba = Bits
  BY SlotFacts DEF ErasedSlot, SlotType
<1>2. EmptyQueue \in Queues /\ \A i \in Slots : EmptyQueue[i] = ErasedSlot
  BY <1>1 DEF EmptyQueue, Queues
<1>3. Route(EmptyQueue, 1) /\ 1 \in Slots /\ 2 \in Slots
  BY <1>2, RouteBegins, SlotFacts
<1>4. 4 \notin EmptyQueue[1].bits /\ EmptyQueue[1].bits = {} /\ EmptyQueue[1].n = 0
  BY <1>1, <1>2, <1>3
<1>5. Fresh(EmptyQueue, 1)
  BY <1>2, <1>3, <1>4 DEF Fresh, Open, BlankFrom
<1>6. Unused(EmptyQueue, 1) /\ Frayed(EmptyQueue, 1)
  BY <1>2, <1>3, <1>4 DEF Unused, Frayed, Open, BlankFrom
<1>7. FtwGetLastWriteHeader(EmptyQueue) = [ok |-> TRUE, h |-> 1]
  BY <1>2, <1>3, <1>5, LastHeader DEF Fresh
<1>8. FtwGetLastWriteRecord(EmptyQueue, 1) = 2
  <2>1. 4 \notin EmptyQueue[1 + 1].bits /\ 1 < QueueSize /\ 1 + 1 = 2
    BY <1>1, <1>2, <1>3, SlotFacts
  <2>2. FtwGetLastWriteRecord(EmptyQueue, 1) = 1 + 1
    BY <1>2, <1>3, <2>1, FirstRecord
  <2>3. QED
    BY <2>1, <2>2
<1>9. QED
  BY <1>1, <1>2, <1>3, <1>5, <1>6, <1>7, <1>8 DEF Settled, Clean, Shape, Dead

\* The weaker descriptions follow from the stronger ones.
LEMMA Weaker ==
  ASSUME NEW q \in Queues
  PROVE  /\ \A h \in Slots : Fresh(q, h) => Frayed(q, h)
         /\ \A h \in Slots : Frayed(q, h) => Unused(q, h)
         /\ Settled(q) => Clean(q) /\ Dead(q)
         /\ Clean(q) => Shape(q)
<1>1. ASSUME NEW h \in Slots, Fresh(q, h) PROVE Frayed(q, h)
  <2>1. q[h] = ErasedSlot /\ \A j \in Slots : j >= h + 1 => q[j] = ErasedSlot
    BY <1>1, SlotFacts DEF Fresh, BlankFrom
  <2>2. QED
    BY <1>1, <2>1, EmptyFacts DEF Fresh, Frayed, BlankFrom
<1>2. ASSUME NEW h \in Slots, Frayed(q, h) PROVE Unused(q, h)
  <2>1. \A j \in Slots : j > h => q[j] = ErasedSlot
    BY <1>2, SlotFacts DEF Frayed, BlankFrom
  <2>2. QED
    BY <1>2, <2>1, EmptyFacts DEF Frayed, Unused
<1>3. QED
  BY <1>1, <1>2 DEF Settled, Clean, Dead, Shape

\* One of the descriptions fits a header at most: the search stops once.
LEMMA OneHeader ==
  ASSUME NEW q \in Queues, NEW h \in Slots, Open(q, h)
  PROVE  /\ ~Ended(q)
         /\ \A k \in Slots : Open(q, k) => k = h
<1>1. FtwGetLastWriteHeader(q) = [ok |-> TRUE, h |-> h]
  BY LastHeader
<1>2. FtwGetLastWriteHeader(q).ok = TRUE /\ FtwGetLastWriteHeader(q).h = h
  BY <1>1
<1>3. ~Ended(q)
  BY <1>2, LastHeader
<1>4. ASSUME NEW k \in Slots, Open(q, k) PROVE k = h
  <2>1. FtwGetLastWriteHeader(q) = [ok |-> TRUE, h |-> k]
    BY <1>4, LastHeader
  <2>2. QED
    BY <1>2, <2>1
<1>5. QED
  BY <1>3, <1>4

\* Behind the last header of a tidy queue all is erased, as EmptyAfter has it.
LEMMA CleanIsTidy ==
  ASSUME NEW q \in Queues, Clean(q)
  PROVE  EmptyAfter(q, FtwGetLastWriteHeader(q).h)
<1>1. CASE Ended(q)
  <2> DEFINE h == FtwGetLastWriteHeader(q).h
  <2>1. h \in Slots /\ 4 \in q[h].bits /\ h + 1 + q[h].n > QueueSize
    BY <1>1, LastHeader
  <2> HIDE DEF h
  <2>2. EmptyAfter(q, h)
    BY <2>1, SlotFacts DEF EmptyAfter
  <2>3. QED
    BY <2>2 DEF h
<1>2. ASSUME NEW h \in Slots, Fresh(q, h) PROVE EmptyAfter(q, FtwGetLastWriteHeader(q).h)
  <2>1. FtwGetLastWriteHeader(q).h = h
    <3>1. FtwGetLastWriteHeader(q) = [ok |-> TRUE, h |-> h]
      BY <1>2, LastHeader DEF Fresh
    <3>2. QED
      BY <3>1
  <2>2. q[h].bits = {}
    BY <1>2, EmptyFacts, SlotFacts DEF Fresh, BlankFrom
  <2>3. QED
    BY <1>2, <2>1, <2>2 DEF EmptyAfter, Fresh, BlankFrom
<1>3. ASSUME NEW h \in Slots, Listed(q, h) PROVE EmptyAfter(q, FtwGetLastWriteHeader(q).h)
  <2>1. FtwGetLastWriteHeader(q).h = h
    <3>1. FtwGetLastWriteHeader(q) = [ok |-> TRUE, h |-> h]
      BY <1>3, LastHeader DEF Listed
    <3>2. QED
      BY <3>1
  <2>2. q[h].bits # {} /\ h + 1 + q[h].n = h + 2
    BY <1>3, SlotFacts DEF Listed
  <2>3. QED
    BY <1>3, <2>1, <2>2 DEF EmptyAfter, Listed, BlankFrom
<1>4. QED
  BY <1>1, <1>2, <1>3 DEF Clean

-----------------------------------------------------------------------------
(***************************************************************************)
(* What writes to the queue leave.                                         *)
(***************************************************************************)
Slot(q, p, h) == \A i \in Slots : i # h => p[i] = q[i]

\* FtwUpdateFvState sets one bit of one slot and leaves the rest.
LEMMA SetBitType ==
  ASSUME NEW q \in Queues, NEW i \in Slots, NEW bit \in {1, 2, 4}
  PROVE  /\ SetBit(q, i, bit) \in Queues
         /\ SetBit(q, i, bit)[i].bits = q[i].bits \cup {bit}
         /\ SetBit(q, i, bit)[i].n = q[i].n /\ SetBit(q, i, bit)[i].lba = q[i].lba
         /\ Slot(q, SetBit(q, i, bit), i)
<1> DEFINE s == [q[i] EXCEPT !.bits = @ \cup {bit}]
<1>1. SetBit(q, i, bit) = [q EXCEPT ![i] = s]
  BY DEF SetBit
<1>2. q[i] \in SlotType
  BY SlotFacts
<1>3. s \in SlotType /\ s.bits = q[i].bits \cup {bit} /\ s.n = q[i].n /\ s.lba = q[i].lba
  BY <1>2 DEF SlotType
<1> HIDE DEF s
<1>4. QED
  BY <1>1, <1>3 DEF Queues, Slot

\* A header that is complete leaves the queue full, or erased where the next header goes.
LEMMA Completed ==
  ASSUME NEW q \in Queues, NEW h \in Slots, Open(q, h), q[h].bits # {},
         BlankFrom(q, h + 1 + q[h].n)
  PROVE  /\ Settled(SetBit(q, h, 4)) /\ SetBit(q, h, 4) \in Queues
         /\ EmptyAfter(SetBit(q, h, 4), h) /\ 4 \in SetBit(q, h, 4)[h].bits
<1> DEFINE p == SetBit(q, h, 4)
           m == h + 1 + q[h].n
<1>1. /\ p \in Queues /\ p[h].bits = q[h].bits \cup {4} /\ p[h].n = q[h].n
      /\ \A i \in Slots : i # h => p[i] = q[i]
  BY SetBitType DEF Slot
<1>2. h \in Nat /\ q[h].n \in Nat /\ QueueSize \in Nat
  BY SlotFacts
<1> HIDE DEF p
<1>3. Route(p, h)
  BY <1>1, <1>2, RouteSame DEF Open
<1>4. 4 \in p[h].bits
  BY <1>1
<1>5. \A j \in Slots : j >= m => p[j] = ErasedSlot
  <2>1. ASSUME NEW j \in Slots, j >= m PROVE p[j] = ErasedSlot
    <3>1. j # h /\ j \in Nat
      BY <2>1, <1>2, SlotFacts
    <3>2. QED
      BY <2>1, <3>1, <1>1 DEF BlankFrom
  <2>2. QED
    BY <2>1
<1>6. Settled(p)
  <2>1. CASE m > QueueSize
    BY <2>1, <1>1, <1>3, <1>4 DEF Ended, Settled
  <2>2. CASE m <= QueueSize
    <3>1. m \in Slots /\ Route(p, m)
      BY <2>2, <1>1, <1>3, <1>4, RouteGoesOn
    <3>2. 4 \notin p[m].bits
      <4>1. m >= m
        BY <1>2
      <4>2. p[m] = ErasedSlot
        BY <3>1, <4>1, <1>5
      <4>3. QED
        BY <4>2, EmptyFacts
    <3>3. Fresh(p, m)
      BY <3>1, <3>2, <1>5 DEF Fresh, Open, BlankFrom
    <3>4. QED
      BY <3>1, <3>3 DEF Settled
  <2>3. QED
    BY <2>1, <2>2, <1>2
<1>7. EmptyAfter(p, h)
  <2>1. p[h].bits # {} /\ h + 1 + p[h].n = m
    BY <1>1
  <2>2. QED
    BY <2>1, <1>5 DEF EmptyAfter
<1>8. QED
  BY <1>1, <1>4, <1>6, <1>7 DEF p

\* A list whose header is marked complete, with nothing written behind it, is settled.
LEMMA ListedCompleted ==
  ASSUME NEW q \in Queues, NEW h \in Slots, Listed(q, h) \/ Partial(q, h)
  PROVE  /\ Settled(SetBit(q, h, 4)) /\ SetBit(q, h, 4) \in Queues
         /\ EmptyAfter(SetBit(q, h, 4), h) /\ 4 \in SetBit(q, h, 4)[h].bits
<1>1. Open(q, h) /\ q[h].bits # {} /\ h \in Nat /\ q[h].n \in Nat
  BY SlotFacts DEF Listed, Partial
<1>2. CASE Listed(q, h)
  <2>1. h + 1 + q[h].n = h + 2
    BY <1>1, <1>2 DEF Listed
  <2>2. BlankFrom(q, h + 1 + q[h].n)
    BY <1>2, <2>1 DEF Listed
  <2>3. QED
    BY <1>1, <2>2, Completed
<1>3. CASE Partial(q, h)
  <2>1. \A j \in Slots : j >= h + 1 + q[h].n => j >= h + 1
    BY <1>1, SlotFacts
  <2>2. BlankFrom(q, h + 1 + q[h].n)
    BY <1>3, <2>1 DEF Partial, BlankFrom
  <2>3. QED
    BY <1>1, <2>2, Completed
<1>4. QED
  BY <1>2, <1>3

\* A header that lists one record, over a header or over erased slots.
LEMMA ListedSame ==
  ASSUME NEW q \in Queues, NEW p \in Queues, NEW h \in Slots, h < QueueSize,
         Route(q, h), BlankFrom(q, h + 2),
         \A i \in Slots : i # h /\ i # h + 1 => p[i] = q[i],
         1 \in p[h].bits, 4 \notin p[h].bits, p[h].n = 1
  PROVE  Listed(p, h)
<1>1. Route(p, h)
  BY RouteSame, SlotFacts
<1>2. BlankFrom(p, h + 2)
  BY SlotFacts DEF BlankFrom
<1>3. QED
  BY <1>1, <1>2 DEF Listed, Open

\* A new header, whole or cut off.
LEMMA HeaderCutOff ==
  ASSUME NEW q \in Queues, NEW p \in Queues, NEW h \in Slots, h < QueueSize, Fresh(q, h),
         Slot(q, p, h), p[h].bits \in {{}, {1}}
  PROVE  Shape(p)
<1>1. Route(p, h) /\ 4 \notin p[h].bits
  BY RouteSame, SlotFacts DEF Fresh, Open, Slot
<1>2. BlankFrom(p, h + 1)
  BY SlotFacts DEF Fresh, BlankFrom, Slot
<1>3. CASE p[h].bits = {}
  BY <1>1, <1>2, <1>3 DEF Frayed, Open, Shape
<1>4. CASE p[h].bits = {1}
  BY <1>1, <1>2, <1>4 DEF Partial, Open, Shape
<1>5. QED
  BY <1>3, <1>4

\* No reclaim keeps anything of a queue without a pending header.
LEMMA NothingPreserved ==
  ASSUME NEW q \in Queues, Dead(q)
  PROVE  Preserved(q) = EmptyQueue
<1>1. CASE Ended(q)
  BY <1>1, LastHeader DEF Preserved
<1>2. ASSUME NEW h \in Slots, Unused(q, h) PROVE Preserved(q) = EmptyQueue
  <2>1. FtwGetLastWriteHeader(q) = [ok |-> TRUE, h |-> h]
    BY <1>2, LastHeader DEF Unused
  <2>2. FtwGetLastWriteHeader(q).h = h /\ q[h].bits = {}
    BY <1>2, <2>1 DEF Unused
  <2>3. ~Has(q, FtwGetLastWriteHeader(q).h, HEADER_ALLOCATED)
    BY <2>2 DEF Has, HEADER_ALLOCATED
  <2>4. QED
    BY <2>3 DEF Preserved
<1>3. QED
  BY <1>1, <1>2 DEF Dead

-----------------------------------------------------------------------------
(***************************************************************************)
(* What writes that are cut off leave.                                     *)
(***************************************************************************)

\* A slot that is not written stays.
LEMMA TornSlotSame ==
  ASSUME NEW s \in SlotType
  PROVE  TornSlot(s, s) = {s}
<1>1. TornSlot(s, s) = [bits : {s.bits}, n : {s.n} \cup {}, lba : {s.lba}]
  <2>1. {b \in SUBSET (s.lba \cup s.lba) : s.lba \cap s.lba \subseteq b} = {s.lba}
    OBVIOUS
  <2>2. {s.n, s.n} \cup (IF s.n # s.n THEN {QueueSize} ELSE {}) = {s.n} \cup {}
    OBVIOUS
  <2>3. {s.bits, s.bits} = {s.bits}
    OBVIOUS
  <2>4. QED
    BY <2>1, <2>2, <2>3 DEF TornSlot
<1>2. \A t \in TornSlot(s, s) : t = s
  BY <1>1 DEF SlotType
<1>3. s \in TornSlot(s, s)
  BY <1>1 DEF SlotType
<1>4. QED
  BY <1>2, <1>3

\* A write of one slot that is cut off leaves the other slots alone.
LEMMA TornOne ==
  ASSUME NEW p \in Queues, NEW q \in Queues, NEW i \in Slots, Slot(p, q, i),
         NEW t \in TornQueue(p, q)
  PROVE  \E s \in TornSlot(p[i], q[i]) : t = [p EXCEPT ![i] = s]
<1> DEFINE One(k) == \A j \in Slots \ {k} : p[j] = q[j]
           c == CHOOSE k \in Slots : One(k)
<1>1. One(i)
  BY DEF Slot
<1>2. c \in Slots /\ One(c)
  BY <1>1
<1>3. PICK s \in TornSlot(p[c], q[c]) : t = [p EXCEPT ![c] = s]
  <2>1. TornQueue(p, q) = {[p EXCEPT ![c] = s] : s \in TornSlot(p[c], q[c])}
    BY <1>1 DEF TornQueue
  <2> HIDE DEF c
  <2>2. QED
    BY <2>1
<1> HIDE DEF c
<1>4. CASE c = i
  BY <1>3, <1>4
<1>5. CASE c # i
  <2>1. p[c] = q[c] /\ p[i] = q[i]
    BY <1>1, <1>2, <1>5
  <2>2. s = p[c]
    BY <1>2, <1>3, <2>1, TornSlotSame, SlotFacts
  <2>3. t = p
    BY <1>3, <2>2 DEF Queues
  <2>4. p[i] \in TornSlot(p[i], q[i])
    BY <2>1, TornSlotSame, SlotFacts
  <2>5. [p EXCEPT ![i] = p[i]] = p
    BY DEF Queues
  <2>6. QED
    BY <2>3, <2>4, <2>5
<1>6. QED
  BY <1>4, <1>5

\* A write that changes nothing cannot be torn.
LEMMA TornSame ==
  ASSUME NEW q \in Queues, NEW t \in TornQueue(q, q)
  PROVE  t = q
<1>1. 1 \in Slots /\ Slot(q, q, 1) /\ q[1] \in SlotType
  BY SlotFacts DEF Slot
<1>2. PICK s \in TornSlot(q[1], q[1]) : t = [q EXCEPT ![1] = s]
  BY <1>1, TornOne
<1>3. s = q[1]
  BY <1>1, <1>2, TornSlotSame
<1>4. QED
  BY <1>2, <1>3 DEF Queues

\* The write of a state bit is atomic.
LEMMA TornBit ==
  ASSUME NEW q \in Queues, NEW i \in Slots, NEW bit \in {1, 2, 4},
         NEW t \in TornQueue(q, SetBit(q, i, bit))
  PROVE  t = q \/ t = SetBit(q, i, bit)
<1> DEFINE p == SetBit(q, i, bit)
<1> HIDE DEF p
<1>1. /\ p \in Queues /\ p[i].bits = q[i].bits \cup {bit} /\ p[i].n = q[i].n
      /\ p[i].lba = q[i].lba /\ Slot(q, p, i)
  <2>1. /\ SetBit(q, i, bit) \in Queues
        /\ SetBit(q, i, bit)[i].bits = q[i].bits \cup {bit}
        /\ SetBit(q, i, bit)[i].n = q[i].n /\ SetBit(q, i, bit)[i].lba = q[i].lba
        /\ Slot(q, SetBit(q, i, bit), i)
    BY SetBitType
  <2>2. QED
    BY <2>1 DEF p
<1>2. PICK s \in TornSlot(q[i], p[i]) : t = [q EXCEPT ![i] = s]
  BY <1>1, TornOne DEF p
<1>3. q[i] \in SlotType /\ p[i] \in SlotType
  BY <1>1, SlotFacts
<1>4. s \in [bits : {q[i].bits, p[i].bits}, n : {q[i].n, p[i].n}, lba : {q[i].lba}]
  <2>1. {b \in SUBSET (q[i].lba \cup p[i].lba) : q[i].lba \cap p[i].lba \subseteq b} = {q[i].lba}
    BY <1>1
  <2>2. {q[i].n, p[i].n} \cup (IF q[i].n # p[i].n THEN {QueueSize} ELSE {}) = {q[i].n, p[i].n}
    BY <1>1
  <2>3. QED
    BY <1>1, <1>2, <2>1, <2>2 DEF TornSlot
<1>5. s = q[i] \/ s = p[i]
  <2>1. /\ s = [bits |-> s.bits, n |-> q[i].n, lba |-> q[i].lba]
        /\ s.bits = q[i].bits \/ s.bits = p[i].bits
    BY <1>1, <1>4
  <2>2. q[i] = [bits |-> q[i].bits, n |-> q[i].n, lba |-> q[i].lba]
    BY <1>3 DEF SlotType
  <2>3. p[i] = [bits |-> p[i].bits, n |-> p[i].n, lba |-> p[i].lba]
    BY <1>3 DEF SlotType
  <2>4. QED
    BY <1>1, <2>1, <2>2, <2>3
<1>6. CASE s = q[i]
  BY <1>2, <1>6 DEF Queues
<1>7. CASE s = p[i]
  <2>1. t \in [Slots -> SlotType] /\ p \in [Slots -> SlotType]
    BY <1>1, <1>2, <1>3, <1>7 DEF Queues
  <2>2. \A j \in Slots : t[j] = p[j]
    BY <1>1, <1>2, <1>7 DEF Queues, Slot
  <2>3. t = p
    BY <2>1, <2>2
  <2>4. QED
    BY <2>3 DEF p
<1>8. QED
  BY <1>5, <1>6, <1>7

\* A record whose write is cut off has part of its address; its state bits stay.
LEMMA TornRecord ==
  ASSUME NEW q \in Queues, NEW i \in Slots, NEW x \in SUBSET Bits,
         NEW t \in TornQueue(q, [q EXCEPT ![i].lba = x])
  PROVE  /\ t \in Queues /\ Slot(q, t, i)
         /\ t[i].bits = q[i].bits /\ t[i].n = q[i].n
<1> DEFINE p == [q EXCEPT ![i].lba = x]
<1>1. /\ p \in Queues /\ p[i].bits = q[i].bits /\ p[i].n = q[i].n
      /\ p[i].lba = x /\ Slot(q, p, i)
  <2> DEFINE u == [q[i] EXCEPT !.lba = x]
  <2>1. p = [q EXCEPT ![i] = u]
    OBVIOUS
  <2>2. u \in SlotType /\ u.bits = q[i].bits /\ u.n = q[i].n /\ u.lba = x
    BY SlotFacts DEF SlotType
  <2> HIDE DEF u, p
  <2>3. QED
    BY <2>1, <2>2 DEF Queues, Slot
<1>2. PICK s \in TornSlot(q[i], p[i]) : t = [q EXCEPT ![i] = s]
  <2> HIDE DEF p
  <2>1. t \in TornQueue(q, p)
    BY DEF p
  <2>2. QED
    BY <1>1, <2>1, TornOne
<1> HIDE DEF p
<1>3. s \in SlotType /\ s.bits = q[i].bits /\ s.n = q[i].n
  <2>1. s \in [bits : {q[i].bits}, n : {q[i].n},
               lba : {b \in SUBSET (q[i].lba \cup x) : q[i].lba \cap x \subseteq b}]
    <3>1. {q[i].n, p[i].n} \cup (IF q[i].n # p[i].n THEN {QueueSize} ELSE {}) = {q[i].n}
      BY <1>1
    <3>2. {q[i].bits, p[i].bits} = {q[i].bits}
      BY <1>1
    <3>3. QED
      BY <1>1, <1>2, <3>1, <3>2 DEF TornSlot
  <2>2. s.lba \in SUBSET Bits
    BY <2>1, SlotFacts
  <2>3. q[i] \in SlotType
    BY SlotFacts
  <2>4. s = [bits |-> q[i].bits, n |-> q[i].n, lba |-> s.lba]
    BY <2>1
  <2>5. QED
    BY <2>2, <2>3, <2>4 DEF SlotType
<1>4. QED
  BY <1>2, <1>3 DEF Queues, Slot

\* A header whose write is cut off has its state bit or not.
LEMMA TornNew ==
  ASSUME NEW q \in Queues, NEW i \in Slots, q[i] = ErasedSlot, NEW p \in Queues, Slot(q, p, i),
         p[i].bits = {1}, p[i].lba = Bits, NEW t \in TornQueue(q, p)
  PROVE  t \in Queues /\ Slot(q, t, i) /\ t[i].bits \in {{}, {1}}
<1>1. PICK s \in TornSlot(q[i], p[i]) : t = [q EXCEPT ![i] = s]
  BY TornOne
<1>2. /\ q[i].bits = {} /\ q[i].n = 0 /\ q[i].lba = Bits /\ q[i] \in SlotType /\ p[i] \in SlotType
      /\ p[i].n \in 0 .. QueueSize /\ QueueSize \in 0 .. QueueSize /\ 0 \in 0 .. QueueSize
  BY EmptyFacts, SlotFacts DEF SlotType
<1>3. CASE s \in {q[i], p[i]}
  BY <1>1, <1>2, <1>3 DEF Queues, Slot
<1>4. CASE s \notin {q[i], p[i]}
  <2>1. s \in [bits : {{}, {1}}, n : 0 .. QueueSize, lba : {Bits}]
    <3>1. {b \in SUBSET (q[i].lba \cup p[i].lba) : q[i].lba \cap p[i].lba \subseteq b} = {Bits}
      BY <1>2
    <3> DEFINE N == {q[i].n, p[i].n} \cup (IF q[i].n # p[i].n THEN {QueueSize} ELSE {})
    <3>2. N \subseteq 0 .. QueueSize
      BY <1>2
    <3>3. s \in [bits : {q[i].bits, p[i].bits}, n : N, lba : {Bits}]
      BY <1>1, <1>4, <3>1 DEF TornSlot
    <3> HIDE DEF N
    <3>4. QED
      BY <1>2, <3>2, <3>3
  <2>2. s \in SlotType /\ s.bits \in {{}, {1}}
    BY <2>1 DEF SlotType
  <2>3. QED
    BY <1>1, <2>2 DEF Queues, Slot
<1>5. QED
  BY <1>3, <1>4

\* An erase of the queue that is cut off leaves nothing that looks pending.
LEMMA TornErase ==
  ASSUME NEW q \in Queues, Dead(q), NEW t \in TornQueue(q, EmptyQueue)
  PROVE  t \in Queues /\ Dead(t)
<1>1. CASE \E i \in Slots : Slot(q, EmptyQueue, i)
  <2>1. PICK i \in Slots : Slot(q, EmptyQueue, i)
    BY <1>1
  <2>2. PICK s \in TornSlot(q[i], EmptyQueue[i]) : t = [q EXCEPT ![i] = s]
    BY <2>1, EmptyFacts, TornOne
  <2>3. s \in SlotType /\ (s.bits = q[i].bits \/ s.bits = {})
    <3>1. /\ q[i] \in SlotType /\ EmptyQueue[i] = ErasedSlot
          /\ q[i].n \in 0 .. QueueSize /\ QueueSize \in 0 .. QueueSize /\ 0 \in 0 .. QueueSize
      BY SlotFacts, EmptyFacts DEF SlotType
    <3>2. CASE s \in {q[i], ErasedSlot}
      BY <3>1, <3>2, EmptyFacts
    <3>3. CASE s \notin {q[i], ErasedSlot}
      <4> DEFINE N == {q[i].n, 0} \cup (IF q[i].n # 0 THEN {QueueSize} ELSE {})
                 B == {b \in SUBSET (q[i].lba \cup Bits) : q[i].lba \cap Bits \subseteq b}
      <4>1. N \subseteq 0 .. QueueSize
        BY <3>1
      <4>2. B \subseteq SUBSET Bits
        BY SlotFacts
      <4>3. s \in [bits : {q[i].bits, {}}, n : N, lba : B]
        BY <2>2, <3>1, <3>3, EmptyFacts DEF TornSlot
      <4> HIDE DEF N, B
      <4>4. QED
        BY <3>1, <4>1, <4>2, <4>3 DEF SlotType
    <3>4. QED
      BY <3>2, <3>3
  <2>4. t \in Queues /\ t[i] = s /\ \A j \in Slots : j # i => t[j] = ErasedSlot
    BY <2>1, <2>2, <2>3, EmptyFacts DEF Queues, Slot
  <2>5. Route(t, 1) /\ 1 \in Slots /\ QueueSize \in Nat
    BY <2>4, RouteBegins, SlotFacts
  <2>6. CASE t[1].bits = {}
    <3>1. CASE i = 1
      <4>1. \A j \in Slots : j > 1 => 4 \notin t[j].bits
        BY <2>4, <3>1, EmptyFacts
      <4>2. QED
        BY <4>1, <2>4, <2>5, <2>6 DEF Dead, Unused, Open
    <3>2. CASE i # 1
      <4>1. t[1].n = 0
        BY <2>4, <2>5, <3>2, EmptyFacts
      <4>2. QED
        BY <4>1, <2>4, <2>5, <2>6 DEF Dead, Unused, Open
    <3>3. QED
      BY <3>1, <3>2
  <2>7. CASE t[1].bits # {}
    <3>1. i = 1
      BY <2>4, <2>5, <2>7, EmptyFacts
    <3>2. 4 \in t[1].bits
      <4>1. t[1].bits = q[1].bits
        BY <2>3, <2>4, <2>7, <3>1
      <4>2. CASE 4 \notin q[1].bits
        <5>1. Open(q, 1)
          BY <4>2, <2>5, RouteBegins DEF Open
        <5>2. ~Ended(q)
          BY <5>1, <2>5, OneHeader
        <5>3. PICK h \in Slots : Unused(q, h)
          BY <5>2 DEF Dead
        <5>4. h = 1
          BY <5>1, <5>3, <2>5, OneHeader DEF Unused
        <5>5. QED
          BY <5>3, <5>4, <4>1, <2>7 DEF Unused
      <4>3. QED
        BY <4>1, <4>2
    <3>3. t[1].n \in Nat
      BY <2>4, <2>5, SlotFacts
    <3>4. CASE 1 + 1 + t[1].n > QueueSize
      BY <3>2, <3>4, <2>4, <2>5 DEF Dead, Ended
    <3>5. CASE 1 + 1 + t[1].n <= QueueSize
      <4> DEFINE m == 1 + 1 + t[1].n
      <4>1. m \in Slots /\ Route(t, m) /\ m # 1
        BY <3>2, <3>3, <3>5, <2>4, <2>5, RouteGoesOn
      <4> HIDE DEF m
      <4>2. t[m].bits = {} /\ t[m].n = 0
        BY <4>1, <3>1, <2>4, EmptyFacts
      <4>3. Unused(t, m)
        BY <4>1, <4>2 DEF Unused, Open
      <4>4. QED
        BY <4>1, <4>3, <2>4 DEF Dead
    <3>6. QED
      BY <3>3, <3>4, <3>5, <2>5
  <2>8. QED
    BY <2>6, <2>7
<1>2. CASE ~\E i \in Slots : Slot(q, EmptyQueue, i)
  <2>1. TornQueue(q, EmptyQueue) = Torn(q, EmptyQueue)
    BY <1>2 DEF TornQueue, Slot
  <2>2. DOMAIN q = Slots
    BY DEF Queues
  <2>3. PICK X \in SUBSET Slots : t = [i \in Slots |-> IF i \in X THEN EmptyQueue[i] ELSE q[i]]
    BY <2>1, <2>2 DEF Torn
  <2>4. /\ \A i \in Slots : t[i] = ErasedSlot \/ t[i] = q[i]
        /\ t \in Queues
    BY <2>3, EmptyFacts, SlotFacts DEF Queues
  <2>5. ASSUME NEW h \in Slots, Route(t, h) PROVE Route(q, h)
    <3>1. PICK S \in SUBSET Slots :
            /\ 1 \in S /\ h \in S
            /\ \A i \in S : /\ i <= h
                            /\ i # h => 4 \in t[i].bits /\ i + 1 + t[i].n \in S
      BY <2>5 DEF Route
    <3>2. ASSUME NEW i \in S, i # h PROVE t[i] = q[i]
      <4>1. 4 \in t[i].bits /\ i \in Slots
        BY <3>1, <3>2
      <4>2. QED
        BY <4>1, <2>4, EmptyFacts
    <3>3. QED
      BY <3>1, <3>2 DEF Route
  <2>6. ASSUME NEW h \in Slots, Route(t, h), t[h] = ErasedSlot PROVE Dead(t)
    BY <2>6, EmptyFacts DEF Dead, Unused, Open
  <2>7. CASE Ended(t)
    BY <2>4, <2>7 DEF Dead
  <2>8. ASSUME NEW h \in Slots, Open(t, h), t[h] # ErasedSlot PROVE Dead(t)
    <3>1. t[h] = q[h] /\ Open(q, h)
      BY <2>4, <2>5, <2>8 DEF Open
    <3>2. ~Ended(q)
      BY <3>1, OneHeader
    <3>3. PICK k \in Slots : Unused(q, k)
      BY <3>2 DEF Dead
    <3>4. k = h
      BY <3>1, <3>3, OneHeader DEF Unused
    <3>5. t[h].n > 1 => \A j \in Slots : j > h => 4 \notin t[j].bits
      BY <3>1, <3>3, <3>4, <2>4, EmptyFacts DEF Unused
    <3>6. QED
      BY <2>8, <3>1, <3>3, <3>4, <3>5 DEF Dead, Unused
  <2>9. QED
    BY <2>4, <2>6, <2>7, <2>8, SearchEnds DEF Open
<1>3. QED
  BY <1>1, <1>2

-----------------------------------------------------------------------------
(***************************************************************************)
(* Programs.                                                               *)
(***************************************************************************)
Ops ==
  {"refresh", "reread", "collect", "collect_none", "reclaim_erase",
   "reclaim_copy", "reclaim_restore", "spare_valid", "work_invalid",
   "erase_work", "write_work", "work_valid", "allocate", "write_header",
   "writes_allocated", "write", "check_write", "write_record", "erase_spare",
   "write_spare", "spare_complete", "restore_spare", "erase_target",
   "write_target", "dest_complete", "writes_complete", "restart", "abort",
   "get_last", "check_valid", "check_first", "check_last", "check_empty",
   "check_spare"}

Progs == Seq(Ops)

\* First step and rest of a program with a step put before it.
LEMMA PushFacts ==
  ASSUME NEW a \in Ops, NEW t \in Progs
  PROVE  /\ Push(a, t) \in Progs /\ Push(a, t) # <<>>
         /\ Head(Push(a, t)) = a /\ Tail(Push(a, t)) = t
<1>1. Push(a, t) \in Seq(Ops) /\ Len(Push(a, t)) = 1 + Len(t) /\ Len(t) \in Nat
  BY DEF Push, Progs
<1>2. Push(a, t)[1] = a /\ \A i \in 1 .. Len(t) : Push(a, t)[i + 1] = t[i]
  BY DEF Push, Progs
<1>3. Push(a, t) # <<>> /\ Head(Push(a, t)) = a
  BY <1>1, <1>2
<1>4. Tail(Push(a, t)) = t
  <2>1. Tail(Push(a, t)) \in Seq(Ops) /\ Len(Tail(Push(a, t))) = Len(t)
    BY <1>1, <1>3
  <2>2. \A i \in 1 .. Len(t) : Tail(Push(a, t))[i] = t[i]
    BY <1>1, <1>2, <1>3
  <2>3. QED
    BY <2>1, <2>2 DEF Progs
<1>5. QED
  BY <1>1, <1>3, <1>4 DEF Progs

Join(t, u) == t \o u

\* A step put before two joined programs.
LEMMA PushConcat ==
  ASSUME NEW a \in Ops, NEW t \in Progs, NEW u \in Progs
  PROVE  /\ Join(Push(a, t), u) = Push(a, Join(t, u)) /\ Join(t, u) \in Progs
<1>1. <<a>> \in Seq(Ops) /\ t \in Seq(Ops) /\ u \in Seq(Ops)
  BY DEF Progs
<1>2. (<<a>> \o t) \o u = <<a>> \o (t \o u)
  BY <1>1, ConcatAssociative
<1>3. t \o u \in Seq(Ops) /\ <<>> \o u = u
  BY <1>1, ConcatProperties
<1>4. QED
  BY <1>2, <1>3 DEF Push, Progs, Join

\* Two programs joined are a program.
LEMMA JoinTypes ==
  ASSUME NEW t \in Progs, NEW u \in Progs
  PROVE  Join(t, u) \in Progs
<1>1. t \in Seq(Ops) /\ u \in Seq(Ops)
  BY DEF Progs
<1>2. t \o u \in Seq(Ops)
  BY <1>1, ConcatProperties
<1>3. QED
  BY <1>2 DEF Join, Progs

\* The empty program joined with another.
LEMMA JoinEmpty ==
  ASSUME NEW u \in Progs
  PROVE  Join(<<>>, u) = u
<1>1. u \in Seq(Ops)
  BY DEF Progs
<1>2. <<>> \o u = u
  BY <1>1, ConcatProperties
<1>3. QED
  BY <1>2 DEF Join

\* Joining programs is associative.
LEMMA JoinAssociative ==
  ASSUME NEW t \in Progs, NEW u \in Progs, NEW v \in Progs
  PROVE  Join(Join(t, u), v) = Join(t, Join(u, v)) /\ Join(t, u) \in Progs
<1>1. t \in Seq(Ops) /\ u \in Seq(Ops) /\ v \in Seq(Ops)
  BY DEF Progs
<1>2. (t \o u) \o v = t \o (u \o v) /\ t \o u \in Seq(Ops)
  BY <1>1, ConcatAssociative, ConcatProperties
<1>3. QED
  BY <1>2 DEF Join, Progs

\* Every step has its name among them.
LEMMA OpNames ==
  /\ "refresh" \in Ops /\ "reread" \in Ops /\ "collect" \in Ops
  /\ "collect_none" \in Ops /\ "reclaim_erase" \in Ops /\ "reclaim_copy" \in Ops
  /\ "reclaim_restore" \in Ops /\ "spare_valid" \in Ops /\ "work_invalid" \in Ops
  /\ "erase_work" \in Ops /\ "write_work" \in Ops /\ "work_valid" \in Ops
  /\ "allocate" \in Ops /\ "write_header" \in Ops /\ "writes_allocated" \in Ops
  /\ "write" \in Ops /\ "check_write" \in Ops /\ "write_record" \in Ops
  /\ "erase_spare" \in Ops /\ "write_spare" \in Ops /\ "spare_complete" \in Ops
  /\ "restore_spare" \in Ops /\ "erase_target" \in Ops /\ "write_target" \in Ops
  /\ "dest_complete" \in Ops /\ "writes_complete" \in Ops /\ "restart" \in Ops
  /\ "abort" \in Ops /\ "get_last" \in Ops /\ "check_valid" \in Ops
  /\ "check_first" \in Ops /\ "check_last" \in Ops /\ "check_empty" \in Ops
  /\ "check_spare" \in Ops
  BY DEF Ops

\* The programs of the places.
LEMMA PlaceTypes ==
  /\ {PAbort, PRefAbort, PISpare, PIEmpty, PILast, PIFirst, PIValid, PAgain, PFlushed, PCheck,
      PWrite, PGetLast, PRestore, PCommit, PSpare, PErase, PRecord, <<>>,
      Push("abort", PIEmpty), Push("abort", PILast), Push("abort", PAgain)} \subseteq Progs
  /\ \A c : {PBit(c), PHeader(c), PAlloc(c), PRestart(c), PAfterFree(c), PFree(c),
                        PDone(c), PDest(c), PFlush(c), PClear(c)} \subseteq Progs
<1>1. <<>> \in Progs
  BY DEF Progs
<1>2. PAbort \in Progs
  BY <1>1, PushFacts DEF Ops, PAbort
<1>3. PRefAbort \in Progs
  BY <1>2, PushFacts DEF Ops, PRefAbort
<1>4. PISpare \in Progs
  BY <1>1, PushFacts DEF Ops, PISpare
<1>5. PIEmpty \in Progs
  BY <1>4, PushFacts DEF Ops, PIEmpty
<1>6. PILast \in Progs
  BY <1>5, PushFacts DEF Ops, PILast
<1>7. PIFirst \in Progs
  BY <1>6, PushFacts DEF Ops, PIFirst
<1>8. PIValid \in Progs
  BY <1>7, PushFacts DEF Ops, PIValid
<1>9. PAgain \in Progs
  BY <1>7, PushFacts DEF Ops, PAgain
<1>10. Push("abort", PAgain) \in Progs /\ Push("abort", PILast) \in Progs
       /\ Push("abort", PIEmpty) \in Progs
  BY <1>5, <1>6, <1>9, PushFacts DEF Ops
<1>11. PFlushed \in Progs
  BY <1>10, PushFacts DEF Ops, PFlushed
<1>12. PCheck \in Progs /\ PWrite \in Progs /\ PGetLast \in Progs /\ PRestore \in Progs
  BY <1>1, PushFacts DEF Ops, PCheck, PWrite, PGetLast, PRestore
<1>13. ASSUME NEW c
       PROVE  {PBit(c), PHeader(c), PAlloc(c), PRestart(c), PAfterFree(c), PFree(c),
               PDone(c), PDest(c), PFlush(c), PClear(c)} \subseteq Progs
  <2>1. PBit(c) \in Progs
    BY <1>1, <1>12, PushFacts DEF Ops, PBit
  <2>2. PHeader(c) \in Progs
    BY <2>1, PushFacts DEF Ops, PHeader
  <2>3. PAlloc(c) \in Progs
    BY <2>2, PushFacts DEF Ops, PAlloc
  <2>4. PRestart(c) \in Progs
    BY <1>1, <1>3, PushFacts DEF Ops, PRestart
  <2>5. PAfterFree(c) \in Progs
    BY <1>1, <1>3, <1>12, PushFacts DEF Ops, PAfterFree
  <2>6. PFree(c) \in Progs
    BY <2>5, PushFacts DEF Ops, PFree
  <2>7. PDone(c) \in Progs
    BY <2>6, PushFacts DEF Ops, PDone
  <2>8. PDest(c) \in Progs
    BY <2>7, PushFacts DEF Ops, PDest
  <2>9. PFlush(c) \in Progs
    BY <2>8, PushFacts DEF Ops, PFlush
  <2>10. PClear(c) \in Progs
    BY <2>9, PushFacts DEF Ops, PClear
  <2>11. QED
    BY <2>1, <2>2, <2>3, <2>4, <2>5, <2>6, <2>7, <2>8, <2>9, <2>10
<1>14. PCommit \in Progs
  BY <1>13, PushFacts DEF Ops, PCommit
<1>15. PSpare \in Progs
  BY <1>14, PushFacts DEF Ops, PSpare
<1>16. PErase \in Progs
  BY <1>15, PushFacts DEF Ops, PErase
<1>17. PRecord \in Progs
  BY <1>16, PushFacts DEF Ops, PRecord
<1>18. QED
  BY <1>1, <1>2, <1>3, <1>4, <1>5, <1>6, <1>7, <1>8, <1>9, <1>10, <1>11, <1>12, <1>13,
     <1>14, <1>15, <1>16, <1>17

\* The chain of the reclaim.
LEMMA ReclaimTypes ==
  ASSUME NEW t \in Progs
  PROVE  {RRestore(t), RErase2(t), RWorkValid(t), RWriteWork(t), REraseWork(t), RInvalid2(t),
          RValid2(t), RInvalid1(t), RValid1(t), RCopy(t), RErase1(t), Push("reread", t),
          Push("collect", t), Push("collect_none", t), Push("refresh", t),
          Push("abort", t)} \subseteq Progs
<1>1. RRestore(t) \in Progs /\ RWorkValid(t) \in Progs
  BY PushFacts DEF Ops, RRestore, RWorkValid
<1>2. RErase2(t) \in Progs
  BY <1>1, PushFacts DEF Ops, RErase2
<1>3. RWriteWork(t) \in Progs
  BY <1>1, PushFacts DEF Ops, RWriteWork
<1>4. REraseWork(t) \in Progs
  BY <1>3, PushFacts DEF Ops, REraseWork
<1>5. RInvalid2(t) \in Progs
  BY <1>4, PushFacts DEF Ops, RInvalid2
<1>6. RValid2(t) \in Progs
  BY <1>5, PushFacts DEF Ops, RValid2
<1>7. RInvalid1(t) \in Progs
  BY <1>6, PushFacts DEF Ops, RInvalid1
<1>8. RValid1(t) \in Progs
  BY <1>7, PushFacts DEF Ops, RValid1
<1>9. RCopy(t) \in Progs
  BY <1>8, PushFacts DEF Ops, RCopy
<1>10. RErase1(t) \in Progs
  BY <1>9, PushFacts DEF Ops, RErase1
<1>11. /\ Push("reread", t) \in Progs /\ Push("collect", t) \in Progs
       /\ Push("collect_none", t) \in Progs /\ Push("refresh", t) \in Progs
       /\ Push("abort", t) \in Progs
  BY PushFacts DEF Ops
<1>12. QED
  BY <1>1, <1>2, <1>3, <1>4, <1>5, <1>6, <1>7, <1>8, <1>9, <1>10, <1>11

\* FtwWriteRecord and what follows it.
LEMMA WriteRecordProgram ==
  ASSUME NEW t \in Progs
  PROVE  /\ FtwWriteRecord \in Progs
         /\ Join(FtwWriteRecord, t) =
              Push("erase_target", Push("write_target", Push("dest_complete",
                Push("writes_complete", t))))
<1> DEFINE A == Push("writes_complete", <<>>)
           B == Push("dest_complete", A)
           C == Push("write_target", B)
<1>1. FtwWriteRecord = Push("erase_target", C)
  <2>1. FlushSpareBlockToTargetBlock = <<"erase_target">> \o <<"write_target">>
    BY DEF FlushSpareBlockToTargetBlock
  <2>2. <<"dest_complete", "writes_complete">> = B
    BY DEF Push
  <2>3. "erase_target" \in Ops /\ "write_target" \in Ops /\ B \in Progs
    BY PlaceTypes, PushFacts DEF Ops
  <2> HIDE DEF B
  <2>4. (<<"erase_target">> \o <<"write_target">>) \o B
          = <<"erase_target">> \o (<<"write_target">> \o B)
    <3>1. <<"erase_target">> \in Seq(Ops) /\ <<"write_target">> \in Seq(Ops) /\ B \in Seq(Ops)
      BY <2>3 DEF Progs
    <3>2. QED
      BY <3>1, ConcatAssociative
  <2>5. QED
    BY <2>1, <2>2, <2>4 DEF FtwWriteRecord, Push
<1>2. A \in Progs /\ Join(A, t) = Push("writes_complete", t)
  <2>1. <<>> \in Progs /\ "writes_complete" \in Ops /\ Join(<<>>, t) = t
    BY PlaceTypes, JoinEmpty DEF Ops
  <2>2. Join(Push("writes_complete", <<>>), t) = Push("writes_complete", Join(<<>>, t))
    <3>1. "writes_complete" \in Ops
      BY DEF Ops
    <3>2. QED
      BY <2>1, PushConcat, <3>1
  <2>3. QED
    BY <2>1, <2>2, PushFacts
<1> HIDE DEF A
<1>3. B \in Progs /\ Join(B, t) = Push("dest_complete", Push("writes_complete", t))
  <2>1. "dest_complete" \in Ops /\ "writes_complete" \in Ops
    BY DEF Ops
  <2>2. QED
    BY <1>2, PushFacts, PushConcat, <2>1
<1> HIDE DEF B
<1>4. C \in Progs /\ Join(C, t) = Push("write_target", Push("dest_complete", Push("writes_complete", t)))
  <2>1. "dest_complete" \in Ops /\ "write_target" \in Ops /\ "writes_complete" \in Ops
    BY DEF Ops
  <2>2. QED
    BY <1>3, PushFacts, PushConcat, <2>1
<1> HIDE DEF C
<1>5. QED
  <2>1. "erase_target" \in Ops
    BY DEF Ops
  <2>2. Push("erase_target", C) \in Progs
    BY <1>4, <2>1, PushFacts
  <2>3. QED
    BY <1>1, <1>4, PushConcat, <2>1, <2>2

\* FtwReclaimWorkSpace, the flush, and FtwAbort and what follows them.
LEMMA ReclaimProgram ==
  ASSUME NEW t \in Progs
  PROVE  /\ Join(FtwReclaimWorkSpace(TRUE), t) = Push("collect", RErase1(RErase2(t)))
         /\ Join(FtwReclaimWorkSpace(FALSE), t) = Push("collect_none", RErase1(RErase2(t)))
         /\ Join(FlushSpareBlockToWorkingBlock, t) = RValid2(t)
         /\ Join(FtwAbort, t) = Push("refresh", Push("abort", t))
         /\ Join(<<"reread">>, t) = Push("reread", t) /\ Join(<<"refresh">>, t) = Push("refresh", t)
<1> DEFINE W == Push("work_valid", <<>>)
           V == Push("write_work", W)
           U == Push("erase_work", V)
           T == Push("work_invalid", U)
<1>0. <<>> \in Progs /\ Join(<<>>, t) = t /\ W \in Progs /\ V \in Progs /\ U \in Progs /\ T \in Progs
  <2>1. <<>> \in Progs /\ Join(<<>>, t) = t
    BY PlaceTypes, JoinEmpty
  <2>2. W \in Progs
    BY <2>1, PushFacts DEF Ops
  <2>3. V \in Progs
    BY <2>2, PushFacts DEF Ops
  <2>4. U \in Progs
    BY <2>3, PushFacts DEF Ops
  <2>5. QED
    BY <2>1, <2>2, <2>3, <2>4, PushFacts DEF Ops
<1>1. FlushSpareBlockToWorkingBlock = Push("spare_valid", T)
  BY DEF FlushSpareBlockToWorkingBlock, Push
<1>2. ASSUME NEW u \in Progs PROVE Join(FlushSpareBlockToWorkingBlock, u) = RValid2(u)
  <2>1. Join(W, u) = RWorkValid(u)
    <3>1. "work_valid" \in Ops /\ Join(<<>>, u) = u
      BY <1>0, JoinEmpty DEF Ops
    <3>2. Join(Push("work_valid", <<>>), u) = Push("work_valid", Join(<<>>, u))
      <4>1. "work_valid" \in Ops
        BY DEF Ops
      <4>2. QED
        BY <1>0, <3>1, PushConcat, <4>1
    <3>3. QED
      BY <3>1, <3>2 DEF RWorkValid
  <2> HIDE DEF W
  <2>2. Join(V, u) = RWriteWork(u)
    <3>1. "write_work" \in Ops
      BY DEF Ops
    <3>2. QED
      BY <1>0, <2>1, PushConcat, <3>1 DEF RWriteWork
  <2> HIDE DEF V
  <2>3. Join(U, u) = REraseWork(u)
    <3>1. "erase_work" \in Ops
      BY DEF Ops
    <3>2. QED
      BY <1>0, <2>2, PushConcat, <3>1 DEF REraseWork
  <2> HIDE DEF U
  <2>4. Join(T, u) = RInvalid2(u)
    <3>1. "work_invalid" \in Ops
      BY DEF Ops
    <3>2. QED
      BY <1>0, <2>3, PushConcat, <3>1 DEF RInvalid2
  <2> HIDE DEF T
  <2>5. QED
    <3>1. "spare_valid" \in Ops
      BY DEF Ops
    <3>2. QED
      BY <1>0, <1>1, <2>4, PushConcat, <3>1 DEF RValid2
<1>3. FlushSpareBlockToWorkingBlock \in Progs
  <2> HIDE DEF T
  <2>1. QED
    BY <1>0, <1>1, PushFacts DEF Ops
<1>4. ASSUME NEW a \in {"collect", "collect_none"}
      PROVE  Join(Join(Join(<<a, "reclaim_erase", "reclaim_copy", "spare_valid", "work_invalid">>,
               FlushSpareBlockToWorkingBlock), <<"reclaim_erase", "reclaim_restore">>), t)
             = Push(a, RErase1(RErase2(t)))
  <2> DEFINE E == Push("work_invalid", <<>>)
             D == Push("spare_valid", E)
             C == Push("reclaim_copy", D)
             B == Push("reclaim_erase", C)
             A == Push(a, B)
             Z == <<"reclaim_erase", "reclaim_restore">>
             F == FlushSpareBlockToWorkingBlock
  <2>1. E \in Progs
    BY <1>0, PushFacts DEF Ops
  <2>2. D \in Progs
    BY <2>1, PushFacts DEF Ops
  <2>3. C \in Progs
    BY <2>2, PushFacts DEF Ops
  <2>4. B \in Progs
    BY <2>3, PushFacts DEF Ops
  <2>5. A \in Progs
    BY <2>4, PushFacts DEF Ops
  <2>6. <<a, "reclaim_erase", "reclaim_copy", "spare_valid", "work_invalid">> = A
    BY DEF Push
  <2>7. Z = Push("reclaim_erase", Push("reclaim_restore", <<>>))
    BY DEF Push
  <2> HIDE DEF Z
  <2>8. Z \in Progs /\ Join(Z, t) = RErase2(t)
    <3> DEFINE Y == Push("reclaim_restore", <<>>)
    <3>1. Y \in Progs /\ Join(Y, t) = RRestore(t)
      <4>1. "reclaim_restore" \in Ops
        BY DEF Ops
      <4>2. Join(Push("reclaim_restore", <<>>), t) = Push("reclaim_restore", Join(<<>>, t))
        <5>1. "reclaim_restore" \in Ops
          BY DEF Ops
        <5>2. QED
          BY <1>0, <4>1, PushConcat, <5>1
      <4>3. QED
        BY <1>0, <4>1, <4>2, PushFacts DEF RRestore
    <3> HIDE DEF Y
    <3>2. Z = Push("reclaim_erase", Y)
      BY <2>7 DEF Y
    <3>3. QED
      <4>1. "reclaim_erase" \in Ops
        BY DEF Ops
      <4>2. QED
        BY <3>1, <3>2, PushFacts, PushConcat, <4>1 DEF RErase2
  <2>9. RErase2(t) \in Progs
    BY ReclaimTypes
  <2>10. F \in Progs /\ Join(F, RErase2(t)) = RValid2(RErase2(t)) /\ RValid2(RErase2(t)) \in Progs
    BY <1>2, <1>3, <2>9, ReclaimTypes
  <2> HIDE DEF F
  <2>11. Join(Join(Join(A, F), Z), t) = Join(A, Join(F, Join(Z, t)))
    <3> HIDE DEF A
    <3>1. Join(A, F) \in Progs /\ Join(Z, t) \in Progs
      BY <2>5, <2>8, <2>10, JoinAssociative, ReclaimTypes
    <3>2. Join(Join(Join(A, F), Z), t) = Join(Join(A, F), Join(Z, t))
      <4> DEFINE G == Join(A, F)
      <4>1. G \in Progs
        BY <3>1
      <4> HIDE DEF G
      <4>2. Join(Join(G, Z), t) = Join(G, Join(Z, t))
        BY <4>1, <2>8, JoinAssociative
      <4>3. QED
        BY <4>2 DEF G
    <3>3. Join(Join(A, F), Join(Z, t)) = Join(A, Join(F, Join(Z, t)))
      BY <3>1, <2>5, <2>10, JoinAssociative, Zenon
    <3>4. QED
      BY <3>2, <3>3
  <2> DEFINE X == RValid2(RErase2(t))
  <2>12. Join(E, X) = RInvalid1(RErase2(t))
    <3>1. "work_invalid" \in Ops /\ X \in Progs /\ Join(<<>>, X) = X
      BY <1>0, <2>10, JoinEmpty DEF Ops
    <3>2. Join(Push("work_invalid", <<>>), X) = Push("work_invalid", Join(<<>>, X))
      <4>1. "work_invalid" \in Ops
        BY DEF Ops
      <4>2. QED
        BY <1>0, <3>1, PushConcat, <4>1
    <3>3. QED
      BY <3>1, <3>2 DEF RInvalid1
  <2> HIDE DEF E, X
  <2>13. X \in Progs
    BY <2>10 DEF X
  <2>14. Join(D, X) = RValid1(RErase2(t))
    <3>1. "spare_valid" \in Ops
      BY DEF Ops
    <3>2. QED
      BY <2>1, <2>12, <2>13, PushConcat, <3>1 DEF RValid1
  <2> HIDE DEF D
  <2>15. Join(C, X) = RCopy(RErase2(t))
    <3>1. "reclaim_copy" \in Ops
      BY DEF Ops
    <3>2. QED
      BY <2>2, <2>14, <2>13, PushConcat, <3>1 DEF RCopy
  <2> HIDE DEF C
  <2>16. Join(B, X) = RErase1(RErase2(t))
    <3>1. "reclaim_erase" \in Ops
      BY DEF Ops
    <3>2. QED
      BY <2>3, <2>15, <2>13, PushConcat, <3>1 DEF RErase1
  <2> HIDE DEF B
  <2>17. Join(A, X) = Push(a, RErase1(RErase2(t)))
    <3>1. a \in Ops
      BY DEF Ops
    <3>2. QED
      <4>1. "refresh" \in Ops
        BY DEF Ops
      <4>2. QED
        BY <3>1, <2>4, <2>16, <2>13, PushConcat, <4>1
  <2> HIDE DEF A
  <2>18. QED
    BY <2>6, <2>8, <2>10, <2>11, <2>17 DEF F, X, Z
<1>5. /\ FtwReclaimWorkSpace(TRUE) =
           Join(Join(<<"collect", "reclaim_erase", "reclaim_copy", "spare_valid", "work_invalid">>,
             FlushSpareBlockToWorkingBlock), <<"reclaim_erase", "reclaim_restore">>)
      /\ FtwReclaimWorkSpace(FALSE) =
           Join(Join(<<"collect_none", "reclaim_erase", "reclaim_copy", "spare_valid",
             "work_invalid">>,
             FlushSpareBlockToWorkingBlock), <<"reclaim_erase", "reclaim_restore">>)
  BY DEF FtwReclaimWorkSpace, Join
<1>6. /\ Join(FtwReclaimWorkSpace(TRUE), t) = Push("collect", RErase1(RErase2(t)))
      /\ Join(FtwReclaimWorkSpace(FALSE), t) = Push("collect_none", RErase1(RErase2(t)))
  <2>1. "collect" \in {"collect", "collect_none"} /\ "collect_none" \in {"collect", "collect_none"}
    OBVIOUS
  <2>2. QED
    BY <1>4, <1>5, <2>1, Zenon
<1>7. Join(FtwAbort, t) = Push("refresh", Push("abort", t))
  <2> DEFINE A == Push("abort", <<>>)
  <2>1. A \in Progs /\ Join(A, t) = Push("abort", t)
    <3>1. "abort" \in Ops
      BY DEF Ops
    <3>2. Join(Push("abort", <<>>), t) = Push("abort", Join(<<>>, t))
      <4>1. "abort" \in Ops
        BY DEF Ops
      <4>2. QED
        BY <1>0, <3>1, PushConcat, <4>1
    <3>3. QED
      BY <1>0, <3>1, <3>2, PushFacts
  <2>2. FtwAbort = Push("refresh", A)
    BY DEF FtwAbort, Push
  <2> HIDE DEF A
  <2>3. QED
    <3>1. "refresh" \in Ops
      BY DEF Ops
    <3>2. QED
      BY <2>1, <2>2, PushConcat, <3>1
<1>8. QED
  BY <1>2, <1>6, <1>7 DEF Push, Join

\* What the decisions of the driver put in front of the steps left.
LEMMA DecisionPrograms ==
  ASSUME NEW t \in Progs
  PROVE  /\ FtwReclaimWorkSpace(TRUE) \o <<"reread">> \o t
              = Push("collect", RErase1(RErase2(Push("reread", t))))
         /\ FtwReclaimWorkSpace(TRUE) \o t = Push("collect", RErase1(RErase2(t)))
         /\ FtwReclaimWorkSpace(FALSE) \o t = Push("collect_none", RErase1(RErase2(t)))
         /\ FlushSpareBlockToWorkingBlock \o FtwAbort \o <<"refresh">> \o t
              = RValid2(Push("refresh", Push("abort", Push("refresh", t))))
         /\ FtwAbort \o t = Push("refresh", Push("abort", t))
         /\ FtwWriteRecord \o <<"erase_spare">> \o t
              = Push("erase_target", Push("write_target", Push("dest_complete",
                  Push("writes_complete", Push("erase_spare", t)))))
<1>1. /\ <<"reread">> \in Progs /\ <<"refresh">> \in Progs /\ <<"erase_spare">> \in Progs
      /\ FtwAbort \in Progs /\ FlushSpareBlockToWorkingBlock \in Progs
      /\ FtwReclaimWorkSpace(TRUE) \in Progs /\ FtwWriteRecord \in Progs
  <2>1. <<"reread">> \in Progs /\ <<"refresh">> \in Progs /\ <<"erase_spare">> \in Progs
    BY DEF Progs, Ops
  <2>2. FtwAbort \in Progs
    BY DEF Progs, Ops, FtwAbort
  <2>3. FlushSpareBlockToWorkingBlock \in Progs
    BY DEF Progs, Ops, FlushSpareBlockToWorkingBlock
  <2>4. <<"collect", "reclaim_erase", "reclaim_copy", "spare_valid", "work_invalid">> \in Progs
    BY DEF Progs, Ops
  <2>5. <<"reclaim_erase", "reclaim_restore">> \in Progs
    BY DEF Progs, Ops
  <2> DEFINE A == <<"collect", "reclaim_erase", "reclaim_copy", "spare_valid", "work_invalid">>
             Z == <<"reclaim_erase", "reclaim_restore">>
  <2>6. FtwReclaimWorkSpace(TRUE) = Join(Join(A, FlushSpareBlockToWorkingBlock), Z)
    BY DEF FtwReclaimWorkSpace, Join
  <2>7. Join(Join(A, FlushSpareBlockToWorkingBlock), Z) \in Progs
    <3> HIDE DEF A, Z
    <3>1. A \in Progs /\ Z \in Progs
      BY <2>4, <2>5 DEF A, Z
    <3>2. Join(A, FlushSpareBlockToWorkingBlock) \in Progs
      BY <2>3, <3>1, JoinTypes
    <3>3. QED
      BY <3>1, <3>2, JoinTypes
  <2>8. QED
    BY <2>1, <2>2, <2>3, <2>6, <2>7, WriteRecordProgram
<1>2. /\ Join(<<"reread">>, t) = Push("reread", t) /\ Join(<<"refresh">>, t) = Push("refresh", t)
      /\ Join(<<"erase_spare">>, t) = Push("erase_spare", t)
  BY DEF Join, Push
<1>3. /\ Push("reread", t) \in Progs /\ Push("refresh", t) \in Progs
      /\ Push("erase_spare", t) \in Progs /\ Push("abort", Push("refresh", t)) \in Progs
      /\ Push("refresh", Push("abort", Push("refresh", t))) \in Progs
  <2>1. "abort" \in Ops /\ "erase_spare" \in Ops /\ "refresh" \in Ops /\ "reread" \in Ops
    BY DEF Ops
  <2>2. QED
    BY PushFacts, <2>1
<1>4. Join(Join(FtwReclaimWorkSpace(TRUE), <<"reread">>), t)
        = Push("collect", RErase1(RErase2(Push("reread", t))))
  <2> DEFINE P == FtwReclaimWorkSpace(TRUE)
             Q == <<"reread">>
  <2>0. P \in Progs /\ Q \in Progs
    BY <1>1
  <2> HIDE DEF P, Q
  <2>1. Join(Join(P, Q), t) = Join(P, Join(Q, t))
    BY <2>0, JoinAssociative
  <2> USE DEF P, Q
  <2>2. QED
    BY <1>2, <1>3, <2>1, ReclaimProgram
<1>5. Join(Join(FtwWriteRecord, <<"erase_spare">>), t)
        = Push("erase_target", Push("write_target", Push("dest_complete",
            Push("writes_complete", Push("erase_spare", t)))))
  <2>1. Join(Join(FtwWriteRecord, <<"erase_spare">>), t)
          = Join(FtwWriteRecord, Join(<<"erase_spare">>, t))
    BY <1>1, JoinAssociative
  <2>2. QED
    BY <1>2, <1>3, <2>1, WriteRecordProgram
<1>6. Join(Join(Join(FlushSpareBlockToWorkingBlock, FtwAbort), <<"refresh">>), t)
        = RValid2(Push("refresh", Push("abort", Push("refresh", t))))
  <2>1. Join(FlushSpareBlockToWorkingBlock, FtwAbort) \in Progs
    BY <1>1, JoinAssociative
  <2>2. Join(Join(Join(FlushSpareBlockToWorkingBlock, FtwAbort), <<"refresh">>), t)
          = Join(Join(FlushSpareBlockToWorkingBlock, FtwAbort), Join(<<"refresh">>, t))
    BY <1>1, <2>1, JoinAssociative
  <2>3. Join(Join(FlushSpareBlockToWorkingBlock, FtwAbort), Push("refresh", t))
          = Join(FlushSpareBlockToWorkingBlock, Join(FtwAbort, Push("refresh", t)))
    BY <1>1, <1>3, JoinAssociative
  <2>4. Join(FtwAbort, Push("refresh", t)) = Push("refresh", Push("abort", Push("refresh", t)))
    BY <1>3, ReclaimProgram
  <2>5. QED
    BY <1>2, <1>3, <2>2, <2>3, <2>4, ReclaimProgram
<1>7. QED
  BY <1>4, <1>5, <1>6, ReclaimProgram DEF Join

\* The services begin at their places.
LEMMA ServicePrograms ==
  /\ InitFtwProtocol = Push("refresh", PIValid)
  /\ FtwAbort = PRefAbort
  /\ FtwAllocate = Push("refresh", PAlloc("Allocate"))
  /\ FtwAllocate \o <<"check_write">> = Push("refresh", PAlloc("Write"))
  /\ FtwWrite = Push("refresh", PWrite)
  /\ FtwRestart = Push("refresh", PRestart("Restart"))
  /\ FtwRestart \o FtwAbort = Push("refresh", PRestart("Init"))
  /\ FtwGetLastWrite = Push("refresh", PGetLast)
  /\ <<"check_write">> = PCheck
  /\ WriteSteps = PRecord
<1>1. InitFtwProtocol = Push("refresh", PIValid)
  BY DEF InitFtwProtocol, PIValid, PIFirst, PILast, PIEmpty, PISpare, Push
<1>2. FtwAbort = PRefAbort
  BY DEF FtwAbort, PRefAbort, PAbort, Push
<1>3. FtwAllocate = Push("refresh", PAlloc("Allocate"))
  BY DEF FtwAllocate, PAlloc, PHeader, PBit, Push
<1>4. FtwWrite = Push("refresh", PWrite) /\ FtwGetLastWrite = Push("refresh", PGetLast)
  BY DEF FtwWrite, PWrite, FtwGetLastWrite, PGetLast, Push
<1>5. FtwRestart = Push("refresh", PRestart("Restart"))
  BY DEF FtwRestart, PRestart, Push
<1>6. <<"check_write">> = PCheck
  BY DEF PCheck, Push
<1>7. FtwAllocate \o <<"check_write">> = Push("refresh", PAlloc("Write"))
  <2>1. PCheck \in Progs /\ <<>> \in Progs /\ Join(<<>>, PCheck) = PCheck
    BY PlaceTypes, JoinEmpty
  <2>2. Join(PBit("Allocate"), PCheck) = PBit("Write")
    <3>1. PBit("Allocate") = Push("writes_allocated", <<>>)
      BY DEF PBit
    <3>2. PBit("Write") = Push("writes_allocated", PCheck)
      BY DEF PBit
    <3>3. "writes_allocated" \in Ops
      BY DEF Ops
    <3>4. Join(Push("writes_allocated", <<>>), PCheck) = Push("writes_allocated", Join(<<>>, PCheck))
      <4>1. "writes_allocated" \in Ops
        BY DEF Ops
      <4>2. QED
        BY <2>1, <3>3, PushConcat, <4>1
    <3>5. QED
      BY <2>1, <3>1, <3>2, <3>4
  <2>3. Join(PHeader("Allocate"), PCheck) = PHeader("Write")
    <3>1. "write_header" \in Ops
      BY DEF Ops
    <3>2. QED
      BY <2>1, <2>2, PlaceTypes, PushConcat, <3>1 DEF PHeader
  <2>4. Join(PAlloc("Allocate"), PCheck) = PAlloc("Write")
    <3>1. "allocate" \in Ops
      BY DEF Ops
    <3>2. QED
      BY <2>1, <2>3, PlaceTypes, PushConcat, <3>1 DEF PAlloc
  <2>5. Join(Push("refresh", PAlloc("Allocate")), PCheck) = Push("refresh", PAlloc("Write"))
    <3>1. "refresh" \in Ops
      BY DEF Ops
    <3>2. QED
      BY <2>1, <2>4, PlaceTypes, PushConcat, <3>1
  <2>6. Join(FtwAllocate, <<"check_write">>) = Push("refresh", PAlloc("Write"))
    BY <2>5, <1>3, <1>6
  <2>7. QED
    BY <2>6 DEF Join
<1>8. FtwRestart \o FtwAbort = Push("refresh", PRestart("Init"))
  <2>1. PRefAbort \in Progs /\ <<>> \in Progs /\ Join(<<>>, PRefAbort) = PRefAbort
    BY PlaceTypes, JoinEmpty
  <2>2. Join(PRestart("Restart"), PRefAbort) = PRestart("Init")
    <3>1. PRestart("Restart") = Push("restart", <<>>)
      BY DEF PRestart
    <3>2. PRestart("Init") = Push("restart", PRefAbort)
      BY DEF PRestart
    <3>3. "restart" \in Ops
      BY DEF Ops
    <3>4. Join(Push("restart", <<>>), PRefAbort) = Push("restart", Join(<<>>, PRefAbort))
      <4>1. "restart" \in Ops
        BY DEF Ops
      <4>2. QED
        BY <2>1, <3>3, PushConcat, <4>1
    <3>5. QED
      BY <2>1, <3>1, <3>2, <3>4
  <2>3. Join(Push("refresh", PRestart("Restart")), PRefAbort) = Push("refresh", PRestart("Init"))
    <3>1. "refresh" \in Ops
      BY DEF Ops
    <3>2. QED
      BY <2>1, <2>2, PlaceTypes, PushConcat, <3>1
  <2>4. Join(FtwRestart, FtwAbort) = Push("refresh", PRestart("Init"))
    BY <2>3, <1>2, <1>5
  <2>5. QED
    BY <2>4 DEF Join
<1>9. WriteSteps = PRecord
  <2> DEFINE E == <<"erase_spare", "restore_spare">>
  <2>1. E = PFree("Write") /\ E \in Progs
    <3>1. E = PFree("Write")
      BY DEF PFree, PAfterFree, PRestore, Push
    <3>2. QED
      BY <3>1, PlaceTypes
  <2>2. Join(FtwWriteRecord, E) = PClear("Write") /\ FtwWriteRecord \in Progs
    BY <2>1, WriteRecordProgram DEF PClear, PFlush, PDest, PDone
  <2> DEFINE W == <<"write_record", "erase_spare", "write_spare", "spare_complete">>
             V == Push("spare_complete", <<>>)
  <2>3. W = Push("write_record", Push("erase_spare", Push("write_spare", V)))
    BY DEF Push
  <2>4. V \in Progs
    BY PlaceTypes, PushFacts DEF Ops
  <2>5. Push("write_spare", V) \in Progs
    BY <2>4, PushFacts DEF Ops
  <2>6. Push("erase_spare", Push("write_spare", V)) \in Progs
    BY <2>5, PushFacts DEF Ops
  <2>7. W \in Progs
    BY DEF Progs, Ops
  <2>8. WriteSteps = Join(W, PClear("Write"))
    <3>1. WriteSteps = Join(Join(W, FtwWriteRecord), E)
      BY DEF WriteSteps, Join
    <3>2. Join(Join(W, FtwWriteRecord), E) = Join(W, Join(FtwWriteRecord, E))
      <4> HIDE DEF W, E
      <4>1. QED
        BY <2>1, <2>2, <2>7, JoinAssociative
    <3>3. QED
      BY <3>1, <3>2, <2>2
  <2> HIDE DEF W
  <2>9. Join(V, PClear("Write")) = PCommit
    <3>1. <<>> \in Progs /\ PClear("Write") \in Progs /\ "spare_complete" \in Ops
      BY PlaceTypes DEF Ops
    <3>2. Join(Push("spare_complete", <<>>), PClear("Write"))
            = Push("spare_complete", Join(<<>>, PClear("Write")))
      <4>1. "spare_complete" \in Ops
        BY DEF Ops
      <4>2. QED
        BY <3>1, PushConcat, <4>1
    <3>3. Join(<<>>, PClear("Write")) = PClear("Write")
      BY <3>1, JoinEmpty
    <3>4. QED
      BY <3>2, <3>3 DEF PCommit
  <2> HIDE DEF V
  <2>10. Join(Push("write_spare", V), PClear("Write")) = PSpare
    <3>1. "write_spare" \in Ops
      BY DEF Ops
    <3>2. QED
      BY <2>4, <2>9, PlaceTypes, PushConcat, <3>1 DEF PSpare
  <2>11. Join(Push("erase_spare", Push("write_spare", V)), PClear("Write")) = PErase
    <3>1. "erase_spare" \in Ops /\ "write_spare" \in Ops
      BY DEF Ops
    <3>2. QED
      BY <2>5, <2>10, PlaceTypes, PushConcat, <3>1 DEF PErase
  <2>12. Join(W, PClear("Write")) = PRecord
    <3>1. "write_record" \in Ops
      BY DEF Ops
    <3>2. QED
      BY <2>3, <2>6, <2>11, PlaceTypes, PushConcat, <3>1 DEF PRecord
  <2>13. QED
    BY <2>8, <2>12
<1>10. QED
  BY <1>1, <1>2, <1>3, <1>4, <1>5, <1>6, <1>7, <1>8, <1>9

-----------------------------------------------------------------------------
(***************************************************************************)
(* Places and steps.                                                       *)
(***************************************************************************)
DevType    == [ws : WorkType, h : Slots, r : Slots, save : SpareType, off : Slots]
TargetType == [Lbas -> [Cells -> Values \cup {Erased}]]

\* What may follow the refresh, the reclaim and the flush is a program.
LEMMA AfterTypes ==
  /\ \A t : AfterReady(t) \/ AfterValid(t) \/ AfterSafe(t) => t \in Progs
  /\ \A t : AfterReclaim(t) => t \in Progs
  /\ \A t : AfterFlush(t) => t \in Progs
<1>1. ASSUME NEW t, AfterReady(t) \/ AfterValid(t) \/ AfterSafe(t) PROVE t \in Progs
  BY <1>1, PlaceTypes DEF AfterReady, AfterValid, AfterSafe
<1>2. ASSUME NEW t, AfterReclaim(t) PROVE t \in Progs
  <2>1. CASE \E u : t = Push("reread", u) /\ (AfterReady(u) \/ AfterValid(u) \/ AfterSafe(u))
    <3>1. PICK u : t = Push("reread", u) /\ (AfterReady(u) \/ AfterValid(u) \/ AfterSafe(u))
      BY <2>1
    <3>2. u \in Progs
      BY <3>1, <1>1
    <3>3. QED
      BY <3>1, <3>2, ReclaimTypes
  <2>2. CASE t \in {PIFirst, PISpare}
    BY <2>2, PlaceTypes
  <2>3. QED
    BY <1>2, <2>1, <2>2 DEF AfterReclaim
<1>3. ASSUME NEW t, AfterFlush(t) PROVE t \in Progs
  <2>1. CASE t = PFlushed
    BY <2>1, PlaceTypes
  <2>2. CASE \E u : t = RErase2(u) /\ AfterReclaim(u)
    <3>1. PICK u : t = RErase2(u) /\ AfterReclaim(u)
      BY <2>2
    <3>2. u \in Progs
      BY <3>1, <1>2
    <3>3. QED
      BY <3>1, <3>2, ReclaimTypes
  <2>3. QED
    BY <1>3, <2>1, <2>2 DEF AfterFlush
<1>4. QED
  BY <1>1, <1>2, <1>3

\* The step at each place.
First(op, t) == t \in Progs /\ prog = Push(op, t)

\* At a place with a known first step, no other step can be taken.
LEMMA FirstFacts ==
  ASSUME NEW op \in Ops, NEW t, First(op, t)
  PROVE  /\ prog # <<>> /\ Head(prog) = op /\ Tail(prog) = t /\ t \in Progs
         /\ \A step : At(step) => step = op
<1>1. prog # <<>> /\ Head(prog) = op /\ Tail(prog) = t /\ t \in Progs
  BY PushFacts DEF First
<1>2. QED
  BY <1>1 DEF At

\* The first step at each place of FtwAllocate, FtwWrite, FtwRestart and FtwAbort.
LEMMA ServicePlaces ==
  /\ InAllocate => First("allocate", PHeader(call))
  /\ InHeader => First("write_header", PBit(call))
  /\ InBit => First("writes_allocated", IF call = "Write" THEN PCheck ELSE <<>>)
  /\ InWrite => First("write", <<>>)
  /\ InCheck => First("check_write", <<>>)
  /\ InRecord => First("write_record", PErase)
  /\ InErase => First("erase_spare", PSpare) \/ First("erase_spare", PAfterFree(call))
  /\ InSpare => First("write_spare", PCommit)
  /\ InCommit => First("spare_complete", PClear("Write"))
  /\ InClear => First("erase_target", PFlush(call))
  /\ InFlush => First("write_target", PDest(call))
  /\ InDest => First("dest_complete", PDone(call))
  /\ InDone => First("writes_complete", PFree(call))
  /\ InRestore => First("restore_spare", <<>>)
  /\ InRestart => First("restart", IF call = "Init" THEN PRefAbort ELSE <<>>)
  /\ InGetLast => First("get_last", <<>>)
<1>1. /\ InAllocate => First("allocate", PHeader(call))
      /\ InHeader => First("write_header", PBit(call))
      /\ InClear => First("erase_target", PFlush(call))
      /\ InFlush => First("write_target", PDest(call))
      /\ InDest => First("dest_complete", PDone(call))
      /\ InDone => First("writes_complete", PFree(call))
  BY PlaceTypes DEF First, InAllocate, InHeader, InClear, InFlush, InDest, InDone,
     PAlloc, PHeader, PClear, PFlush, PDest, PDone
<1>2. /\ InBit => First("writes_allocated", IF call = "Write" THEN PCheck ELSE <<>>)
      /\ InRestart => First("restart", IF call = "Init" THEN PRefAbort ELSE <<>>)
  BY PlaceTypes DEF First, InBit, InRestart, PBit, PRestart
<1>3. /\ InWrite => First("write", <<>>)
      /\ InCheck => First("check_write", <<>>)
      /\ InRestore => First("restore_spare", <<>>)
      /\ InGetLast => First("get_last", <<>>)
  BY PlaceTypes DEF First, InWrite, InCheck, InRestore, InGetLast, PWrite, PCheck,
     PRestore,
     PGetLast
<1>4. /\ InRecord => First("write_record", PErase)
      /\ InSpare => First("write_spare", PCommit)
      /\ InCommit => First("spare_complete", PClear("Write"))
  BY PlaceTypes DEF First, InRecord, InSpare, InCommit, PRecord, PSpare, PCommit
<1>5. InErase => First("erase_spare", PSpare) \/ First("erase_spare", PAfterFree(call))
  BY PlaceTypes DEF First, InErase, PErase, PFree
<1>6. QED
  BY <1>1, <1>2, <1>3, <1>4, <1>5

\* The first step at each place of InitFtwProtocol.
LEMMA StartPlaces ==
  /\ InValid => First("check_valid", PIFirst)
  /\ InFirst => First("check_first", PILast)
  /\ InLast => First("check_last", PIEmpty)
  /\ InEmpty => First("check_empty", PISpare)
  /\ InISpare => First("check_spare", <<>>)
  /\ InRefresh => \E t : First("refresh", t)
  /\ InAbort => \E t : First("abort", t)
<1>1. /\ InValid => First("check_valid", PIFirst)
      /\ InFirst => First("check_first", PILast)
      /\ InLast => First("check_last", PIEmpty)
      /\ InEmpty => First("check_empty", PISpare)
      /\ InISpare => First("check_spare", <<>>)
  BY PlaceTypes DEF First, InValid, InFirst, InLast, InEmpty, InISpare, PIValid,
     PIFirst, PILast,
     PIEmpty, PISpare
<1>2. ASSUME InRefresh PROVE \E t : First("refresh", t)
  <2>1. PICK t : prog = Push("refresh", t) /\ (AfterReady(t) \/ AfterValid(t) \/ AfterSafe(t))
    BY <1>2 DEF InRefresh
  <2>2. QED
    BY <2>1, AfterTypes DEF First
<1>3. ASSUME InAbort PROVE \E t : First("abort", t)
  <2>1. CASE prog = PAbort
    BY <2>1, PlaceTypes DEF First, PAbort
  <2>2. CASE prog \in {Push("abort", PIEmpty), Push("abort", PILast), Push("abort", PAgain)}
    BY <2>2, PlaceTypes DEF First
  <2>3. QED
    BY <1>3, <2>1, <2>2 DEF InAbort
<1>4. QED
  BY <1>1, <1>2, <1>3

\* The first step at each place of FtwReclaimWorkSpace.
LEMMA ReclaimPlaces ==
  /\ InCollect => \E t : First("collect", t) \/ First("collect_none", t)
  /\ InEraseR => \E t : First("reclaim_erase", t)
  /\ InCopy => \E t : First("reclaim_copy", t)
  /\ InSpareV => \E t : First("spare_valid", t)
  /\ InWorkI => \E t : First("work_invalid", t)
  /\ InEraseW => \E t : First("erase_work", t)
  /\ InWriteW => \E t : First("write_work", t)
  /\ InWorkV => \E t : First("work_valid", t)
  /\ InRestoreR => \E t : First("reclaim_restore", t)
  /\ InReread => \E t : First("reread", t)
<1>1. ASSUME InCollect PROVE \E t : First("collect", t) \/ First("collect_none", t)
  <2>1. PICK t : /\ AfterReclaim(t)
                 /\ \/ prog = Push("collect", RErase1(RErase2(t)))
                    \/ prog = Push("collect_none", RErase1(RErase2(t)))
    BY <1>1 DEF InCollect, AfterReclaim
  <2>2. RErase2(t) \in Progs
    BY <2>1, AfterTypes, ReclaimTypes
  <2>3. RErase1(RErase2(t)) \in Progs
    BY <2>2, ReclaimTypes
  <2>4. QED
    BY <2>1, <2>3 DEF First
<1>2. ASSUME NEW t, AfterFlush(t) \/ AfterReclaim(t) PROVE t \in Progs
  BY <1>2, AfterTypes
<1>3. InCopy => \E t : First("reclaim_copy", t)
  BY <1>2, ReclaimTypes DEF InCopy, First, RCopy
<1>4. InEraseR => \E t : First("reclaim_erase", t)
  BY <1>2, ReclaimTypes DEF InEraseR, First, RErase1, RErase2
<1>5. InSpareV => \E t : First("spare_valid", t)
  BY <1>2, ReclaimTypes DEF InSpareV, First, RValid1, RValid2
<1>6. InWorkI => \E t : First("work_invalid", t)
  BY <1>2, ReclaimTypes DEF InWorkI, First, RInvalid1, RInvalid2
<1>7. InEraseW => \E t : First("erase_work", t)
  BY <1>2, ReclaimTypes DEF InEraseW, First, REraseWork
<1>8. InWriteW => \E t : First("write_work", t)
  BY <1>2, ReclaimTypes DEF InWriteW, First, RWriteWork
<1>9. InWorkV => \E t : First("work_valid", t)
  BY <1>2, ReclaimTypes DEF InWorkV, First, RWorkValid
<1>10. InRestoreR => \E t : First("reclaim_restore", t)
  BY <1>2, ReclaimTypes DEF InRestoreR, First, RRestore
<1>11. InReread => \E t : First("reread", t)
  BY AfterTypes DEF InReread, First
<1>12. QED
  BY <1>1, <1>3, <1>4, <1>5, <1>6, <1>7, <1>8, <1>9, <1>10, <1>11

\* The place that a step is taken at.
LEMMA PlaceOfStep ==
  ASSUME IInv, NEW step, At(step)
  PROVE
    /\ step = "allocate" => InAllocate
    /\ step = "write_header" => InHeader
    /\ step = "writes_allocated" => InBit
    /\ step = "write" => InWrite
    /\ step = "check_write" => InCheck
    /\ step = "write_record" => InRecord
    /\ step = "erase_spare" => InErase
    /\ step = "write_spare" => InSpare
    /\ step = "spare_complete" => InCommit
    /\ step = "erase_target" => InClear
    /\ step = "write_target" => InFlush
    /\ step = "dest_complete" => InDest
    /\ step = "writes_complete" => InDone
    /\ step = "restore_spare" => InRestore
    /\ step = "restart" => InRestart
    /\ step = "get_last" => InGetLast
    /\ step = "check_valid" => InValid
    /\ step = "check_first" => InFirst
    /\ step = "check_last" => InLast
    /\ step = "check_empty" => InEmpty
    /\ step = "check_spare" => InISpare
    /\ step = "refresh" => InRefresh
    /\ step = "abort" => InAbort
    /\ step = "collect" => InCollect
    /\ step = "collect_none" => InCollect
    /\ step = "reclaim_erase" => InEraseR
    /\ step = "reclaim_copy" => InCopy
    /\ step = "spare_valid" => InSpareV
    /\ step = "work_invalid" => InWorkI
    /\ step = "erase_work" => InEraseW
    /\ step = "write_work" => InWriteW
    /\ step = "work_valid" => InWorkV
    /\ step = "reclaim_restore" => InRestoreR
    /\ step = "reread" => InReread
<1>1. ASSUME NEW op \in Ops, NEW t, First(op, t) PROVE step = op
  BY <1>1, FirstFacts
<1>2. InAllocate => step = "allocate"
  <2>1. "allocate" \in Ops
    BY DEF Ops
  <2>2. QED
    BY <1>1, <2>1, ServicePlaces
<1>3. InHeader => step = "write_header"
  <2>1. "write_header" \in Ops
    BY DEF Ops
  <2>2. QED
    BY <1>1, <2>1, ServicePlaces
<1>4. InBit => step = "writes_allocated"
  <2>1. "writes_allocated" \in Ops
    BY DEF Ops
  <2>2. QED
    BY <1>1, <2>1, ServicePlaces
<1>5. InWrite => step = "write"
  <2>1. "write" \in Ops
    BY DEF Ops
  <2>2. QED
    BY <1>1, <2>1, ServicePlaces
<1>6. InCheck => step = "check_write"
  <2>1. "check_write" \in Ops
    BY DEF Ops
  <2>2. QED
    BY <1>1, <2>1, ServicePlaces
<1>7. InRecord => step = "write_record"
  <2>1. "write_record" \in Ops
    BY DEF Ops
  <2>2. QED
    BY <1>1, <2>1, ServicePlaces
<1>8. InErase => step = "erase_spare"
  <2>1. "erase_spare" \in Ops
    BY DEF Ops
  <2>2. QED
    BY <1>1, <2>1, ServicePlaces
<1>9. InSpare => step = "write_spare"
  <2>1. "write_spare" \in Ops
    BY DEF Ops
  <2>2. QED
    BY <1>1, <2>1, ServicePlaces
<1>10. InCommit => step = "spare_complete"
  <2>1. "spare_complete" \in Ops
    BY DEF Ops
  <2>2. QED
    BY <1>1, <2>1, ServicePlaces
<1>11. InClear => step = "erase_target"
  <2>1. "erase_target" \in Ops
    BY DEF Ops
  <2>2. QED
    BY <1>1, <2>1, ServicePlaces
<1>12. InFlush => step = "write_target"
  <2>1. "write_target" \in Ops
    BY DEF Ops
  <2>2. QED
    BY <1>1, <2>1, ServicePlaces
<1>13. InDest => step = "dest_complete"
  <2>1. "dest_complete" \in Ops
    BY DEF Ops
  <2>2. QED
    BY <1>1, <2>1, ServicePlaces
<1>14. InDone => step = "writes_complete"
  <2>1. "writes_complete" \in Ops
    BY DEF Ops
  <2>2. QED
    BY <1>1, <2>1, ServicePlaces
<1>15. InRestore => step = "restore_spare"
  <2>1. "restore_spare" \in Ops
    BY DEF Ops
  <2>2. QED
    BY <1>1, <2>1, ServicePlaces
<1>16. InRestart => step = "restart"
  <2>1. "restart" \in Ops
    BY DEF Ops
  <2>2. QED
    BY <1>1, <2>1, ServicePlaces
<1>17. InGetLast => step = "get_last"
  <2>1. "get_last" \in Ops
    BY DEF Ops
  <2>2. QED
    BY <1>1, <2>1, ServicePlaces
<1>18. InValid => step = "check_valid"
  <2>1. "check_valid" \in Ops
    BY DEF Ops
  <2>2. QED
    BY <1>1, <2>1, StartPlaces
<1>19. InFirst => step = "check_first"
  <2>1. "check_first" \in Ops
    BY DEF Ops
  <2>2. QED
    BY <1>1, <2>1, StartPlaces
<1>20. InLast => step = "check_last"
  <2>1. "check_last" \in Ops
    BY DEF Ops
  <2>2. QED
    BY <1>1, <2>1, StartPlaces
<1>21. InEmpty => step = "check_empty"
  <2>1. "check_empty" \in Ops
    BY DEF Ops
  <2>2. QED
    BY <1>1, <2>1, StartPlaces
<1>22. InISpare => step = "check_spare"
  <2>1. "check_spare" \in Ops
    BY DEF Ops
  <2>2. QED
    BY <1>1, <2>1, StartPlaces
<1>23. InRefresh => step = "refresh"
  <2>1. "refresh" \in Ops
    BY DEF Ops
  <2>2. QED
    BY <1>1, <2>1, StartPlaces
<1>24. InAbort => step = "abort"
  <2>1. "abort" \in Ops
    BY DEF Ops
  <2>2. QED
    BY <1>1, <2>1, StartPlaces
<1>25. InCollect => step = "collect" \/ step = "collect_none"
  <2>1. "collect" \in Ops /\ "collect_none" \in Ops
    BY DEF Ops
  <2>2. QED
    BY <1>1, <2>1, ReclaimPlaces
<1>26. InEraseR => step = "reclaim_erase"
  <2>1. "reclaim_erase" \in Ops
    BY DEF Ops
  <2>2. QED
    BY <1>1, <2>1, ReclaimPlaces
<1>27. InCopy => step = "reclaim_copy"
  <2>1. "reclaim_copy" \in Ops
    BY DEF Ops
  <2>2. QED
    BY <1>1, <2>1, ReclaimPlaces
<1>28. InSpareV => step = "spare_valid"
  <2>1. "spare_valid" \in Ops
    BY DEF Ops
  <2>2. QED
    BY <1>1, <2>1, ReclaimPlaces
<1>29. InWorkI => step = "work_invalid"
  <2>1. "work_invalid" \in Ops
    BY DEF Ops
  <2>2. QED
    BY <1>1, <2>1, ReclaimPlaces
<1>30. InEraseW => step = "erase_work"
  <2>1. "erase_work" \in Ops
    BY DEF Ops
  <2>2. QED
    BY <1>1, <2>1, ReclaimPlaces
<1>31. InWriteW => step = "write_work"
  <2>1. "write_work" \in Ops
    BY DEF Ops
  <2>2. QED
    BY <1>1, <2>1, ReclaimPlaces
<1>32. InWorkV => step = "work_valid"
  <2>1. "work_valid" \in Ops
    BY DEF Ops
  <2>2. QED
    BY <1>1, <2>1, ReclaimPlaces
<1>33. InRestoreR => step = "reclaim_restore"
  <2>1. "reclaim_restore" \in Ops
    BY DEF Ops
  <2>2. QED
    BY <1>1, <2>1, ReclaimPlaces
<1>34. InReread => step = "reread"
  <2>1. "reread" \in Ops
    BY DEF Ops
  <2>2. QED
    BY <1>1, <2>1, ReclaimPlaces
<1>35. prog # <<>>
  BY DEF At
<1>36. QED
  BY <1>2, <1>3, <1>4, <1>5, <1>6, <1>7, <1>8, <1>9, <1>10, <1>11, <1>12, <1>13, <1>14,
     <1>15, <1>16, <1>17, <1>18, <1>19, <1>20, <1>21, <1>22, <1>23, <1>24, <1>25, <1>26, <1>27,
     <1>28, <1>29, <1>30, <1>31, <1>32, <1>33, <1>34,
     <1>35
     DEF IInv, InIdle, InEnd, InService, InStart, InReclaim

\* What a start and the end of a service need of the flash.
FlashTyped == /\ work \in WorkType /\ spare \in SpareType /\ spare.queue = EmptyQueue
              /\ target \in TargetType

\* Erased blocks, a new work space and an unset device have their types.
LEMMA NoDevFacts ==
  /\ NoDev \in DevType /\ NoDev.save.queue = EmptyQueue
  /\ ErasedWork \in WorkType /\ ErasedSpare \in SpareType /\ ErasedSpare.queue = EmptyQueue
  /\ NewWork \in WorkType /\ Ready(NewWork)
<1>1. EmptyQueue \in [Slots -> SlotType] /\ Clean(EmptyQueue) /\ 1 \in Slots
  BY EmptyFacts, SlotFacts DEF Queues
<1>2. ErasedWork \in WorkType /\ NewWork \in WorkType /\ ErasedWork.queue = EmptyQueue
  BY <1>1 DEF ErasedWork, NewWork, WorkType, HdrStates
<1>3. ErasedSpare \in SpareType /\ ErasedSpare.queue = EmptyQueue
  BY <1>1 DEF ErasedSpare, SpareType, HdrStates, ErasedData
<1>4. NoDev \in DevType /\ NoDev.save.queue = EmptyQueue
  BY <1>1, <1>2, <1>3 DEF NoDev, DevType
<1>5. Ready(NewWork)
  BY <1>1 DEF Ready, NewWork
<1>6. QED
  BY <1>2, <1>3, <1>4, <1>5

\* A work space a service can start on is one a power failure may leave.
LEMMA ReadyIsSafe ==
  ASSUME NEW w \in WorkType, Ready(w)
  PROVE  Safe(w) /\ SafeValid(w)
<1>1. w.queue \in Queues
  BY DEF WorkType, Queues
<1>2. QED
  BY <1>1, Weaker DEF Ready, Safe, SafeValid

\* A power failure in a safe work space leaves the invariant.
LEMMA Restarted ==
  ASSUME FlashTyped', Safe(work)', Starts("Init", NoRequest, InitFtwProtocol)
  PROVE  IInv'
<1>1. dev' = NoDev /\ call' = "Init" /\ arg' = NoRequest /\ prog' = Push("refresh", PIValid)
  BY ServicePrograms DEF Starts
<1>2. Typed'
  BY <1>1, NoDevFacts DEF Typed, FtwTypeOK, FlashTyped, TargetType, DevType
<1>3. AfterSafe(PIValid)'
  BY <1>1 DEF AfterSafe
<1>4. InRefresh'
  BY <1>1, <1>3 DEF InRefresh
<1>5. QED
  BY <1>2, <1>4 DEF IInv

\* A service that ends on a ready work space leaves the invariant.
LEMMA Finished ==
  ASSUME FlashTyped', Ready(work)', Ends
  PROVE  IInv'
<1>1. dev' = NoDev /\ call' = "none" /\ arg' = NoRequest /\ prog' = <<>>
  BY DEF Starts, Ends
<1>2. Typed'
  BY <1>1, NoDevFacts DEF Typed, FtwTypeOK, FlashTyped, TargetType, DevType
<1>3. Safe(work)'
  BY ReadyIsSafe DEF FlashTyped
<1>4. InIdle'
  BY <1>1 DEF InIdle
<1>5. QED
  BY <1>2, <1>3, <1>4 DEF IInv

\* A flash operation that is not cut off.
Whole(w, s, t, d) ==
  /\ work' = w /\ spare' = s /\ target' = t /\ dev' = d /\ prog' = Tail(prog)
  /\ call' = call /\ arg' = arg

\* A flash operation is done as a whole, or what it leaves is as good as needed for
\* what follows: a restart, or the end of the service.
LEMMA FlashStep ==
  ASSUME Typed, NEW w \in WorkType, NEW s \in SpareType, s.queue = EmptyQueue,
         NEW t \in TargetType, NEW d, Flash(w, s, t, d),
         \A h \in {work.hdr, w.hdr}, q \in TornQueue(work.queue, w.queue) :
           /\ q \in Queues /\ Safe([hdr |-> h, queue |-> q])
           /\ call # "Init" /\ Head(prog) \in FaultSteps => Ready([hdr |-> h, queue |-> q])
  PROVE  Whole(w, s, t, d) \/ IInv'
<1>1. CASE Whole(w, s, t, d)
  BY <1>1
<1>2. ASSUME NEW h \in {work.hdr, w.hdr}, NEW q \in TornQueue(work.queue, w.queue),
             work' = [hdr |-> h, queue |-> q],
             NEW sh \in {spare.hdr, s.hdr}, NEW sq \in TornQueue(spare.queue, s.queue),
             NEW c \in Torn(spare.data, s.data), spare' = [hdr |-> sh, queue |-> sq, data |-> c],
             NEW b, NEW e \in Torn(target[b], t[b]), target' = [target EXCEPT ![b] = e],
             \/ Starts("Init", NoRequest, InitFtwProtocol)
             \/ call # "Init" /\ Head(prog) \in FaultSteps /\ Ends
      PROVE  IInv'
  <2>1. work' \in WorkType
    BY <1>2 DEF WorkType, Queues, Typed, FtwTypeOK
  <2>2. spare.queue = EmptyQueue /\ EmptyQueue \in Queues
    BY EmptyFacts DEF Typed
  <2>3. sq = EmptyQueue
    BY <2>2, TornSame
  <2>4. c \in [Cells -> Values \cup {Erased}]
    BY DEF Torn, Typed, FtwTypeOK, SpareType
  <2>5. sh \in HdrStates
    BY DEF Typed, FtwTypeOK, SpareType
  <2>6. spare' \in SpareType /\ spare'.queue = EmptyQueue
    BY <1>2, <2>2, <2>3, <2>4, <2>5 DEF SpareType, Queues
  <2>7. target' \in TargetType
    <3>1. CASE b \in Lbas
      <4>1. target[b] \in [Cells -> Values \cup {Erased}] /\ t[b] \in [Cells -> Values \cup {Erased}]
        BY <3>1 DEF Typed, FtwTypeOK, TargetType
      <4>2. e \in [Cells -> Values \cup {Erased}]
        BY <4>1 DEF Torn
      <4>3. QED
        BY <1>2, <4>2 DEF Typed, FtwTypeOK, TargetType
    <3>2. CASE b \notin Lbas
      BY <1>2, <3>2 DEF Typed, FtwTypeOK, TargetType
    <3>3. QED
      BY <3>1, <3>2
  <2>8. FlashTyped'
    BY <2>1, <2>6, <2>7 DEF FlashTyped
  <2>9. CASE Starts("Init", NoRequest, InitFtwProtocol)
    BY <1>2, <2>8, <2>9, Restarted
  <2>10. CASE call # "Init" /\ Head(prog) \in FaultSteps /\ Ends
    BY <1>2, <2>8, <2>10, Finished
  <2>11. QED
    BY <1>2, <2>9, <2>10
<1>3. ASSUME ~Whole(w, s, t, d) PROVE IInv'
  <2>1. PICK h \in {work.hdr, w.hdr}, q \in TornQueue(work.queue, w.queue) :
          work' = [hdr |-> h, queue |-> q]
    BY <1>3 DEF Flash, Whole
  <2>2. PICK sh \in {spare.hdr, s.hdr}, sq \in TornQueue(spare.queue, s.queue),
             c \in Torn(spare.data, s.data) : spare' = [hdr |-> sh, queue |-> sq, data |-> c]
    BY <1>3 DEF Flash, Whole
  <2>3. PICK b : \E e \in Torn(target[b], t[b]) : target' = [target EXCEPT ![b] = e]
    BY <1>3 DEF Flash, Whole
  <2>6. PICK e \in Torn(target[b], t[b]) : target' = [target EXCEPT ![b] = e]
    BY <2>3
  <2>4. \/ Starts("Init", NoRequest, InitFtwProtocol)
        \/ call # "Init" /\ Head(prog) \in FaultSteps /\ Ends
    BY <1>3 DEF Flash, Whole
  <2>5. QED
    BY <1>2, <2>1, <2>2, <2>6, <2>4
<1>4. QED
  BY <1>1, <1>3

\* Operations that leave the working block alone.
LEMMA SpareStep ==
  ASSUME IInv, NEW s \in SpareType, s.queue = EmptyQueue, NEW t \in TargetType, NEW d,
         Flash(work, s, t, d),
         Head(prog) \in FaultSteps => Ready(work)
  PROVE  Whole(work, s, t, d) \/ IInv'
<1>1. work \in WorkType /\ work.queue \in Queues /\ Typed /\ Safe(work)
  BY DEF IInv, Typed, FtwTypeOK, WorkType, Queues
<1>2. ASSUME NEW h \in {work.hdr}, NEW q \in TornQueue(work.queue, work.queue)
      PROVE  [hdr |-> h, queue |-> q] = work /\ q \in Queues
  <2>1. q = work.queue
    BY <1>1, TornSame
  <2>2. QED
    BY <1>1, <2>1 DEF WorkType
<1>3. QED
  BY <1>1, <1>2, FlashStep

\* Types after a step.
LEMMA TypedAfter ==
  ASSUME Typed, NEW w \in WorkType, NEW s \in SpareType, s.queue = EmptyQueue,
         NEW t \in TargetType, NEW d \in DevType, d.save.queue = EmptyQueue,
         work' = w, spare' = s, target' = t, dev' = d, call' = call, arg' = arg
  PROVE  Typed'
  BY DEF Typed, FtwTypeOK, DevType, TargetType

\* The types, from the invariant.
LEMMA TypeFacts ==
  ASSUME IInv
  PROVE  /\ work \in WorkType /\ spare \in SpareType /\ spare.queue = EmptyQueue
         /\ target \in TargetType /\ dev \in DevType /\ dev.save.queue = EmptyQueue
         /\ work.queue \in Queues /\ dev.ws \in WorkType /\ dev.ws.queue \in Queues
         /\ Typed /\ Safe(work)
         /\ work = [hdr |-> work.hdr, queue |-> work.queue]
         /\ dev.h \in Slots /\ dev.r \in Slots /\ dev.off \in Slots
         /\ dev.save \in SpareType
  BY DEF IInv, Typed, FtwTypeOK, WorkType, Queues, DevType, TargetType

\* The reclaim is not among the steps at which the device may report an error.
LEMMA NoFault ==
  ASSUME Setting
  PROVE  FaultSteps \cap {"reclaim_erase", "reclaim_copy", "reclaim_restore", "spare_valid",
                          "work_invalid", "erase_work", "write_work", "work_valid",
                          "write_header"} = {}
  BY DEF Setting, ServiceErrors

\* In a safe queue the last header is one of those described, and its first record that
\* is not complete is a slot.
LEMMA SafeFacts ==
  ASSUME NEW w \in WorkType, Safe(w)
  PROVE  /\ Shape(w.queue) \/ Dead(w.queue)
         /\ LET last == FtwGetLastWriteHeader(w.queue)
            IN  /\ ~(last.ok /\ last.h < QueueSize) => Dead(w.queue)
                /\ last.ok /\ last.h < QueueSize =>
                     /\ last.h \in Slots /\ Open(w.queue, last.h)
                     /\ FtwGetLastWriteRecord(w.queue, last.h) \in Slots
<1> DEFINE q == w.queue
           last == FtwGetLastWriteHeader(q)
<1>1. q \in Queues
  BY DEF WorkType, Queues
<1>2. Shape(q) \/ Dead(q)
  BY DEF Safe
<1>3. CASE Ended(q)
  <2>1. last.ok = FALSE
    BY <1>1, <1>3, LastHeader
  <2>2. QED
    BY <1>2, <1>3, <2>1 DEF Dead
<1>4. ASSUME NEW h \in Slots, Open(q, h)
      PROVE  /\ last.ok /\ last.h = h
             /\ h = QueueSize => Dead(q)
             /\ h < QueueSize => FtwGetLastWriteRecord(q, h) \in Slots
  <2>1. last = [ok |-> TRUE, h |-> h]
    BY <1>1, <1>4, LastHeader
  <2>2. ~Ended(q) /\ \A k \in Slots : Open(q, k) => k = h
    BY <1>1, <1>4, OneHeader
  <2>3. \/ Frayed(q, h) \/ Listed(q, h) \/ Partial(q, h) \/ Unused(q, h)
    BY <1>2, <2>2 DEF Shape, Dead, Frayed, Listed, Partial, Unused
  <2>4. h = QueueSize => Dead(q)
    BY <1>1, <2>3, Weaker, SlotFacts DEF Listed, Partial, Dead
  <2>5. ASSUME h < QueueSize PROVE FtwGetLastWriteRecord(q, h) \in Slots
    <3>1. q[h].n \in Nat /\ h + 1 \in Slots /\ h \in Nat /\ QueueSize \in Nat
      BY <1>1, <2>5, SlotFacts
    <3>2. q[h].n <= 1 \/ 4 \notin q[h + 1].bits
      <4>1. CASE Frayed(q, h) \/ Partial(q, h)
        BY <3>1, <4>1, EmptyFacts DEF Frayed, Partial, BlankFrom
      <4>2. CASE Listed(q, h)
        BY <4>2 DEF Listed
      <4>3. CASE Unused(q, h)
        BY <3>1, <4>3 DEF Unused
      <4>4. QED
        BY <2>3, <4>1, <4>2, <4>3
    <3>3. QED
      BY <1>1, <2>5, <3>2, RecordIsSlot
  <2>6. QED
    BY <2>1, <2>4, <2>5
<1>5. CASE \E h \in Slots : Open(q, h)
  <2>1. PICK h \in Slots : Open(q, h)
    BY <1>5
  <2>2. last.ok /\ last.h = h /\ (h = QueueSize => Dead(q))
        /\ (h < QueueSize => FtwGetLastWriteRecord(q, h) \in Slots)
    BY <1>4, <2>1
  <2>3. h < QueueSize \/ h = QueueSize
    BY SlotFacts
  <2>4. QED
    BY <1>2, <2>1, <2>2, <2>3
<1>6. QED
  BY <1>1, <1>3, <1>5, SearchEnds

\* What is in memory once the last header has been looked for.
LEMMA FoundFacts ==
  ASSUME NEW d \in DevType, NEW ws \in WorkType, NEW h \in Slots,
         FtwGetLastWriteHeader(ws.queue).h = h, FtwGetLastWriteRecord(ws.queue, h) \in Slots
  PROVE  /\ Found(d, ws) \in DevType /\ Found(d, ws).ws = ws /\ Found(d, ws).h = h
         /\ Found(d, ws).r = FtwGetLastWriteRecord(ws.queue, h)
         /\ Found(d, ws).save = d.save /\ Found(d, ws).off = d.off
  BY DEF Found, DevType

\* The service goes on with what follows the refresh.
LEMMA Refreshed ==
  ASSUME Typed', Safe(work)', Synced', NEW t, prog' = t, call' = call, work' = work,
         \/ AfterReady(t) /\ Ready(work)
         \/ AfterValid(t) /\ SafeValid(work)
         \/ AfterSafe(t)
  PROVE  IInv'
<1>1. CASE AfterReady(t) /\ Ready(work)
  <2>1. Ready(work)'
    BY <1>1
  <2>2. InAbort' \/ InAllocate' \/ InWrite' \/ InRestart' \/ InGetLast'
    BY <1>1, <2>1 DEF AfterReady, InAbort, InAllocate, InWrite, InRestart, InGetLast
  <2>3. QED
    BY <2>2 DEF IInv, InService
<1>2. CASE AfterValid(t) /\ SafeValid(work)
  <2>1. SafeValid(work)'
    BY <1>2
  <2>2. InAbort' \/ InFirst'
    BY <1>2, <2>1 DEF AfterValid, InAbort, InFirst
  <2>3. QED
    BY <2>2 DEF IInv, InService, InStart
<1>3. CASE AfterSafe(t)
  <2>1. InValid'
    BY <1>3 DEF AfterSafe, InValid
  <2>2. QED
    BY <2>1 DEF IInv, InStart
<1>4. QED
  BY <1>1, <1>2, <1>3

\* WorkSpaceRefresh, the whole of it: keeps the invariant.
LEMMA WorkSpaceRefreshStep ==
  ASSUME Setting, IInv, WorkSpaceRefresh
  PROVE  IInv'
<1> DEFINE last == FtwGetLastWriteHeader(work.queue)
<1>1. InRefresh
  BY PlaceOfStep DEF WorkSpaceRefresh
<1>2. PICK t : /\ prog = Push("refresh", t)
               /\ \/ AfterReady(t) /\ Ready(work)
                  \/ AfterValid(t) /\ SafeValid(work)
                  \/ AfterSafe(t)
  BY <1>1 DEF InRefresh
<1>3. t \in Progs /\ Tail(prog) = t
  <2>1. t \in Progs /\ "refresh" \in Ops
    BY <1>2, AfterTypes DEF Ops
  <2>2. QED
    BY <1>2, <2>1, PushFacts
<1>4. CASE last.ok /\ last.h < QueueSize
  <2>1. Decide(Found(dev, work), t)
    BY <1>3, <1>4 DEF WorkSpaceRefresh
  <2>2. last.h \in Slots /\ Open(work.queue, last.h)
        /\ FtwGetLastWriteRecord(work.queue, last.h) \in Slots
    BY <1>4, TypeFacts, SafeFacts
  <2>3. /\ Found(dev, work) \in DevType /\ Found(dev, work).ws = work
        /\ Found(dev, work).h = last.h /\ Found(dev, work).save = dev.save
        /\ Found(dev, work).r = FtwGetLastWriteRecord(work.queue, last.h)
    <3>1. dev \in DevType /\ work \in WorkType
      BY TypeFacts
    <3>2. QED
      BY <2>2, <3>1, FoundFacts
  <2>4. /\ work' = work /\ spare' = spare /\ target' = target /\ call' = call /\ arg' = arg
        /\ dev' = Found(dev, work) /\ prog' = t
    BY <2>1 DEF Decide
  <2>5. Typed'
    BY <2>3, <2>4, TypeFacts, TypedAfter
  <2>6. Synced'
    BY <1>4, <2>2, <2>3, <2>4 DEF Synced
  <2>7. Safe(work)'
    BY <2>4, TypeFacts
  <2>8. QED
    BY <1>2, <2>4, <2>5, <2>6, <2>7, Refreshed
<1>5. CASE ~(last.ok /\ last.h < QueueSize)
  <2>1. Decide([dev EXCEPT !.ws = work], Push("collect", RErase1(RErase2(Push("reread", t)))))
    BY <1>3, <1>5, DecisionPrograms DEF WorkSpaceRefresh
  <2>2. Dead(work.queue)
    BY <1>5, TypeFacts, SafeFacts
  <2>3. [dev EXCEPT !.ws = work] \in DevType /\ [dev EXCEPT !.ws = work].save = dev.save
        /\ [dev EXCEPT !.ws = work].ws = work
    BY TypeFacts DEF DevType
  <2>4. /\ work' = work /\ spare' = spare /\ target' = target /\ call' = call /\ arg' = arg
        /\ dev' = [dev EXCEPT !.ws = work]
        /\ prog' = Push("collect", RErase1(RErase2(Push("reread", t))))
    BY <2>1 DEF Decide
  <2>5. Typed'
    BY <2>3, <2>4, TypeFacts, TypedAfter
  <2>6. Dead(work.queue)' /\ Dead(dev.ws.queue)' /\ Safe(work)'
    BY <2>2, <2>3, <2>4, TypeFacts
  <2>7. AfterReclaim(Push("reread", t))'
    BY <1>2, <2>4 DEF AfterReclaim, AfterReady, AfterValid, AfterSafe
  <2>8. InCollect'
    BY <2>4, <2>6, <2>7 DEF InCollect
  <2>9. QED
    BY <2>5, <2>6, <2>8 DEF IInv, InReclaim
<1>6. QED
  BY <1>4, <1>5

\* WorkSpaceRefresh, reading the work space again: keeps the invariant.
LEMMA RereadStep ==
  ASSUME Setting, IInv, Reread
  PROVE  IInv'
<1>1. InReread
  BY PlaceOfStep DEF Reread
<1>2. PICK t : /\ prog = Push("reread", t) /\ Renewed
               /\ AfterReady(t) \/ AfterValid(t) \/ AfterSafe(t)
  BY <1>1 DEF InReread
<1>3. t \in Progs /\ Tail(prog) = t
  <2>1. t \in Progs /\ "reread" \in Ops
    BY <1>2, AfterTypes DEF Ops
  <2>2. QED
    BY <1>2, <2>1, PushFacts
<1>4. /\ FtwGetLastWriteHeader(work.queue) = [ok |-> TRUE, h |-> 1]
      /\ FtwGetLastWriteRecord(work.queue, 1) = 2 /\ 1 \in Slots /\ 2 \in Slots /\ 1 < QueueSize
      /\ Open(work.queue, 1)
  BY <1>2, EmptyFacts, SlotFacts DEF Renewed, NewWork, Fresh
<1>5. /\ Found(dev, work) \in DevType /\ Found(dev, work).ws = work
      /\ Found(dev, work).h = 1 /\ Found(dev, work).save = dev.save
      /\ Found(dev, work).r = FtwGetLastWriteRecord(work.queue, 1)
  <2>1. dev \in DevType /\ work \in WorkType
    BY TypeFacts
  <2>2. FtwGetLastWriteHeader(work.queue).h = 1
    BY <1>4
  <2>3. QED
    BY <1>4, <2>1, <2>2, FoundFacts
<1>6. /\ work' = work /\ spare' = spare /\ target' = target /\ call' = call /\ arg' = arg
      /\ dev' = Found(dev, work) /\ prog' = t
  BY <1>3 DEF Reread, Decide
<1>7. Typed'
  BY <1>5, <1>6, TypeFacts, TypedAfter
<1>8. Synced' /\ Safe(work)'
  BY <1>4, <1>5, <1>6, TypeFacts DEF Synced
<1>9. Ready(work) /\ SafeValid(work)
  BY <1>2, NoDevFacts, ReadyIsSafe DEF Renewed
<1>10. QED
  BY <1>2, <1>6, <1>7, <1>8, <1>9, Refreshed

\* The reclaim.
LEMMA CollectStep ==
  ASSUME Setting, IInv, Collect
  PROVE  IInv'
<1>1. InCollect
  BY PlaceOfStep DEF Collect
<1>2. PICK t : /\ AfterReclaim(t)
               /\ \/ /\ prog = Push("collect", RErase1(RErase2(t))) /\ Dead(dev.ws.queue)
                  \/ prog = Push("collect_none", RErase1(RErase2(t)))
  BY <1>1 DEF InCollect, AfterReclaim
<1>3. RErase1(RErase2(t)) \in Progs
  BY <1>2, AfterTypes, ReclaimTypes
<1>4. Tail(prog) = RErase1(RErase2(t)) /\ (At("collect") => Dead(dev.ws.queue))
  <2>1. "collect" \in Ops /\ "collect_none" \in Ops
    BY DEF Ops
  <2>2. CASE prog = Push("collect", RErase1(RErase2(t))) /\ Dead(dev.ws.queue)
    BY <1>3, <2>1, <2>2, PushFacts
  <2>3. CASE prog = Push("collect_none", RErase1(RErase2(t)))
    <3>1. Head(prog) = "collect_none" /\ Tail(prog) = RErase1(RErase2(t))
      BY <1>3, <2>1, <2>3, PushFacts
    <3>2. ~At("collect")
      BY <3>1 DEF At
    <3>3. QED
      BY <3>1, <3>2
  <2>4. QED
    BY <1>2, <2>2, <2>3
<1>5. (IF At("collect") THEN Preserved(dev.ws.queue) ELSE EmptyQueue) = EmptyQueue
  BY <1>4, TypeFacts, NothingPreserved
<1> DEFINE ws == [dev.ws EXCEPT !.queue = EmptyQueue]
           d  == [Found(dev, ws) EXCEPT !.save = spare]
<1>6. Decide(d, RErase1(RErase2(t)))
  BY <1>4, <1>5 DEF Collect
<1>7. ws \in WorkType /\ ws.queue = EmptyQueue
  BY TypeFacts, EmptyFacts DEF WorkType, Queues
<1>8. FtwGetLastWriteHeader(ws.queue).h = 1 /\ FtwGetLastWriteRecord(ws.queue, 1) = 2
      /\ 1 \in Slots /\ 2 \in Slots
  BY <1>7, EmptyFacts, SlotFacts
<1>9. /\ Found(dev, ws) \in DevType /\ Found(dev, ws).ws = ws
      /\ Found(dev, ws).h = 1 /\ Found(dev, ws).r = 2
  <2> HIDE DEF ws
  <2>1. dev \in DevType
    BY TypeFacts
  <2>2. QED
    BY <1>7, <1>8, <2>1, FoundFacts
<1>10. d \in DevType /\ d.save = spare /\ d.ws = ws /\ d.h = 1 /\ d.r = 2
  <2> DEFINE f == Found(dev, ws)
  <2> HIDE DEF f
  <2>1. f \in DevType /\ f.ws = ws /\ f.h = 1 /\ f.r = 2
    BY <1>9 DEF f
  <2>2. spare \in SpareType
    BY TypeFacts
  <2>3. [f EXCEPT !.save = spare] \in DevType /\ [f EXCEPT !.save = spare].save = spare
        /\ [f EXCEPT !.save = spare].ws = f.ws /\ [f EXCEPT !.save = spare].h = f.h
        /\ [f EXCEPT !.save = spare].r = f.r
    BY <2>1, <2>2 DEF DevType
  <2>4. QED
    BY <2>1, <2>3 DEF f
<1> HIDE DEF ws, d
<1>11. /\ work' = work /\ spare' = spare /\ target' = target /\ call' = call /\ arg' = arg
       /\ dev' = d /\ prog' = RErase1(RErase2(t))
  BY <1>6 DEF Decide
<1>12. Typed' /\ Safe(work)'
  BY <1>10, <1>11, TypeFacts, TypedAfter
<1>13. AfterReclaim(t)'
  BY <1>2, <1>11 DEF AfterReclaim, AfterReady, AfterValid, AfterSafe
<1>14. AfterFlush(RErase2(t))'
  BY <1>10, <1>11, <1>13 DEF AfterFlush
<1>15. Gone'
  BY <1>1, <1>7, <1>10, <1>11 DEF InCollect, Gone
<1>16. InEraseR'
  BY <1>11, <1>14, <1>15 DEF InEraseR
<1>17. QED
  BY <1>12, <1>16 DEF IInv, InReclaim

\* What may follow stays what may follow, when only the flash and the copy in memory change.
LEMMA AfterSame ==
  ASSUME call' = call, dev'.h = dev.h, dev'.r = dev.r
  PROVE  /\ \A t : AfterReclaim(t) => AfterReclaim(t)'
         /\ \A t : AfterFlush(t) => AfterFlush(t)'
<1>1. \A t : AfterReclaim(t) => AfterReclaim(t)'
  BY DEF AfterReclaim, AfterReady, AfterValid, AfterSafe
<1>2. QED
  BY <1>1 DEF AfterFlush

\* FtwReclaimWorkSpace, an erase of the spare block: keeps the invariant.
LEMMA ReclaimEraseStep ==
  ASSUME Setting, IInv, ReclaimErase
  PROVE  IInv'
<1>1. InEraseR
  BY PlaceOfStep DEF ReclaimErase
<1>2. "reclaim_erase" \in Ops /\ Head(prog) = "reclaim_erase"
  BY DEF ReclaimErase, At, Ops
<1>3. CASE Whole(work, ErasedSpare, target, dev)
  <2>1. Typed' /\ Safe(work)' /\ call' = call /\ dev' = dev /\ work' = work
    BY <1>3, TypeFacts, NoDevFacts, TypedAfter DEF Whole
  <2>2. PICK t : \/ prog = RErase1(t) /\ AfterFlush(t) /\ Gone
                 \/ prog = RErase2(t) /\ AfterReclaim(t) /\ Renewed
    BY <1>1 DEF InEraseR
  <2>3. t \in Progs
    BY <2>2, AfterTypes
  <2>4. CASE prog = RErase1(t) /\ AfterFlush(t) /\ Gone
    <3>1. prog' = RCopy(t)
      BY <1>2, <1>3, <2>3, <2>4, ReclaimTypes, PushFacts DEF Whole, RErase1
    <3>2. AfterFlush(t)' /\ Gone'
      BY <2>1, <2>4, AfterSame DEF Gone
    <3>3. InCopy'
      BY <3>1, <3>2 DEF InCopy
    <3>4. QED
      BY <2>1, <3>3 DEF IInv, InReclaim
  <2>5. CASE prog = RErase2(t) /\ AfterReclaim(t) /\ Renewed
    <3>1. prog' = RRestore(t)
      BY <1>2, <1>3, <2>3, <2>5, ReclaimTypes, PushFacts DEF Whole, RErase2
    <3>2. AfterReclaim(t)' /\ Renewed'
      BY <2>1, <2>5, AfterSame DEF Renewed
    <3>3. InRestoreR'
      BY <3>1, <3>2 DEF InRestoreR
    <3>4. QED
      BY <2>1, <3>3 DEF IInv, InReclaim
  <2>6. QED
    BY <2>2, <2>4, <2>5
<1>4. QED
  <2>1. Flash(work, ErasedSpare, target, dev) /\ Head(prog) \notin FaultSteps
    BY <1>2, NoFault DEF ReclaimErase
  <2>2. Whole(work, ErasedSpare, target, dev) \/ IInv'
    BY <2>1, TypeFacts, NoDevFacts, SpareStep
  <2>3. QED
    BY <1>3, <2>2

\* FtwReclaimWorkSpace, the copy to the spare block: keeps the invariant.
LEMMA ReclaimCopyStep ==
  ASSUME Setting, IInv, ReclaimCopy
  PROVE  IInv'
<1>1. InCopy
  BY PlaceOfStep DEF ReclaimCopy
<1>2. "reclaim_copy" \in Ops /\ Head(prog) = "reclaim_copy"
  BY DEF ReclaimCopy, At, Ops
<1>3. PICK t : prog = RCopy(t) /\ AfterFlush(t) /\ Gone
  BY <1>1 DEF InCopy
<1>4. t \in Progs
  BY <1>3, AfterTypes
<1> DEFINE s == [spare EXCEPT !.hdr = IF dev.ws.hdr = "Erased" THEN @ ELSE "Blank",
                              !.queue = dev.ws.queue]
<1>5. s \in SpareType /\ s.queue = EmptyQueue
  BY <1>3, TypeFacts DEF Gone, SpareType, HdrStates, WorkType
<1>6. Flash(work, s, target, dev) /\ Head(prog) \notin FaultSteps
  BY <1>2, NoFault DEF ReclaimCopy
<1> HIDE DEF s
<1>7. CASE Whole(work, s, target, dev)
  <2>1. Typed' /\ Safe(work)' /\ call' = call /\ dev' = dev /\ work' = work
    BY <1>5, <1>7, TypeFacts, TypedAfter DEF Whole
  <2>2. prog' = RValid1(t)
    BY <1>2, <1>3, <1>4, <1>7, ReclaimTypes, PushFacts DEF Whole, RCopy
  <2>3. AfterFlush(t)' /\ Gone'
    BY <1>3, <2>1, AfterSame DEF Gone
  <2>4. InSpareV'
    BY <2>2, <2>3 DEF InSpareV
  <2>5. QED
    BY <2>1, <2>4 DEF IInv, InReclaim
<1>8. QED
  BY <1>5, <1>6, <1>7, TypeFacts, SpareStep

\* FtwReclaimWorkSpace, the header of the spare block: keeps the invariant.
LEMMA SpareValidStep ==
  ASSUME Setting, IInv, SpareValid
  PROVE  IInv'
<1>1. InSpareV
  BY PlaceOfStep DEF SpareValid
<1>2. "spare_valid" \in Ops /\ Head(prog) = "spare_valid"
  BY DEF SpareValid, At, Ops
<1>3. PICK t : prog \in {RValid1(t), RValid2(t)} /\ AfterFlush(t) /\ Gone
  BY <1>1 DEF InSpareV
<1>4. t \in Progs
  BY <1>3, AfterTypes
<1> DEFINE s == [spare EXCEPT !.hdr = SetValid(@)]
<1>5. s \in SpareType /\ s.queue = EmptyQueue
  BY TypeFacts DEF SpareType, HdrStates, SetValid
<1>6. Flash(work, s, target, dev) /\ Head(prog) \notin FaultSteps
  BY <1>2, NoFault DEF SpareValid
<1> HIDE DEF s
<1>7. CASE Whole(work, s, target, dev)
  <2>1. Typed' /\ Safe(work)' /\ call' = call /\ dev' = dev /\ work' = work
    BY <1>5, <1>7, TypeFacts, TypedAfter DEF Whole
  <2>2. prog' \in {RInvalid1(t), RInvalid2(t)}
    BY <1>2, <1>3, <1>4, <1>7, ReclaimTypes, PushFacts DEF Whole, RValid1, RValid2
  <2>3. AfterFlush(t)' /\ Gone'
    BY <1>3, <2>1, AfterSame DEF Gone
  <2>4. InWorkI'
    BY <2>2, <2>3 DEF InWorkI
  <2>5. QED
    BY <2>1, <2>4 DEF IInv, InReclaim
<1>8. QED
  BY <1>5, <1>6, <1>7, TypeFacts, SpareStep

\* FlushSpareBlockToWorkingBlock, the header made invalid: keeps the invariant.
LEMMA WorkInvalidStep ==
  ASSUME Setting, IInv, WorkInvalid
  PROVE  IInv'
<1>1. InWorkI
  BY PlaceOfStep DEF WorkInvalid
<1>2. "work_invalid" \in Ops /\ Head(prog) = "work_invalid"
  BY DEF WorkInvalid, At, Ops
<1>3. PICK t : prog \in {RInvalid1(t), RInvalid2(t)} /\ AfterFlush(t) /\ Gone
  BY <1>1 DEF InWorkI
<1>4. t \in Progs
  BY <1>3, AfterTypes
<1> DEFINE w == [work EXCEPT !.hdr = SetInvalid(@)]
           d == [dev EXCEPT !.ws.hdr = "Invalid"]
<1>5. w \in WorkType /\ w.queue = work.queue /\ w.hdr \in {"Erased", "Invalid"}
  BY TypeFacts DEF WorkType, HdrStates, SetInvalid
<1>6. d \in DevType /\ d.save = dev.save /\ d.ws.queue = dev.ws.queue /\ d.h = dev.h /\ d.r = dev.r
  BY TypeFacts DEF DevType, WorkType, HdrStates
<1>7. Flash(w, spare, target, d) /\ Head(prog) \notin FaultSteps
  BY <1>2, NoFault DEF WorkInvalid
<1> HIDE DEF w, d
<1>8. Dead(work.queue)
  BY <1>3 DEF Gone
<1>9. ASSUME NEW h \in {work.hdr, w.hdr}, NEW q \in TornQueue(work.queue, w.queue)
      PROVE  q \in Queues /\ Safe([hdr |-> h, queue |-> q])
  <2>1. q = work.queue /\ q \in Queues
    BY <1>5, TypeFacts, TornSame
  <2>2. h = "Valid" => h = work.hdr
    BY <1>5
  <2>3. QED
    BY <2>1, <2>2, <1>8, TypeFacts DEF Safe
<1>10. CASE Whole(w, spare, target, d)
  <2>1. Typed' /\ call' = call /\ dev' = d /\ work' = w
    BY <1>5, <1>6, <1>10, TypeFacts, TypedAfter DEF Whole
  <2>2. AfterFlush(t)' /\ Gone' /\ work'.hdr # "Valid" /\ Safe(work)'
    BY <1>3, <1>5, <1>6, <2>1, AfterSame DEF Gone, Safe
  <2>3. CASE prog = RInvalid1(t)
    <3>1. prog' = RValid2(t)
      BY <1>2, <1>4, <1>10, <2>3, ReclaimTypes, PushFacts DEF Whole, RInvalid1
    <3>2. InSpareV'
      BY <2>2, <3>1 DEF InSpareV
    <3>3. QED
      BY <2>1, <2>2, <3>2 DEF IInv, InReclaim
  <2>4. CASE prog = RInvalid2(t)
    <3>1. prog' = REraseWork(t)
      BY <1>2, <1>4, <1>10, <2>4, ReclaimTypes, PushFacts DEF Whole, RInvalid2
    <3>2. InEraseW'
      BY <2>2, <3>1 DEF InEraseW
    <3>3. QED
      BY <2>1, <2>2, <3>2 DEF IInv, InReclaim
  <2>5. QED
    BY <1>3, <2>3, <2>4
<1>11. QED
  BY <1>5, <1>7, <1>9, <1>10, TypeFacts, FlashStep

\* FlushSpareBlockToWorkingBlock, the erase: keeps the invariant.
LEMMA EraseWorkStep ==
  ASSUME Setting, IInv, EraseWork
  PROVE  IInv'
<1>1. InEraseW
  BY PlaceOfStep DEF EraseWork
<1>2. "erase_work" \in Ops /\ Head(prog) = "erase_work"
  BY DEF EraseWork, At, Ops
<1>3. PICK t : prog = REraseWork(t) /\ AfterFlush(t) /\ Gone /\ work.hdr # "Valid"
  BY <1>1 DEF InEraseW
<1>4. t \in Progs
  BY <1>3, AfterTypes
<1>5. ErasedWork \in WorkType /\ ErasedWork.queue = EmptyQueue /\ ErasedWork.hdr = "Erased"
  BY NoDevFacts DEF ErasedWork
<1>6. Flash(ErasedWork, spare, target, dev) /\ Head(prog) \notin FaultSteps
  BY <1>2, NoFault DEF EraseWork
<1>7. Dead(work.queue)
  BY <1>3 DEF Gone
<1>8. ASSUME NEW h \in {work.hdr, ErasedWork.hdr},
             NEW q \in TornQueue(work.queue, ErasedWork.queue)
      PROVE  q \in Queues /\ Safe([hdr |-> h, queue |-> q])
  <2>1. q \in Queues /\ Dead(q)
    BY <1>5, <1>7, TypeFacts, TornErase
  <2>2. h # "Valid"
    BY <1>3, <1>5
  <2>3. QED
    BY <2>1, <2>2 DEF Safe
<1>9. CASE Whole(ErasedWork, spare, target, dev)
  <2>1. Typed' /\ call' = call /\ dev' = dev /\ work' = ErasedWork
    BY <1>5, <1>9, TypeFacts, TypedAfter DEF Whole
  <2>2. AfterFlush(t)' /\ Gone' /\ Safe(work)'
    BY <1>3, <1>5, <2>1, AfterSame, EmptyFacts DEF Gone, Safe
  <2>3. prog' = RWriteWork(t)
    BY <1>2, <1>3, <1>4, <1>9, ReclaimTypes, PushFacts DEF Whole, REraseWork
  <2>4. InWriteW'
    BY <2>1, <2>2, <2>3 DEF InWriteW
  <2>5. QED
    BY <2>1, <2>2, <2>4 DEF IInv, InReclaim
<1>10. QED
  BY <1>5, <1>6, <1>8, <1>9, TypeFacts, FlashStep

\* FlushSpareBlockToWorkingBlock, the copy back: keeps the invariant.
LEMMA WriteWorkStep ==
  ASSUME Setting, IInv, WriteWork
  PROVE  IInv'
<1>1. InWriteW
  BY PlaceOfStep DEF WriteWork
<1>2. "write_work" \in Ops /\ Head(prog) = "write_work"
  BY DEF WriteWork, At, Ops
<1>3. PICK t : prog = RWriteWork(t) /\ AfterFlush(t) /\ Gone /\ work = ErasedWork
  BY <1>1 DEF InWriteW
<1>4. t \in Progs
  BY <1>3, AfterTypes
<1> DEFINE w == [hdr |-> "Blank", queue |-> EmptyQueue]
<1>5. w \in WorkType /\ w.queue = EmptyQueue /\ w.hdr = "Blank"
  BY EmptyFacts DEF WorkType, Queues, HdrStates
<1>6. Flash(w, spare, target, dev) /\ Head(prog) \notin FaultSteps
  BY <1>2, NoFault, TypeFacts DEF WriteWork
<1>7. work.queue = EmptyQueue /\ work.hdr = "Erased"
  BY <1>3 DEF ErasedWork
<1> HIDE DEF w
<1>8. ASSUME NEW h \in {work.hdr, w.hdr}, NEW q \in TornQueue(work.queue, w.queue)
      PROVE  q \in Queues /\ Safe([hdr |-> h, queue |-> q])
  <2>1. q = EmptyQueue /\ q \in Queues
    BY <1>5, <1>7, EmptyFacts, TornSame
  <2>2. QED
    BY <1>5, <1>7, <2>1, EmptyFacts DEF Safe
<1>9. CASE Whole(w, spare, target, dev)
  <2>1. Typed' /\ call' = call /\ dev' = dev /\ work' = w
    BY <1>5, <1>9, TypeFacts, TypedAfter DEF Whole
  <2>2. AfterFlush(t)' /\ Gone' /\ Safe(work)'
    BY <1>3, <1>5, <2>1, AfterSame, EmptyFacts DEF Gone, Safe
  <2>3. prog' = RWorkValid(t)
    BY <1>2, <1>3, <1>4, <1>9, ReclaimTypes, PushFacts DEF Whole, RWriteWork
  <2>4. InWorkV'
    BY <2>1, <2>2, <2>3 DEF InWorkV, w
  <2>5. QED
    BY <2>1, <2>2, <2>4 DEF IInv, InReclaim
<1>10. QED
  BY <1>5, <1>6, <1>8, <1>9, TypeFacts, FlashStep

\* The working block is valid again: what the reclaim or the flush is followed by.
LEMMA WorkValidStep ==
  ASSUME Setting, IInv, WorkValid
  PROVE  IInv'
<1>1. InWorkV
  BY PlaceOfStep DEF WorkValid
<1>2. "work_valid" \in Ops /\ Head(prog) = "work_valid"
  BY DEF WorkValid, At, Ops
<1>3. PICK t : /\ prog = RWorkValid(t) /\ AfterFlush(t) /\ Gone
               /\ work = [hdr |-> "Blank", queue |-> EmptyQueue]
  BY <1>1 DEF InWorkV
<1>4. t \in Progs
  BY <1>3, AfterTypes
<1> DEFINE w == [work EXCEPT !.hdr = SetValid(@)]
           d == [dev EXCEPT !.ws.hdr = "Valid"]
<1>5. w = NewWork /\ w \in WorkType /\ w.hdr = "Valid" /\ w.queue = EmptyQueue
  BY <1>3, NoDevFacts DEF SetValid, NewWork
<1>6. d \in DevType /\ d.save = dev.save /\ d.h = dev.h /\ d.r = dev.r
  BY TypeFacts DEF DevType, WorkType, HdrStates
<1>7. d.ws = NewWork
  BY <1>3, TypeFacts DEF Gone, NewWork, DevType, WorkType
<1>8. Flash(w, spare, target, d) /\ Head(prog) \notin FaultSteps
  BY <1>2, NoFault DEF WorkValid
<1> HIDE DEF w, d
<1>9. work.queue = EmptyQueue /\ work.hdr = "Blank"
  BY <1>3
<1>10. ASSUME NEW h \in {work.hdr, w.hdr}, NEW q \in TornQueue(work.queue, w.queue)
       PROVE  q \in Queues /\ Safe([hdr |-> h, queue |-> q])
  <2>1. q = EmptyQueue /\ q \in Queues
    BY <1>5, <1>9, EmptyFacts, TornSame
  <2>2. QED
    BY <1>5, <1>9, <2>1, EmptyFacts DEF Safe
<1>11. CASE Whole(w, spare, target, d)
  <2>1. Typed' /\ call' = call /\ arg' = arg /\ dev' = d /\ work' = NewWork /\ spare' = spare
    BY <1>5, <1>6, <1>11, TypeFacts, TypedAfter DEF Whole
  <2>2. AfterFlush(t)' /\ Safe(work)' /\ SafeValid(work)'
    BY <1>3, <1>6, <2>1, AfterSame, NoDevFacts, ReadyIsSafe
  <2>3. prog' = t
    BY <1>2, <1>3, <1>4, <1>11, PushFacts DEF Whole, RWorkValid
  <2>4. CASE t = PFlushed /\ call = "Init"
    <3>1. AfterValid(Push("abort", PAgain))'
      BY <2>1, <2>4 DEF AfterValid
    <3>2. InRefresh'
      BY <2>2, <2>3, <2>4, <3>1 DEF InRefresh, PFlushed
    <3>3. QED
      BY <2>1, <2>2, <3>2 DEF IInv
  <2>5. CASE \E u : t = RErase2(u) /\ AfterReclaim(u) /\ dev.h = 1 /\ dev.r = 2
    <3>1. PICK u : t = RErase2(u) /\ AfterReclaim(u) /\ dev.h = 1 /\ dev.r = 2
      BY <2>5
    <3>2. AfterReclaim(u)' /\ Renewed'
      BY <1>6, <1>7, <2>1, <3>1, AfterSame DEF Renewed
    <3>3. InEraseR'
      BY <2>3, <3>1, <3>2 DEF InEraseR
    <3>4. QED
      BY <2>1, <2>2, <3>3 DEF IInv, InReclaim
  <2>6. QED
    BY <1>3, <2>4, <2>5 DEF AfterFlush
<1>12. QED
  BY <1>5, <1>6, <1>8, <1>10, <1>11, TypeFacts, FlashStep

\* FtwReclaimWorkSpace, the spare block put back: keeps the invariant.
LEMMA ReclaimRestoreStep ==
  ASSUME Setting, IInv, ReclaimRestore
  PROVE  IInv'
<1>1. InRestoreR
  BY PlaceOfStep DEF ReclaimRestore
<1>2. "reclaim_restore" \in Ops /\ Head(prog) = "reclaim_restore"
  BY DEF ReclaimRestore, At, Ops
<1>3. PICK t : prog = RRestore(t) /\ AfterReclaim(t) /\ Renewed
  BY <1>1 DEF InRestoreR
<1>4. t \in Progs
  BY <1>3, AfterTypes
<1>5. Flash(work, dev.save, target, dev) /\ Head(prog) \notin FaultSteps
  BY <1>2, NoFault DEF ReclaimRestore
<1>6. CASE Whole(work, dev.save, target, dev)
  <2>1. Typed' /\ Safe(work)' /\ call' = call /\ dev' = dev /\ work' = work
    BY <1>6, TypeFacts, TypedAfter DEF Whole
  <2>2. prog' = t
    BY <1>2, <1>3, <1>4, <1>6, PushFacts DEF Whole, RRestore
  <2>3. Renewed'
    BY <1>3, <2>1 DEF Renewed
  <2>4. CASE \E u : t = Push("reread", u) /\ (AfterReady(u) \/ AfterValid(u) \/ AfterSafe(u))
    <3>1. PICK u : t = Push("reread", u) /\ (AfterReady(u) \/ AfterValid(u) \/ AfterSafe(u))
      BY <2>4
    <3>2. (AfterReady(u) \/ AfterValid(u) \/ AfterSafe(u))'
      BY <2>1, <3>1 DEF AfterReady, AfterValid, AfterSafe
    <3>3. InReread'
      BY <2>2, <2>3, <3>1, <3>2 DEF InReread
    <3>4. QED
      BY <2>1, <3>3 DEF IInv, InReclaim
  <2>5. CASE call = "Init" /\ t \in {PIFirst, PISpare}
    <3>1. Ready(work)' /\ SafeValid(work)'
      BY <1>3, <2>1, NoDevFacts, ReadyIsSafe DEF Renewed
    <3>2. Synced'
      BY <2>3, EmptyFacts, SlotFacts DEF Synced, Renewed, NewWork, Fresh
    <3>3. InFirst' \/ InISpare'
      BY <2>1, <2>2, <2>5, <3>1, <3>2 DEF InFirst, InISpare
    <3>4. QED
      BY <2>1, <3>3 DEF IInv, InStart
  <2>6. QED
    BY <1>3, <2>4, <2>5 DEF AfterReclaim
<1>7. QED
  BY <1>5, <1>6, TypeFacts, SpareStep

-----------------------------------------------------------------------------
(***************************************************************************)
(* The services.                                                           *)
(***************************************************************************)

\* What is found at the last header when the copy in memory is in step with the flash.
LEMMA HeaderKinds ==
  ASSUME IInv, Synced
  PROVE  /\ Ready(work) => Fresh(work.queue, dev.h) \/ Listed(work.queue, dev.h)
         /\ SafeValid(work) => \/ Frayed(work.queue, dev.h) \/ Listed(work.queue, dev.h)
                               \/ Partial(work.queue, dev.h)
         /\ dev.h \in Slots /\ dev.h < QueueSize /\ dev.h + 1 \in Slots
         /\ work.queue \in Queues
         /\ Header = work.queue[dev.h] /\ Record = work.queue[dev.r]
         /\ Open(work.queue, dev.h) /\ 4 \notin work.queue[dev.h].bits
<1>1. work.queue \in Queues /\ dev.h \in Slots /\ Open(work.queue, dev.h) /\ dev.h < QueueSize
      /\ dev.ws = work
  BY TypeFacts DEF Synced
<1>2. ~Ended(work.queue) /\ \A k \in Slots : Open(work.queue, k) => k = dev.h
  BY <1>1, OneHeader
<1>3. Ready(work) => Fresh(work.queue, dev.h) \/ Listed(work.queue, dev.h)
  BY <1>2 DEF Ready, Clean, Fresh, Listed
<1>4. SafeValid(work) => \/ Frayed(work.queue, dev.h) \/ Listed(work.queue, dev.h)
                         \/ Partial(work.queue, dev.h)
  BY <1>2 DEF SafeValid, Shape, Frayed, Listed, Partial
<1>5. dev.h + 1 \in Slots
  BY <1>1, SlotFacts
<1>6. QED
  BY <1>1, <1>3, <1>4, <1>5 DEF Header, Record, Open

\* Between WriteHeader and WritesComplete.
LEMMA AmidFacts ==
  ASSUME IInv, Amid
  PROVE  /\ Ready(work) /\ dev.h \in Slots /\ dev.r = dev.h + 1 /\ dev.r \in Slots /\ dev.r # dev.h
         /\ dev.h < QueueSize /\ work.queue \in Queues /\ Clean(work.queue)
         /\ Route(work.queue, dev.h) /\ BlankFrom(work.queue, dev.h + 2)
         /\ 1 \in work.queue[dev.h].bits /\ 4 \notin work.queue[dev.h].bits
         /\ work.queue[dev.h].n = 1
<1>1. work.queue \in Queues /\ dev.h \in Slots /\ dev.r \in Slots
  BY TypeFacts
<1>2. Listed(work.queue, dev.h) /\ work.hdr = "Valid" /\ dev.r = dev.h + 1
  BY DEF Amid
<1>3. Clean(work.queue)
  BY <1>1, <1>2 DEF Clean
<1>4. dev.r # dev.h
  BY <1>1, <1>2, SlotFacts
<1>5. QED
  BY <1>1, <1>2, <1>3, <1>4 DEF Listed, Open, Ready

\* A queue that lists one record at h is clean.
LEMMA ListedIsReady ==
  ASSUME NEW q \in Queues, NEW h \in Slots, Listed(q, h)
  PROVE  Ready([hdr |-> "Valid", queue |-> q]) /\ Safe([hdr |-> "Valid", queue |-> q])
  BY Weaker DEF Ready, Safe, Clean

\* A clean queue in a valid work space is ready.
LEMMA CleanIsReady ==
  ASSUME NEW q \in Queues, Clean(q)
  PROVE  Ready([hdr |-> "Valid", queue |-> q]) /\ Safe([hdr |-> "Valid", queue |-> q])
  BY Weaker DEF Ready, Safe

\* A service that is refused.
LEMMA Refused ==
  ASSUME IInv, Ready(work), Refuse
  PROVE  IInv'
<1>1. work' = work /\ spare' = spare /\ target' = target /\ Ends
  BY DEF Refuse
<1>2. FlashTyped' /\ Ready(work)'
  BY <1>1, TypeFacts DEF FlashTyped
<1>3. QED
  BY <1>1, <1>2, Finished

\* A decision changes neither flash nor types.
LEMMA Decided ==
  ASSUME IInv, NEW d \in DevType, d.save.queue = EmptyQueue, NEW p, Decide(d, p)
  PROVE  /\ Typed' /\ Safe(work)' /\ dev' = d /\ prog' = p
         /\ work' = work /\ spare' = spare /\ target' = target /\ call' = call /\ arg' = arg
<1>1. /\ dev' = d /\ prog' = p
      /\ work' = work /\ spare' = spare /\ target' = target /\ call' = call /\ arg' = arg
  BY DEF Decide
<1>2. QED
  BY <1>1, TypeFacts, TypedAfter

\* FtwAllocate and FtwWrite are asked for one record.
LEMMA OneRecord ==
  ASSUME Typed, call \in {"Allocate", "Write"}
  PROVE  NumberOfWrites = 1
  BY DEF Typed, NumberOfWrites

\* FtwAllocate, the choice of a slot: keeps the invariant.
LEMMA AllocateStep ==
  ASSUME Setting, IInv, Allocate
  PROVE  IInv'
<1>1. InAllocate
  BY PlaceOfStep DEF Allocate
<1>2. call \in {"Allocate", "Write"} /\ Ready(work) /\ Synced
  BY <1>1 DEF InAllocate
<1>3. NumberOfWrites = 1
  BY <1>2, TypeFacts, OneRecord
<1>4. Tail(prog) = PHeader(call)
  <2>1. "allocate" \in Ops
    BY DEF Ops
  <2>2. QED
    BY <1>1, <2>1, ServicePlaces, FirstFacts
<1>5. CASE Refuse
  BY <1>2, <1>5, Refused
<1>6. CASE ~Refuse
  <2>1. ~HeaderHas(HEADER_ALLOCATED)
    BY <1>6 DEF Allocate
  <2>2. dev.h < QueueSize /\ dev.h \in Slots /\ ~(dev.h + NumberOfWrites > QueueSize)
    BY <1>2, <1>3, HeaderKinds, SlotFacts
  <2> DEFINE d == [dev EXCEPT !.off = dev.h]
  <2>3. Decide(d, PHeader(call))
    BY <1>4, <1>6, <2>2 DEF Allocate
  <2>4. d \in DevType /\ d.save = dev.save /\ d.ws = dev.ws /\ d.h = dev.h /\ d.r = dev.r
        /\ d.off = dev.h
    BY TypeFacts DEF DevType
  <2>5. Fresh(work.queue, dev.h)
    BY <1>2, <2>1, HeaderKinds DEF HeaderHas, HEADER_ALLOCATED, Listed
  <2> HIDE DEF d
  <2>6. /\ Typed' /\ Safe(work)' /\ dev' = d /\ prog' = PHeader(call)
        /\ work' = work /\ call' = call
    BY <2>3, <2>4, TypeFacts, Decided
  <2>7. InHeader'
    BY <1>2, <2>4, <2>5, <2>6 DEF InHeader, Synced
  <2>8. QED
    BY <2>6, <2>7 DEF IInv, InService
<1>7. QED
  BY <1>5, <1>6

\* FtwAllocate, the write of the header: keeps the invariant.
LEMMA WriteHeaderStep ==
  ASSUME Setting, IInv, WriteHeader
  PROVE  IInv'
<1>1. InHeader
  BY PlaceOfStep DEF WriteHeader
<1>2. /\ call \in {"Allocate", "Write"} /\ Ready(work) /\ Synced
      /\ Fresh(work.queue, dev.h) /\ dev.off = dev.h
  BY <1>1 DEF InHeader
<1>3. NumberOfWrites = 1
  BY <1>2, TypeFacts, OneRecord
<1>4. Tail(prog) = PBit(call) /\ Head(prog) = "write_header"
  <2>1. "write_header" \in Ops
    BY DEF Ops
  <2>2. QED
    BY <1>1, <2>1, ServicePlaces, FirstFacts
<1> DEFINE h == dev.h
           q == work.queue
           new == [bits |-> {1}, n |-> 1, lba |-> Bits]
           p == [q EXCEPT ![h] = new]
           w == [work EXCEPT !.queue = p]
           d == [dev EXCEPT !.ws.queue[h] = new]
<1>5. /\ q \in Queues /\ h \in Slots /\ h < QueueSize /\ h + 1 \in Slots /\ h # h + 1
      /\ h \in Nat /\ Route(q, h) /\ BlankFrom(q, h) /\ q[h] = ErasedSlot /\ q[h + 1] = ErasedSlot
  <2>1. q \in Queues /\ h \in Slots /\ h < QueueSize /\ h + 1 \in Slots
    BY <1>2, HeaderKinds
  <2>2. h \in Nat
    BY <2>1, SlotFacts
  <2>3. QED
    BY <1>2, <2>1, <2>2 DEF Fresh, Open, BlankFrom
<1>6. new \in SlotType /\ p \in Queues /\ Slot(q, p, h) /\ p[h] = new /\ p[h + 1] = ErasedSlot
  <2>1. new \in SlotType
    BY SlotFacts DEF SlotType
  <2>2. QED
    BY <1>5, <2>1 DEF Queues, Slot
<1>7. Flash(w, spare, target, d)
  <2>1. [ErasedSlot EXCEPT !.bits = {HEADER_ALLOCATED}, !.n = NumberOfWrites] = new
    <3> DEFINE e == ErasedSlot
    <3>1. e \in SlotType /\ e.lba = Bits
      BY EmptyFacts
    <3> HIDE DEF e
    <3>2. [e EXCEPT !.bits = {1}, !.n = 1] = new
      <4> DEFINE x == [e EXCEPT !.bits = {1}, !.n = 1]
      <4>0. 1 \in 0 .. QueueSize
        BY SlotFacts
      <4>1. x \in SlotType /\ x.bits = {1} /\ x.n = 1 /\ x.lba = Bits
        BY <3>1, <4>0 DEF SlotType
      <4> HIDE DEF x
      <4>2. x = [bits |-> {1}, n |-> 1, lba |-> Bits]
        BY <4>1 DEF SlotType
      <4>3. QED
        BY <4>2 DEF x
    <3>3. QED
      BY <1>3, <3>2, Zenon DEF e, HEADER_ALLOCATED
  <2>2. [new EXCEPT !.bits = @ \cup work.queue[dev.off].bits] = new
    BY <1>2, <1>5, EmptyFacts
  <2>3. QED
    BY <1>2, <2>1, <2>2 DEF WriteHeader
<1>8. w \in WorkType /\ w.queue = p /\ w.hdr = "Valid" /\ work.hdr = "Valid"
  BY <1>2, <1>6, TypeFacts DEF WorkType, Queues, Ready
<1>9. /\ d \in DevType /\ d.save = dev.save /\ d.h = h /\ d.r = dev.r /\ d.off = dev.off
      /\ d.ws.queue = [dev.ws.queue EXCEPT ![h] = new]
  BY <1>6, TypeFacts DEF DevType, WorkType
<1>10. dev.ws.queue = q /\ dev.r = h + 1
  <2>1. 4 \notin q[h + 1].bits
    BY <1>5, EmptyFacts
  <2>2. FtwGetLastWriteRecord(q, h) = h + 1
    BY <1>5, <2>1, FirstRecord
  <2>3. QED
    BY <1>2, <2>2 DEF Synced
<1>11. Listed(p, h)
  <2>1. BlankFrom(q, h + 2)
    BY <1>5, SlotFacts DEF BlankFrom
  <2>2. \A i \in Slots : i # h /\ i # h + 1 => p[i] = q[i]
    BY <1>6 DEF Slot
  <2>3. 1 \in p[h].bits /\ 4 \notin p[h].bits /\ p[h].n = 1
    BY <1>6
  <2> HIDE DEF p, q, h
  <2>4. QED
    BY <1>5, <1>6, <2>1, <2>2, <2>3, ListedSame
<1>12. Head(prog) \notin FaultSteps
  BY <1>4, NoFault
<1>13. ASSUME NEW g \in {work.hdr, w.hdr}, NEW t \in TornQueue(work.queue, w.queue)
       PROVE  t \in Queues /\ Safe([hdr |-> g, queue |-> t])
  <2>1. t \in TornQueue(q, p) /\ g = "Valid"
    BY <1>8, <1>13
  <2>2. p[h].bits = {1} /\ p[h].lba = Bits
    BY <1>6
  <2> HIDE DEF p, q, h
  <2>3. t \in Queues /\ Slot(q, t, h) /\ t[h].bits \in {{}, {1}}
    BY <1>5, <1>6, <2>1, <2>2, TornNew
  <2>4. Shape(t)
    BY <1>2, <1>5, <2>3, HeaderCutOff DEF q, h
  <2>5. QED
    BY <2>1, <2>3, <2>4 DEF Safe
<1>14. CASE Whole(w, spare, target, d)
  <2>1. /\ Typed' /\ call' = call /\ dev' = d /\ work' = w /\ prog' = PBit(call)
    <3> HIDE DEF w, d
    <3>1. QED
      BY <1>4, <1>8, <1>9, <1>14, TypeFacts, TypedAfter DEF Whole
  <2>2. Safe(work)'
    BY <1>5, <1>6, <1>8, <1>11, <2>1, Weaker DEF Safe, Clean
  <2>3. /\ d.ws.queue[h] = new /\ d.ws.queue[h + 1] = ErasedSlot
    BY <1>5, <1>6, <1>9, <1>10
  <2>4. Amid'
    <3>1. dev'.h = h /\ dev'.r = h + 1 /\ work'.queue = p /\ work'.hdr = "Valid"
          /\ dev'.ws.queue = d.ws.queue
      BY <1>8, <1>9, <1>10, <2>1
    <3>2. d.ws.queue[h].n = 1 /\ 4 \notin d.ws.queue[h].bits
      BY <2>3
    <3>3. d.ws.queue[h + 1].bits = p[h + 1].bits
      BY <2>3, <1>6
    <3> HIDE DEF d, p, h, w
    <3>4. QED
      BY <3>1, <3>2, <3>3, <1>11 DEF Amid
  <2>5. InBit'
    BY <1>2, <1>9, <2>1, <2>4 DEF InBit
  <2>6. QED
    BY <2>1, <2>2, <2>5 DEF IInv, InService
<1>15. QED
  <2> HIDE DEF w, d
  <2>1. Whole(w, spare, target, d) \/ IInv'
    BY <1>7, <1>8, <1>12, <1>13, TypeFacts, FlashStep
  <2>2. QED
    BY <2>1, <1>14

\* A state bit other than WritesCompleted leaves the header listed, written or not.
LEMMA BitStaysListed ==
  ASSUME IInv, Amid, NEW i \in {dev.h, dev.r}, NEW bit \in {1, 2, 4}, i = dev.h => bit # 4
  PROVE  LET w == [work EXCEPT !.queue = SetBit(@, i, bit)]
         IN  /\ w \in WorkType /\ w.queue = SetBit(work.queue, i, bit) /\ w.hdr = "Valid"
             /\ Listed(w.queue, dev.h) /\ w.queue \in Queues
             /\ Ready(w) /\ Safe(w)
             /\ \A g \in {work.hdr, w.hdr}, q \in TornQueue(work.queue, w.queue) :
                  /\ q \in Queues /\ Safe([hdr |-> g, queue |-> q])
                  /\ Ready([hdr |-> g, queue |-> q])
<1> DEFINE q0 == work.queue
           p  == SetBit(q0, i, bit)
           h  == dev.h
           w  == [work EXCEPT !.queue = p]
<1>1. /\ q0 \in Queues /\ h \in Slots /\ h < QueueSize /\ i \in Slots /\ Listed(q0, h)
      /\ Route(q0, h) /\ BlankFrom(q0, h + 2) /\ 1 \in q0[h].bits /\ 4 \notin q0[h].bits
      /\ q0[h].n = 1 /\ i \in {h, h + 1} /\ work.hdr = "Valid" /\ work \in WorkType
  BY AmidFacts, TypeFacts DEF Amid
<1>2. /\ p \in Queues /\ p[i].bits = q0[i].bits \cup {bit} /\ p[i].n = q0[i].n /\ Slot(q0, p, i)
  <2>1. q0 \in Queues /\ i \in Slots /\ bit \in {1, 2, 4}
    BY <1>1
  <2> HIDE DEF q0
  <2>2. QED
    BY <2>1, SetBitType, Zenon
<1>3. w \in WorkType /\ w.queue = p /\ w.hdr = "Valid"
  BY <1>1, <1>2 DEF WorkType, Queues
<1> HIDE DEF p, w
<1>4. 1 \in p[h].bits /\ 4 \notin p[h].bits /\ p[h].n = 1
  BY <1>1, <1>2 DEF Slot
<1>5. Listed(p, h)
  <2>1. \A j \in Slots : j # h /\ j # h + 1 => p[j] = q0[j]
    BY <1>1, <1>2 DEF Slot
  <2> HIDE DEF q0, h
  <2>2. QED
    BY <1>1, <1>2, <1>4, <2>1, ListedSame
<1>6. Ready(w) /\ Safe(w)
  BY <1>2, <1>3, <1>5, <1>1, Weaker DEF Ready, Safe, Clean
<1>7. ASSUME NEW g \in {work.hdr, w.hdr}, NEW t \in TornQueue(q0, w.queue)
      PROVE  /\ t \in Queues /\ Safe([hdr |-> g, queue |-> t]) /\ Ready([hdr |-> g, queue |-> t])
  <2>1. g = "Valid"
    BY <1>1, <1>3
  <2>2. t = q0 \/ t = p
    BY <1>1, <1>3, TornBit DEF p
  <2>3. t \in Queues /\ Listed(t, h)
    BY <1>1, <1>2, <1>5, <2>2
  <2>4. QED
    BY <1>1, <2>1, <2>3, ListedIsReady
<1>8. QED
  BY <1>2, <1>3, <1>5, <1>6, <1>7 DEF p, w

\* FtwAllocate, the state bit of the header: keeps the invariant.
LEMMA WritesAllocatedStep ==
  ASSUME Setting, IInv, WritesAllocated
  PROVE  IInv'
<1>1. InBit
  BY PlaceOfStep DEF WritesAllocated
<1>2. call \in {"Allocate", "Write"} /\ Amid /\ dev.off = dev.h
  BY <1>1 DEF InBit
<1>3. Tail(prog) = IF call = "Write" THEN PCheck ELSE <<>>
  <2>1. "writes_allocated" \in Ops
    BY DEF Ops
  <2>2. QED
    BY <1>1, <2>1, ServicePlaces, FirstFacts
<1> DEFINE w == [work EXCEPT !.queue = SetBit(@, dev.h, 2)]
<1>4. /\ w \in WorkType /\ w.queue = SetBit(work.queue, dev.h, 2) /\ w.hdr = "Valid"
      /\ Listed(w.queue, dev.h) /\ w.queue \in Queues /\ Ready(w) /\ Safe(w)
      /\ \A g \in {work.hdr, w.hdr}, q \in TornQueue(work.queue, w.queue) :
           /\ q \in Queues /\ Safe([hdr |-> g, queue |-> q])
           /\ Ready([hdr |-> g, queue |-> q])
  BY <1>2, BitStaysListed
<1>5. Flash(w, spare, target, dev)
  BY <1>2 DEF WritesAllocated, WRITES_ALLOCATED
<1> HIDE DEF w
<1>6. CASE Whole(w, spare, target, dev)
  <2>1. Typed' /\ call' = call /\ dev' = dev /\ work' = w /\ prog' = Tail(prog)
    BY <1>4, <1>6, TypeFacts, TypedAfter DEF Whole
  <2>2. Ready(work)' /\ Safe(work)'
    BY <1>4, <2>1
  <2>3. w.queue[dev.r].bits = work.queue[dev.r].bits
    <3>1. dev.h \in Slots /\ dev.r \in Slots /\ dev.r # dev.h /\ work.queue \in Queues
      BY <1>2, AmidFacts
    <3>2. Slot(work.queue, SetBit(work.queue, dev.h, 2), dev.h)
      BY <3>1, SetBitType
    <3>3. QED
      BY <1>4, <3>1, <3>2 DEF Slot
  <2>4. Amid'
    BY <1>2, <1>4, <2>1, <2>3 DEF Amid
  <2>5. InCheck' \/ InEnd'
    BY <1>2, <1>3, <2>1, <2>2, <2>4 DEF InCheck, InEnd
  <2>6. QED
    BY <2>1, <2>2, <2>5 DEF IInv, InService
<1>7. QED
  <2>1. Whole(w, spare, target, dev) \/ IInv'
    BY <1>4, <1>5, TypeFacts, FlashStep
  <2>2. QED
    BY <2>1, <1>6

\* FtwWrite, the first test: keeps the invariant.
LEMMA WriteStep ==
  ASSUME Setting, IInv, Write
  PROVE  IInv'
<1>1. InWrite
  BY PlaceOfStep DEF Write
<1>2. call = "Write" /\ Ready(work) /\ Synced
  BY <1>1 DEF InWrite
<1>3. CASE Refuse
  BY <1>2, <1>3, Refused
<1>4. CASE Header # ErasedSlot
  <2>1. Decide(dev, PCheck)
    BY <1>4, ServicePrograms DEF Write
  <2>2. /\ Typed' /\ Safe(work)' /\ dev' = dev /\ prog' = PCheck /\ work' = work /\ call' = call
    BY <2>1, TypeFacts, Decided
  <2>3. Listed(work.queue, dev.h)
    BY <1>2, <1>4, HeaderKinds, SlotFacts DEF Fresh, BlankFrom
  <2>4. dev.r = dev.h + 1
    BY <1>2, <2>3, HeaderKinds, FirstRecord DEF Synced, Listed
  <2>5. Amid
    BY <1>2, <2>3, <2>4, HeaderKinds DEF Amid, Ready, Synced, Listed
  <2>6. InCheck'
    BY <1>2, <2>2, <2>5 DEF InCheck, Amid
  <2>7. QED
    BY <2>2, <2>6 DEF IInv, InService
<1>5. CASE ~Refuse /\ ~(Header # ErasedSlot)
  <2>1. Decide(dev, Push("refresh", PAlloc("Write")))
    BY <1>5, ServicePrograms DEF Write
  <2>2. /\ Typed' /\ Safe(work)' /\ dev' = dev /\ prog' = Push("refresh", PAlloc("Write"))
        /\ work' = work /\ call' = call
    BY <2>1, TypeFacts, Decided
  <2>3. InRefresh'
    BY <1>2, <2>2 DEF InRefresh, AfterReady
  <2>4. QED
    BY <2>2, <2>3 DEF IInv
<1>6. QED
  BY <1>3, <1>4, <1>5

\* FtwWrite, the header it finds: keeps the invariant.
LEMMA CheckWriteStep ==
  ASSUME Setting, IInv, CheckWrite
  PROVE  IInv'
<1>1. InCheck
  BY PlaceOfStep DEF CheckWrite
<1>2. call = "Write" /\ Amid /\ Ready(work)
  BY <1>1, AmidFacts DEF InCheck
<1>3. CASE Refuse
  BY <1>2, <1>3, Refused
<1>4. CASE ~Refuse
  <2> DEFINE d == [dev EXCEPT !.save = spare]
  <2>1. Decide(d, PRecord)
    BY <1>4, ServicePrograms DEF CheckWrite
  <2>2. /\ d \in DevType /\ d.save = spare /\ d.ws = dev.ws /\ d.h = dev.h /\ d.r = dev.r
    BY TypeFacts DEF DevType
  <2> HIDE DEF d
  <2>3. Typed' /\ Safe(work)' /\ dev' = d /\ prog' = PRecord /\ work' = work /\ call' = call
    BY <2>1, <2>2, TypeFacts, Decided
  <2>4. InRecord'
    BY <1>2, <2>2, <2>3 DEF InRecord, Amid
  <2>5. QED
    BY <2>3, <2>4 DEF IInv, InService
<1>5. QED
  BY <1>3, <1>4

\* FtwWrite, the write of the record: keeps the invariant.
LEMMA WriteRecordStep ==
  ASSUME Setting, IInv, WriteRecord
  PROVE  IInv'
<1>1. InRecord
  BY PlaceOfStep DEF WriteRecord
<1>2. call = "Write" /\ Amid
  BY <1>1 DEF InRecord
<1>3. Tail(prog) = PErase
  <2>1. "write_record" \in Ops
    BY DEF Ops
  <2>2. QED
    BY <1>1, <2>1, ServicePlaces, FirstFacts
<1> DEFINE h == dev.h
           r == dev.r
           q == work.queue
           x == q[r].lba \cap arg.lba
           p == [q EXCEPT ![r].lba = x]
           w == [work EXCEPT !.queue[r].lba = @ \cap arg.lba]
           d == [dev EXCEPT !.ws.queue[r].lba = arg.lba]
<1>4. arg.lba \in SUBSET Bits
  BY <1>2, TypeFacts, FlashAssumption DEF Typed
<1>5. /\ q \in Queues /\ h \in Slots /\ h < QueueSize /\ r \in Slots /\ r # h /\ r = h + 1
      /\ Listed(q, h) /\ work \in WorkType /\ work.hdr = "Valid" /\ x \in SUBSET Bits
  BY <1>2, <1>4, AmidFacts, TypeFacts, SlotFacts DEF Amid
<1>6. p \in Queues /\ Slot(q, p, r) /\ p[r].bits = q[r].bits /\ p[r].n = q[r].n
  BY <1>5 DEF Queues, SlotType, Slot
<1>7. w \in WorkType /\ w.queue = p /\ w.hdr = "Valid"
  BY <1>5, <1>6 DEF WorkType, Queues
<1>8. /\ d \in DevType /\ d.save = dev.save /\ d.h = h /\ d.r = r
      /\ d.ws.queue[h] = dev.ws.queue[h] /\ d.ws.queue[r].bits = dev.ws.queue[r].bits
  <2> DEFINE u == [dev.ws.queue EXCEPT ![r].lba = arg.lba]
  <2>1. u \in Queues /\ u[h] = dev.ws.queue[h] /\ u[r].bits = dev.ws.queue[r].bits
    BY <1>4, <1>5, TypeFacts DEF Queues, SlotType
  <2>2. d = [dev EXCEPT !.ws.queue = u]
    OBVIOUS
  <2> HIDE DEF u
  <2>3. QED
    BY <2>1, <2>2, TypeFacts DEF DevType, WorkType, Queues
<1>9. Flash(w, spare, target, d)
  BY DEF WriteRecord
<1> HIDE DEF w, d, p, x
<1>10. ASSUME NEW t \in Queues, Slot(q, t, r), t[r].bits = q[r].bits, t[r].n = q[r].n
       PROVE  Listed(t, h)
  <2>1. Route(q, h) /\ BlankFrom(q, h + 2) /\ 1 \in q[h].bits /\ 4 \notin q[h].bits /\ q[h].n = 1
    BY <1>2, AmidFacts
  <2>2. t[h] = q[h] /\ \A j \in Slots : j # h /\ j # h + 1 => t[j] = q[j]
    BY <1>5, <1>10 DEF Slot
  <2> HIDE DEF q, h, r
  <2>3. 1 \in t[h].bits /\ 4 \notin t[h].bits /\ t[h].n = 1
    BY <2>1, <2>2
  <2>4. QED
    BY <1>5, <1>10, <2>1, <2>2, <2>3, ListedSame
<1>11. ASSUME NEW g \in {work.hdr, w.hdr}, NEW t \in TornQueue(work.queue, w.queue)
       PROVE  /\ t \in Queues /\ Safe([hdr |-> g, queue |-> t])
              /\ Ready([hdr |-> g, queue |-> t])
  <2>1. g = "Valid" /\ t \in TornQueue(q, p)
    BY <1>5, <1>7
  <2>2. t \in Queues /\ Slot(q, t, r) /\ t[r].bits = q[r].bits /\ t[r].n = q[r].n
    BY <1>5, <2>1, TornRecord DEF p
  <2>3. Listed(t, h)
    BY <1>10, <2>2
  <2>4. QED
    BY <1>5, <2>1, <2>2, <2>3, ListedIsReady
<1>12. CASE Whole(w, spare, target, d)
  <2>1. Typed' /\ call' = call /\ dev' = d /\ work' = w /\ prog' = PErase
    BY <1>3, <1>7, <1>8, <1>12, TypeFacts, TypedAfter DEF Whole
  <2>2. Listed(p, h)
    BY <1>6, <1>10
  <2>3. Safe(work)'
    BY <1>5, <1>6, <1>7, <2>1, <2>2, Weaker DEF Safe, Clean
  <2>4. Amid'
    BY <1>2, <1>5, <1>6, <1>7, <1>8, <2>1, <2>2 DEF Amid
  <2>5. InErase'
    BY <1>2, <2>1, <2>4 DEF InErase
  <2>6. QED
    BY <2>1, <2>3, <2>5 DEF IInv, InService
<1>13. QED
  <2>1. Whole(w, spare, target, d) \/ IInv'
    BY <1>7, <1>9, <1>11, TypeFacts, FlashStep
  <2>2. QED
    BY <2>1, <1>12

\* What remains between WriteHeader and WritesComplete when only blocks are written.
LEMMA AmidStays ==
  ASSUME Amid, work' = work, dev' = dev
  PROVE  Amid'
  BY DEF Amid

\* FtwEraseSpareBlock, the erase: keeps the invariant.
LEMMA EraseSpareStep ==
  ASSUME Setting, IInv, EraseSpare
  PROVE  IInv'
<1>1. InErase
  BY PlaceOfStep DEF EraseSpare
<1>2. "erase_spare" \in Ops /\ Head(prog) = "erase_spare"
  BY DEF EraseSpare, At, Ops
<1>3. Ready(work)
  BY <1>1, AmidFacts DEF InErase
<1>4. Flash(work, ErasedSpare, target, dev)
  BY DEF EraseSpare
<1>5. CASE Whole(work, ErasedSpare, target, dev)
  <2>1. Typed' /\ Safe(work)' /\ call' = call /\ dev' = dev /\ work' = work /\ prog' = Tail(prog)
    BY <1>5, TypeFacts, NoDevFacts, TypedAfter DEF Whole
  <2>2. CASE prog = PErase /\ call = "Write" /\ Amid
    <3>1. prog' = PSpare
      BY <1>2, <2>1, <2>2, PlaceTypes, PushFacts DEF PErase
    <3>2. InSpare'
      BY <2>1, <2>2, <3>1, AmidStays DEF InSpare
    <3>3. QED
      BY <2>1, <3>2 DEF IInv, InService
  <2>3. CASE prog = PFree(call) /\ call \in {"Write", "Restart", "Init"} /\ Ready(work)
    <3>1. prog' = PAfterFree(call)
      BY <1>2, <2>1, <2>3, PlaceTypes, PushFacts DEF PFree
    <3>2. CASE call = "Write"
      <4>1. InRestore'
        BY <2>1, <2>3, <3>1, <3>2 DEF InRestore, PAfterFree
      <4>2. QED
        BY <2>1, <4>1 DEF IInv, InService
    <3>3. CASE call = "Restart"
      <4>1. InEnd'
        BY <2>1, <2>3, <3>1, <3>3 DEF InEnd, PAfterFree
      <4>2. QED
        BY <2>1, <4>1 DEF IInv
    <3>4. CASE call = "Init"
      <4>1. InRefresh'
        BY <2>1, <2>3, <3>1, <3>4 DEF InRefresh, PAfterFree, PRefAbort, AfterReady
      <4>2. QED
        BY <2>1, <4>1 DEF IInv
    <3>5. QED
      BY <2>3, <3>2, <3>3, <3>4
  <2>4. QED
    BY <1>1, <2>2, <2>3 DEF InErase
<1>6. QED
  BY <1>3, <1>4, <1>5, TypeFacts, NoDevFacts, SpareStep

\* FtwWrite, the copy to the spare block: keeps the invariant.
LEMMA WriteSpareStep ==
  ASSUME Setting, IInv, WriteSpare
  PROVE  IInv'
<1>1. InSpare
  BY PlaceOfStep DEF WriteSpare
<1>2. "write_spare" \in Ops
  BY DEF Ops
<1>3. call = "Write" /\ Amid /\ Ready(work) /\ Tail(prog) = PCommit
  BY <1>1, <1>2, AmidFacts, ServicePlaces, FirstFacts DEF InSpare
<1> DEFINE c == Overlay(target[arg.lba], arg)
           s == [spare EXCEPT !.data = c]
<1>4. c \in [Cells -> Values \cup {Erased}]
  <2>1. arg \in Requests
    BY <1>3, TypeFacts DEF Typed
  <2>2. arg.lba \in Lbas /\ arg.value \in Values
    BY <2>1, FlashAssumption
  <2>3. target[arg.lba] \in [Cells -> Values \cup {Erased}]
    BY <2>2, TypeFacts DEF TargetType
  <2>4. QED
    BY <2>2, <2>3 DEF Overlay
<1> HIDE DEF c
<1>5. s \in SpareType /\ s.queue = EmptyQueue
  BY <1>4, TypeFacts DEF SpareType
<1>6. Flash(work, s, target, dev)
  BY DEF WriteSpare, c
<1> HIDE DEF s
<1>7. CASE Whole(work, s, target, dev)
  <2>1. Typed' /\ Safe(work)' /\ call' = call /\ dev' = dev /\ work' = work /\ prog' = PCommit
    BY <1>3, <1>5, <1>7, TypeFacts, TypedAfter DEF Whole
  <2>2. InCommit'
    BY <1>3, <2>1, AmidStays DEF InCommit
  <2>3. QED
    BY <2>1, <2>2 DEF IInv, InService
<1>8. QED
  BY <1>3, <1>5, <1>6, <1>7, TypeFacts, SpareStep

\* FtwWrite, the spare block put back: keeps the invariant.
LEMMA RestoreSpareStep ==
  ASSUME Setting, IInv, RestoreSpare
  PROVE  IInv'
<1>1. InRestore
  BY PlaceOfStep DEF RestoreSpare
<1>2. "restore_spare" \in Ops
  BY DEF Ops
<1>3. call = "Write" /\ Ready(work) /\ Tail(prog) = <<>>
  BY <1>1, <1>2, ServicePlaces, FirstFacts DEF InRestore
<1>4. Flash(work, dev.save, target, dev)
  BY DEF RestoreSpare
<1>5. CASE Whole(work, dev.save, target, dev)
  <2>1. Typed' /\ Safe(work)' /\ call' = call /\ dev' = dev /\ work' = work /\ prog' = <<>>
    BY <1>3, <1>5, TypeFacts, TypedAfter DEF Whole
  <2>2. InEnd'
    BY <1>3, <2>1 DEF InEnd
  <2>3. QED
    BY <2>1, <2>2 DEF IInv
<1>6. QED
  BY <1>3, <1>4, <1>5, TypeFacts, SpareStep

\* The target blocks keep their type.
LEMMA OnTargetType ==
  ASSUME IInv, NEW c \in [Cells -> Values \cup {Erased}]
  PROVE  OnTarget(c) \in TargetType
  BY TypeFacts DEF OnTarget, TargetType

\* FlushSpareBlockToTargetBlock, the erase: keeps the invariant.
LEMMA EraseTargetStep ==
  ASSUME Setting, IInv, EraseTarget
  PROVE  IInv'
<1>1. InClear
  BY PlaceOfStep DEF EraseTarget
<1>2. "erase_target" \in Ops
  BY DEF Ops
<1>3. call \in {"Write", "Restart", "Init"} /\ Amid /\ Ready(work) /\ Tail(prog) = PFlush(call)
  BY <1>1, <1>2, AmidFacts, ServicePlaces, FirstFacts DEF InClear
<1> DEFINE t == OnTarget(ErasedData)
<1>4. t \in TargetType
  <2>1. ErasedData \in [Cells -> Values \cup {Erased}]
    BY DEF ErasedData
  <2>2. QED
    BY <2>1, OnTargetType
<1>5. Flash(work, spare, t, dev)
  BY DEF EraseTarget
<1> HIDE DEF t
<1>6. CASE Whole(work, spare, t, dev)
  <2>1. /\ Typed' /\ Safe(work)' /\ call' = call /\ dev' = dev /\ work' = work
        /\ prog' = PFlush(call)
    BY <1>3, <1>4, <1>6, TypeFacts, TypedAfter DEF Whole
  <2>2. InFlush'
    BY <1>3, <2>1, AmidStays DEF InFlush
  <2>3. QED
    BY <2>1, <2>2 DEF IInv, InService
<1>7. QED
  BY <1>3, <1>4, <1>5, <1>6, TypeFacts, SpareStep

\* FlushSpareBlockToTargetBlock, the copy: keeps the invariant.
LEMMA WriteTargetStep ==
  ASSUME Setting, IInv, WriteTarget
  PROVE  IInv'
<1>1. InFlush
  BY PlaceOfStep DEF WriteTarget
<1>2. "write_target" \in Ops
  BY DEF Ops
<1>3. call \in {"Write", "Restart", "Init"} /\ Amid /\ Ready(work) /\ Tail(prog) = PDest(call)
  BY <1>1, <1>2, AmidFacts, ServicePlaces, FirstFacts DEF InFlush
<1> DEFINE t == OnTarget(spare.data)
<1>4. t \in TargetType
  <2>1. spare.data \in [Cells -> Values \cup {Erased}]
    BY TypeFacts DEF SpareType
  <2>2. QED
    BY <2>1, OnTargetType
<1>5. Flash(work, spare, t, dev)
  BY DEF WriteTarget
<1> HIDE DEF t
<1>6. CASE Whole(work, spare, t, dev)
  <2>1. /\ Typed' /\ Safe(work)' /\ call' = call /\ dev' = dev /\ work' = work
        /\ prog' = PDest(call)
    BY <1>3, <1>4, <1>6, TypeFacts, TypedAfter DEF Whole
  <2>2. InDest'
    BY <1>3, <2>1, AmidStays DEF InDest
  <2>3. QED
    BY <2>1, <2>2 DEF IInv, InService
<1>7. QED
  BY <1>3, <1>4, <1>5, <1>6, TypeFacts, SpareStep

\* A state bit of the record, in the flash and in memory.
LEMMA RecordBit ==
  ASSUME IInv, Amid, NEW bit \in {1, 2, 4}, UpdateBoth(dev.r, bit)
  PROVE  \/ IInv'
         \/ /\ Typed' /\ Safe(work)' /\ Amid' /\ call' = call /\ prog' = Tail(prog)
<1> DEFINE w == [work EXCEPT !.queue = SetBit(@, dev.r, bit)]
           u == SetBit(dev.ws.queue, dev.r, bit)
           d == [dev EXCEPT !.ws.queue = SetBit(@, dev.r, bit)]
<1>1. /\ dev.h \in Slots /\ dev.r \in Slots /\ dev.r # dev.h /\ work.queue \in Queues
      /\ dev.ws.queue \in Queues
  BY AmidFacts, TypeFacts
<1>2. /\ w \in WorkType /\ w.queue = SetBit(work.queue, dev.r, bit) /\ w.hdr = "Valid"
      /\ Listed(w.queue, dev.h) /\ w.queue \in Queues /\ Ready(w) /\ Safe(w)
      /\ \A g \in {work.hdr, w.hdr}, q \in TornQueue(work.queue, w.queue) :
           /\ q \in Queues /\ Safe([hdr |-> g, queue |-> q])
           /\ Ready([hdr |-> g, queue |-> q])
  BY <1>1, BitStaysListed
<1>3. /\ u \in Queues /\ Slot(dev.ws.queue, u, dev.r)
      /\ u[dev.r].bits = dev.ws.queue[dev.r].bits \cup {bit}
      /\ w.queue[dev.r].bits = work.queue[dev.r].bits \cup {bit}
  <2>1. /\ u \in Queues /\ Slot(dev.ws.queue, u, dev.r)
        /\ u[dev.r].bits = dev.ws.queue[dev.r].bits \cup {bit}
    BY <1>1, SetBitType, ZenonT(60)
  <2>2. SetBit(work.queue, dev.r, bit)[dev.r].bits = work.queue[dev.r].bits \cup {bit}
    <3> DEFINE q == work.queue
               r == dev.r
    <3>1. q \in Queues /\ r \in Slots /\ bit \in {1, 2, 4}
      BY <1>1
    <3> HIDE DEF q, r
    <3>2. SetBit(q, r, bit)[r].bits = q[r].bits \cup {bit}
      BY <3>1, SetBitType
    <3>3. QED
      BY <3>2 DEF q, r
  <2> HIDE DEF u
  <2>3. QED
    BY <2>1, <2>2, <1>2
<1>4. d = [dev EXCEPT !.ws.queue = u]
  OBVIOUS
<1> HIDE DEF u
<1>5. /\ d \in DevType /\ d.save = dev.save /\ d.h = dev.h /\ d.r = dev.r /\ d.ws.queue = u
  BY <1>3, <1>4, TypeFacts DEF DevType, WorkType, Queues
<1>6. Flash(w, spare, target, d)
  BY DEF UpdateBoth
<1> HIDE DEF w, d
<1>7. CASE Whole(w, spare, target, d)
  <2>1. Typed' /\ call' = call /\ dev' = d /\ work' = w /\ prog' = Tail(prog)
    BY <1>2, <1>5, <1>7, TypeFacts, TypedAfter DEF Whole
  <2>2. u[dev.h] = dev.ws.queue[dev.h]
    BY <1>1, <1>3 DEF Slot
  <2>3. Amid'
    BY <1>2, <1>3, <1>5, <2>1, <2>2 DEF Amid
  <2>4. QED
    BY <1>2, <2>1, <2>3
<1>8. QED
  <2>1. Whole(w, spare, target, d) \/ IInv'
    BY <1>2, <1>5, <1>6, TypeFacts, FlashStep
  <2>2. QED
    BY <2>1, <1>7

\* FtwWrite, the bit that commits the write: keeps the invariant.
LEMMA SpareCompleteStep ==
  ASSUME Setting, IInv, SpareComplete
  PROVE  IInv'
<1>1. InCommit
  BY PlaceOfStep DEF SpareComplete
<1>2. "spare_complete" \in Ops
  BY DEF Ops
<1>3. call = "Write" /\ Amid /\ Tail(prog) = PClear("Write")
  BY <1>1, <1>2, ServicePlaces, FirstFacts DEF InCommit
<1>4. UpdateBoth(dev.r, 2)
  BY DEF SpareComplete, SPARE_COMPLETED
<1>5. \/ IInv'
      \/ /\ Typed' /\ Safe(work)' /\ Amid' /\ call' = call /\ prog' = Tail(prog)
  BY <1>3, <1>4, RecordBit
<1>6. CASE Typed' /\ Safe(work)' /\ Amid' /\ call' = call /\ prog' = Tail(prog)
  <2>1. InClear'
    BY <1>3, <1>6 DEF InClear
  <2>2. QED
    BY <1>6, <2>1 DEF IInv, InService
<1>7. QED
  BY <1>5, <1>6

\* FtwWriteRecord, the bit of the record: keeps the invariant.
LEMMA DestCompleteStep ==
  ASSUME Setting, IInv, DestComplete
  PROVE  IInv'
<1>1. InDest
  BY PlaceOfStep DEF DestComplete
<1>2. "dest_complete" \in Ops
  BY DEF Ops
<1>3. call \in {"Write", "Restart", "Init"} /\ Amid /\ Tail(prog) = PDone(call)
  BY <1>1, <1>2, ServicePlaces, FirstFacts DEF InDest
<1>4. UpdateBoth(dev.r, 4)
  BY DEF DestComplete, DEST_COMPLETED
<1>5. \/ IInv'
      \/ /\ Typed' /\ Safe(work)' /\ Amid' /\ call' = call /\ prog' = Tail(prog)
  BY <1>3, <1>4, RecordBit
<1>6. CASE Typed' /\ Safe(work)' /\ Amid' /\ call' = call /\ prog' = Tail(prog)
  <2>1. InDone'
    BY <1>3, <1>6 DEF InDone
  <2>2. QED
    BY <1>6, <2>1 DEF IInv, InService
<1>7. QED
  BY <1>5, <1>6

\* A header that is completed, in the flash and in memory.
LEMMA HeaderBit ==
  ASSUME IInv, work.hdr = "Valid", dev.ws.queue \in Queues, dev.h \in Slots,
         Listed(work.queue, dev.h) \/ Partial(work.queue, dev.h),
         call # "Init" => Ready(work), UpdateBoth(dev.h, 4)
  PROVE  \/ IInv'
         \/ /\ Typed' /\ Safe(work)' /\ call' = call /\ prog' = Tail(prog)
            /\ Ready(work)' /\ work'.queue = SetBit(work.queue, dev.h, 4)
            /\ EmptyAfter(work'.queue, dev.h) /\ 4 \in work'.queue[dev.h].bits
            /\ Settled(work'.queue) /\ dev'.h = dev.h /\ work'.hdr = "Valid"
            /\ dev'.ws.queue = SetBit(dev.ws.queue, dev.h, 4) /\ dev'.ws.hdr = dev.ws.hdr
<1> DEFINE p == SetBit(work.queue, dev.h, 4)
           w == [work EXCEPT !.queue = SetBit(@, dev.h, 4)]
           u == SetBit(dev.ws.queue, dev.h, 4)
           d == [dev EXCEPT !.ws.queue = SetBit(@, dev.h, 4)]
<1>1. work.queue \in Queues /\ Settled(p) /\ p \in Queues /\ EmptyAfter(p, dev.h)
      /\ 4 \in p[dev.h].bits
  BY ListedCompleted, TypeFacts
<1>2. u \in Queues
  BY SetBitType, ZenonT(60)
<1>3. d = [dev EXCEPT !.ws.queue = u] /\ w = [work EXCEPT !.queue = p]
  OBVIOUS
<1>4. Flash(w, spare, target, d)
  BY DEF UpdateBoth
<1>5. ASSUME NEW t \in TornQueue(work.queue, p) PROVE t = work.queue \/ t = p
  BY <1>1, TornBit
<1> HIDE DEF p, u
<1>6. w \in WorkType /\ w.queue = p /\ w.hdr = "Valid"
  BY <1>1, <1>3, TypeFacts DEF WorkType, Queues
<1>7. /\ d \in DevType /\ d.save = dev.save /\ d.h = dev.h /\ d.ws.queue = u /\ d.ws.hdr = dev.ws.hdr
  BY <1>2, <1>3, TypeFacts DEF DevType, WorkType, Queues
<1> HIDE DEF w, d
<1>8. Clean(p) /\ Ready(w) /\ Safe(w)
  BY <1>1, <1>6, Weaker, ReadyIsSafe DEF Ready
<1>9. ASSUME NEW g \in {work.hdr, w.hdr}, NEW t \in TornQueue(work.queue, w.queue)
      PROVE  /\ t \in Queues /\ Safe([hdr |-> g, queue |-> t])
             /\ call # "Init" => Ready([hdr |-> g, queue |-> t])
  <2>1. g = "Valid" /\ (t = work.queue \/ t = p)
    BY <1>5, <1>6
  <2>2. CASE t = p
    BY <1>1, <1>8, <2>1, <2>2, CleanIsReady
  <2>3. CASE t = work.queue
    <3>1. [hdr |-> g, queue |-> t] = work
      BY <2>1, <2>3, TypeFacts
    <3>2. QED
      BY <3>1, <1>1, <2>3, TypeFacts
  <2>4. QED
    BY <2>1, <2>2, <2>3
<1>10. CASE Whole(w, spare, target, d)
  <2>1. Typed' /\ call' = call /\ dev' = d /\ work' = w /\ prog' = Tail(prog)
    BY <1>6, <1>7, <1>10, TypeFacts, TypedAfter DEF Whole
  <2>2. QED
    BY <1>1, <1>6, <1>7, <1>8, <2>1 DEF p, u
<1>11. QED
  <2>1. Whole(w, spare, target, d) \/ IInv'
    BY <1>4, <1>6, <1>7, <1>9, TypeFacts, FlashStep
  <2>2. QED
    BY <2>1, <1>10

\* FtwWriteRecord, the bit of the list: keeps the invariant.
LEMMA WritesCompleteStep ==
  ASSUME Setting, IInv, WritesComplete
  PROVE  IInv'
<1>1. InDone
  BY PlaceOfStep DEF WritesComplete
<1>2. "writes_complete" \in Ops
  BY DEF Ops
<1>3. call \in {"Write", "Restart", "Init"} /\ Amid /\ Tail(prog) = PFree(call)
  BY <1>1, <1>2, ServicePlaces, FirstFacts DEF InDone
<1>4. UpdateBoth(dev.h, 4)
  <2>1. IsLastRecordOfWrites(dev.ws.queue, dev.h, dev.r)
    BY <1>3 DEF IsLastRecordOfWrites, Amid
  <2>2. QED
    BY <2>1 DEF WritesComplete, WRITES_COMPLETED
<1>5. /\ work.hdr = "Valid" /\ dev.ws.queue \in Queues /\ dev.h \in Slots
      /\ Listed(work.queue, dev.h) /\ Ready(work)
  BY <1>3, AmidFacts, TypeFacts DEF Amid
<1>6. \/ IInv'
      \/ /\ Typed' /\ Safe(work)' /\ call' = call /\ prog' = Tail(prog) /\ Ready(work)'
  BY <1>4, <1>5, HeaderBit
<1>7. CASE Typed' /\ Safe(work)' /\ call' = call /\ prog' = Tail(prog) /\ Ready(work)'
  <2>1. InErase'
    BY <1>3, <1>7 DEF InErase
  <2>2. QED
    BY <1>7, <2>1 DEF IInv, InService
<1>8. QED
  BY <1>6, <1>7

\* FtwRestart, its tests: keeps the invariant.
LEMMA RestartStep ==
  ASSUME Setting, IInv, Restart
  PROVE  IInv'
<1>1. InRestart
  BY PlaceOfStep DEF Restart
<1>2. "restart" \in Ops
  BY DEF Ops
<1>3. /\ call \in {"Restart", "Init"} /\ Ready(work) /\ Synced
      /\ Tail(prog) = IF call = "Init" THEN PRefAbort ELSE <<>>
  BY <1>1, <1>2, ServicePlaces, FirstFacts DEF InRestart
<1>4. CASE Refuse
  BY <1>3, <1>4, Refused
<1>5. CASE call = "Init" /\ Decide(dev, Tail(prog))
  <2>1. Decide(dev, PRefAbort)
    BY <1>3, <1>5
  <2>2. /\ Typed' /\ Safe(work)' /\ prog' = PRefAbort /\ work' = work /\ call' = call
    BY <2>1, TypeFacts, Decided
  <2>3. InRefresh'
    BY <1>3, <1>5, <2>2 DEF InRefresh, PRefAbort, AfterReady
  <2>4. QED
    BY <2>2, <2>3 DEF IInv
<1>6. CASE /\ RecordHas(SPARE_COMPLETED)
           /\ Decide(dev, FtwWriteRecord \o <<"erase_spare">> \o Tail(prog))
  <2>1. Tail(prog) = PAfterFree(call) /\ Tail(prog) \in Progs
    BY <1>3, PlaceTypes DEF PAfterFree
  <2>2. FtwWriteRecord \o <<"erase_spare">> \o Tail(prog) = PClear(call)
    BY <2>1, DecisionPrograms DEF PClear, PFlush, PDest, PDone, PFree
  <2>3. /\ Typed' /\ Safe(work)' /\ prog' = PClear(call) /\ dev' = dev /\ work' = work
        /\ call' = call
    BY <1>6, <2>2, TypeFacts, Decided
  <2>4. Listed(work.queue, dev.h)
    <3>1. ASSUME Fresh(work.queue, dev.h) PROVE FALSE
      <4>1. work.queue \in Queues /\ dev.h \in Slots /\ dev.h + 1 \in Slots /\ dev.h < QueueSize
        BY <1>3, HeaderKinds
      <4>2. work.queue[dev.h] = ErasedSlot /\ work.queue[dev.h + 1] = ErasedSlot
        BY <3>1, <4>1, SlotFacts DEF Fresh, BlankFrom
      <4>3. dev.r = dev.h + 1
        BY <1>3, <4>1, <4>2, EmptyFacts, FirstRecord DEF Synced
      <4>4. Record.bits = {}
        BY <1>3, <4>2, <4>3, HeaderKinds, EmptyFacts
      <4>5. QED
        BY <1>6, <4>4 DEF RecordHas
    <3>2. QED
      BY <1>3, <3>1, HeaderKinds
  <2>5. dev.r = dev.h + 1
    BY <1>3, <2>4, HeaderKinds, FirstRecord DEF Synced, Listed
  <2>6. Amid
    BY <1>3, <2>4, <2>5, HeaderKinds DEF Amid, Ready, Synced, Listed
  <2>7. InClear'
    BY <1>3, <2>3, <2>6, AmidStays DEF InClear
  <2>8. QED
    BY <2>3, <2>7 DEF IInv, InService
<1>7. QED
  BY <1>4, <1>5, <1>6 DEF Restart

\* FtwAbort, the header it completes: keeps the invariant.
LEMMA AbortStep ==
  ASSUME Setting, IInv, Abort
  PROVE  IInv'
<1>1. InAbort
  BY PlaceOfStep DEF Abort
<1>2. "abort" \in Ops
  BY DEF Ops
<1> DEFINE Ended1 == prog = PAbort /\ call \in {"Abort", "GetLastWrite", "Init"} /\ Ready(work)
           Ended2 == prog = Push("abort", PIEmpty) /\ call = "Init" /\ Ready(work)
           Ended3 == prog = Push("abort", PILast) /\ call = "Init" /\ SafeValid(work)
           Ended4 == prog = Push("abort", PAgain) /\ call = "Init" /\ SafeValid(work)
<1>3. Synced /\ (Ended1 \/ Ended2 \/ Ended3 \/ Ended4)
  BY <1>1 DEF InAbort
<1>4. /\ Ended1 => Tail(prog) = <<>>
      /\ Ended2 => Tail(prog) = PIEmpty
      /\ Ended3 => Tail(prog) = PILast
      /\ Ended4 => Tail(prog) = PAgain
  BY <1>2, PlaceTypes, PushFacts DEF PAbort
<1>5. SafeValid(work) /\ work.hdr = "Valid"
  BY <1>3, TypeFacts, ReadyIsSafe DEF SafeValid
<1>6. CASE HeaderHas(HEADER_ALLOCATED)
  <2>1. UpdateBoth(dev.h, 4)
    <3>1. ~HeaderHas(WRITES_COMPLETED)
      BY <1>3, HeaderKinds DEF HeaderHas, WRITES_COMPLETED
    <3>2. QED
      BY <1>6, <3>1 DEF Abort, WRITES_COMPLETED
  <2>2. Listed(work.queue, dev.h) \/ Partial(work.queue, dev.h)
    BY <1>3, <1>5, <1>6, HeaderKinds DEF HeaderHas, HEADER_ALLOCATED, Frayed
  <2>3. call # "Init" => Ready(work)
    BY <1>3
  <2>4. \/ IInv'
        \/ /\ Typed' /\ Safe(work)' /\ call' = call /\ prog' = Tail(prog)
           /\ Ready(work)' /\ work'.queue = SetBit(work.queue, dev.h, 4)
           /\ EmptyAfter(work'.queue, dev.h) /\ 4 \in work'.queue[dev.h].bits
           /\ Settled(work'.queue) /\ dev'.h = dev.h /\ work'.hdr = "Valid"
           /\ dev'.ws.queue = SetBit(dev.ws.queue, dev.h, 4) /\ dev'.ws.hdr = dev.ws.hdr
    BY <1>5, <2>1, <2>2, <2>3, TypeFacts, HeaderBit
  <2>5. ASSUME /\ Typed' /\ Safe(work)' /\ call' = call /\ prog' = Tail(prog)
               /\ Ready(work)' /\ work'.queue = SetBit(work.queue, dev.h, 4)
               /\ EmptyAfter(work'.queue, dev.h) /\ 4 \in work'.queue[dev.h].bits
               /\ Settled(work'.queue) /\ dev'.h = dev.h /\ work'.hdr = "Valid"
               /\ dev'.ws.queue = SetBit(dev.ws.queue, dev.h, 4) /\ dev'.ws.hdr = dev.ws.hdr
        PROVE  IInv'
    <3>1. dev'.ws = work'
      <4>1. dev.ws = work
        BY <1>3 DEF Synced
      <4>2. dev'.ws \in WorkType /\ work' \in WorkType
        BY <2>5 DEF Typed, FtwTypeOK
      <4>3. dev'.ws.hdr = work'.hdr /\ dev'.ws.queue = work'.queue
        BY <1>5, <2>5, <4>1
      <4>4. QED
        BY <4>2, <4>3 DEF WorkType
    <3>2. Closed'
      BY <2>5, <3>1 DEF Closed
    <3>3. SafeValid(work)'
      <4>1. work' \in WorkType
        BY <2>5 DEF Typed, FtwTypeOK
      <4>2. QED
        BY <4>1, <2>5, ReadyIsSafe
    <3>4. CASE Ended1
      <4>1. InEnd'
        BY <1>4, <2>5, <3>4 DEF InEnd
      <4>2. QED
        BY <2>5, <4>1 DEF IInv
    <3>5. CASE Ended2
      <4>1. InEmpty'
        BY <1>4, <2>5, <3>2, <3>5 DEF InEmpty
      <4>2. QED
        BY <2>5, <4>1 DEF IInv, InStart
    <3>6. CASE Ended3
      <4>1. InLast'
        BY <1>4, <2>5, <3>2, <3>6 DEF InLast
      <4>2. QED
        BY <2>5, <4>1 DEF IInv, InStart
    <3>7. CASE Ended4
      <4>1. InRefresh'
        BY <1>4, <2>5, <3>3, <3>7 DEF InRefresh, AfterValid, PAgain
      <4>2. QED
        BY <2>5, <4>1 DEF IInv
    <3>8. QED
      BY <1>3, <3>4, <3>5, <3>6, <3>7
  <2>6. QED
    BY <2>4, <2>5
<1>7. CASE ~HeaderHas(HEADER_ALLOCATED)
  <2>1. Decide(dev, Tail(prog))
    BY <1>7 DEF Abort
  <2>2. /\ Typed' /\ Safe(work)' /\ prog' = Tail(prog) /\ dev' = dev /\ work' = work /\ call' = call
    BY <2>1, TypeFacts, Decided
  <2>3. Frayed(work.queue, dev.h)
    BY <1>3, <1>5, <1>7, HeaderKinds DEF HeaderHas, HEADER_ALLOCATED, Listed, Partial
  <2>4. Synced' /\ Left' /\ work'.hdr = "Valid" /\ SafeValid(work)'
    BY <1>3, <1>5, <2>2, <2>3 DEF Synced, Left
  <2>5. CASE Ended1
    <3>1. InEnd'
      BY <1>4, <2>2, <2>5 DEF InEnd
    <3>2. QED
      BY <2>2, <3>1 DEF IInv
  <2>6. CASE Ended2
    <3>1. InEmpty'
      BY <1>4, <2>2, <2>4, <2>6 DEF InEmpty
    <3>2. QED
      BY <2>2, <3>1 DEF IInv, InStart
  <2>7. CASE Ended3
    <3>1. InLast'
      BY <1>4, <2>2, <2>4, <2>7 DEF InLast
    <3>2. QED
      BY <2>2, <3>1 DEF IInv, InStart
  <2>8. CASE Ended4
    <3>1. InRefresh'
      BY <1>4, <2>2, <2>4, <2>8 DEF InRefresh, AfterValid, PAgain
    <3>2. QED
      BY <2>2, <3>1 DEF IInv
  <2>9. QED
    BY <1>3, <2>5, <2>6, <2>7, <2>8
<1>8. QED
  BY <1>6, <1>7

\* FtwGetLastWrite, the whole of it: keeps the invariant.
LEMMA GetLastWriteStep ==
  ASSUME Setting, IInv, GetLastWrite
  PROVE  IInv'
<1>1. InGetLast
  BY PlaceOfStep DEF GetLastWrite
<1>2. call = "GetLastWrite" /\ Ready(work)
  BY <1>1 DEF InGetLast
<1>3. CASE Decide(dev, FtwAbort)
  <2>1. /\ Typed' /\ Safe(work)' /\ prog' = PRefAbort /\ work' = work /\ call' = call
    BY <1>3, TypeFacts, Decided, ServicePrograms
  <2>2. InRefresh'
    BY <1>2, <2>1 DEF InRefresh, PRefAbort, AfterReady
  <2>3. QED
    BY <2>1, <2>2 DEF IInv
<1>4. CASE Decide(dev, <<>>)
  <2>1. /\ Typed' /\ Safe(work)' /\ prog' = <<>> /\ work' = work /\ call' = call
    BY <1>4, TypeFacts, Decided
  <2>2. InEnd'
    BY <1>2, <2>1 DEF InEnd
  <2>3. QED
    BY <2>1, <2>2 DEF IInv
<1>5. QED
  BY <1>3, <1>4 DEF GetLastWrite

-----------------------------------------------------------------------------
(***************************************************************************)
(* InitFtwProtocol.                                                        *)
(***************************************************************************)

\* InitFtwProtocol, the test of the work space: keeps the invariant.
LEMMA CheckValidStep ==
  ASSUME Setting, IInv, CheckValid
  PROVE  IInv'
<1>1. InValid
  BY PlaceOfStep DEF CheckValid
<1>2. "check_valid" \in Ops
  BY DEF Ops
<1>3. call = "Init" /\ Synced /\ Tail(prog) = PIFirst /\ PIFirst \in Progs
  BY <1>1, <1>2, StartPlaces, FirstFacts, PlaceTypes DEF InValid
<1>4. CASE IsValidWorkSpace(dev.ws.hdr)
  <2>1. Decide(dev, PIFirst)
    BY <1>3, <1>4 DEF CheckValid
  <2>2. /\ Typed' /\ Safe(work)' /\ prog' = PIFirst /\ dev' = dev /\ work' = work /\ call' = call
    BY <2>1, TypeFacts, Decided
  <2>3. SafeValid(work)
    BY <1>3, <1>4, TypeFacts DEF IsValidWorkSpace, Synced, Safe, SafeValid
  <2>4. InFirst'
    BY <1>3, <2>2, <2>3 DEF InFirst, Synced, SafeValid
  <2>5. QED
    BY <2>2, <2>4 DEF IInv, InStart
<1>5. ASSUME ~IsValidWorkSpace(dev.ws.hdr) PROVE Dead(work.queue)
  BY <1>3, <1>5, TypeFacts DEF IsValidWorkSpace, Synced, Safe
<1>6. CASE ~IsValidWorkSpace(dev.ws.hdr) /\ IsValidWorkSpace(spare.hdr)
  <2> DEFINE d == [dev EXCEPT !.ws = [hdr |-> spare.hdr, queue |-> spare.queue]]
  <2>1. Decide(d, RValid2(PFlushed))
    BY <1>3, <1>6, DecisionPrograms DEF CheckValid, PFlushed, PAgain
  <2>2. spare.hdr \in HdrStates /\ spare.queue = EmptyQueue /\ EmptyQueue \in Queues
    BY TypeFacts, EmptyFacts DEF SpareType
  <2>3. [hdr |-> spare.hdr, queue |-> spare.queue] \in WorkType
    BY <2>2 DEF WorkType, Queues
  <2>4. d \in DevType /\ d.save = dev.save /\ d.ws.queue = EmptyQueue
    BY <2>2, <2>3, TypeFacts DEF DevType
  <2> HIDE DEF d
  <2>5. /\ Typed' /\ Safe(work)' /\ prog' = RValid2(PFlushed) /\ dev' = d /\ work' = work
        /\ call' = call
    BY <2>1, <2>4, TypeFacts, Decided
  <2>6. Gone' /\ AfterFlush(PFlushed)'
    BY <1>3, <1>5, <1>6, <2>4, <2>5 DEF Gone, AfterFlush
  <2>7. InSpareV'
    BY <2>5, <2>6 DEF InSpareV
  <2>8. QED
    BY <2>5, <2>7 DEF IInv, InReclaim
<1>7. CASE ~IsValidWorkSpace(dev.ws.hdr) /\ ~IsValidWorkSpace(spare.hdr)
  <2> DEFINE d == [dev EXCEPT !.ws = [hdr |-> "Valid", queue |-> EmptyQueue]]
  <2>1. Decide(d, Push("collect_none", RErase1(RErase2(PIFirst))))
    BY <1>3, <1>7, DecisionPrograms DEF CheckValid
  <2>2. [hdr |-> "Valid", queue |-> EmptyQueue] \in WorkType
    BY NoDevFacts DEF NewWork
  <2>3. d \in DevType /\ d.save = dev.save
    BY <2>2, TypeFacts DEF DevType
  <2> HIDE DEF d
  <2>4. /\ Typed' /\ Safe(work)' /\ prog' = Push("collect_none", RErase1(RErase2(PIFirst)))
        /\ work' = work /\ call' = call
    BY <2>1, <2>3, TypeFacts, Decided
  <2>5. InCollect'
    BY <1>3, <1>5, <1>7, <2>4 DEF InCollect
  <2>6. QED
    BY <2>4, <2>5 DEF IInv, InReclaim
<1>8. QED
  BY <1>4, <1>6, <1>7

\* InitFtwProtocol, the test for a first header: keeps the invariant.
LEMMA CheckFirstStep ==
  ASSUME Setting, IInv, CheckFirst
  PROVE  IInv'
<1>1. InFirst
  BY PlaceOfStep DEF CheckFirst
<1>2. "check_first" \in Ops
  BY DEF Ops
<1>3. call = "Init" /\ SafeValid(work) /\ Synced /\ Tail(prog) = PILast /\ PILast \in Progs
  BY <1>1, <1>2, StartPlaces, FirstFacts, PlaceTypes DEF InFirst
<1> DEFINE Undone == /\ HeaderHas(HEADER_ALLOCATED) /\ ~RecordHas(SPARE_COMPLETED)
                     /\ IsFirstRecordOfWrites(dev.h, dev.r)
<1>4. CASE Undone
  <2>1. Decide(dev, Push("refresh", Push("abort", PILast)))
    BY <1>3, <1>4, DecisionPrograms DEF CheckFirst
  <2>2. /\ Typed' /\ Safe(work)' /\ prog' = Push("refresh", Push("abort", PILast))
        /\ work' = work /\ call' = call
    BY <2>1, TypeFacts, Decided
  <2>3. SafeValid(work)'
    BY <1>3, <2>2
  <2>4. InRefresh'
    BY <1>3, <2>2, <2>3 DEF InRefresh, AfterValid
  <2>5. QED
    BY <2>2, <2>4 DEF IInv
<1>5. CASE ~Undone
  <2>1. Decide(dev, PILast)
    BY <1>3, <1>5 DEF CheckFirst
  <2>2. /\ Typed' /\ Safe(work)' /\ prog' = PILast /\ dev' = dev /\ work' = work /\ call' = call
    BY <2>1, TypeFacts, Decided
  <2>3. Left
    <3> DEFINE q == work.queue
               h == dev.h
    <3>1. /\ q \in Queues /\ h \in Slots /\ h < QueueSize /\ h + 1 \in Slots
          /\ Frayed(q, h) \/ Listed(q, h) \/ Partial(q, h)
          /\ dev.r = FtwGetLastWriteRecord(q, h) /\ h \in Nat
      BY <1>3, HeaderKinds, SlotFacts DEF Synced
    <3>2. CASE Frayed(q, h)
      BY <3>2 DEF Left
    <3>3. ASSUME Listed(q, h) \/ Partial(q, h) PROVE dev.r = h + 1 /\ 2 \in q[dev.r].bits
      <4>1. q[h].n = 1 \/ 4 \notin q[h + 1].bits
        BY <3>1, <3>3, EmptyFacts DEF Listed, Partial, BlankFrom
      <4> HIDE DEF q, h
      <4>2. dev.r = h + 1
        BY <3>1, <4>1, FirstRecord
      <4>3. 1 \in q[h].bits
        BY <3>3 DEF Listed, Partial
      <4> USE DEF q, h
      <4>4. QED
        BY <1>3, <1>5, <4>2, <4>3, HeaderKinds DEF HeaderHas, RecordHas, HEADER_ALLOCATED,
           SPARE_COMPLETED, IsFirstRecordOfWrites
    <3>4. ASSUME Partial(q, h) PROVE FALSE
      <4>1. dev.r = h + 1 /\ 2 \in q[dev.r].bits
        BY <3>3, <3>4
      <4>2. q[h + 1] = ErasedSlot
        BY <3>1, <3>4 DEF Partial, BlankFrom
      <4>3. QED
        BY <4>1, <4>2, EmptyFacts
    <3>5. QED
      BY <3>1, <3>2, <3>3, <3>4 DEF Left
  <2>4. InLast'
    BY <1>3, <2>2, <2>3 DEF InLast, Synced, Left, SafeValid
  <2>5. QED
    BY <2>2, <2>4 DEF IInv, InStart
<1>6. QED
  BY <1>4, <1>5

\* When the header is complete, or the record has not reached its destination, nothing is
\* left to complete; a header to complete is one with its record.
LEMMA ToComplete ==
  ASSUME IInv, Closed \/ (Synced /\ Left), LastCompleteHeaderNot
  PROVE  Synced /\ Listed(work.queue, dev.h)
<1>1. CASE Closed
  BY <1>1 DEF Closed, LastCompleteHeaderNot, HeaderHas, Header, WRITES_COMPLETED
<1>2. CASE Synced /\ Frayed(work.queue, dev.h)
  <2> DEFINE q == work.queue
             h == dev.h
  <2>1. q \in Queues /\ h \in Slots /\ h < QueueSize /\ h + 1 \in Slots
    BY <1>2, HeaderKinds
  <2>2. q[h + 1] = ErasedSlot
    BY <1>2, <2>1, SlotFacts DEF Frayed, BlankFrom
  <2>3. dev.r = h + 1
    <3> HIDE DEF q, h
    <3>1. FtwGetLastWriteRecord(q, h) = h + 1
      BY <2>1, <2>2, EmptyFacts, FirstRecord
    <3>2. QED
      BY <1>2, <3>1 DEF Synced, q, h
  <2>4. Record.bits = {}
    BY <1>2, <2>2, <2>3, HeaderKinds, EmptyFacts
  <2>5. QED
    BY <2>4 DEF LastCompleteHeaderNot, RecordHas
<1>3. QED
  BY <1>1, <1>2 DEF Left

\* What the checks of the start leave, header by header.
LEMMA CheckLastStep ==
  ASSUME Setting, IInv, CheckLast
  PROVE  IInv'
<1>1. InLast
  BY PlaceOfStep DEF CheckLast
<1>2. "check_last" \in Ops
  BY DEF Ops
<1>3. /\ call = "Init" /\ work.hdr = "Valid" /\ (Closed \/ (Synced /\ Left))
      /\ Tail(prog) = PIEmpty /\ PIEmpty \in Progs
  BY <1>1, <1>2, StartPlaces, FirstFacts, PlaceTypes DEF InLast
<1>4. CASE LastCompleteHeaderNot
  <2>1. Decide(dev, Push("refresh", Push("abort", PIEmpty)))
    BY <1>3, <1>4, DecisionPrograms DEF CheckLast
  <2>2. /\ Typed' /\ Safe(work)' /\ prog' = Push("refresh", Push("abort", PIEmpty))
        /\ work' = work /\ call' = call
    BY <2>1, TypeFacts, Decided
  <2>3. Ready(work)
    BY <1>3, <1>4, ToComplete, TypeFacts DEF Ready, Clean
  <2>4. Ready(work)'
    BY <2>2, <2>3
  <2>5. InRefresh'
    BY <1>3, <2>2, <2>4 DEF InRefresh, AfterReady
  <2>6. QED
    BY <2>2, <2>5 DEF IInv
<1>5. CASE ~LastCompleteHeaderNot
  <2>1. Decide(dev, PIEmpty)
    BY <1>3, <1>5 DEF CheckLast
  <2>2. /\ Typed' /\ Safe(work)' /\ prog' = PIEmpty /\ dev' = dev /\ work' = work /\ call' = call
    BY <2>1, TypeFacts, Decided
  <2>3. InEmpty'
    BY <1>3, <2>2 DEF InEmpty, Synced, Left, Closed
  <2>4. QED
    BY <2>2, <2>3 DEF IInv, InStart
<1>6. QED
  BY <1>4, <1>5

\* InitFtwProtocol, the test for an erased rest: keeps the invariant.
LEMMA CheckEmptyStep ==
  ASSUME Setting, IInv, CheckEmpty
  PROVE  IInv'
<1>1. InEmpty
  BY PlaceOfStep DEF CheckEmpty
<1>2. "check_empty" \in Ops
  BY DEF Ops
<1>3. /\ call = "Init" /\ work.hdr = "Valid" /\ (Closed \/ (Synced /\ Left))
      /\ Tail(prog) = PISpare /\ PISpare \in Progs
  BY <1>1, <1>2, StartPlaces, FirstFacts, PlaceTypes DEF InEmpty
<1> DEFINE q == work.queue
           h == dev.h
<1>4. dev.ws = work /\ q \in Queues /\ h \in Slots
  BY <1>3, TypeFacts DEF Closed, Synced
<1>5. CASE EmptyAfter(dev.ws.queue, dev.h)
  <2>1. Decide(dev, PISpare)
    BY <1>3, <1>5 DEF CheckEmpty
  <2>2. /\ Typed' /\ Safe(work)' /\ prog' = PISpare /\ dev' = dev /\ work' = work /\ call' = call
    BY <2>1, TypeFacts, Decided
  <2>3. Ready(work)
    <3>1. CASE Closed
      BY <1>3, <1>4, <3>1, Weaker DEF Closed, Ready
    <3>2. CASE Synced /\ Listed(q, h)
      BY <1>3, <1>4, <3>2 DEF Ready, Clean
    <3>3. CASE Synced /\ Frayed(q, h)
      <4>1. Fresh(q, h)
        BY <1>4, <1>5, <3>3 DEF Frayed, Fresh, EmptyAfter, BlankFrom
      <4>2. QED
        BY <1>3, <1>4, <4>1 DEF Ready, Clean
    <3>4. QED
      BY <1>3, <3>1, <3>2, <3>3 DEF Left
  <2>4. InISpare'
    BY <1>3, <2>2, <2>3 DEF InISpare, Synced, Closed, Ready
  <2>5. QED
    BY <2>2, <2>4 DEF IInv, InStart
<1>6. CASE ~EmptyAfter(dev.ws.queue, dev.h)
  <2>1. Decide(dev, Push("collect", RErase1(RErase2(PISpare))))
    BY <1>3, <1>6, DecisionPrograms DEF CheckEmpty
  <2>2. /\ Typed' /\ Safe(work)' /\ prog' = Push("collect", RErase1(RErase2(PISpare)))
        /\ dev' = dev /\ work' = work /\ call' = call
    BY <2>1, TypeFacts, Decided
  <2>3. Dead(q)
    <3>1. ~Closed
      BY <1>4, <1>6 DEF Closed
    <3>2. CASE Frayed(q, h)
      BY <1>4, <3>2, Weaker DEF Dead
    <3>3. ASSUME Listed(q, h) PROVE FALSE
      <4>1. EmptyAfter(q, h)
        <5>1. h \in Nat /\ Slots \subseteq Nat
          BY <1>4, SlotFacts
        <5>2. q[h].bits # {} /\ q[h].n = 1 /\ \A j \in Slots : j >= h + 2 => q[j] = ErasedSlot
          BY <3>3 DEF Listed, BlankFrom
        <5> HIDE DEF q, h
        <5>3. QED
          BY <5>1, <5>2 DEF EmptyAfter
      <4>2. QED
        BY <1>4, <1>6, <4>1
    <3>4. QED
      BY <1>3, <3>1, <3>2, <3>3 DEF Left
  <2>4. AfterReclaim(PISpare)'
    BY <1>3, <2>2 DEF AfterReclaim
  <2>5. InCollect'
    BY <1>4, <2>2, <2>3, <2>4 DEF InCollect
  <2>6. QED
    BY <2>2, <2>5 DEF IInv, InReclaim
<1>7. QED
  BY <1>5, <1>6

\* InitFtwProtocol, the spare copy to recover from: keeps the invariant.
LEMMA CheckSpareStep ==
  ASSUME Setting, IInv, CheckSpare
  PROVE  IInv'
<1>1. InISpare
  BY PlaceOfStep DEF CheckSpare
<1>2. call = "Init" /\ Ready(work)
  BY <1>1 DEF InISpare
<1>3. CASE Decide(dev, <<>>)
  <2>1. /\ Typed' /\ Safe(work)' /\ prog' = <<>> /\ work' = work /\ call' = call
    BY <1>3, TypeFacts, Decided
  <2>2. InEnd'
    BY <1>2, <2>1 DEF InEnd
  <2>3. QED
    BY <2>1, <2>2 DEF IInv
<1>4. CASE Decide(dev, FtwAbort) \/ Decide(dev, FtwRestart \o FtwAbort)
  <2>1. /\ Typed' /\ Safe(work)' /\ work' = work /\ call' = call
        /\ prog' \in {PRefAbort, Push("refresh", PRestart("Init"))}
    BY <1>4, TypeFacts, Decided, ServicePrograms
  <2>2. InRefresh'
    BY <1>2, <2>1 DEF InRefresh, PRefAbort, AfterReady
  <2>3. QED
    BY <2>1, <2>2 DEF IInv
<1>5. QED
  BY <1>3, <1>4 DEF CheckSpare

-----------------------------------------------------------------------------
(***************************************************************************)
(* Clients, and the theorems.                                              *)
(***************************************************************************)

\* Between calls the work space is ready.
LEMMA IdleIsReady ==
  ASSUME IInv, call = "none"
  PROVE  Ready(work)
<1>1. ~InEnd /\ ~InStart
  BY DEF InEnd, InStart, InValid, InFirst, InLast, InEmpty, InISpare
<1>2. ~InService
  BY DEF InService, InAllocate, InHeader, InBit, InWrite, InCheck, InRecord, InErase,
     InSpare,
     InCommit, InClear, InFlush, InDest, InDone, InRestore, InRestart, InGetLast, InAbort
<1>3. /\ \A t : ~(AfterReady(t) \/ AfterValid(t) \/ AfterSafe(t))
      /\ \A t : ~AfterReclaim(t) /\ ~AfterFlush(t)
  <2>1. \A t : ~(AfterReady(t) \/ AfterValid(t) \/ AfterSafe(t))
    BY DEF AfterReady, AfterValid, AfterSafe
  <2>2. \A t : ~AfterReclaim(t)
    BY <2>1 DEF AfterReclaim
  <2>3. QED
    BY <2>1, <2>2 DEF AfterFlush
<1>4. ~InRefresh /\ ~InReclaim
  BY <1>3 DEF InRefresh, InReclaim, InCollect, InEraseR, InCopy, InSpareV, InWorkI,
     InEraseW,
     InWriteW, InWorkV, InRestoreR, InReread
<1>5. QED
  BY <1>1, <1>2, <1>4 DEF IInv, InIdle

\* A client's call keeps the invariant.
LEMMA ClientCallStep ==
  ASSUME Setting, IInv, ClientCall
  PROVE  IInv'
<1>1. call = "none" /\ work' = work /\ spare' = spare /\ target' = target
  BY DEF ClientCall, Idle
<1>2. Ready(work)
  BY <1>1, IdleIsReady
<1>3. /\ dev' = NoDev
      /\ \/ call' = "Allocate" /\ arg' \in AllocSizes /\ prog' = FtwAllocate
         \/ call' = "Write" /\ arg' \in Requests /\ prog' = FtwWrite
         \/ call' = "Restart" /\ arg' = NoRequest /\ prog' = FtwRestart
         \/ call' = "Abort" /\ arg' = NoRequest /\ prog' = FtwAbort
         \/ call' = "GetLastWrite" /\ arg' = NoRequest /\ prog' = FtwGetLastWrite
  BY DEF ClientCall, Starts
<1>4. Typed' /\ Safe(work)' /\ Ready(work)'
  <2>1. AllocSizes \subseteq {1}
    BY DEF Setting, SingleWrites
  <2>2. Safe(work)' /\ Ready(work)'
    BY <1>1, <1>2, TypeFacts
  <2>3. FlashTyped'
    BY <1>1, TypeFacts DEF FlashTyped
  <2>4. QED
    BY <1>3, <2>1, <2>2, <2>3, NoDevFacts DEF Typed, FtwTypeOK, FlashTyped,
       TargetType, DevType
<1>5. InRefresh'
  BY <1>3, <1>4, ServicePrograms DEF InRefresh, PRefAbort, AfterReady
<1>6. QED
  BY <1>4, <1>5 DEF IInv

\* So it is when a service has no step left.
LEMMA EndIsReady ==
  ASSUME IInv, prog = <<>>
  PROVE  Ready(work)
<1>1. ASSUME NEW op \in Ops, NEW t, First(op, t) PROVE FALSE
  BY <1>1, FirstFacts
<1>2. ~InService /\ ~InStart /\ ~InReclaim /\ ~InRefresh
  BY <1>1, ServicePlaces, StartPlaces, ReclaimPlaces DEF InService, InStart, InReclaim,
     Ops
<1>3. InIdle \/ InEnd
  BY <1>2 DEF IInv
<1>4. QED
  BY <1>3 DEF InIdle, InEnd

\* A service returns.
LEMMA ReturnStep ==
  ASSUME Setting, IInv, Return
  PROVE  IInv'
<1>1. prog = <<>> /\ Ends /\ work' = work /\ spare' = spare /\ target' = target
  BY DEF Return
<1>2. Ready(work)
  BY <1>1, EndIsReady
<1>3. FlashTyped' /\ Ready(work)'
  BY <1>1, <1>2, TypeFacts DEF FlashTyped
<1>4. QED
  BY <1>1, <1>3, Finished

\* A power failure between calls keeps the invariant.
LEMMA ResetStep ==
  ASSUME Setting, IInv, Reset
  PROVE  IInv'
<1>1. /\ Starts("Init", NoRequest, InitFtwProtocol)
      /\ work' = work /\ spare' = spare /\ target' = target
  BY DEF Reset
<1>2. FlashTyped' /\ Safe(work)'
  BY <1>1, TypeFacts DEF FlashTyped
<1>3. QED
  BY <1>1, <1>2, Restarted

\* The first state of the flash satisfies the invariant.
LEMMA InitIInv ==
  ASSUME Init
  PROVE  IInv
<1>1. work = ErasedWork /\ spare = ErasedSpare /\ dev = NoDev /\ call = "Init" /\ arg = NoRequest
      /\ prog = Push("refresh", PIValid) /\ target \in [Lbas -> [Cells -> Values]]
  BY ServicePrograms DEF Init
<1>2. Typed
  BY <1>1, NoDevFacts DEF Typed, FtwTypeOK, DevType
<1>3. Safe(work)
  BY <1>1, EmptyFacts DEF Safe, ErasedWork
<1>4. InRefresh
  BY <1>1 DEF InRefresh, AfterSafe
<1>5. QED
  BY <1>2, <1>3, <1>4 DEF IInv

\* A step that changes nothing.
LEMMA Stutters ==
  ASSUME IInv, UNCHANGED vars
  PROVE  IInv'
<1>1. /\ work' = work /\ spare' = spare /\ target' = target /\ dev' = dev /\ prog' = prog
      /\ call' = call /\ arg' = arg
  BY DEF vars
<1>2. Typed' /\ Safe(work)'
  BY <1>1, TypeFacts, TypedAfter
<1>3. /\ Synced => Synced'
      /\ Amid => Amid'
      /\ Closed => Closed'
      /\ Left => Left'
      /\ Gone => Gone'
      /\ Renewed => Renewed'
      /\ Ready(work) => Ready(work)'
      /\ SafeValid(work) => SafeValid(work)'
  BY <1>1 DEF Synced, Amid, Closed, Left, Gone, Renewed
<1>4. /\ \A t : AfterReady(t) => AfterReady(t)'
      /\ \A t : AfterValid(t) => AfterValid(t)'
      /\ \A t : AfterSafe(t) => AfterSafe(t)'
  BY <1>1 DEF AfterReady, AfterValid, AfterSafe
<1>5. /\ \A t : AfterReclaim(t) => AfterReclaim(t)'
      /\ \A t : AfterFlush(t) => AfterFlush(t)'
  BY <1>1, AfterSame
<1>6. /\ InIdle => InIdle'
      /\ InEnd => InEnd'
      /\ InAllocate => InAllocate'
      /\ InHeader => InHeader'
      /\ InBit => InBit'
      /\ InWrite => InWrite'
  BY <1>1, <1>3 DEF InIdle, InEnd, InAllocate, InHeader, InBit, InWrite
<1>7. /\ InCheck => InCheck'
      /\ InRecord => InRecord'
      /\ InErase => InErase'
      /\ InSpare => InSpare'
      /\ InCommit => InCommit'
      /\ InClear => InClear'
  BY <1>1, <1>3 DEF InCheck, InRecord, InErase, InSpare, InCommit, InClear
<1>8. /\ InFlush => InFlush'
      /\ InDest => InDest'
      /\ InDone => InDone'
      /\ InRestore => InRestore'
      /\ InRestart => InRestart'
      /\ InGetLast => InGetLast'
      /\ InAbort => InAbort'
  BY <1>1, <1>3 DEF InFlush, InDest, InDone, InRestore, InRestart, InGetLast, InAbort
<1>9. /\ InValid => InValid'
      /\ InFirst => InFirst'
      /\ InLast => InLast'
      /\ InEmpty => InEmpty'
      /\ InISpare => InISpare'
  BY <1>1, <1>3 DEF InValid, InFirst, InLast, InEmpty, InISpare
<1>10. InRefresh => InRefresh'
  BY <1>1, <1>3, <1>4, <1>5 DEF InRefresh
<1>11. InCollect => InCollect'
  BY <1>1, <1>3, <1>4, <1>5 DEF InCollect
<1>12. InEraseR => InEraseR'
  BY <1>1, <1>3, <1>4, <1>5 DEF InEraseR
<1>13. InCopy => InCopy'
  BY <1>1, <1>3, <1>4, <1>5 DEF InCopy
<1>14. InSpareV => InSpareV'
  BY <1>1, <1>3, <1>4, <1>5 DEF InSpareV
<1>15. InWorkI => InWorkI'
  BY <1>1, <1>3, <1>4, <1>5 DEF InWorkI
<1>16. InEraseW => InEraseW'
  BY <1>1, <1>3, <1>4, <1>5 DEF InEraseW
<1>17. InWriteW => InWriteW'
  BY <1>1, <1>3, <1>4, <1>5 DEF InWriteW
<1>18. InWorkV => InWorkV'
  BY <1>1, <1>3, <1>4, <1>5 DEF InWorkV
<1>19. InRestoreR => InRestoreR'
  BY <1>1, <1>3, <1>4, <1>5 DEF InRestoreR
<1>20. InReread => InReread'
  BY <1>1, <1>3, <1>4, <1>5 DEF InReread
<1>21. QED
  BY <1>2, <1>6, <1>7, <1>8, <1>9, <1>10, <1>11, <1>12, <1>13, <1>14, <1>15, <1>16,
     <1>17, <1>18, <1>19, <1>20
     DEF IInv, InService, InStart, InReclaim

\* Every step keeps the invariant.
LEMMA NextIInv ==
  ASSUME Setting, IInv, [Next]_vars
  PROVE  IInv'
<1>1. CASE ReclaimStep
  BY <1>1, WorkSpaceRefreshStep, RereadStep, CollectStep, ReclaimEraseStep,
     ReclaimCopyStep,
     ReclaimRestoreStep, SpareValidStep, WorkInvalidStep, EraseWorkStep, WriteWorkStep,
     WorkValidStep DEF ReclaimStep
<1>2. CASE ServiceStep
  BY <1>2, AllocateStep, WriteHeaderStep, WritesAllocatedStep, WriteStep, CheckWriteStep,
     WriteRecordStep, EraseSpareStep, WriteSpareStep, SpareCompleteStep, RestoreSpareStep,
     EraseTargetStep, WriteTargetStep, DestCompleteStep, WritesCompleteStep, RestartStep,
     AbortStep, GetLastWriteStep DEF ServiceStep
<1>3. CASE InitStep
  BY <1>3, CheckValidStep, CheckFirstStep, CheckLastStep, CheckEmptyStep, CheckSpareStep
     DEF InitStep
<1>4. CASE ClientCall \/ Return \/ Reset
  BY <1>4, ClientCallStep, ReturnStep, ResetStep
<1>5. CASE UNCHANGED vars
  BY <1>5, Stutters
<1>6. QED
  BY <1>1, <1>2, <1>3, <1>4, <1>5 DEF Next

\* The invariant of the queue and of the driver's programs.
LEMMA Invariance ==
  Setting => (Spec => []IInv)
<1>1. SUFFICES ASSUME Setting PROVE Spec => []IInv
  OBVIOUS
<1>2. Init => IInv
  BY InitIInv
<1>3. IInv /\ [Next]_vars => IInv'
  BY <1>1, NextIInv
<1>4. QED
  BY <1>2, <1>3, PTL DEF Spec

\* Types of the flash and of the driver's memory.
THEOREM FtwTypes ==
  Setting => (Spec => []FtwTypeOK)
<1>1. SUFFICES ASSUME Setting PROVE Spec => []FtwTypeOK
  OBVIOUS
<1>2. IInv => FtwTypeOK
  BY DEF IInv, Typed
<1>3. Spec => []IInv
  BY <1>1, Invariance
<1>4. QED
  BY <1>2, <1>3, PTL

\* Between calls the work space is valid and erased behind its last write.
THEOREM QueueStaysTidy ==
  Setting => (Spec => []QueueTidy)
<1>1. SUFFICES ASSUME Setting PROVE Spec => []QueueTidy
  OBVIOUS
<1>2. ASSUME IInv PROVE QueueTidy
  <2>1. ASSUME Idle PROVE Ready(work)
    BY <1>2, <2>1, IdleIsReady DEF Idle
  <2>2. ASSUME Ready(work)
        PROVE  /\ IsValidWorkSpace(work.hdr)
               /\ EmptyAfter(work.queue, FtwGetLastWriteHeader(work.queue).h)
    BY <1>2, <2>2, TypeFacts, CleanIsTidy DEF Ready, IsValidWorkSpace
  <2>3. QED
    BY <2>1, <2>2 DEF QueueTidy
<1>3. Spec => []IInv
  BY <1>1, Invariance
<1>4. QED
  BY <1>2, <1>3, PTL

-----------------------------------------------------------------------------
(***************************************************************************)
(* The data.                                                               *)
(***************************************************************************)

\* A write whose spare copy is complete and whose destination is not.
PendingAt(w, h) ==
  /\ w.hdr = "Valid" /\ Listed(w.queue, h)
  /\ 2 \in w.queue[h + 1].bits /\ 4 \notin w.queue[h + 1].bits
Calm(w) == \A h \in Slots : ~PendingAt(w, h)

\* Every block has contents, and a pending record names a target block.
Sound == /\ \A l \in Lbas : Contents(l) \in [Cells -> Values]
         /\ \A h \in Slots : PendingAt(work, h) => work.queue[h + 1].lba \in Lbas

\* What an earlier attempt has left in the record leaves room for the address.
Fits == call = "Write" =>
          \A h \in Slots : Listed(work.queue, h) => arg.lba \subseteq work.queue[h + 1].lba

Second(step) == Tail(prog) # <<>> /\ Head(Tail(prog)) = step

\* Where the header or the spare copy of a pending write would be lost.
Careful ==
  \/ prog = <<>> /\ call = "Init"
  \/ At("abort") \/ (At("refresh") /\ Second("abort"))
  \/ At("write_record") \/ At("erase_spare") \/ At("write_spare") \/ At("spare_complete")
  \/ At("writes_complete") \/ At("restore_spare") \/ At("writes_allocated")

\* Before the spare copy is declared complete, the record has neither bit, and once it
\* is written it names the block of the request.
Unwritten == work.queue[dev.r].bits \cap {2, 4} = {}
Addressed == dev.ws.queue[dev.r].lba = arg.lba /\ work.queue[dev.r].lba = arg.lba

\* The record on its way from the spare block to the target, in flash and memory.
Moving == PendingAt(work, dev.h) /\ dev.ws.queue[dev.r].lba = work.queue[dev.r].lba

Placed ==
  /\ At("write_record") => Unwritten
  /\ \/ At("write_spare") \/ At("spare_complete")
     \/ At("erase_spare") /\ Second("write_spare")
     => Unwritten /\ Addressed
  /\ At("spare_complete") => spare.data = Overlay(target[arg.lba], arg)
  /\ At("erase_target") \/ At("write_target") \/ At("dest_complete") => Moving
  /\ At("dest_complete") => target[work.queue[dev.r].lba] = spare.data

DInv == Sound /\ Fits /\ (Careful => Calm(work)) /\ Placed

\* Contents, of a work space, a spare block and target blocks.
Read(w, s, t, l) ==
  LET q == IF IsValidWorkSpace(w.hdr) THEN w.queue
           ELSE IF IsValidWorkSpace(s.hdr) THEN s.queue ELSE EmptyQueue
  IN  IF IsPending(q) /\ q[LastRecordIn(q)].lba = l THEN s.data ELSE t[l]

\* The empty queue has nothing pending.
LEMMA EmptyNotPending ==
  ~IsPending(EmptyQueue)
<1>1. /\ FtwGetLastWriteHeader(EmptyQueue).h = 1 /\ 1 \in Slots
      /\ EmptyQueue[1].bits = {}
  BY EmptyFacts, SlotFacts
<1>2. QED
  BY <1>1 DEF IsPending, Has, HEADER_ALLOCATED

\* In a queue that is safe, what is pending is the record of a listed header.
LEMMA PendingIsListed ==
  ASSUME NEW q \in Queues, Shape(q), IsPending(q)
  PROVE  \E h \in Slots : /\ Listed(q, h) /\ LastRecordIn(q) = h + 1
                          /\ 2 \in q[h + 1].bits /\ 4 \notin q[h + 1].bits
<1> DEFINE last == FtwGetLastWriteHeader(q)
           r == FtwGetLastWriteRecord(q, last.h)
<1>1. /\ last.ok /\ 1 \in q[last.h].bits /\ r \in Slots /\ 2 \in q[r].bits /\ 4 \notin q[r].bits
  BY DEF IsPending, Has, HEADER_ALLOCATED, SPARE_COMPLETED, DEST_COMPLETED
<1>2. ~Ended(q)
  BY <1>1, LastHeader
<1>3. PICK h \in Slots : Frayed(q, h) \/ Listed(q, h) \/ Partial(q, h)
  BY <1>2 DEF Shape
<1>4. last.h = h
  <2>1. Open(q, h)
    BY <1>3 DEF Frayed, Listed, Partial
  <2>2. FtwGetLastWriteHeader(q) = [ok |-> TRUE, h |-> h]
    BY <2>1, LastHeader
  <2>3. QED
    BY <2>2
<1>5. ~Frayed(q, h)
  BY <1>1, <1>4 DEF Frayed
<1>6. h < QueueSize /\ h + 1 \in Slots
  BY <1>3, <1>5, SlotFacts DEF Listed, Partial
<1>7. ASSUME Partial(q, h) PROVE FALSE
  <2>1. q[h + 1].bits = {}
    BY <1>6, <1>7, SlotFacts, EmptyFacts DEF Partial, BlankFrom
  <2>2. r = h + 1
    BY <1>4, <1>6, <2>1, FirstRecord
  <2>3. QED
    BY <1>1, <2>1, <2>2
<1>8. Listed(q, h)
  BY <1>3, <1>5, <1>7
<1>9. r = h + 1
  BY <1>4, <1>6, <1>8, FirstRecord DEF Listed
<1>10. LastRecordIn(q) = r
  BY DEF LastRecordIn
<1>11. QED
  BY <1>1, <1>8, <1>9, <1>10

\* The record of a listed header is pending when its spare copy is complete and its
\* destination is not.
LEMMA ListedPending ==
  ASSUME NEW q \in Queues, NEW h \in Slots, Listed(q, h)
  PROVE  /\ h < QueueSize /\ h + 1 \in Slots /\ LastRecordIn(q) = h + 1
         /\ 2 \in q[h + 1].bits /\ 4 \notin q[h + 1].bits => IsPending(q)
<1>1. h < QueueSize /\ h + 1 \in Slots /\ 1 \in q[h].bits /\ q[h].n = 1
  BY SlotFacts DEF Listed
<1>2. FtwGetLastWriteHeader(q) = [ok |-> TRUE, h |-> h]
  BY LastHeader DEF Listed
<1>3. FtwGetLastWriteRecord(q, h) = h + 1
  BY <1>1, FirstRecord
<1>4. QED
  BY <1>1, <1>2, <1>3
     DEF IsPending, LastRecordIn, Has, HEADER_ALLOCATED, SPARE_COMPLETED, DEST_COMPLETED

\* Without a pending write a block has what its target has.
LEMMA ReadCalm ==
  ASSUME NEW w \in WorkType, Safe(w), Calm(w), NEW s, s.queue = EmptyQueue, NEW t, NEW l
  PROVE  Read(w, s, t, l) = t[l]
<1>1. w.queue \in Queues
  BY DEF WorkType, Queues
<1>2. CASE w.hdr = "Valid"
  <2>1. Shape(w.queue)
    BY <1>2 DEF Safe
  <2>2. ~IsPending(w.queue)
    BY <1>1, <1>2, <2>1, PendingIsListed DEF Calm, PendingAt
  <2>3. QED
    BY <1>2, <2>2 DEF Read, IsValidWorkSpace
<1>3. CASE w.hdr # "Valid"
  BY <1>3, EmptyNotPending DEF Read, IsValidWorkSpace
<1>4. QED
  BY <1>2, <1>3

\* The block of a pending write has what the spare block has.
LEMMA ReadPending ==
  ASSUME NEW w \in WorkType, NEW h \in Slots, PendingAt(w, h), NEW s, NEW t, NEW l
  PROVE  Read(w, s, t, l) = IF w.queue[h + 1].lba = l THEN s.data ELSE t[l]
<1>1. w.queue \in Queues
  BY DEF WorkType, Queues
<1>2. IsPending(w.queue) /\ LastRecordIn(w.queue) = h + 1
  BY <1>1, ListedPending DEF PendingAt
<1>3. QED
  BY <1>2 DEF Read, IsValidWorkSpace, PendingAt

\* There is at most one pending write, that of the last header.
LEMMA OnlyListed ==
  ASSUME NEW q \in Queues, NEW h \in Slots, Open(q, h)
  PROVE  \A k \in Slots : Listed(q, k) => k = h
BY OneHeader DEF Listed

\* No write is pending when the one at the last header is not.
LEMMA CalmAtHeader ==
  ASSUME NEW w, w.queue \in Queues, NEW h \in Slots, Open(w.queue, h),
         Listed(w.queue, h) => 2 \notin w.queue[h + 1].bits \/ 4 \in w.queue[h + 1].bits
  PROVE  Calm(w)
BY OnlyListed DEF Calm, PendingAt

\* A queue whose headers are complete, or whose last one has no state bit, lists nothing.
LEMMA DeadListsNothing ==
  ASSUME NEW q \in Queues, Dead(q)
  PROVE  \A h \in Slots : ~Listed(q, h)
<1> SUFFICES ASSUME NEW h \in Slots, Listed(q, h) PROVE FALSE
  OBVIOUS
<1>1. Open(q, h) /\ 1 \in q[h].bits
  BY DEF Listed
<1>2. ~Ended(q)
  BY <1>1, OneHeader
<1>3. PICK k \in Slots : Unused(q, k)
  BY <1>2 DEF Dead
<1>4. k = h
  BY <1>1, <1>3, OneHeader DEF Unused
<1>5. QED
  BY <1>1, <1>3, <1>4 DEF Unused

\* No write is pending in a queue that waits for a reclaim.
LEMMA DeadIsCalm ==
  ASSUME NEW w \in WorkType, Dead(w.queue)
  PROVE  Calm(w)
<1>1. w.queue \in Queues
  BY DEF WorkType, Queues
<1>2. QED
  BY <1>1, DeadListsNothing DEF Calm, PendingAt

-----------------------------------------------------------------------------
(***************************************************************************)
(* Steps that change no block.                                             *)
(***************************************************************************)

\* The programs in which the write has not happened.
Asked(p) == \E i \in DOMAIN p : p[i] \in {"write", "check_write", "spare_complete"}

\* What every step is shown to do.
Kept == DInv' /\ [Promise!Next]_(Promise!vars)

Stopped == Starts("Init", NoRequest, InitFtwProtocol) \/ Ends

\* A flash operation that is cut off.
Cut(w, s, t) ==
  /\ \E h \in {work.hdr, w.hdr}, q \in TornQueue(work.queue, w.queue) :
       work' = [hdr |-> h, queue |-> q]
  /\ \E h \in {spare.hdr, s.hdr}, q \in TornQueue(spare.queue, s.queue),
        c \in Torn(spare.data, s.data) :
       spare' = [hdr |-> h, queue |-> q, data |-> c]
  /\ \E b \in {b \in Lbas : target[b] # t[b]} \cup {CHOOSE b \in Lbas : TRUE} :
       \E c \in Torn(target[b], t[b]) : target' = [target EXCEPT ![b] = c]
  /\ Stopped

\* A flash operation is done whole, or cut off and reported or not.
LEMMA FlashCases ==
  ASSUME NEW w, NEW s, NEW t, NEW d, Flash(w, s, t, d)
  PROVE  Whole(w, s, t, d) \/ Cut(w, s, t)
BY DEF Flash, Whole, Cut, Stopped

\* What is not written does not change.
LEMMA CutFacts ==
  ASSUME IInv, NEW w \in WorkType, NEW s \in SpareType, NEW t \in TargetType, Cut(w, s, t)
  PROVE  /\ \E h \in {work.hdr, w.hdr}, q \in TornQueue(work.queue, w.queue) :
              work' = [hdr |-> h, queue |-> q]
         /\ w = work => work' = work
         /\ s = spare => spare' = spare
         /\ \A l \in Lbas : t[l] = target[l] => target'[l] = target[l]
         /\ t = target => target' = target
         /\ Stopped
<1>1. /\ work \in WorkType /\ spare \in SpareType /\ target \in TargetType
      /\ work.queue \in Queues /\ spare.queue \in Queues
  BY TypeFacts, EmptyFacts
<1>2. PICK h \in {work.hdr, w.hdr}, q \in TornQueue(work.queue, w.queue) :
        work' = [hdr |-> h, queue |-> q]
  BY DEF Cut
<1>3. w = work => work' = work
  <2> SUFFICES ASSUME w = work PROVE work' = work
    OBVIOUS
  <2>1. q = work.queue /\ h = work.hdr
    BY <1>1, TornSame
  <2>2. QED
    BY <1>1, <1>2, <2>1 DEF WorkType
<1>4. s = spare => spare' = spare
  <2> SUFFICES ASSUME s = spare PROVE spare' = spare
    OBVIOUS
  <2>1. PICK g \in {spare.hdr}, p \in TornQueue(spare.queue, spare.queue),
             c \in Torn(spare.data, spare.data) :
          spare' = [hdr |-> g, queue |-> p, data |-> c]
    BY DEF Cut
  <2>2. p = spare.queue
    BY <1>1, TornSame
  <2>3. spare.data \in [Cells -> Values \cup {Erased}]
    BY <1>1 DEF SpareType
  <2>4. c = spare.data
    BY <2>3 DEF Torn
  <2>5. QED
    BY <1>1, <2>1, <2>2, <2>4 DEF SpareType
<1>5. PICK b \in {b \in Lbas : target[b] # t[b]} \cup {CHOOSE b \in Lbas : TRUE} :
        \E c \in Torn(target[b], t[b]) : target' = [target EXCEPT ![b] = c]
  BY DEF Cut
<1>6. PICK c \in Torn(target[b], t[b]) : target' = [target EXCEPT ![b] = c]
  BY <1>5
<1>7. ASSUME NEW l \in Lbas, t[l] = target[l] PROVE target'[l] = target[l]
  <2>1. CASE b # l
    BY <1>1, <1>6, <2>1 DEF TargetType
  <2>2. CASE b = l
    <3>1. target[l] \in [Cells -> Values \cup {Erased}]
      BY <1>1 DEF TargetType
    <3>2. c = target[l]
      BY <1>7, <2>2, <3>1 DEF Torn
    <3>3. QED
      BY <1>1, <1>6, <2>2, <3>2 DEF TargetType
  <2>3. QED
    BY <2>1, <2>2
<1>8. t = target => target' = target
  <2> SUFFICES ASSUME t = target PROVE target' = target
    OBVIOUS
  <2>1. \A l \in Lbas : target'[l] = target[l]
    BY <1>7
  <2>2. QED
    BY <1>1, <1>6, <2>1 DEF TargetType
<1>9. QED
  BY <1>2, <1>3, <1>4, <1>7, <1>8 DEF Cut

\* Contents, before and after a step, as a function of the flash.
LEMMA ContentsRead ==
  /\ \A l : Contents(l) = Read(work, spare, target, l)
  /\ \A l : Contents(l)' = Read(work', spare', target', l)
BY DEF Contents, Read, WorkSpaceQueue

\* The types after a step that keeps the invariant.
LEMMA NextTypes ==
  ASSUME IInv'
  PROVE  /\ work' \in WorkType /\ Safe(work') /\ spare' \in SpareType
         /\ spare'.queue = EmptyQueue /\ work'.queue \in Queues
BY DEF IInv, Typed, FtwTypeOK, WorkType, Queues, Safe

\* Without a pending write before and after, the blocks are the targets.
LEMMA Quiet ==
  ASSUME IInv, IInv', Sound, Calm(work), Calm(work'), target' = target
  PROVE  Sound' /\ \A l \in Lbas : Contents(l)' = Contents(l)
<1>1. \A l : Contents(l) = target[l]
  BY TypeFacts, ReadCalm, ContentsRead
<1>2. \A l : Contents(l)' = target'[l]
  BY NextTypes, ReadCalm, ContentsRead
<1>3. \A h \in Slots : ~PendingAt(work, h)'
  BY DEF Calm, PendingAt
<1>4. \A l \in Lbas : Contents(l)' = Contents(l)
  BY <1>1, <1>2
<1>5. QED
  BY <1>3, <1>4 DEF Sound

\* Whether a write is still to happen, of a program with a step put before it.
LEMMA AskedPush ==
  ASSUME NEW op \in Ops, NEW t \in Progs
  PROVE  Asked(Push(op, t)) <=> op \in {"write", "check_write", "spare_complete"} \/ Asked(t)
<1>1. t \in Seq(Ops) /\ Push(op, t) \in Seq(Ops) /\ Len(t) \in Nat
  BY DEF Push, Progs
<1>2. DOMAIN Push(op, t) = 1 .. Len(t) + 1 /\ DOMAIN t = 1 .. Len(t)
  BY <1>1 DEF Push
<1>3. Push(op, t)[1] = op /\ \A i \in 1 .. Len(t) : Push(op, t)[i + 1] = t[i]
  BY <1>1 DEF Push
<1> HIDE DEF Push
<1>4. ASSUME NEW i \in 1 .. Len(t) + 1 PROVE i = 1 \/ i - 1 \in 1 .. Len(t)
  BY <1>1
<1>5. \A i \in 1 .. Len(t) : i + 1 \in 1 .. Len(t) + 1 /\ (i + 1) - 1 = i
  BY <1>1
<1>6. 1 \in 1 .. Len(t) + 1
  BY <1>1
<1>7. ASSUME Asked(Push(op, t))
      PROVE  op \in {"write", "check_write", "spare_complete"} \/ Asked(t)
  <2>1. PICK i \in 1 .. Len(t) + 1 :
          Push(op, t)[i] \in {"write", "check_write", "spare_complete"}
    BY <1>2, <1>7 DEF Asked
  <2>2. CASE i = 1
    BY <1>3, <2>1, <2>2
  <2>3. CASE i - 1 \in 1 .. Len(t)
    <3>1. Push(op, t)[(i - 1) + 1] = t[i - 1] /\ (i - 1) + 1 = i
      BY <1>1, <1>3, <2>3
    <3>2. QED
      BY <1>2, <2>1, <2>3, <3>1 DEF Asked
  <2>4. QED
    BY <1>4, <2>2, <2>3
<1>8. op \in {"write", "check_write", "spare_complete"} => Asked(Push(op, t))
  BY <1>2, <1>3, <1>6 DEF Asked
<1>9. Asked(t) => Asked(Push(op, t))
  BY <1>2, <1>3, <1>5 DEF Asked
<1>10. QED
  BY <1>7, <1>8, <1>9

SpareOps == {"write_record", "write_spare", "spare_complete", "erase_spare", "erase_target",
             "write_target", "dest_complete"}
CarefulOps == {"abort", "refresh", "write_record", "erase_spare", "write_spare",
               "spare_complete", "writes_complete", "restore_spare", "writes_allocated"}

\* What is required of the state depends on the step that comes next.
LEMMA Elsewhere ==
  ASSUME NEW op \in Ops, NEW t \in Progs, prog' = Push(op, t)
  PROVE  /\ \A step : At(step)' => step = op
         /\ op \notin SpareOps => Placed'
         /\ op \notin CarefulOps => ~Careful'
         /\ op = "refresh" /\ ~(t # <<>> /\ Head(t) = "abort") => ~Careful'
<1>1. prog' # <<>> /\ Head(prog') = op /\ Tail(prog') = t
  BY PushFacts
<1>2. \A step : At(step)' => step = op
  BY <1>1 DEF At
<1>3. op \notin SpareOps => Placed'
  BY <1>2 DEF Placed, SpareOps
<1>4. op \notin CarefulOps => ~Careful'
  BY <1>1, <1>2 DEF Careful, CarefulOps
<1>5. op = "refresh" /\ ~(t # <<>> /\ Head(t) = "abort") => ~Careful'
  BY <1>1, <1>2 DEF Careful, Second
<1>6. QED
  BY <1>2, <1>3, <1>4, <1>5

\* The end of a service is no careful place.
LEMMA Finally ==
  ASSUME prog' = <<>>
  PROVE  Placed' /\ (call' # "Init" => ~Careful')
BY DEF Placed, Careful, At, Second

\* A service that ends without a change of the blocks.
LEMMA Stops ==
  ASSUME Stopped, \A l \in Lbas : Contents(l)' = Contents(l)
  PROVE  [Promise!Next]_(Promise!vars)
<1>1. Phase' = "idle" /\ call' # "Write"
  BY DEF Stopped, Starts, Ends, Phase
<1>2. CASE call = "Write"
  <2>1. Phase # "idle"
    BY <1>2 DEF Phase
  <2>2. Promise!End
    BY <1>1, <1>2, <2>1 DEF Promise!End
  <2>3. QED
    BY <2>2 DEF Promise!Next
<1>3. CASE call # "Write"
  <2>1. Phase = "idle"
    BY <1>3 DEF Phase
  <2>2. QED
    BY <1>1, <1>3, <2>1 DEF Promise!vars
<1>4. QED
  BY <1>2, <1>3

\* A step within a service.
LEMMA Goes ==
  ASSUME call' = call, arg' = arg, call = "Write" => (Asked(prog') <=> Asked(prog)),
         \A l \in Lbas : Contents(l)' = Contents(l)
  PROVE  [Promise!Next]_(Promise!vars)
<1>1. Phase' = Phase
  BY DEF Phase, Asked
<1>2. QED
  BY <1>1 DEF Promise!vars

\* After a service nothing in particular is required but that the blocks are sound.
LEMMA StoppedFacts ==
  ASSUME Stopped, Sound'
  PROVE  DInv' /\ Phase' = "idle" /\ call' # "Write"
<1>1. Fits'
  BY DEF Fits, Stopped, Starts, Ends
<1>2. Placed' /\ ~Careful'
  <2>1. CASE Ends
    BY <2>1, Finally DEF Ends, Starts
  <2>2. CASE Starts("Init", NoRequest, InitFtwProtocol)
    <3>1. prog' = Push("refresh", PIValid) /\ PIValid \in Progs
      BY <2>2, ServicePrograms, PlaceTypes DEF Starts
    <3>2. PIFirst \in Progs /\ "refresh" \in Ops /\ "check_valid" \in Ops
      BY PlaceTypes, OpNames
    <3>3. PIValid # <<>> /\ Head(PIValid) = "check_valid"
      BY <3>2, PushFacts DEF PIValid
    <3>4. QED
      BY <3>1, <3>2, <3>3, Elsewhere DEF SpareOps
  <2>3. QED
    BY <2>1, <2>2 DEF Stopped
<1>3. Phase' = "idle" /\ call' # "Write"
  BY DEF Stopped, Starts, Ends, Phase
<1>4. QED
  BY <1>1, <1>2, <1>3 DEF DInv

\* A service that stops with the contents unchanged is a stutter of AtomicWrite.
LEMMA StoppedKept ==
  ASSUME Stopped, Sound', \A l \in Lbas : Contents(l)' = Contents(l)
  PROVE  Kept
BY StoppedFacts, Stops DEF Kept

\* A flash operation, between states without a pending write, that leaves the targets.
LEMMA FlashKept ==
  ASSUME IInv, IInv', DInv, NEW w \in WorkType, NEW s \in SpareType, NEW d,
         Flash(w, s, target, d), Calm(work), Calm(w),
         \A h \in {work.hdr, w.hdr}, q \in TornQueue(work.queue, w.queue) :
           Calm([hdr |-> h, queue |-> q]),
         NEW op \in Ops, NEW t, First(op, t), op \notin {"write", "check_write", "spare_complete"},
         Whole(w, s, target, d) => Fits' /\ Placed'
  PROVE  Kept
<1>1. Sound
  BY DEF DInv
<1>2. target \in TargetType
  BY TypeFacts
<1>3. CASE Whole(w, s, target, d)
  <2>1. work' = w /\ target' = target /\ call' = call /\ arg' = arg /\ prog' = Tail(prog)
    BY <1>3 DEF Whole
  <2>2. Sound' /\ \A l \in Lbas : Contents(l)' = Contents(l)
    BY <1>1, <2>1, Quiet
  <2>3. prog' = t /\ prog = Push(op, t) /\ t \in Progs
    BY <2>1, FirstFacts DEF First
  <2>4. Asked(prog') <=> Asked(prog)
    BY <2>3, AskedPush
  <2>5. [Promise!Next]_(Promise!vars)
    BY <2>1, <2>2, <2>4, Goes
  <2>6. Calm(work)'
    BY <2>1 DEF Calm, PendingAt
  <2>7. QED
    BY <1>3, <2>2, <2>5, <2>6 DEF Kept, DInv
<1>4. CASE Cut(w, s, target)
  <2>1. /\ Stopped /\ target' = target
        /\ \E h \in {work.hdr, w.hdr}, q \in TornQueue(work.queue, w.queue) :
             work' = [hdr |-> h, queue |-> q]
    BY <1>2, <1>4, CutFacts
  <2>2. Calm(work')
    BY <2>1
  <2>3. QED
    BY <1>1, <2>1, <2>2, Quiet, StoppedKept
<1>5. QED
  BY <1>3, <1>4, FlashCases

\* A decision of a service.
LEMMA DecideKept ==
  ASSUME DInv, NEW d, NEW p, Decide(d, p), Placed', Careful' => Calm(work),
         call = "Write" => (Asked(p) <=> Asked(prog))
  PROVE  Kept
<1>1. /\ prog' = p /\ work' = work /\ spare' = spare /\ target' = target
      /\ call' = call /\ arg' = arg
  BY DEF Decide
<1>2. \A l : Contents(l)' = Contents(l)
  BY <1>1, ContentsRead
<1>3. Sound'
  BY <1>1, <1>2 DEF DInv, Sound, PendingAt
<1>4. Fits'
  BY <1>1 DEF DInv, Fits
<1>5. Careful' => Calm(work)'
  BY <1>1 DEF Calm, PendingAt
<1>6. [Promise!Next]_(Promise!vars)
  BY <1>1, <1>2, Goes
<1>7. QED
  BY <1>3, <1>4, <1>5, <1>6 DEF Kept, DInv

\* A service that ends with nothing in flash changed.
LEMMA RefuseKept ==
  ASSUME DInv, Stopped, UNCHANGED <<work, spare, target>>
  PROVE  Kept
<1>1. \A l : Contents(l)' = Contents(l)
  BY ContentsRead
<1>2. Sound'
  BY <1>1 DEF DInv, Sound, PendingAt
<1>3. QED
  BY <1>1, <1>2, StoppedKept

\* The record that has been found is not pending.
LEMMA SyncedCalm ==
  ASSUME IInv, Synced, RecordHas(SPARE_COMPLETED) => RecordHas(DEST_COMPLETED)
  PROVE  Calm(work)
<1>1. /\ dev.h \in Slots /\ dev.h < QueueSize /\ work.queue \in Queues /\ work \in WorkType
      /\ Open(work.queue, dev.h) /\ Record = work.queue[dev.r]
  BY HeaderKinds, TypeFacts
<1>2. ASSUME Listed(work.queue, dev.h)
      PROVE  2 \notin work.queue[dev.h + 1].bits \/ 4 \in work.queue[dev.h + 1].bits
  <2>1. work.queue[dev.h].n = 1
    BY <1>2 DEF Listed
  <2>2. dev.r = dev.h + 1
    BY <1>1, <2>1, FirstRecord DEF Synced
  <2>3. QED
    BY <1>1, <2>2 DEF RecordHas, SPARE_COMPLETED, DEST_COMPLETED
<1>3. QED
  BY <1>1, <1>2, CalmAtHeader

\* Programs that begin with a step about which nothing in particular is required.
Plain(t) == t = <<>> \/ \E op \in Ops \ SpareOps, u \in Progs : t = Push(op, u)

\* A program without steps on the spare copy asks nothing of the data.
LEMMA PlainPlaced ==
  ASSUME NEW t, Plain(t), prog' = t
  PROVE  Placed'
BY Elsewhere, Finally DEF Plain

\* Such a program, when its first step is not on the spare copy.
LEMMA PlainPush ==
  ASSUME NEW op \in Ops, op \notin SpareOps, NEW t \in Progs
  PROVE  Plain(Push(op, t))
BY DEF Plain

\* The programs of FtwReclaimWorkSpace do not work on the spare copy.
LEMMA PlainReclaim ==
  ASSUME NEW t \in Progs
  PROVE  /\ Plain(RRestore(t)) /\ Plain(RErase2(t)) /\ Plain(RWorkValid(t))
         /\ Plain(RWriteWork(t)) /\ Plain(REraseWork(t)) /\ Plain(RInvalid2(t))
         /\ Plain(RValid2(t)) /\ Plain(RInvalid1(t)) /\ Plain(RValid1(t)) /\ Plain(RCopy(t))
         /\ Plain(RErase1(t))
<1>1. {RRestore(t), RErase2(t), RWorkValid(t), RWriteWork(t), REraseWork(t), RInvalid2(t),
       RValid2(t), RInvalid1(t), RValid1(t), RCopy(t), RErase1(t)} \subseteq Progs
  BY ReclaimTypes
<1>2. /\ "reclaim_restore" \in Ops \ SpareOps /\ "reclaim_erase" \in Ops \ SpareOps
      /\ "work_valid" \in Ops \ SpareOps /\ "write_work" \in Ops \ SpareOps
      /\ "erase_work" \in Ops \ SpareOps /\ "work_invalid" \in Ops \ SpareOps
      /\ "spare_valid" \in Ops \ SpareOps /\ "reclaim_copy" \in Ops \ SpareOps
  BY OpNames DEF SpareOps
<1>3. Plain(RRestore(t))
  BY <1>2, PlainPush DEF RRestore
<1>4. Plain(RErase2(t))
  BY <1>1, <1>2, PlainPush DEF RErase2
<1>5. Plain(RWorkValid(t))
  BY <1>1, <1>2, PlainPush DEF RWorkValid
<1>6. Plain(RWriteWork(t))
  BY <1>1, <1>2, PlainPush DEF RWriteWork
<1>7. Plain(REraseWork(t))
  BY <1>1, <1>2, PlainPush DEF REraseWork
<1>8. Plain(RInvalid2(t))
  BY <1>1, <1>2, PlainPush DEF RInvalid2
<1>9. Plain(RValid2(t))
  BY <1>1, <1>2, PlainPush DEF RValid2
<1>10. Plain(RInvalid1(t))
  BY <1>1, <1>2, PlainPush DEF RInvalid1
<1>11. Plain(RValid1(t))
  BY <1>1, <1>2, PlainPush DEF RValid1
<1>12. Plain(RCopy(t))
  BY <1>1, <1>2, PlainPush DEF RCopy
<1>13. Plain(RErase1(t))
  BY <1>1, <1>2, PlainPush DEF RErase1
<1>14. QED
  BY <1>3, <1>4, <1>5, <1>6, <1>7, <1>8, <1>9, <1>10, <1>11, <1>12, <1>13

\* A reclaim before a program leaves whether its write is still to happen.
LEMMA AskedReclaim ==
  ASSUME NEW t \in Progs
  PROVE  /\ Asked(Push("collect", RErase1(RErase2(t)))) <=> Asked(t)
         /\ Asked(Push("reread", t)) <=> Asked(t)
         /\ Asked(Push("refresh", t)) <=> Asked(t)
<1>1. {RRestore(t), RErase2(t)} \subseteq Progs
  BY ReclaimTypes
<1>2. /\ "reclaim_restore" \in Ops /\ "reclaim_erase" \in Ops /\ "work_valid" \in Ops
      /\ "write_work" \in Ops /\ "erase_work" \in Ops /\ "work_invalid" \in Ops
      /\ "spare_valid" \in Ops /\ "reclaim_copy" \in Ops /\ "collect" \in Ops
      /\ "reread" \in Ops /\ "refresh" \in Ops
  BY OpNames
<1>3. Asked(RErase2(t)) <=> Asked(t)
  BY <1>1, <1>2, AskedPush DEF RErase2, RRestore
<1>4. ASSUME NEW u \in Progs
      PROVE  RErase1(u) \in Progs /\ (Asked(RErase1(u)) <=> Asked(u))
  <2>1. {RWorkValid(u), RWriteWork(u), REraseWork(u), RInvalid2(u),
         RValid2(u), RInvalid1(u), RValid1(u), RCopy(u), RErase1(u)} \subseteq Progs
    BY ReclaimTypes
  <2>2. Asked(RWorkValid(u)) <=> Asked(u)
    BY <1>2, AskedPush DEF RWorkValid
  <2>3. Asked(RWriteWork(u)) <=> Asked(u)
    BY <1>2, <2>1, <2>2, AskedPush DEF RWriteWork
  <2>4. Asked(REraseWork(u)) <=> Asked(u)
    BY <1>2, <2>1, <2>3, AskedPush DEF REraseWork
  <2>5. Asked(RInvalid2(u)) <=> Asked(u)
    BY <1>2, <2>1, <2>4, AskedPush DEF RInvalid2
  <2>6. Asked(RValid2(u)) <=> Asked(u)
    BY <1>2, <2>1, <2>5, AskedPush DEF RValid2
  <2>7. Asked(RInvalid1(u)) <=> Asked(u)
    BY <1>2, <2>1, <2>6, AskedPush DEF RInvalid1
  <2>8. Asked(RValid1(u)) <=> Asked(u)
    BY <1>2, <2>1, <2>7, AskedPush DEF RValid1
  <2>9. Asked(RCopy(u)) <=> Asked(u)
    BY <1>2, <2>1, <2>8, AskedPush DEF RCopy
  <2>10. Asked(RErase1(u)) <=> Asked(u)
    BY <1>2, <2>1, <2>9, AskedPush DEF RErase1
  <2>11. QED
    BY <2>1, <2>10
<1>5. QED
  BY <1>1, <1>2, <1>3, <1>4, AskedPush

\* What follows a refresh, a reclaim and a flush.
AfterOps == {"abort", "allocate", "write", "restart", "get_last", "check_first", "check_valid"}

\* What can follow a refresh or a reclaim starts with a known step.
LEMMA AfterHeads ==
  ASSUME NEW t, AfterReady(t) \/ AfterValid(t) \/ AfterSafe(t)
  PROVE  \E op \in AfterOps, u \in Progs : t = Push(op, u)
<1>1. /\ {PISpare, PIEmpty, PILast, PIFirst, PAgain, <<>>} \subseteq Progs
      /\ PHeader(call) \in Progs
      /\ (IF call = "Init" THEN PRefAbort ELSE <<>>) \in Progs
  BY PlaceTypes
<1>2. /\ \E u \in Progs : PAbort = Push("abort", u)
      /\ \E u \in Progs : PAlloc(call) = Push("allocate", u)
      /\ \E u \in Progs : PWrite = Push("write", u)
      /\ \E u \in Progs : PRestart(call) = Push("restart", u)
      /\ \E u \in Progs : PGetLast = Push("get_last", u)
      /\ \E u \in Progs : PIFirst = Push("check_first", u)
      /\ \E u \in Progs : PIValid = Push("check_valid", u)
  BY <1>1 DEF PAbort, PAlloc, PWrite, PRestart, PGetLast, PIFirst, PIValid
<1>3. QED
  BY <1>1, <1>2 DEF AfterReady, AfterValid, AfterSafe, AfterOps

\* What can follow a refresh or a reclaim does not start on the spare copy.
LEMMA AfterPlain ==
  /\ \A t : AfterReady(t) \/ AfterValid(t) \/ AfterSafe(t) => Plain(t)
  /\ \A t : AfterReclaim(t) => Plain(t)
  /\ \A t : AfterFlush(t) => Plain(t)
<1>1. AfterOps \subseteq Ops \ SpareOps
  BY OpNames DEF AfterOps, SpareOps
<1>2. \A t : AfterReady(t) \/ AfterValid(t) \/ AfterSafe(t) => Plain(t)
  BY <1>1, AfterHeads DEF Plain
<1>3. ASSUME NEW t, AfterReclaim(t) PROVE Plain(t)
  <2>1. /\ "reread" \in Ops \ SpareOps /\ "check_first" \in Ops \ SpareOps
        /\ "check_spare" \in Ops \ SpareOps /\ PILast \in Progs /\ <<>> \in Progs
    BY OpNames, PlaceTypes DEF SpareOps
  <2>2. Plain(PIFirst) /\ Plain(PISpare)
    BY <2>1, PlainPush DEF PIFirst, PISpare
  <2>3. QED
    BY <1>3, <2>1, <2>2, AfterTypes, PlainPush DEF AfterReclaim
<1>4. ASSUME NEW t, AfterFlush(t) PROVE Plain(t)
  <2>1. "refresh" \in Ops \ SpareOps /\ "abort" \in Ops /\ PAgain \in Progs
    BY OpNames, PlaceTypes DEF SpareOps
  <2>2. Plain(PFlushed)
    BY <2>1, PushFacts, PlainPush DEF PFlushed
  <2>3. QED
    BY <1>4, <2>2, AfterTypes, PlainReclaim DEF AfterFlush
<1>5. QED
  BY <1>2, <1>3, <1>4

-----------------------------------------------------------------------------
(***************************************************************************)
(* WorkSpaceRefresh and the reclaim.                                       *)
(***************************************************************************)

\* WorkSpaceRefresh, the whole of it: a stutter of AtomicWrite.
LEMMA WorkSpaceRefreshKept ==
  ASSUME IInv, DInv, WorkSpaceRefresh
  PROVE  Kept
<1>1. At("refresh")
  BY DEF WorkSpaceRefresh
<1>2. PICK t : /\ prog = Push("refresh", t)
               /\ AfterReady(t) \/ AfterValid(t) \/ AfterSafe(t)
  BY <1>1, PlaceOfStep DEF InRefresh
<1>3. t \in Progs /\ "refresh" \in Ops
  BY <1>2, AfterTypes, OpNames
<1>4. prog # <<>> /\ Tail(prog) = t /\ Head(prog) = "refresh"
  BY <1>2, <1>3, PushFacts
<1>5. PICK op \in AfterOps, u \in Progs : t = Push(op, u)
  BY <1>2, AfterHeads
<1>6. op \in Ops /\ t # <<>> /\ Head(t) = op
  <2>1. op \in Ops
    BY <1>5, OpNames DEF AfterOps
  <2>2. QED
    BY <1>5, <2>1, PushFacts
<1>7. op = "abort" => Calm(work)
  BY <1>1, <1>4, <1>6 DEF DInv, Careful, Second
<1>8. Asked(prog) <=> Asked(t)
  BY <1>2, <1>3, AskedReclaim
<1>9. ASSUME NEW d, Decide(d, t) PROVE Kept
  <2>1. prog' = t
    BY <1>9 DEF Decide
  <2>2. Placed'
    BY <1>2, <2>1, AfterPlain, PlainPlaced
  <2>3. op # "abort" => ~Careful'
    BY <1>5, <1>6, <2>1, Elsewhere DEF AfterOps, CarefulOps
  <2>4. QED
    BY <1>7, <1>8, <1>9, <2>2, <2>3, DecideKept
<1>10. ASSUME NEW d, Decide(d, FtwReclaimWorkSpace(TRUE) \o <<"reread">> \o t) PROVE Kept
  <2> DEFINE v == Push("reread", t)
             x == RErase1(RErase2(v))
             y == Push("collect", x)
  <2>1. FtwReclaimWorkSpace(TRUE) \o <<"reread">> \o t = y
    BY <1>3, DecisionPrograms
  <2>2. v \in Progs
    BY <1>3, ReclaimTypes
  <2>3. RErase2(v) \in Progs
    BY <2>2, ReclaimTypes
  <2>4. x \in Progs /\ "collect" \in Ops
    BY <2>3, ReclaimTypes, OpNames
  <2>5. Asked(y) <=> Asked(t)
    BY <1>3, <2>2, AskedReclaim
  <2>6. prog' = y
    BY <1>10, <2>1 DEF Decide
  <2> HIDE DEF v, x
  <2>7. Placed' /\ ~Careful'
    BY <2>4, <2>6, Elsewhere DEF SpareOps, CarefulOps
  <2> HIDE DEF y
  <2>8. QED
    BY <1>8, <1>10, <2>1, <2>5, <2>7, DecideKept
<1>11. QED
  BY <1>4, <1>9, <1>10 DEF WorkSpaceRefresh

\* WorkSpaceRefresh, reading the work space again: a stutter of AtomicWrite.
LEMMA RereadKept ==
  ASSUME IInv, DInv, Reread
  PROVE  Kept
<1>1. At("reread")
  BY DEF Reread
<1>2. PICK t : /\ prog = Push("reread", t) /\ Renewed
               /\ AfterReady(t) \/ AfterValid(t) \/ AfterSafe(t)
  BY <1>1, PlaceOfStep DEF InReread
<1>3. t \in Progs /\ "reread" \in Ops
  BY <1>2, AfterTypes, OpNames
<1>4. Tail(prog) = t /\ (Asked(prog) <=> Asked(t))
  BY <1>2, <1>3, PushFacts, AskedReclaim
<1>5. Calm(work)
  <2>1. Dead(work.queue)
    BY <1>2, EmptyFacts DEF Renewed, NewWork
  <2>2. QED
    BY <2>1, TypeFacts, DeadIsCalm
<1>6. Decide(Found(dev, work), t)
  BY <1>4 DEF Reread
<1>7. Placed'
  BY <1>2, <1>6, AfterPlain, PlainPlaced DEF Decide
<1>8. QED
  BY <1>4, <1>5, <1>6, <1>7, DecideKept

\* FtwReclaimWorkSpace, what it preserves: a stutter of AtomicWrite.
LEMMA CollectKept ==
  ASSUME IInv, DInv, Collect
  PROVE  Kept
<1>1. InCollect
  BY PlaceOfStep DEF Collect
<1>2. ASSUME NEW t \in Progs, NEW op \in Ops, op \notin {"write", "check_write", "spare_complete"},
             prog = Push(op, RErase1(RErase2(t)))
      PROVE  Kept
  <2> DEFINE u == RErase1(RErase2(t))
  <2>1. RErase2(t) \in Progs
    BY ReclaimTypes
  <2>2. u \in Progs /\ RCopy(RErase2(t)) \in Progs /\ "reclaim_erase" \in Ops
    BY <2>1, ReclaimTypes, OpNames
  <2>3. prog = Push(op, u)
    BY <1>2
  <2>4. u = Push("reclaim_erase", RCopy(RErase2(t)))
    BY DEF RErase1
  <2> HIDE DEF u
  <2>5. Tail(prog) = u
    BY <2>2, <2>3, PushFacts
  <2>6. Asked(prog) <=> Asked(u)
    BY <1>2, <2>2, <2>3, AskedPush
  <2>7. PICK d : Decide(d, u)
    BY <2>5 DEF Collect
  <2>8. Placed' /\ ~Careful'
    BY <2>2, <2>4, <2>7, Elsewhere DEF SpareOps, CarefulOps, Decide
  <2>9. QED
    BY <2>6, <2>7, <2>8, DecideKept
<1>3. "collect" \in Ops /\ "collect_none" \in Ops /\ PIFirst \in Progs
  BY OpNames, PlaceTypes
<1>4. CASE \E t : prog = Push("collect", RErase1(RErase2(t))) /\ AfterReclaim(t)
  <2>1. PICK t : prog = Push("collect", RErase1(RErase2(t))) /\ AfterReclaim(t)
    BY <1>4
  <2>2. t \in Progs
    BY <2>1, AfterTypes
  <2>3. QED
    BY <1>2, <1>3, <2>1, <2>2
<1>5. CASE prog = Push("collect_none", RErase1(RErase2(PIFirst)))
  BY <1>2, <1>3, <1>5
<1>6. QED
  BY <1>1, <1>4, <1>5 DEF InCollect

\* Operations on the spare block only, where no write is pending.
LEMMA SpareKept ==
  ASSUME IInv, IInv', DInv, NEW s \in SpareType, NEW d, Flash(work, s, target, d), Calm(work),
         NEW op \in Ops, NEW t, First(op, t), op \notin {"write", "check_write", "spare_complete"},
         Whole(work, s, target, d) => Placed'
  PROVE  Kept
<1>1. work \in WorkType /\ work.queue \in Queues /\ work = [hdr |-> work.hdr, queue |-> work.queue]
  BY TypeFacts
<1>2. \A h \in {work.hdr}, q \in TornQueue(work.queue, work.queue) :
        Calm([hdr |-> h, queue |-> q])
  BY <1>1, TornSame
<1>3. Whole(work, s, target, d) => Fits'
  BY DEF Whole, DInv, Fits
<1>4. QED
  BY <1>1, <1>2, <1>3, FlashKept

\* The place of a step of the reclaim: no write is pending, nor listed, and nothing
\* in particular is required of what follows.
LEMMA ReclaimPlace ==
  ASSUME IInv, NEW step, At(step),
         step \in {"reclaim_erase", "reclaim_copy", "reclaim_restore", "spare_valid",
                   "work_invalid", "erase_work", "write_work", "work_valid"}
  PROVE  /\ Dead(work.queue) /\ Calm(work)
         /\ \E t : First(step, t) /\ Plain(t)
<1>1. /\ step = "reclaim_erase" => InEraseR
      /\ step = "reclaim_copy" => InCopy
      /\ step = "reclaim_restore" => InRestoreR
      /\ step = "spare_valid" => InSpareV
      /\ step = "work_invalid" => InWorkI
      /\ step = "erase_work" => InEraseW
      /\ step = "write_work" => InWriteW
      /\ step = "work_valid" => InWorkV
  BY PlaceOfStep
<1>2. Renewed => Dead(work.queue)
  BY EmptyFacts DEF Renewed, NewWork
<1>3. Gone => Dead(work.queue)
  BY DEF Gone
<1>4. Dead(work.queue)
  BY <1>1, <1>2, <1>3 DEF InEraseR, InCopy, InRestoreR, InSpareV, InWorkI, InEraseW,
     InWriteW,
       InWorkV
<1>5. Calm(work)
  BY <1>4, TypeFacts, DeadIsCalm
<1>6. \E t : First(step, t) /\ Plain(t)
  <2>1. CASE step = "reclaim_erase"
    <3>1. PICK t \in Progs : prog \in {RErase1(t), RErase2(t)}
      BY <1>1, <2>1, AfterTypes DEF InEraseR
    <3>2. {RCopy(t), RRestore(t)} \subseteq Progs
      BY ReclaimTypes
    <3>3. QED
      BY <2>1, <3>1, <3>2, PlainReclaim DEF RErase1, RErase2, First
  <2>2. CASE step = "reclaim_copy"
    <3>1. PICK t \in Progs : prog = RCopy(t)
      BY <1>1, <2>2, AfterTypes DEF InCopy
    <3>2. QED
      BY <2>2, <3>1, ReclaimTypes, PlainReclaim DEF RCopy, First
  <2>3. CASE step = "reclaim_restore"
    <3>1. PICK t \in Progs : prog = RRestore(t) /\ Plain(t)
      BY <1>1, <2>3, AfterTypes, AfterPlain DEF InRestoreR
    <3>2. QED
      BY <2>3, <3>1 DEF RRestore, First
  <2>4. CASE step = "spare_valid"
    <3>1. PICK t \in Progs : prog \in {RValid1(t), RValid2(t)}
      BY <1>1, <2>4, AfterTypes DEF InSpareV
    <3>2. {RInvalid1(t), RInvalid2(t)} \subseteq Progs
      BY ReclaimTypes
    <3>3. QED
      BY <2>4, <3>1, <3>2, PlainReclaim DEF RValid1, RValid2, First
  <2>5. CASE step = "work_invalid"
    <3>1. PICK t \in Progs : prog \in {RInvalid1(t), RInvalid2(t)}
      BY <1>1, <2>5, AfterTypes DEF InWorkI
    <3>2. {RValid2(t), REraseWork(t)} \subseteq Progs
      BY ReclaimTypes
    <3>3. QED
      BY <2>5, <3>1, <3>2, PlainReclaim DEF RInvalid1, RInvalid2, First
  <2>6. CASE step = "erase_work"
    <3>1. PICK t \in Progs : prog = REraseWork(t)
      BY <1>1, <2>6, AfterTypes DEF InEraseW
    <3>2. QED
      BY <2>6, <3>1, ReclaimTypes, PlainReclaim DEF REraseWork, First
  <2>7. CASE step = "write_work"
    <3>1. PICK t \in Progs : prog = RWriteWork(t)
      BY <1>1, <2>7, AfterTypes DEF InWriteW
    <3>2. QED
      BY <2>7, <3>1, ReclaimTypes, PlainReclaim DEF RWriteWork, First
  <2>8. CASE step = "work_valid"
    <3>1. PICK t \in Progs : prog = RWorkValid(t) /\ Plain(t)
      BY <1>1, <2>8, AfterTypes, AfterPlain DEF InWorkV
    <3>2. QED
      BY <2>8, <3>1 DEF RWorkValid, First
  <2>9. QED
    BY <2>1, <2>2, <2>3, <2>4, <2>5, <2>6, <2>7, <2>8
<1>7. QED
  BY <1>4, <1>5, <1>6

\* FtwReclaimWorkSpace, its steps on the spare block: contents are kept.
LEMMA ReclaimSpareKept ==
  ASSUME IInv, IInv', DInv, ReclaimErase \/ ReclaimCopy \/ ReclaimRestore \/ SpareValid
  PROVE  Kept
<1>1. PICK op \in {"reclaim_erase", "reclaim_copy", "reclaim_restore", "spare_valid"} :
        At(op) /\ \E s \in SpareType : Flash(work, s, target, dev)
  <2>1. /\ ErasedSpare \in SpareType /\ dev.save \in SpareType /\ spare \in SpareType
        /\ dev.ws.queue \in Queues
    BY TypeFacts, NoDevFacts
  <2>2. CASE ReclaimErase
    BY <2>1, <2>2 DEF ReclaimErase
  <2>3. CASE ReclaimCopy
    <3> DEFINE s == [spare EXCEPT !.hdr = IF dev.ws.hdr = "Erased" THEN @ ELSE "Blank",
                                  !.queue = dev.ws.queue]
    <3>1. s \in SpareType
      BY <2>1 DEF SpareType, Queues, HdrStates
    <3>2. At("reclaim_copy") /\ Flash(work, s, target, dev)
      BY <2>3 DEF ReclaimCopy
    <3> HIDE DEF s
    <3>3. QED
      BY <3>1, <3>2
  <2>4. CASE ReclaimRestore
    BY <2>1, <2>4 DEF ReclaimRestore
  <2>5. CASE SpareValid
    <3> DEFINE s == [spare EXCEPT !.hdr = SetValid(@)]
    <3>1. s \in SpareType
      BY <2>1 DEF SpareType, SetValid, HdrStates
    <3>2. At("spare_valid") /\ Flash(work, s, target, dev)
      BY <2>5 DEF SpareValid
    <3> HIDE DEF s
    <3>3. QED
      BY <3>1, <3>2
  <2>6. QED
    BY <2>2, <2>3, <2>4, <2>5
<1>2. PICK s \in SpareType : Flash(work, s, target, dev)
  BY <1>1
<1>3. PICK t : First(op, t) /\ Plain(t)
  BY <1>1, ReclaimPlace
<1>4. Calm(work)
  BY <1>1, ReclaimPlace
<1>5. op \in Ops
  BY OpNames
<1>6. Whole(work, s, target, dev) => Placed'
  BY <1>3, <1>5, FirstFacts, PlainPlaced DEF Whole
<1>7. QED
  BY <1>2, <1>3, <1>4, <1>5, <1>6, SpareKept

\* Operations on the working block in the reclaim.
LEMMA ReclaimWorkKept ==
  ASSUME IInv, IInv', DInv, NEW op \in {"work_invalid", "erase_work", "write_work", "work_valid"},
         At(op), NEW w \in WorkType, NEW d, Flash(w, spare, target, d),
         Dead(w.queue),
         \A h \in {work.hdr, w.hdr}, q \in TornQueue(work.queue, w.queue) :
           Calm([hdr |-> h, queue |-> q])
  PROVE  Kept
<1>1. PICK t : First(op, t) /\ Plain(t)
  BY ReclaimPlace
<1>2. Calm(work) /\ Calm(w)
  BY ReclaimPlace, DeadIsCalm
<1>3. op \in Ops /\ spare \in SpareType
  BY OpNames, TypeFacts
<1>4. Whole(w, spare, target, d) => Placed'
  BY <1>1, <1>3, FirstFacts, PlainPlaced DEF Whole
<1>5. Whole(w, spare, target, d) => Fits'
  <2>1. w.queue \in Queues
    BY DEF WorkType, Queues
  <2>2. \A h \in Slots : ~Listed(w.queue, h)
    BY <2>1, DeadListsNothing
  <2>3. QED
    BY <2>2 DEF Whole, Fits
<1>6. QED
  BY <1>1, <1>2, <1>3, <1>4, <1>5, FlashKept

\* A work space that is not valid has nothing pending.
LEMMA InvalidIsCalm ==
  ASSUME NEW w, w.hdr # "Valid"
  PROVE  Calm(w)
BY DEF Calm, PendingAt

\* FlushSpareBlockToWorkingBlock, the header made invalid: a stutter of AtomicWrite.
LEMMA WorkInvalidKept ==
  ASSUME IInv, IInv', DInv, WorkInvalid
  PROVE  Kept
<1> DEFINE w == [work EXCEPT !.hdr = SetInvalid(@)]
           d == [dev EXCEPT !.ws.hdr = "Invalid"]
<1>1. work \in WorkType /\ work.queue \in Queues
  BY TypeFacts
<1>2. w \in WorkType /\ w.queue = work.queue /\ At("work_invalid") /\ Flash(w, spare, target, d)
  BY <1>1 DEF WorkInvalid, WorkType, SetInvalid, HdrStates
<1> HIDE DEF w, d
<1>3. Dead(work.queue)
  BY <1>2, ReclaimPlace
<1>4. ASSUME NEW h \in {work.hdr, w.hdr}, NEW q \in TornQueue(work.queue, w.queue)
      PROVE  Calm([hdr |-> h, queue |-> q])
  <2>1. q = work.queue
    BY <1>1, <1>2, <1>4, TornSame
  <2>2. [hdr |-> h, queue |-> q] \in WorkType
    BY <1>1, <1>2, <1>4, <2>1 DEF WorkType
  <2>3. QED
    BY <1>3, <2>1, <2>2, DeadIsCalm
<1>5. QED
  BY <1>2, <1>3, <1>4, ReclaimWorkKept

\* FlushSpareBlockToWorkingBlock, the erase: a stutter of AtomicWrite.
LEMMA EraseWorkKept ==
  ASSUME IInv, IInv', DInv, EraseWork
  PROVE  Kept
<1>1. At("erase_work") /\ Flash(ErasedWork, spare, target, dev)
  BY DEF EraseWork
<1>2. work.hdr # "Valid"
  BY <1>1, PlaceOfStep DEF InEraseW
<1>3. ErasedWork \in WorkType /\ ErasedWork.hdr = "Erased" /\ Dead(ErasedWork.queue)
  BY NoDevFacts, EmptyFacts DEF ErasedWork
<1>4. \A h \in {work.hdr, ErasedWork.hdr}, q \in TornQueue(work.queue, ErasedWork.queue) :
        Calm([hdr |-> h, queue |-> q])
  BY <1>2, <1>3, InvalidIsCalm
<1>5. QED
  BY <1>1, <1>3, <1>4, ReclaimWorkKept

\* FlushSpareBlockToWorkingBlock, the copy back: a stutter of AtomicWrite.
LEMMA WriteWorkKept ==
  ASSUME IInv, IInv', DInv, WriteWork
  PROVE  Kept
<1> DEFINE w == [hdr |-> "Blank", queue |-> spare.queue]
<1>1. At("write_work") /\ Flash(w, spare, target, dev)
  BY DEF WriteWork
<1>2. w.hdr = "Blank" /\ w.queue = EmptyQueue /\ w \in WorkType /\ Dead(w.queue)
  BY TypeFacts, EmptyFacts DEF WorkType, Queues, HdrStates
<1> HIDE DEF w
<1>3. work.hdr # "Valid"
  BY <1>1, PlaceOfStep DEF InWriteW, ErasedWork
<1>4. \A h \in {work.hdr, w.hdr}, q \in TornQueue(work.queue, w.queue) :
        Calm([hdr |-> h, queue |-> q])
  BY <1>2, <1>3, InvalidIsCalm
<1>5. QED
  BY <1>1, <1>2, <1>4, ReclaimWorkKept

\* FlushSpareBlockToWorkingBlock, the header made valid: a stutter of AtomicWrite.
LEMMA WorkValidKept ==
  ASSUME IInv, IInv', DInv, WorkValid
  PROVE  Kept
<1> DEFINE w == [work EXCEPT !.hdr = SetValid(@)]
           d == [dev EXCEPT !.ws.hdr = "Valid"]
<1>1. work \in WorkType /\ work.queue \in Queues
  BY TypeFacts
<1>2. w \in WorkType /\ w.queue = work.queue /\ At("work_valid") /\ Flash(w, spare, target, d)
  BY <1>1 DEF WorkValid, WorkType, SetValid, HdrStates
<1> HIDE DEF w, d
<1>3. Dead(work.queue)
  BY <1>2, ReclaimPlace
<1>4. ASSUME NEW h \in {work.hdr, w.hdr}, NEW q \in TornQueue(work.queue, w.queue)
      PROVE  Calm([hdr |-> h, queue |-> q])
  <2>1. q = work.queue
    BY <1>1, <1>2, <1>4, TornSame
  <2>2. [hdr |-> h, queue |-> q] \in WorkType
    BY <1>1, <1>2, <1>4, <2>1 DEF WorkType
  <2>3. QED
    BY <1>3, <2>1, <2>2, DeadIsCalm
<1>5. QED
  BY <1>2, <1>3, <1>4, ReclaimWorkKept

-----------------------------------------------------------------------------
(***************************************************************************)
(* FtwAllocate and FtwWrite up to the record.                              *)
(***************************************************************************)

\* A step that only chooses how to go on keeps the data.
LEMMA DecidePush ==
  ASSUME DInv, NEW op \in Ops, op \notin SpareOps, op \notin CarefulOps \/ Calm(work),
         NEW u \in Progs, NEW d, Decide(d, Push(op, u)),
         call = "Write" => (Asked(Push(op, u)) <=> Asked(prog))
  PROVE  Kept
<1>1. prog' = Push(op, u)
  BY DEF Decide
<1>2. Placed' /\ (Careful' => Calm(work))
  BY <1>1, Elsewhere
<1>3. QED
  BY <1>2, DecideKept

\* A step that chooses to reclaim first keeps the data.
LEMMA DecideReclaim ==
  ASSUME DInv, NEW t \in Progs, NEW d, Decide(d, Push("collect", RErase1(RErase2(t)))),
         call = "Write" => (Asked(t) <=> Asked(prog))
  PROVE  Kept
<1> DEFINE u == RErase1(RErase2(t))
<1>1. Asked(Push("collect", u)) <=> Asked(t)
  BY AskedReclaim
<1>2. RErase2(t) \in Progs
  BY ReclaimTypes
<1>3. u \in Progs /\ "collect" \in Ops
  BY <1>2, ReclaimTypes, OpNames
<1>4. Decide(d, Push("collect", u))
  OBVIOUS
<1> HIDE DEF u
<1>5. QED
  BY <1>1, <1>3, <1>4, DecidePush DEF SpareOps, CarefulOps

\* A function is called that begins with a refresh.
LEMMA DecideRefresh ==
  ASSUME DInv, NEW op \in Ops, op # "abort" \/ Calm(work), NEW u \in Progs, NEW d,
         Decide(d, Push("refresh", Push(op, u))),
         call = "Write" => (Asked(Push(op, u)) <=> Asked(prog))
  PROVE  Kept
<1> DEFINE t == Push(op, u)
<1>1. t \in Progs /\ t # <<>> /\ Head(t) = op
  BY PushFacts
<1>2. Decide(d, Push("refresh", t)) /\ (call = "Write" => (Asked(t) <=> Asked(prog)))
  OBVIOUS
<1> HIDE DEF t
<1>3. prog' = Push("refresh", t) /\ "refresh" \in Ops
  BY <1>2, OpNames DEF Decide
<1>4. Placed' /\ (Careful' => Calm(work))
  BY <1>1, <1>3, Elsewhere DEF SpareOps
<1>5. Asked(Push("refresh", t)) <=> Asked(t)
  BY <1>1, AskedReclaim
<1>6. QED
  BY <1>2, <1>4, <1>5, DecideKept

\* The programs of Write before and after the write has happened.
LEMMA AskedFacts ==
  /\ Asked(PCheck) /\ Asked(PWrite) /\ Asked(PAlloc("Write")) /\ Asked(PRecord)
  /\ ~Asked(<<>>) /\ ~Asked(PClear("Write"))
<1>1. /\ {PCheck, PCommit, PSpare, PErase, <<>>, PRestore} \subseteq Progs
      /\ {PBit("Write"), PHeader("Write"), PAfterFree("Write"), PFree("Write"), PDone("Write"),
          PDest("Write"), PFlush("Write"), PClear("Write")} \subseteq Progs
  BY PlaceTypes
<1>2. /\ "check_write" \in Ops /\ "write" \in Ops /\ "allocate" \in Ops /\ "write_header" \in Ops
      /\ "writes_allocated" \in Ops /\ "write_record" \in Ops /\ "erase_spare" \in Ops
      /\ "write_spare" \in Ops /\ "spare_complete" \in Ops /\ "erase_target" \in Ops
      /\ "write_target" \in Ops /\ "dest_complete" \in Ops /\ "writes_complete" \in Ops
      /\ "restore_spare" \in Ops
  BY OpNames
<1>3. ~Asked(<<>>)
  BY DEF Asked
<1>4. Asked(PCheck) /\ Asked(PWrite)
  BY <1>1, <1>2, AskedPush DEF PCheck, PWrite
<1>5. Asked(PBit("Write"))
  BY <1>1, <1>2, <1>4, AskedPush DEF PBit
<1>6. Asked(PHeader("Write"))
  BY <1>1, <1>2, <1>5, AskedPush DEF PHeader
<1>7. Asked(PAlloc("Write"))
  BY <1>1, <1>2, <1>6, AskedPush DEF PAlloc
<1>8. Asked(PCommit)
  BY <1>1, <1>2, AskedPush DEF PCommit
<1>9. Asked(PSpare)
  BY <1>1, <1>2, <1>8, AskedPush DEF PSpare
<1>10. Asked(PErase)
  BY <1>1, <1>2, <1>9, AskedPush DEF PErase
<1>11. Asked(PRecord)
  BY <1>1, <1>2, <1>10, AskedPush DEF PRecord
<1>12. ~Asked(PRestore)
  BY <1>1, <1>2, <1>3, AskedPush DEF PRestore
<1>13. PAfterFree("Write") = PRestore
  BY DEF PAfterFree
<1>14. ~Asked(PFree("Write"))
  BY <1>1, <1>2, <1>12, <1>13, AskedPush DEF PFree
<1>15. ~Asked(PDone("Write"))
  BY <1>1, <1>2, <1>14, AskedPush DEF PDone
<1>16. ~Asked(PDest("Write"))
  BY <1>1, <1>2, <1>15, AskedPush DEF PDest
<1>17. ~Asked(PFlush("Write"))
  BY <1>1, <1>2, <1>16, AskedPush DEF PFlush
<1>18. ~Asked(PClear("Write"))
  BY <1>1, <1>2, <1>17, AskedPush DEF PClear
<1>19. QED
  BY <1>3, <1>4, <1>7, <1>11, <1>18

\* FtwAllocate, the choice of a slot: a stutter of AtomicWrite.
LEMMA AllocateKept ==
  ASSUME IInv, DInv, Allocate
  PROVE  Kept
<1>1. prog = PAlloc(call)
  BY PlaceOfStep DEF Allocate, InAllocate
<1> DEFINE t == PHeader(call)
           u == PBit(call)
<1>2. t \in Progs /\ u \in Progs /\ t = Push("write_header", u) /\ prog = Push("allocate", t)
  BY <1>1, PlaceTypes DEF PHeader, PAlloc
<1> HIDE DEF t, u
<1>3. "allocate" \in Ops /\ "write_header" \in Ops
  BY OpNames
<1>4. Tail(prog) = t /\ (Asked(t) <=> Asked(prog))
  BY <1>2, <1>3, PushFacts, AskedPush
<1>5. CASE Refuse
  BY <1>5, RefuseKept DEF Refuse, Stopped
<1>6. ASSUME NEW d, Decide(d, FtwReclaimWorkSpace(TRUE) \o t) PROVE Kept
  <2>1. Decide(d, Push("collect", RErase1(RErase2(t))))
    BY <1>2, <1>6, DecisionPrograms
  <2>2. QED
    BY <1>2, <1>4, <2>1, DecideReclaim
<1>7. ASSUME NEW d, Decide(d, t) PROVE Kept
  BY <1>2, <1>3, <1>4, <1>7, DecidePush DEF SpareOps, CarefulOps
<1>8. QED
  BY <1>4, <1>5, <1>6, <1>7 DEF Allocate

\* FtwWrite, the first test: a stutter of AtomicWrite.
LEMMA WriteKept ==
  ASSUME IInv, DInv, Write
  PROVE  Kept
<1>1. prog = PWrite
  BY PlaceOfStep DEF Write, InWrite
<1>2. Asked(prog)
  BY <1>1, AskedFacts
<1>3. CASE Refuse
  BY <1>3, RefuseKept DEF Refuse, Stopped
<1>4. CASE Decide(dev, <<"check_write">>)
  <2>1. PCheck = Push("check_write", <<>>) /\ <<>> \in Progs /\ "check_write" \in Ops
    BY PlaceTypes, OpNames DEF PCheck
  <2>2. Decide(dev, Push("check_write", <<>>)) /\ Asked(Push("check_write", <<>>))
    BY <1>4, <2>1, ServicePrograms, AskedFacts
  <2>3. QED
    BY <1>2, <2>1, <2>2, DecidePush DEF SpareOps, CarefulOps
<1>5. CASE Decide(dev, FtwAllocate \o <<"check_write">>)
  <2> DEFINE u == PHeader("Write")
  <2>1. u \in Progs /\ PAlloc("Write") = Push("allocate", u) /\ "allocate" \in Ops
    BY PlaceTypes, OpNames DEF PAlloc
  <2> HIDE DEF u
  <2>2. Decide(dev, Push("refresh", Push("allocate", u))) /\ Asked(Push("allocate", u))
    BY <1>5, <2>1, ServicePrograms, AskedFacts
  <2>3. QED
    BY <1>2, <2>1, <2>2, DecideRefresh
<1>6. QED
  BY <1>3, <1>4, <1>5 DEF Write

\* FtwWrite, the header it finds: a stutter of AtomicWrite.
LEMMA CheckWriteKept ==
  ASSUME IInv, DInv, CheckWrite
  PROVE  Kept
<1>1. prog = PCheck /\ call = "Write" /\ Amid
  BY PlaceOfStep DEF CheckWrite, InCheck
<1>2. CASE Refuse
  BY <1>2, RefuseKept DEF Refuse, Stopped
<1>3. CASE ~Refuse
  <2> DEFINE d == [dev EXCEPT !.save = spare]
  <2>1. Decide(d, PRecord) /\ ~RecordHas(DEST_COMPLETED) /\ ~RecordHas(SPARE_COMPLETED)
    BY <1>3, ServicePrograms DEF CheckWrite
  <2>2. d.r = dev.r
    BY TypeFacts DEF DevType
  <2> HIDE DEF d
  <2>3. work.queue[dev.r].bits \cap {2, 4} = {}
    BY <1>1, <2>1 DEF Amid, RecordHas, Record, DEST_COMPLETED, SPARE_COMPLETED
  <2>4. Calm(work)
    <3>1. /\ dev.h \in Slots /\ work.queue \in Queues /\ Open(work.queue, dev.h)
          /\ dev.r = dev.h + 1
      BY <1>1, AmidFacts DEF Amid, Listed
    <3>2. QED
      BY <2>3, <3>1, CalmAtHeader
  <2>5. prog' = Push("write_record", PErase) /\ PErase \in Progs /\ "write_record" \in Ops
    BY <2>1, PlaceTypes, OpNames DEF Decide, PRecord
  <2>6. Unwritten'
    BY <2>1, <2>2, <2>3 DEF Decide, Unwritten
  <2>7. \A step : At(step)' => step = "write_record"
    BY <2>5, Elsewhere
  <2>8. Placed'
    BY <2>6, <2>7 DEF Placed
  <2>9. Asked(prog) /\ Asked(PRecord)
    BY <1>1, AskedFacts
  <2>10. QED
    BY <2>1, <2>4, <2>8, <2>9, DecideKept
<1>4. QED
  BY <1>2, <1>3

-----------------------------------------------------------------------------
(***************************************************************************)
(* Header, record and spare copy.                                          *)
(***************************************************************************)

\* The header at h is the last one, and its record leaves room for the address.
LEMMA FitsAt ==
  ASSUME NEW h \in Slots, work'.queue \in Queues, Open(work'.queue, h),
         call' = "Write" => arg'.lba \subseteq work'.queue[h + 1].lba
  PROVE  Fits'
<1> SUFFICES ASSUME call' = "Write", NEW k \in Slots, Listed(work'.queue, k)
             PROVE  arg'.lba \subseteq work'.queue[k + 1].lba
  BY DEF Fits
<1>1. k = h
  BY OnlyListed
<1>2. QED
  BY <1>1

\* A header that was cut off has no record.
LEMMA CutHeaderCalm ==
  ASSUME NEW q \in Queues, NEW p \in Queues, NEW h \in Slots, h < QueueSize, Fresh(q, h),
         Slot(q, p, h), 4 \notin p[h].bits, NEW w, w.queue = p
  PROVE  Open(p, h) /\ p[h + 1] = ErasedSlot /\ Calm(w)
<1>1. h + 1 \in Slots /\ h + 1 # h /\ h + 1 >= h
  BY SlotFacts
<1>2. p[h + 1] = ErasedSlot
  BY <1>1 DEF Fresh, BlankFrom, Slot
<1>3. \A i \in Slots : i < h => p[i] = q[i]
  BY SlotFacts DEF Slot
<1>4. Open(p, h)
  BY <1>3, RouteSame DEF Fresh, Open
<1>5. 2 \notin p[h + 1].bits
  BY <1>2, EmptyFacts
<1>6. QED
  BY <1>2, <1>4, <1>5, CalmAtHeader

\* FtwAllocate, the write of the header: a stutter of AtomicWrite.
LEMMA WriteHeaderKept ==
  ASSUME IInv, IInv', DInv, WriteHeader
  PROVE  Kept
<1>1. InHeader
  BY PlaceOfStep DEF WriteHeader
<1>2. /\ call \in {"Allocate", "Write"} /\ Synced /\ Fresh(work.queue, dev.h) /\ dev.off = dev.h
      /\ First("write_header", PBit(call))
  BY <1>1, ServicePlaces DEF InHeader
<1>3. NumberOfWrites = 1
  BY <1>2, TypeFacts, OneRecord
<1> DEFINE h == dev.h
           q == work.queue
           new == [bits |-> {1}, n |-> 1, lba |-> Bits]
           p == [q EXCEPT ![h] = new]
           w == [work EXCEPT !.queue = p]
           d == [dev EXCEPT !.ws.queue[h] = new]
<1>4. /\ q \in Queues /\ h \in Slots /\ h < QueueSize /\ Open(q, h) /\ q[h] = ErasedSlot
  <2>1. q \in Queues /\ h \in Slots /\ h < QueueSize /\ Open(q, h)
    BY <1>2, HeaderKinds
  <2>2. QED
    BY <1>2, <2>1, SlotFacts DEF Fresh, BlankFrom
<1>5. new \in SlotType /\ p \in Queues /\ Slot(q, p, h) /\ p[h] = new
  <2>1. new \in SlotType
    BY SlotFacts DEF SlotType
  <2>2. QED
    BY <1>4, <2>1 DEF Queues, Slot
<1>6. Flash(w, spare, target, d)
  <2>1. [ErasedSlot EXCEPT !.bits = {HEADER_ALLOCATED}, !.n = NumberOfWrites] = new
    <3> DEFINE e == ErasedSlot
    <3>1. e \in SlotType /\ e.lba = Bits
      BY EmptyFacts
    <3> HIDE DEF e
    <3>2. [e EXCEPT !.bits = {1}, !.n = 1] = new
      <4> DEFINE x == [e EXCEPT !.bits = {1}, !.n = 1]
      <4>0. 1 \in 0 .. QueueSize
        BY SlotFacts
      <4>1. x \in SlotType /\ x.bits = {1} /\ x.n = 1 /\ x.lba = Bits
        BY <3>1, <4>0 DEF SlotType
      <4> HIDE DEF x
      <4>2. x = [bits |-> {1}, n |-> 1, lba |-> Bits]
        BY <4>1 DEF SlotType
      <4>3. QED
        BY <4>2 DEF x
    <3>3. QED
      BY <1>3, <3>2, Zenon DEF e, HEADER_ALLOCATED
  <2>2. [new EXCEPT !.bits = @ \cup work.queue[dev.off].bits] = new
    BY <1>2, <1>4, EmptyFacts
  <2>3. QED
    BY <1>2, <2>1, <2>2 DEF WriteHeader
<1>7. w \in WorkType /\ w.queue = p
  BY <1>5, TypeFacts DEF WorkType, Queues
<1>8. p[h].bits = {1} /\ p[h].lba = Bits
  BY <1>5
<1> HIDE DEF w, d, p, q, h
<1>9. /\ Open(p, h) /\ p[h + 1] = ErasedSlot /\ Calm(w)
  BY <1>2, <1>4, <1>5, <1>7, <1>8, CutHeaderCalm DEF q, h
<1>10. Calm(work)
  BY <1>2, <1>4, EmptyFacts, CutHeaderCalm DEF q, h, Slot
<1>11. ASSUME NEW g \in {work.hdr, w.hdr}, NEW t \in TornQueue(work.queue, w.queue)
       PROVE  Calm([hdr |-> g, queue |-> t])
  <2>1. t \in TornQueue(q, p)
    BY <1>7 DEF q
  <2>2. t \in Queues /\ Slot(q, t, h) /\ t[h].bits \in {{}, {1}}
    BY <1>4, <1>5, <1>8, <2>1, TornNew
  <2>3. QED
    BY <1>2, <1>4, <2>2, CutHeaderCalm DEF q, h
<1>12. ASSUME Whole(w, spare, target, d) PROVE Fits' /\ Placed'
  <2>1. work'.queue = p /\ call' = call /\ arg' = arg /\ prog' = Tail(prog)
    BY <1>7, <1>12 DEF Whole
  <2>2. p[h + 1].lba = Bits
    BY <1>9, EmptyFacts
  <2>3. call = "Write" => arg.lba \subseteq Bits
    BY TypeFacts, FlashAssumption DEF Typed
  <2>4. Fits'
    BY <1>4, <1>5, <1>9, <2>1, <2>2, <2>3, FitsAt
  <2>5. "write_header" \in Ops /\ "writes_allocated" \in Ops /\ <<>> \in Progs /\ PCheck \in Progs
    BY OpNames, PlaceTypes
  <2>6. prog' = PBit(call)
    BY <1>2, <2>1, <2>5, FirstFacts
  <2>7. Plain(PBit(call))
    BY <2>5, PlainPush DEF PBit, SpareOps
  <2>8. Placed'
    BY <2>6, <2>7, PlainPlaced
  <2>9. QED
    BY <2>4, <2>8
<1>13. "write_header" \in Ops /\ spare \in SpareType
  BY OpNames, TypeFacts
<1>14. QED
  BY <1>2, <1>6, <1>7, <1>9, <1>10, <1>11, <1>12, <1>13, FlashKept

\* A bit of the header of the write in progress.
LEMMA WritesAllocatedKept ==
  ASSUME IInv, IInv', DInv, WritesAllocated
  PROVE  Kept
<1>1. InBit
  BY PlaceOfStep DEF WritesAllocated
<1>2. /\ Amid /\ dev.off = dev.h
      /\ First("writes_allocated", IF call = "Write" THEN PCheck ELSE <<>>)
  BY <1>1, ServicePlaces DEF InBit
<1> DEFINE h == dev.h
           q == work.queue
           p == SetBit(q, h, 2)
           w == [work EXCEPT !.queue = SetBit(@, dev.h, 2)]
<1>3. /\ q \in Queues /\ h \in Slots /\ dev.r = h + 1 /\ h + 1 \in Slots /\ h + 1 # h /\ Listed(q, h)
  BY <1>2, AmidFacts DEF Amid
<1>4. /\ w \in WorkType /\ w.queue = p /\ p \in Queues /\ Listed(p, h)
  BY <1>2, BitStaysListed
<1>5. Flash(w, spare, target, dev)
  BY <1>2 DEF WritesAllocated, WRITES_ALLOCATED
<1>6. Calm(work)
  BY DEF WritesAllocated, DInv, Careful
<1>7. Slot(q, p, h)
  <2> HIDE DEF q, h
  <2>1. QED
    BY <1>3, SetBitType
<1>8. p[h + 1] = q[h + 1]
  BY <1>3, <1>7 DEF Slot
<1>9. TornQueue(work.queue, w.queue) = TornQueue(q, p)
  BY <1>4
<1> HIDE DEF w, p, h
<1>10. 2 \notin q[h + 1].bits \/ 4 \in q[h + 1].bits \/ work.hdr # "Valid"
  BY <1>3, <1>6 DEF Calm, PendingAt
<1>11. work.hdr = "Valid"
  BY <1>2 DEF Amid
<1>12. ASSUME NEW v, v.queue \in {q, p} PROVE Calm(v)
  BY <1>3, <1>4, <1>8, <1>10, <1>11, <1>12, CalmAtHeader DEF Listed
<1>13. Calm(w)
  BY <1>4, <1>12
<1>14. ASSUME NEW g \in {work.hdr, w.hdr}, NEW t \in TornQueue(work.queue, w.queue)
       PROVE  Calm([hdr |-> g, queue |-> t])
  <2>1. t = q \/ t = p
    BY <1>3, <1>9, TornBit DEF p
  <2>2. QED
    BY <1>12, <2>1
<1>15. ASSUME Whole(w, spare, target, dev) PROVE Fits' /\ Placed'
  <2>1. work'.queue = p /\ call' = call /\ arg' = arg /\ prog' = Tail(prog)
    BY <1>4, <1>15 DEF Whole
  <2>2. call = "Write" => arg.lba \subseteq q[h + 1].lba
    BY <1>3 DEF DInv, Fits
  <2>3. Fits'
    BY <1>3, <1>4, <1>8, <2>1, <2>2, FitsAt DEF Listed
  <2>4. "writes_allocated" \in Ops /\ "check_write" \in Ops /\ <<>> \in Progs
    BY OpNames, PlaceTypes
  <2>5. prog' = IF call = "Write" THEN PCheck ELSE <<>>
    BY <1>2, <2>1, <2>4, FirstFacts
  <2>6. Plain(PCheck) /\ Plain(<<>>)
    BY <2>4, PlainPush DEF PCheck, SpareOps, Plain
  <2>7. Placed'
    BY <2>5, <2>6, PlainPlaced
  <2>8. QED
    BY <2>3, <2>7
<1>16. "writes_allocated" \in Ops /\ spare \in SpareType
  BY OpNames, TypeFacts
<1>17. QED
  BY <1>2, <1>4, <1>5, <1>6, <1>13, <1>14, <1>15, <1>16, FlashKept

\* FtwWrite, the write of the record: a stutter of AtomicWrite.
LEMMA WriteRecordKept ==
  ASSUME IInv, IInv', DInv, WriteRecord
  PROVE  Kept
<1>1. InRecord
  BY PlaceOfStep DEF WriteRecord
<1>2. call = "Write" /\ Amid /\ First("write_record", PErase)
  BY <1>1, ServicePlaces DEF InRecord
<1> DEFINE h == dev.h
           r == dev.r
           q == work.queue
           x == q[r].lba \cap arg.lba
           p == [q EXCEPT ![r].lba = x]
           w == [work EXCEPT !.queue[r].lba = @ \cap arg.lba]
           d == [dev EXCEPT !.ws.queue[r].lba = arg.lba]
<1>3. arg.lba \in SUBSET Bits
  BY <1>2, TypeFacts, FlashAssumption DEF Typed
<1>4. /\ q \in Queues /\ h \in Slots /\ h < QueueSize /\ r \in Slots /\ r # h /\ r = h + 1
      /\ Listed(q, h) /\ work \in WorkType /\ work.hdr = "Valid" /\ x \in SUBSET Bits
  BY <1>2, <1>3, AmidFacts, TypeFacts, SlotFacts DEF Amid
<1>5. /\ p \in Queues /\ Slot(q, p, r) /\ p[r].bits = q[r].bits /\ p[r].n = q[r].n
      /\ p[r].lba = x
  BY <1>4 DEF Queues, SlotType, Slot
<1>6. w \in WorkType /\ w.queue = p
  BY <1>4, <1>5 DEF WorkType, Queues
<1>7. d.r = r /\ d.ws.queue[r].lba = arg.lba
  <2> DEFINE u == [dev.ws.queue EXCEPT ![r].lba = arg.lba]
  <2>1. u[r].lba = arg.lba
    BY <1>3, <1>4, TypeFacts DEF Queues, SlotType
  <2>2. d = [dev EXCEPT !.ws.queue = u]
    OBVIOUS
  <2> HIDE DEF u
  <2>3. QED
    BY <2>1, <2>2, TypeFacts DEF DevType, WorkType, Queues
<1>8. Flash(w, spare, target, d)
  BY DEF WriteRecord
<1>9. Calm(work) /\ q[r].bits \cap {2, 4} = {}
  BY DEF WriteRecord, DInv, Careful, Placed, Unwritten
<1>10. x = arg.lba
  <2>1. arg.lba \subseteq q[h + 1].lba
    BY <1>2, <1>4 DEF DInv, Fits
  <2>2. QED
    BY <1>4, <2>1
<1> HIDE DEF w, d, p, x
<1>11. ASSUME NEW t \in Queues, Slot(q, t, r), t[r].bits = q[r].bits, NEW v, v.queue = t
       PROVE  Open(t, h) /\ Calm(v)
  <2>1. Route(q, h) /\ 4 \notin q[h].bits
    BY <1>2, AmidFacts
  <2>2. t[h] = q[h] /\ \A j \in Slots : j < h => t[j] = q[j]
    BY <1>4, <1>11, SlotFacts DEF Slot
  <2> HIDE DEF q, h, r
  <2>3. Route(t, h)
    BY <1>4, <1>11, <2>1, <2>2, RouteSame
  <2>4. Open(t, h)
    BY <2>1, <2>2, <2>3 DEF Open
  <2>5. 2 \notin t[h + 1].bits
    BY <1>4, <1>9, <1>11
  <2>6. QED
    BY <1>4, <1>11, <2>4, <2>5, CalmAtHeader
<1>12. Open(p, h) /\ Calm(w)
  BY <1>5, <1>6, <1>11
<1>13. ASSUME NEW g \in {work.hdr, w.hdr}, NEW t \in TornQueue(work.queue, w.queue)
       PROVE  Calm([hdr |-> g, queue |-> t])
  <2>1. t \in TornQueue(q, p)
    BY <1>6
  <2>2. t \in Queues /\ Slot(q, t, r) /\ t[r].bits = q[r].bits
    BY <1>4, <2>1, TornRecord DEF p
  <2>3. QED
    BY <1>11, <2>2
<1>14. ASSUME Whole(w, spare, target, d) PROVE Fits' /\ Placed'
  <2>1. /\ work'.queue = p /\ call' = call /\ arg' = arg /\ prog' = Tail(prog) /\ dev' = d
    BY <1>6, <1>14 DEF Whole
  <2>2. p[h + 1].lba = arg.lba
    BY <1>4, <1>5, <1>10
  <2>3. Fits'
    BY <1>4, <1>5, <1>12, <2>1, <2>2, FitsAt
  <2>4. /\ "write_record" \in Ops /\ "erase_spare" \in Ops
        /\ PSpare \in Progs /\ PErase = Push("erase_spare", PSpare)
    BY OpNames, PlaceTypes DEF PErase
  <2>5. prog' = Push("erase_spare", PSpare)
    BY <1>2, <2>1, <2>4, FirstFacts
  <2>6. \A step : At(step)' => step = "erase_spare"
    BY <2>4, <2>5, Elsewhere
  <2>7. Unwritten' /\ Addressed'
    BY <1>4, <1>5, <1>7, <1>9, <1>10, <2>1 DEF Unwritten, Addressed
  <2>8. Placed'
    BY <2>6, <2>7 DEF Placed
  <2>9. QED
    BY <2>3, <2>8
<1>15. "write_record" \in Ops /\ spare \in SpareType
  BY OpNames, TypeFacts
<1>16. QED
  BY <1>2, <1>6, <1>8, <1>9, <1>12, <1>13, <1>14, <1>15, FlashKept

\* FtwEraseSpareBlock, the erase: a stutter of AtomicWrite.
LEMMA EraseSpareKept ==
  ASSUME IInv, IInv', DInv, EraseSpare
  PROVE  Kept
<1>1. At("erase_spare") /\ Flash(work, ErasedSpare, target, dev)
  BY DEF EraseSpare
<1>2. Calm(work)
  BY <1>1 DEF DInv, Careful
<1>3. InErase
  BY <1>1, PlaceOfStep
<1>4. ErasedSpare \in SpareType /\ "erase_spare" \in Ops
  BY NoDevFacts, OpNames
<1>5. CASE First("erase_spare", PSpare)
  <2>1. Tail(prog) = PSpare
    BY <1>4, <1>5, FirstFacts
  <2>2. /\ PSpare = Push("write_spare", PCommit) /\ PCommit \in Progs /\ "write_spare" \in Ops
    BY PlaceTypes, OpNames DEF PSpare
  <2>3. Tail(prog) # <<>> /\ Head(Tail(prog)) = "write_spare"
    <3>1. Push("write_spare", PCommit) # <<>> /\ Head(Push("write_spare", PCommit)) = "write_spare"
      BY <2>2, PushFacts
    <3>2. QED
      BY <2>1, <2>2, <3>1
  <2>4. Unwritten /\ Addressed
    BY <1>1, <2>3 DEF DInv, Placed, Second
  <2>5. ASSUME Whole(work, ErasedSpare, target, dev) PROVE Placed'
    <3>1. prog' = Push("write_spare", PCommit) /\ dev' = dev /\ work' = work /\ arg' = arg
      BY <2>1, <2>2, <2>5 DEF Whole
    <3>2. \A step : At(step)' => step = "write_spare"
      BY <2>2, <3>1, Elsewhere
    <3>3. Unwritten' /\ Addressed'
      BY <2>4, <3>1 DEF Unwritten, Addressed
    <3>4. QED
      BY <3>2, <3>3 DEF Placed
  <2>6. QED
    BY <1>1, <1>2, <1>4, <1>5, <2>5, SpareKept
<1>6. CASE First("erase_spare", PAfterFree(call))
  <2>1. Plain(PAfterFree(call))
    <3>1. /\ "restore_spare" \in Ops /\ "refresh" \in Ops /\ <<>> \in Progs /\ PAbort \in Progs
      BY OpNames, PlaceTypes
    <3>2. Plain(PRestore) /\ Plain(PRefAbort) /\ Plain(<<>>)
      BY <3>1, PlainPush DEF PRestore, PRefAbort, Plain, SpareOps
    <3>3. QED
      BY <3>2 DEF PAfterFree
  <2>2. Whole(work, ErasedSpare, target, dev) => Placed'
    BY <1>4, <1>6, <2>1, FirstFacts, PlainPlaced DEF Whole
  <2>3. QED
    BY <1>1, <1>2, <1>4, <1>6, <2>2, SpareKept
<1>7. QED
  BY <1>3, <1>5, <1>6, ServicePlaces

\* FtwWrite, the copy to the spare block: a stutter of AtomicWrite.
LEMMA WriteSpareKept ==
  ASSUME IInv, IInv', DInv, WriteSpare
  PROVE  Kept
<1>1. At("write_spare") /\ InSpare
  BY PlaceOfStep DEF WriteSpare
<1>2. call = "Write" /\ First("write_spare", PCommit)
  BY <1>1, ServicePlaces DEF InSpare
<1>3. Calm(work) /\ Unwritten /\ Addressed
  BY <1>1 DEF DInv, Careful, Placed
<1> DEFINE c == Overlay(target[arg.lba], arg)
           s == [spare EXCEPT !.data = c]
<1>4. c \in [Cells -> Values \cup {Erased}]
  <2>1. arg \in Requests
    BY <1>2, TypeFacts DEF Typed
  <2>2. arg.lba \in Lbas /\ arg.value \in Values
    BY <2>1, FlashAssumption
  <2>3. target[arg.lba] \in [Cells -> Values \cup {Erased}]
    BY <2>2, TypeFacts DEF TargetType
  <2>4. QED
    BY <2>2, <2>3 DEF Overlay
<1> HIDE DEF c
<1>5. s \in SpareType /\ s.data = c
  BY <1>4, TypeFacts DEF SpareType
<1>6. Flash(work, s, target, dev)
  BY DEF WriteSpare, c
<1> HIDE DEF s
<1>7. "write_spare" \in Ops /\ "spare_complete" \in Ops /\ PClear("Write") \in Progs
  BY OpNames, PlaceTypes
<1>8. ASSUME Whole(work, s, target, dev) PROVE Placed'
  <2>1. /\ prog' = PCommit /\ dev' = dev /\ work' = work /\ arg' = arg /\ target' = target
        /\ spare' = s
    BY <1>2, <1>7, <1>8, FirstFacts DEF Whole
  <2>2. \A step : At(step)' => step = "spare_complete"
    BY <1>7, <2>1, Elsewhere DEF PCommit
  <2>3. Unwritten' /\ Addressed'
    BY <1>3, <2>1 DEF Unwritten, Addressed
  <2>4. spare'.data = Overlay(target'[arg'.lba], arg')
    BY <1>5, <2>1 DEF c
  <2>5. QED
    BY <2>2, <2>3, <2>4 DEF Placed, Overlay
<1>9. QED
  BY <1>2, <1>3, <1>5, <1>6, <1>7, <1>8, SpareKept

\* FtwWrite, the spare block put back: a stutter of AtomicWrite.
LEMMA RestoreSpareKept ==
  ASSUME IInv, IInv', DInv, RestoreSpare
  PROVE  Kept
<1>1. At("restore_spare") /\ Flash(work, dev.save, target, dev) /\ InRestore
  BY PlaceOfStep DEF RestoreSpare
<1>2. Calm(work)
  BY <1>1 DEF DInv, Careful
<1>3. First("restore_spare", <<>>) /\ "restore_spare" \in Ops /\ dev.save \in SpareType
  BY <1>1, ServicePlaces, OpNames, TypeFacts
<1>4. Whole(work, dev.save, target, dev) => Placed'
  BY <1>3, FirstFacts, Finally DEF Whole
<1>5. QED
  BY <1>1, <1>2, <1>3, <1>4, SpareKept

-----------------------------------------------------------------------------
(***************************************************************************)
(* The commit, and the flush to the target.                                *)
(***************************************************************************)

\* A state bit of the record is written, or not.
LEMMA RecordWritten ==
  ASSUME IInv, Amid, NEW bit \in {2, 4}, UpdateBoth(dev.r, bit)
  PROVE  \E w, d :
           /\ w \in WorkType /\ Flash(w, spare, target, d)
           /\ w.hdr = "Valid" /\ w.queue \in Queues /\ Listed(w.queue, dev.h)
           /\ w.queue[dev.r].bits = work.queue[dev.r].bits \cup {bit}
           /\ w.queue[dev.r].lba = work.queue[dev.r].lba
           /\ d.h = dev.h /\ d.r = dev.r
           /\ d.ws.queue[dev.r].lba = dev.ws.queue[dev.r].lba
           /\ \A g \in {work.hdr, w.hdr}, t \in TornQueue(work.queue, w.queue) :
                [hdr |-> g, queue |-> t] \in {work, w}
<1> DEFINE r == dev.r
           q == work.queue
           p == SetBit(q, r, bit)
           w == [work EXCEPT !.queue = SetBit(@, dev.r, bit)]
           v == dev.ws.queue
           u == SetBit(v, r, bit)
           d == [dev EXCEPT !.ws.queue = SetBit(@, dev.r, bit)]
<1>1. /\ dev.h \in Slots /\ r \in Slots /\ q \in Queues /\ v \in Queues /\ bit \in {1, 2, 4}
      /\ r # dev.h /\ work.hdr = "Valid"
  BY AmidFacts, TypeFacts DEF Amid
<1>2. /\ w \in WorkType /\ w.queue = p /\ w.hdr = "Valid" /\ Listed(w.queue, dev.h)
      /\ w.queue \in Queues
  BY <1>1, BitStaysListed
<1>3. d = [dev EXCEPT !.ws.queue = u]
  OBVIOUS
<1>4. Flash(w, spare, target, d)
  BY DEF UpdateBoth
<1>5. /\ p[r].bits = q[r].bits \cup {bit} /\ p[r].lba = q[r].lba
      /\ u \in Queues /\ u[r].lba = v[r].lba
  <2> HIDE DEF q, v, r
  <2>1. p[r].bits = q[r].bits \cup {bit} /\ p[r].lba = q[r].lba
    <3>1. q \in Queues /\ r \in Slots /\ bit \in {1, 2, 4}
      BY <1>1
    <3>2. QED
      BY <3>1, SetBitType
  <2>2. u \in Queues /\ u[r].lba = v[r].lba
    <3>1. v \in Queues /\ r \in Slots /\ bit \in {1, 2, 4}
      BY <1>1
    <3>2. QED
      BY <3>1, SetBitType
  <2>3. QED
    BY <2>1, <2>2
<1>6. \A t \in TornQueue(q, p) : t = q \/ t = p
  <2> HIDE DEF q, r
  <2>1. QED
    BY <1>1, TornBit
<1> HIDE DEF u
<1>7. d.h = dev.h /\ d.r = dev.r /\ d.ws.queue = u
  BY <1>3, <1>5, TypeFacts DEF DevType, WorkType, Queues
<1> HIDE DEF w, d, p
<1>8. w = [hdr |-> w.hdr, queue |-> w.queue] /\ work = [hdr |-> work.hdr, queue |-> work.queue]
  BY <1>2, TypeFacts DEF WorkType
<1>9. ASSUME NEW g \in {work.hdr, w.hdr}, NEW t \in TornQueue(work.queue, w.queue)
      PROVE  [hdr |-> g, queue |-> t] \in {work, w}
  <2>1. g = "Valid" /\ (t = q \/ t = p)
    BY <1>1, <1>2, <1>6, <1>9
  <2>2. QED
    BY <1>1, <1>2, <1>8, <2>1
<1>10. QED
  BY <1>2, <1>4, <1>5, <1>7, <1>9

\* The write that is amid is the only one that can be pending.
LEMMA AmidPending ==
  ASSUME IInv, Amid, NEW w, w.hdr = "Valid", w.queue \in Queues, Listed(w.queue, dev.h)
  PROVE  /\ dev.h \in Slots /\ dev.r = dev.h + 1 /\ Open(w.queue, dev.h)
         /\ \A k \in Slots : PendingAt(w, k) => k = dev.h
         /\ 2 \in w.queue[dev.r].bits /\ 4 \notin w.queue[dev.r].bits => PendingAt(w, dev.h)
         /\ 4 \in w.queue[dev.r].bits => Calm(w)
<1>1. dev.h \in Slots /\ dev.r = dev.h + 1 /\ Open(w.queue, dev.h)
  BY AmidFacts DEF Listed
<1>2. \A k \in Slots : PendingAt(w, k) => k = dev.h
  BY <1>1, OnlyListed DEF PendingAt
<1>3. QED
  BY <1>1, <1>2, CalmAtHeader DEF PendingAt

\* FtwWrite, the bit that commits the write: the write, or a stutter of AtomicWrite.
LEMMA SpareCompleteKept ==
  ASSUME IInv, IInv', DInv, SpareComplete
  PROVE  Kept
<1>1. At("spare_complete") /\ InCommit /\ UpdateBoth(dev.r, 2)
  BY PlaceOfStep DEF SpareComplete, SPARE_COMPLETED
<1>2. call = "Write" /\ Amid /\ prog = PCommit /\ First("spare_complete", PClear("Write"))
  BY <1>1, ServicePlaces DEF InCommit
<1>3. /\ Sound /\ Fits /\ Calm(work) /\ Unwritten /\ Addressed
      /\ spare.data = Overlay(target[arg.lba], arg)
  BY <1>1 DEF DInv, Careful, Placed
<1>4. PICK w, d :
           /\ w \in WorkType /\ Flash(w, spare, target, d)
           /\ w.hdr = "Valid" /\ w.queue \in Queues /\ Listed(w.queue, dev.h)
           /\ w.queue[dev.r].bits = work.queue[dev.r].bits \cup {2}
           /\ w.queue[dev.r].lba = work.queue[dev.r].lba
           /\ d.h = dev.h /\ d.r = dev.r
           /\ d.ws.queue[dev.r].lba = dev.ws.queue[dev.r].lba
           /\ \A g \in {work.hdr, w.hdr}, t \in TornQueue(work.queue, w.queue) :
                [hdr |-> g, queue |-> t] \in {work, w}
  BY <1>1, <1>2, RecordWritten
<1>5. /\ dev.h \in Slots /\ dev.r = dev.h + 1 /\ Open(w.queue, dev.h) /\ PendingAt(w, dev.h)
      /\ \A k \in Slots : PendingAt(w, k) => k = dev.h
      /\ w.queue[dev.h + 1].lba = arg.lba
  BY <1>2, <1>3, <1>4, AmidPending DEF Unwritten, Addressed
<1>6. arg \in Requests /\ arg.lba \in Lbas /\ arg.value \in Values
  BY <1>2, TypeFacts, FlashAssumption DEF Typed
<1>7. \A l : Contents(l) = target[l]
  BY <1>3, TypeFacts, ReadCalm, ContentsRead
<1>8. spare.data \in [Cells -> Values]
  <2>1. target[arg.lba] \in [Cells -> Values]
    BY <1>3, <1>6, <1>7 DEF Sound
  <2>2. QED
    BY <1>3, <1>6, <2>1 DEF Overlay
<1>9. ASSUME work' = w, spare' = spare, target' = target
      PROVE  /\ Sound'
             /\ [lba \in Lbas |-> Contents(lba)]' = Promise!Written
  <2>1. \A l : Contents(l)' = IF arg.lba = l THEN spare.data ELSE target[l]
    BY <1>4, <1>5, <1>9, ReadPending, ContentsRead
  <2>2. \A l \in Lbas : Contents(l)' \in [Cells -> Values]
    BY <1>3, <1>7, <1>8, <2>1 DEF Sound
  <2>3. \A k \in Slots : PendingAt(work, k)' => work'.queue[k + 1].lba \in Lbas
    BY <1>5, <1>6, <1>9 DEF PendingAt
  <2>4. spare.data = Promise!Overlay(target[arg.lba], arg)
    BY <1>3 DEF Overlay, Promise!Overlay
  <2>5. [lba \in Lbas |-> Contents(lba)]' = Promise!Written
    <3> DEFINE b == [lba \in Lbas |-> Contents(lba)]
    <3>1. b = [l \in Lbas |-> target[l]]
      BY <1>7
    <3>2. b' = [l \in Lbas |-> IF arg.lba = l THEN spare.data ELSE target[l]]
      BY <2>1
    <3>3. b[arg.lba] = target[arg.lba]
      BY <1>6, <3>1
    <3>4. b' = [b EXCEPT ![arg.lba] = Promise!Overlay(b[arg.lba], arg)]
      BY <1>6, <2>4, <3>1, <3>2, <3>3
    <3>5. QED
      BY <1>2, <3>4 DEF Promise!Written
  <2>6. QED
    BY <2>2, <2>3, <2>5 DEF Sound
<1>10. Asked(prog) /\ ~Asked(PClear("Write"))
  <2>1. "spare_complete" \in Ops /\ PClear("Write") \in Progs
    BY OpNames, PlaceTypes
  <2>2. QED
    BY <1>2, <2>1, AskedPush, AskedFacts DEF PCommit
<1>11. Phase = "asked"
  BY <1>2, <1>10 DEF Phase, Asked
<1>12. CASE Whole(w, spare, target, d)
  <2>1. /\ work' = w /\ spare' = spare /\ target' = target /\ dev' = d
        /\ call' = call /\ arg' = arg /\ prog' = Tail(prog)
    BY <1>12 DEF Whole
  <2>2. /\ "spare_complete" \in Ops /\ "erase_target" \in Ops
        /\ PFlush("Write") \in Progs
    BY OpNames, PlaceTypes
  <2>3. prog' = PClear("Write")
    BY <1>2, <2>1, <2>2, FirstFacts
  <2>4. (\A step : At(step)' => step = "erase_target") /\ ~Careful'
    BY <2>2, <2>3, Elsewhere DEF PClear, CarefulOps
  <2>5. Fits'
    BY <1>4, <1>5, <2>1, FitsAt
  <2>6. Moving'
    BY <1>3, <1>4, <1>5, <2>1 DEF Moving, PendingAt, Addressed
  <2>7. Placed'
    BY <2>4, <2>6 DEF Placed
  <2>8. Phase' = "done"
    BY <1>2, <1>10, <2>1, <2>3 DEF Phase, Asked
  <2>9. Promise!Commit
    BY <1>9, <1>11, <2>1, <2>8 DEF Promise!Commit
  <2>10. QED
    BY <1>9, <2>1, <2>4, <2>5, <2>7, <2>9 DEF Kept, DInv, Promise!Next
<1>13. CASE Cut(w, spare, target)
  <2>1. spare \in SpareType /\ target \in TargetType
    BY TypeFacts
  <2>2. Stopped /\ spare' = spare /\ target' = target /\ work' \in {work, w}
    BY <1>4, <1>13, <2>1, CutFacts
  <2>3. CASE work' = work
    BY <2>2, <2>3, RefuseKept
  <2>4. CASE work' = w
    <3>1. Sound' /\ [lba \in Lbas |-> Contents(lba)]' = Promise!Written
      BY <1>9, <2>2, <2>4
    <3>2. DInv' /\ Phase' = "idle" /\ call' # "Write"
      BY <2>2, <3>1, StoppedFacts
    <3>3. Promise!End
      BY <1>11, <3>1, <3>2 DEF Promise!End
    <3>4. QED
      BY <3>2, <3>3 DEF Kept, Promise!Next
  <2>5. QED
    BY <2>2, <2>3, <2>4
<1>14. QED
  BY <1>4, <1>12, <1>13, FlashCases


\* While a record is moved, its block is in the spare block and the others are targets.
LEMMA MovingFacts ==
  ASSUME IInv, DInv, Amid, Moving
  PROVE  /\ dev.h \in Slots /\ dev.r = dev.h + 1 /\ work.queue[dev.r].lba \in Lbas
         /\ Record.lba = work.queue[dev.r].lba
         /\ \A l : Contents(l) = IF work.queue[dev.r].lba = l THEN spare.data ELSE target[l]
         /\ \A img : OnTarget(img) = [target EXCEPT ![work.queue[dev.r].lba] = img]
         /\ spare.data \in [Cells -> Values]
<1>1. dev.h \in Slots /\ dev.r = dev.h + 1 /\ PendingAt(work, dev.h)
  BY AmidFacts DEF Moving
<1>2. work.queue[dev.r].lba \in Lbas /\ Record.lba = work.queue[dev.r].lba
  BY <1>1 DEF DInv, Sound, Moving, Record
<1>3. \A l : Contents(l) = IF work.queue[dev.r].lba = l THEN spare.data ELSE target[l]
  BY <1>1, TypeFacts, ReadPending, ContentsRead
<1>4. \A img : OnTarget(img) = [target EXCEPT ![work.queue[dev.r].lba] = img]
  BY <1>2 DEF OnTarget
<1>5. spare.data \in [Cells -> Values]
  BY <1>2, <1>3 DEF DInv, Sound
<1>6. QED
  BY <1>1, <1>2, <1>3, <1>4, <1>5

\* What happens to the target meanwhile is not seen.
LEMMA TargetKept ==
  ASSUME IInv, IInv', DInv, Amid, Moving, NEW img \in [Cells -> Values \cup {Erased}],
         NEW d, Flash(work, spare, OnTarget(img), d),
         NEW op \in Ops, NEW t, First(op, t), op \notin {"write", "check_write", "spare_complete"},
         Whole(work, spare, OnTarget(img), d) => Fits' /\ Placed' /\ ~Careful'
  PROVE  Kept
<1> DEFINE b == work.queue[dev.r].lba
           u == OnTarget(img)
<1>1. /\ dev.h \in Slots /\ dev.r = dev.h + 1 /\ b \in Lbas
      /\ \A l : Contents(l) = IF b = l THEN spare.data ELSE target[l]
      /\ u = [target EXCEPT ![b] = img]
      /\ u \in TargetType
  BY MovingFacts, OnTargetType
<1>2. \A l \in Lbas : l # b => u[l] = target[l]
  BY <1>1, TypeFacts DEF TargetType
<1>3. PendingAt(work, dev.h) /\ work \in WorkType /\ spare \in SpareType
  BY TypeFacts DEF Moving
<1>4. ASSUME work' = work, spare' = spare, \A l \in Lbas : l # b => target'[l] = target[l]
      PROVE  Sound' /\ \A l \in Lbas : Contents(l)' = Contents(l)
  <2>1. \A l : Contents(l)' = IF b = l THEN spare.data ELSE target'[l]
    BY <1>1, <1>3, <1>4, ReadPending, ContentsRead
  <2>2. \A l \in Lbas : Contents(l)' = Contents(l)
    BY <1>1, <1>4, <2>1
  <2>3. QED
    BY <1>4, <2>2 DEF DInv, Sound, PendingAt
<1> HIDE DEF u, b
<1>5. CASE Whole(work, spare, u, d)
  <2>1. /\ work' = work /\ spare' = spare /\ target' = u /\ call' = call /\ arg' = arg
        /\ prog' = Tail(prog)
    BY <1>5 DEF Whole
  <2>2. Sound' /\ \A l \in Lbas : Contents(l)' = Contents(l)
    BY <1>2, <1>4, <2>1
  <2>3. prog' = t /\ prog = Push(op, t) /\ t \in Progs
    BY <2>1, FirstFacts DEF First
  <2>4. Asked(prog') <=> Asked(prog)
    BY <2>3, AskedPush
  <2>5. [Promise!Next]_(Promise!vars)
    BY <2>1, <2>2, <2>4, Goes
  <2>6. QED
    BY <1>5, <2>2, <2>5 DEF Kept, DInv, u
<1>6. CASE Cut(work, spare, u)
  <2>1. /\ work' = work /\ spare' = spare /\ Stopped
        /\ \A l \in Lbas : u[l] = target[l] => target'[l] = target[l]
    BY <1>1, <1>3, <1>6, CutFacts
  <2>2. QED
    BY <1>2, <1>4, <2>1, StoppedKept
<1>7. QED
  BY <1>5, <1>6, FlashCases DEF u

\* FlushSpareBlockToTargetBlock, the erase: a stutter of AtomicWrite.
LEMMA EraseTargetKept ==
  ASSUME IInv, IInv', DInv, EraseTarget
  PROVE  Kept
<1>1. At("erase_target") /\ InClear /\ Flash(work, spare, OnTarget(ErasedData), dev)
  BY PlaceOfStep DEF EraseTarget
<1>2. Amid /\ First("erase_target", PFlush(call))
  BY <1>1, ServicePlaces DEF InClear
<1>3. Moving
  BY <1>1 DEF DInv, Placed
<1>4. /\ "erase_target" \in Ops /\ "write_target" \in Ops /\ PDest(call) \in Progs
      /\ ErasedData \in [Cells -> Values \cup {Erased}]
  BY OpNames, PlaceTypes DEF ErasedData
<1>5. ASSUME Whole(work, spare, OnTarget(ErasedData), dev)
      PROVE  Fits' /\ Placed' /\ ~Careful'
  <2>1. prog' = PFlush(call) /\ dev' = dev /\ work' = work /\ arg' = arg /\ call' = call
    BY <1>2, <1>4, <1>5, FirstFacts DEF Whole
  <2>2. (\A step : At(step)' => step = "write_target") /\ ~Careful'
    BY <1>4, <2>1, Elsewhere DEF PFlush, CarefulOps
  <2>3. Moving'
    BY <1>3, <2>1 DEF Moving, PendingAt
  <2>4. Fits'
    BY <2>1 DEF DInv, Fits
  <2>5. QED
    BY <2>2, <2>3, <2>4 DEF Placed
<1>6. QED
  BY <1>1, <1>2, <1>3, <1>4, <1>5, TargetKept

\* FlushSpareBlockToTargetBlock, the copy: a stutter of AtomicWrite.
LEMMA WriteTargetKept ==
  ASSUME IInv, IInv', DInv, WriteTarget
  PROVE  Kept
<1>1. At("write_target") /\ InFlush /\ Flash(work, spare, OnTarget(spare.data), dev)
  BY PlaceOfStep DEF WriteTarget
<1>2. Amid /\ First("write_target", PDest(call))
  BY <1>1, ServicePlaces DEF InFlush
<1>3. Moving
  BY <1>1 DEF DInv, Placed
<1>4. /\ "write_target" \in Ops /\ "dest_complete" \in Ops /\ PDone(call) \in Progs
      /\ spare.data \in [Cells -> Values \cup {Erased}]
  BY OpNames, PlaceTypes, TypeFacts DEF SpareType
<1>5. ASSUME Whole(work, spare, OnTarget(spare.data), dev)
      PROVE  Fits' /\ Placed' /\ ~Careful'
  <2>1. /\ prog' = PDest(call) /\ dev' = dev /\ work' = work /\ arg' = arg /\ call' = call
        /\ spare' = spare /\ target' = OnTarget(spare.data)
    BY <1>2, <1>4, <1>5, FirstFacts DEF Whole
  <2>2. (\A step : At(step)' => step = "dest_complete") /\ ~Careful'
    BY <1>4, <2>1, Elsewhere DEF PDest, CarefulOps
  <2>3. Moving'
    BY <1>3, <2>1 DEF Moving, PendingAt
  <2>4. Fits'
    BY <2>1 DEF DInv, Fits
  <2>5. target' = [target EXCEPT ![work.queue[dev.r].lba] = spare.data]
        /\ work.queue[dev.r].lba \in Lbas
    BY <1>2, <1>3, <2>1, MovingFacts
  <2>6. target'[work'.queue[dev'.r].lba] = spare'.data
    BY <2>1, <2>5, TypeFacts DEF TargetType
  <2>7. QED
    BY <2>2, <2>3, <2>4, <2>6 DEF Placed
<1>6. QED
  BY <1>1, <1>2, <1>3, <1>4, <1>5, TargetKept

\* The target holds what the spare block holds, and the record says so.
LEMMA DestCompleteKept ==
  ASSUME IInv, IInv', DInv, DestComplete
  PROVE  Kept
<1>1. At("dest_complete") /\ InDest /\ UpdateBoth(dev.r, 4)
  BY PlaceOfStep DEF DestComplete, DEST_COMPLETED
<1>2. Amid /\ First("dest_complete", PDone(call))
  BY <1>1, ServicePlaces DEF InDest
<1>3. Moving /\ target[work.queue[dev.r].lba] = spare.data /\ Sound /\ Fits
  BY <1>1 DEF DInv, Placed
<1>4. PICK w, d :
           /\ w \in WorkType /\ Flash(w, spare, target, d)
           /\ w.hdr = "Valid" /\ w.queue \in Queues /\ Listed(w.queue, dev.h)
           /\ w.queue[dev.r].bits = work.queue[dev.r].bits \cup {4}
           /\ w.queue[dev.r].lba = work.queue[dev.r].lba
           /\ d.h = dev.h /\ d.r = dev.r
           /\ d.ws.queue[dev.r].lba = dev.ws.queue[dev.r].lba
           /\ \A g \in {work.hdr, w.hdr}, t \in TornQueue(work.queue, w.queue) :
                [hdr |-> g, queue |-> t] \in {work, w}
  BY <1>1, <1>2, RecordWritten
<1>5. /\ dev.h \in Slots /\ dev.r = dev.h + 1 /\ Open(w.queue, dev.h) /\ Calm(w)
  BY <1>2, <1>4, AmidPending
<1>6. \A l : Contents(l) = target[l]
  BY <1>2, <1>3, MovingFacts
<1>7. ASSUME work' = w, spare' = spare, target' = target
      PROVE  Sound' /\ \A l \in Lbas : Contents(l)' = Contents(l)
  <2>1. \A l : Contents(l)' = target[l]
    BY <1>4, <1>5, <1>7, NextTypes, ReadCalm, ContentsRead
  <2>2. \A h \in Slots : ~PendingAt(work, h)'
    BY <1>5, <1>7 DEF Calm, PendingAt
  <2>3. QED
    BY <1>3, <1>6, <2>1, <2>2 DEF Sound
<1>8. "dest_complete" \in Ops /\ "writes_complete" \in Ops /\ PFree(call) \in Progs
      /\ PDone(call) \in Progs
  BY OpNames, PlaceTypes
<1>9. CASE Whole(w, spare, target, d)
  <2>1. /\ work' = w /\ spare' = spare /\ target' = target /\ dev' = d
        /\ call' = call /\ arg' = arg /\ prog' = Tail(prog)
    BY <1>9 DEF Whole
  <2>2. prog' = PDone(call) /\ prog = Push("dest_complete", PDone(call))
    BY <1>2, <1>8, <2>1, FirstFacts DEF First
  <2>3. Placed'
    BY <1>8, <2>2, Elsewhere DEF PDone, SpareOps
  <2>4. Fits'
    <3>1. call' = "Write" => arg'.lba \subseteq work'.queue[dev.h + 1].lba
      BY <1>2, <1>3, <1>4, <1>5, <2>1, TypeFacts DEF Fits, Amid
    <3>2. QED
      BY <1>4, <1>5, <2>1, <3>1, FitsAt
  <2>5. Sound' /\ \A l \in Lbas : Contents(l)' = Contents(l)
    BY <1>7, <2>1
  <2>6. Calm(work)'
    BY <1>5, <2>1 DEF Calm, PendingAt
  <2>7. Asked(prog') <=> Asked(prog)
    BY <1>8, <2>2, AskedPush
  <2>8. [Promise!Next]_(Promise!vars)
    BY <2>1, <2>5, <2>7, Goes
  <2>9. QED
    BY <2>3, <2>4, <2>5, <2>6, <2>8 DEF Kept, DInv
<1>10. CASE Cut(w, spare, target)
  <2>1. spare \in SpareType /\ target \in TargetType
    BY TypeFacts
  <2>2. Stopped /\ spare' = spare /\ target' = target /\ work' \in {work, w}
    BY <1>4, <1>10, <2>1, CutFacts
  <2>3. CASE work' = work
    BY <2>2, <2>3, RefuseKept
  <2>4. CASE work' = w
    BY <1>7, <2>2, <2>4, StoppedKept
  <2>5. QED
    BY <2>2, <2>3, <2>4
<1>11. QED
  BY <1>4, <1>9, <1>10, FlashCases

-----------------------------------------------------------------------------
(***************************************************************************)
(* The end of a write, and what is recovered.                              *)
(***************************************************************************)

\* A header that is completed when nothing is pending.
LEMMA HeaderCompleted ==
  ASSUME IInv, IInv', DInv, Calm(work), work.hdr = "Valid", dev.h \in Slots,
         Listed(work.queue, dev.h) \/ Partial(work.queue, dev.h), UpdateBoth(dev.h, 4),
         NEW op \in Ops, NEW t, First(op, t), op \notin {"write", "check_write", "spare_complete"},
         prog' = t => Placed'
  PROVE  Kept
<1> DEFINE p == SetBit(work.queue, dev.h, 4)
           w == [work EXCEPT !.queue = SetBit(@, dev.h, 4)]
           d == [dev EXCEPT !.ws.queue = SetBit(@, dev.h, 4)]
<1>1. work.queue \in Queues /\ Settled(p) /\ p \in Queues
  BY ListedCompleted, TypeFacts
<1>2. Flash(w, spare, target, d)
  BY DEF UpdateBoth
<1>3. \A q \in TornQueue(work.queue, p) : q = work.queue \/ q = p
  BY <1>1, TornBit
<1>4. w = [work EXCEPT !.queue = p]
  OBVIOUS
<1> HIDE DEF p, d
<1>5. w \in WorkType /\ w.queue = p /\ w.hdr = "Valid" /\ work = [hdr |-> "Valid", queue |-> work.queue]
  BY <1>1, <1>4, TypeFacts DEF WorkType, Queues
<1> HIDE DEF w
<1>6. Dead(p) /\ Calm(w)
  BY <1>1, <1>5, Weaker, DeadIsCalm
<1>7. Calm([hdr |-> "Valid", queue |-> p])
  BY <1>5, <1>6 DEF Calm, PendingAt
<1>8. \A h \in {work.hdr, w.hdr}, q \in TornQueue(work.queue, w.queue) :
        Calm([hdr |-> h, queue |-> q])
  <2> SUFFICES ASSUME NEW q \in TornQueue(work.queue, w.queue)
               PROVE  Calm([hdr |-> "Valid", queue |-> q])
    BY <1>5
  <2>1. q = work.queue \/ q = p
    BY <1>3, <1>5
  <2>2. QED
    BY <1>5, <1>7, <2>1
<1>9. ASSUME Whole(w, spare, target, d) PROVE Fits' /\ Placed'
  <2>1. work' = w /\ prog' = t
    BY <1>9, FirstFacts DEF Whole
  <2>2. \A h \in Slots : ~Listed(work'.queue, h)
    BY <1>1, <1>5, <1>6, <2>1, DeadListsNothing
  <2>3. Fits'
    BY <2>2 DEF Fits
  <2>4. QED
    BY <2>1, <2>3
<1>10. spare \in SpareType
  BY TypeFacts
<1>11. QED
  BY <1>2, <1>5, <1>6, <1>8, <1>9, <1>10, FlashKept

\* FtwWriteRecord, the bit of the list: a stutter of AtomicWrite.
LEMMA WritesCompleteKept ==
  ASSUME IInv, IInv', DInv, WritesComplete
  PROVE  Kept
<1>1. At("writes_complete") /\ InDone
  BY PlaceOfStep DEF WritesComplete
<1>2. Amid /\ First("writes_complete", PFree(call)) /\ "writes_complete" \in Ops
  BY <1>1, ServicePlaces, OpNames DEF InDone
<1>3. Calm(work)
  BY <1>1 DEF DInv, Careful
<1>4. IsLastRecordOfWrites(dev.ws.queue, dev.h, dev.r)
  BY <1>2 DEF IsLastRecordOfWrites, Amid
<1>5. UpdateBoth(dev.h, 4)
  BY <1>4 DEF WritesComplete, WRITES_COMPLETED
<1>6. work.hdr = "Valid" /\ dev.h \in Slots /\ Listed(work.queue, dev.h)
  BY <1>2, TypeFacts DEF Amid
<1>7. ASSUME prog' = PFree(call) PROVE Placed'
  <2>1. /\ PAfterFree(call) \in Progs /\ "erase_spare" \in Ops /\ "restore_spare" \in Ops
        /\ "refresh" \in Ops /\ PAbort \in Progs /\ <<>> \in Progs
    BY PlaceTypes, OpNames
  <2>2. prog' # <<>> /\ Tail(prog') = PAfterFree(call)
    BY <1>7, <2>1, PushFacts DEF PFree
  <2>3. \A step : At(step)' => step = "erase_spare"
    BY <1>7, <2>1, Elsewhere DEF PFree
  <2>4. PAfterFree(call) # <<>> => Head(PAfterFree(call)) # "write_spare"
    <3>1. Head(PRestore) = "restore_spare" /\ Head(PRefAbort) = "refresh"
      BY <2>1, PushFacts DEF PRestore, PRefAbort
    <3>2. QED
      BY <3>1 DEF PAfterFree
  <2>5. QED
    BY <2>2, <2>3, <2>4 DEF Placed, Second
<1>8. QED
  BY <1>2, <1>3, <1>5, <1>6, <1>7, HeaderCompleted

\* FtwAbort, the header it completes: a stutter of AtomicWrite.
LEMMA AbortKept ==
  ASSUME IInv, IInv', DInv, Abort
  PROVE  Kept
<1>1. At("abort") /\ InAbort
  BY PlaceOfStep DEF Abort
<1>2. Calm(work)
  BY <1>1 DEF DInv, Careful
<1>3. PICK t \in {<<>>, PIEmpty, PILast, PAgain} : prog = Push("abort", t)
  BY <1>1 DEF InAbort, PAbort
<1>4. Synced /\ SafeValid(work) /\ call # "Write"
  BY <1>1, TypeFacts, ReadyIsSafe DEF InAbort
<1>5. /\ PISpare \in Progs /\ PIEmpty \in Progs /\ PILast \in Progs /\ PIFirst \in Progs
      /\ PAgain \in Progs /\ <<>> \in Progs /\ "abort" \in Ops
      /\ {"check_empty", "check_last", "refresh"} \subseteq Ops
  BY PlaceTypes, OpNames
<1>6. First("abort", t) /\ Tail(prog) = t
  BY <1>3, <1>5, PushFacts DEF First
<1>7. Plain(t)
  BY <1>3, <1>5, PlainPush DEF PIEmpty, PILast, PAgain, Plain, SpareOps
<1>8. CASE HeaderHas(HEADER_ALLOCATED)
  <2>1. ~HeaderHas(WRITES_COMPLETED)
    BY <1>4, HeaderKinds DEF HeaderHas, WRITES_COMPLETED
  <2>2. UpdateBoth(dev.h, 4)
    BY <1>8, <2>1 DEF Abort, WRITES_COMPLETED
  <2>3. Listed(work.queue, dev.h) \/ Partial(work.queue, dev.h)
    BY <1>4, <1>8, HeaderKinds DEF HeaderHas, HEADER_ALLOCATED, Frayed
  <2>4. work.hdr = "Valid" /\ dev.h \in Slots
    BY <1>4, TypeFacts DEF SafeValid
  <2>5. prog' = t => Placed'
    BY <1>7, PlainPlaced
  <2>6. QED
    BY <1>2, <1>5, <1>6, <2>2, <2>3, <2>4, <2>5, HeaderCompleted
<1>9. CASE ~HeaderHas(HEADER_ALLOCATED)
  <2>1. Decide(dev, t)
    BY <1>6, <1>9 DEF Abort
  <2>2. Placed'
    BY <1>7, <2>1, PlainPlaced DEF Decide
  <2>3. QED
    BY <1>2, <1>4, <2>1, <2>2, DecideKept
<1>10. QED
  BY <1>8, <1>9

\* FtwRestart, its tests: a stutter of AtomicWrite.
LEMMA RestartKept ==
  ASSUME IInv, DInv, Restart
  PROVE  Kept
<1>1. At("restart") /\ InRestart
  BY PlaceOfStep DEF Restart
<1>2. /\ call \in {"Restart", "Init"} /\ Ready(work) /\ Synced
      /\ First("restart", IF call = "Init" THEN PRefAbort ELSE <<>>) /\ "restart" \in Ops
  BY <1>1, ServicePlaces, OpNames DEF InRestart
<1>3. Tail(prog) = PAfterFree(call) /\ PAfterFree(call) \in Progs
  BY <1>2, FirstFacts, PlaceTypes DEF PAfterFree
<1>4. ~HeaderHas(WRITES_COMPLETED)
  BY <1>2, HeaderKinds DEF HeaderHas, WRITES_COMPLETED
<1>5. CASE Refuse
  BY <1>5, RefuseKept DEF Refuse, Stopped
<1>6. CASE /\ call = "Init" /\ Decide(dev, Tail(prog))
           /\ RecordHas(SPARE_COMPLETED) => RecordHas(DEST_COMPLETED)
  <2>1. Calm(work)
    BY <1>2, <1>6, SyncedCalm
  <2>2. "abort" \in Ops /\ <<>> \in Progs
    BY OpNames, PlaceTypes
  <2>3. Decide(dev, Push("refresh", Push("abort", <<>>)))
    BY <1>3, <1>6 DEF PAfterFree, PRefAbort, PAbort
  <2>4. QED
    BY <1>6, <2>1, <2>2, <2>3, DecideRefresh
<1>7. CASE /\ RecordHas(SPARE_COMPLETED) /\ ~RecordHas(DEST_COMPLETED)
           /\ Decide(dev, FtwWriteRecord \o <<"erase_spare">> \o Tail(prog))
  <2>1. Decide(dev, PClear(call))
    BY <1>3, <1>7, DecisionPrograms DEF PClear, PFlush, PDest, PDone, PFree
  <2>2. /\ dev.h \in Slots /\ dev.h < QueueSize /\ dev.h + 1 \in Slots /\ work.queue \in Queues
        /\ Record = work.queue[dev.r]
        /\ Fresh(work.queue, dev.h) \/ Listed(work.queue, dev.h)
    BY <1>2, HeaderKinds
  <2>3. work.queue[dev.h].n = 1 \/ 4 \notin work.queue[dev.h + 1].bits
    BY <2>2, SlotFacts, EmptyFacts DEF Fresh, Listed, BlankFrom
  <2>4. dev.r = dev.h + 1
    BY <1>2, <2>2, <2>3, FirstRecord DEF Synced
  <2>5. 2 \in work.queue[dev.r].bits /\ 4 \notin work.queue[dev.r].bits
    BY <1>7, <2>2 DEF RecordHas, SPARE_COMPLETED, DEST_COMPLETED
  <2>6. Listed(work.queue, dev.h)
    BY <2>2, <2>4, <2>5, SlotFacts, EmptyFacts DEF Fresh, BlankFrom
  <2>7. Moving
    BY <1>2, <2>4, <2>5, <2>6 DEF Moving, PendingAt, Synced, Ready
  <2>8. Moving' /\ prog' = PClear(call)
    BY <2>1, <2>7 DEF Moving, PendingAt, Decide
  <2>9. "erase_target" \in Ops /\ PFlush(call) \in Progs
    BY OpNames, PlaceTypes
  <2>10. (\A step : At(step)' => step = "erase_target") /\ ~Careful'
    BY <2>8, <2>9, Elsewhere DEF PClear, CarefulOps
  <2>11. Placed'
    BY <2>8, <2>10 DEF Placed
  <2>12. QED
    BY <1>2, <2>1, <2>10, <2>11, DecideKept
<1>8. QED
  BY <1>4, <1>5, <1>6, <1>7 DEF Restart

\* FtwGetLastWrite, the whole of it: a stutter of AtomicWrite.
LEMMA GetLastWriteKept ==
  ASSUME IInv, DInv, GetLastWrite
  PROVE  Kept
<1>1. InGetLast
  BY PlaceOfStep DEF GetLastWrite
<1>2. call = "GetLastWrite" /\ Synced
  BY <1>1 DEF InGetLast
<1>3. CASE Decide(dev, FtwAbort) /\ (RecordHas(SPARE_COMPLETED) => RecordHas(DEST_COMPLETED))
  <2>1. Calm(work)
    BY <1>2, <1>3, SyncedCalm
  <2>2. "abort" \in Ops /\ <<>> \in Progs
    BY OpNames, PlaceTypes
  <2>3. Decide(dev, Push("refresh", Push("abort", <<>>)))
    BY <1>3, ServicePrograms DEF PRefAbort, PAbort
  <2>4. QED
    BY <1>2, <2>1, <2>2, <2>3, DecideRefresh
<1>4. CASE Decide(dev, <<>>)
  <2>1. Placed' /\ ~Careful'
    BY <1>2, <1>4, Finally DEF Decide
  <2>2. QED
    BY <1>2, <1>4, <2>1, DecideKept
<1>5. QED
  BY <1>3, <1>4 DEF GetLastWrite, LastCompleteHeaderNot

-----------------------------------------------------------------------------
(***************************************************************************)
(* InitFtwProtocol, clients, and the theorems.                             *)
(***************************************************************************)

\* InitFtwProtocol, the test of the work space: a stutter of AtomicWrite.
LEMMA CheckValidKept ==
  ASSUME IInv, DInv, CheckValid
  PROVE  Kept
<1>1. InValid
  BY PlaceOfStep DEF CheckValid
<1>2. call = "Init" /\ First("check_valid", PIFirst) /\ "check_valid" \in Ops
  BY <1>1, StartPlaces, OpNames DEF InValid
<1>3. Tail(prog) = PIFirst /\ PIFirst \in Progs /\ PILast \in Progs /\ "check_first" \in Ops
  BY <1>2, FirstFacts, PlaceTypes, OpNames
<1>4. CASE Decide(dev, PIFirst)
  BY <1>2, <1>3, <1>4, DecidePush DEF PIFirst, SpareOps, CarefulOps
<1>5. ASSUME NEW d, Decide(d, RValid2(PFlushed))
      PROVE  Kept
  <2>1. PFlushed \in Progs
    BY PlaceTypes
  <2>2. prog' = RValid2(PFlushed) /\ Plain(RValid2(PFlushed))
    BY <1>5, <2>1, PlainReclaim DEF Decide
  <2>3. RInvalid2(PFlushed) \in Progs /\ "spare_valid" \in Ops
    BY <2>1, ReclaimTypes, OpNames
  <2>4. QED
    BY <1>2, <1>5, <2>3, DecidePush DEF RValid2, SpareOps, CarefulOps
<1>6. ASSUME NEW d, Decide(d, Push("collect_none", RErase1(RErase2(PIFirst))))
      PROVE  Kept
  <2>1. RErase2(PIFirst) \in Progs
    BY <1>3, ReclaimTypes
  <2>2. RErase1(RErase2(PIFirst)) \in Progs /\ "collect_none" \in Ops
    BY <2>1, ReclaimTypes, OpNames
  <2>3. QED
    BY <1>2, <1>6, <2>2, DecidePush DEF SpareOps, CarefulOps
<1>7. /\ FlushSpareBlockToWorkingBlock \o FtwAbort \o <<"refresh">> \o Tail(prog)
           = RValid2(PFlushed)
      /\ FtwReclaimWorkSpace(FALSE) \o Tail(prog)
           = Push("collect_none", RErase1(RErase2(PIFirst)))
  BY <1>3, DecisionPrograms DEF PFlushed, PAgain
<1>8. QED
  BY <1>3, <1>4, <1>5, <1>6, <1>7 DEF CheckValid

\* InitFtwProtocol, the test for a first header: a stutter of AtomicWrite.
LEMMA CheckFirstKept ==
  ASSUME IInv, DInv, CheckFirst
  PROVE  Kept
<1>1. InFirst
  BY PlaceOfStep DEF CheckFirst
<1>2. call = "Init" /\ Synced /\ First("check_first", PILast) /\ "check_first" \in Ops
  BY <1>1, StartPlaces, OpNames DEF InFirst
<1>3. /\ Tail(prog) = PILast /\ PILast \in Progs /\ PIEmpty \in Progs /\ "check_last" \in Ops
      /\ "abort" \in Ops
  BY <1>2, FirstFacts, PlaceTypes, OpNames
<1>4. CASE Decide(dev, PILast)
  BY <1>2, <1>3, <1>4, DecidePush DEF PILast, SpareOps, CarefulOps
<1>5. CASE Decide(dev, FtwAbort \o Tail(prog)) /\ ~RecordHas(SPARE_COMPLETED)
  <2>1. Calm(work)
    BY <1>2, <1>5, SyncedCalm
  <2>2. Decide(dev, Push("refresh", Push("abort", PILast)))
    BY <1>3, <1>5, DecisionPrograms
  <2>3. QED
    BY <1>2, <1>3, <2>1, <2>2, DecideRefresh
<1>6. QED
  BY <1>3, <1>4, <1>5 DEF CheckFirst

\* InitFtwProtocol, the test of the last header: a stutter of AtomicWrite.
LEMMA CheckLastKept ==
  ASSUME IInv, DInv, CheckLast
  PROVE  Kept
<1>1. InLast
  BY PlaceOfStep DEF CheckLast
<1>2. /\ call = "Init" /\ (Closed \/ (Synced /\ Left)) /\ First("check_last", PIEmpty)
      /\ "check_last" \in Ops
  BY <1>1, StartPlaces, OpNames DEF InLast
<1>3. /\ Tail(prog) = PIEmpty /\ PIEmpty \in Progs /\ PISpare \in Progs /\ "check_empty" \in Ops
      /\ "abort" \in Ops
  BY <1>2, FirstFacts, PlaceTypes, OpNames
<1>4. CASE Decide(dev, PIEmpty)
  BY <1>2, <1>3, <1>4, DecidePush DEF PIEmpty, SpareOps, CarefulOps
<1>5. CASE Decide(dev, FtwAbort \o Tail(prog)) /\ LastCompleteHeaderNot
  <2>1. Synced
    BY <1>2, <1>5, ToComplete
  <2>2. Calm(work)
    BY <1>5, <2>1, SyncedCalm DEF LastCompleteHeaderNot
  <2>3. Decide(dev, Push("refresh", Push("abort", PIEmpty)))
    BY <1>3, <1>5, DecisionPrograms
  <2>4. QED
    BY <1>2, <1>3, <2>2, <2>3, DecideRefresh
<1>6. QED
  BY <1>3, <1>4, <1>5 DEF CheckLast

\* InitFtwProtocol, the test for an erased rest: a stutter of AtomicWrite.
LEMMA CheckEmptyKept ==
  ASSUME IInv, DInv, CheckEmpty
  PROVE  Kept
<1>1. InEmpty
  BY PlaceOfStep DEF CheckEmpty
<1>2. call = "Init" /\ First("check_empty", PISpare) /\ "check_empty" \in Ops
  BY <1>1, StartPlaces, OpNames DEF InEmpty
<1>3. Tail(prog) = PISpare /\ PISpare \in Progs /\ <<>> \in Progs /\ "check_spare" \in Ops
  BY <1>2, FirstFacts, PlaceTypes, OpNames
<1>4. CASE Decide(dev, PISpare)
  BY <1>2, <1>3, <1>4, DecidePush DEF PISpare, SpareOps, CarefulOps
<1>5. CASE Decide(dev, FtwReclaimWorkSpace(TRUE) \o Tail(prog))
  <2>1. Decide(dev, Push("collect", RErase1(RErase2(PISpare))))
    BY <1>3, <1>5, DecisionPrograms
  <2>2. QED
    BY <1>2, <1>3, <2>1, DecideReclaim
<1>6. QED
  BY <1>3, <1>4, <1>5 DEF CheckEmpty

\* The start ends when nothing is pending, or restarts the write that is.
LEMMA CheckSpareKept ==
  ASSUME IInv, DInv, CheckSpare
  PROVE  Kept
<1>1. InISpare
  BY PlaceOfStep DEF CheckSpare
<1>2. call = "Init" /\ (Closed \/ Synced)
  BY <1>1 DEF InISpare
<1>3. ASSUME Closed PROVE Calm(work) /\ HeaderHas(WRITES_COMPLETED)
  <2>1. Calm(work)
    BY <1>3, TypeFacts, Weaker, DeadIsCalm DEF Closed
  <2>2. QED
    BY <1>3, <2>1 DEF Closed, HeaderHas, Header, WRITES_COMPLETED
<1>4. ASSUME Synced PROVE ~HeaderHas(WRITES_COMPLETED)
  BY <1>4, HeaderKinds DEF HeaderHas, WRITES_COMPLETED
<1>5. "abort" \in Ops /\ "restart" \in Ops /\ <<>> \in Progs /\ PRefAbort \in Progs
  BY OpNames, PlaceTypes
<1>6. CASE Decide(dev, <<>>) /\ (HeaderHas(WRITES_COMPLETED) \/ ~RecordHas(SPARE_COMPLETED))
  <2>1. Calm(work)
    BY <1>2, <1>3, <1>4, <1>6, SyncedCalm
  <2>2. Placed'
    BY <1>6, Finally DEF Decide
  <2>3. QED
    BY <1>2, <1>6, <2>1, <2>2, DecideKept
<1>7. CASE /\ Decide(dev, FtwAbort) /\ Record.lba \notin Lbas
           /\ ~HeaderHas(WRITES_COMPLETED)
  <2>1. Synced
    BY <1>2, <1>3, <1>7
  <2>2. /\ dev.h \in Slots /\ dev.h < QueueSize /\ work.queue \in Queues
        /\ Open(work.queue, dev.h) /\ Record = work.queue[dev.r]
    BY <2>1, HeaderKinds
  <2>3. ASSUME Listed(work.queue, dev.h)
        PROVE  ~PendingAt(work, dev.h)
    <3>1. work.queue[dev.h].n = 1
      BY <2>3 DEF Listed
    <3>2. dev.r = dev.h + 1
      BY <2>1, <2>2, <3>1, FirstRecord DEF Synced
    <3>3. QED
      BY <1>7, <2>2, <3>2 DEF DInv, Sound
  <2>4. Calm(work)
    BY <2>2, <2>3, OnlyListed DEF Calm, PendingAt
  <2>5. Decide(dev, Push("refresh", Push("abort", <<>>)))
    BY <1>7, ServicePrograms DEF PRefAbort, PAbort
  <2>6. QED
    BY <1>2, <1>5, <2>4, <2>5, DecideRefresh
<1>8. CASE Decide(dev, FtwRestart \o FtwAbort)
  <2>1. Decide(dev, Push("refresh", Push("restart", PRefAbort)))
    BY <1>8, ServicePrograms DEF PRestart
  <2>2. QED
    BY <1>2, <1>5, <2>1, DecideRefresh
<1>9. QED
  BY <1>6, <1>7, <1>8 DEF CheckSpare

\* A client's call keeps the contents.
LEMMA ClientCallKept ==
  ASSUME IInv, IInv', DInv, SameBlock, SafeAbort, ClientCall
  PROVE  Kept
<1>1. call = "none" /\ work' = work /\ spare' = spare /\ target' = target
  BY DEF ClientCall, Idle
<1>2. Ready(work) /\ work.queue \in Queues /\ work.hdr = "Valid"
  BY <1>1, IdleIsReady, TypeFacts DEF Ready
<1>3. \/ call' = "Allocate" /\ prog' = FtwAllocate
      \/ call' = "Write" /\ arg' \in Requests /\ FitsRecord(arg'.lba) /\ prog' = FtwWrite
      \/ call' = "Restart" /\ prog' = FtwRestart
      \/ call' = "Abort" /\ prog' = FtwAbort /\ ~IsPending(WorkSpaceQueue)
      \/ call' = "GetLastWrite" /\ prog' = FtwGetLastWrite
  BY DEF ClientCall, Starts
<1>4. \A l : Contents(l)' = Contents(l)
  BY <1>1, ContentsRead
<1>5. Sound'
  BY <1>1, <1>4 DEF DInv, Sound, PendingAt
<1>6. Fits'
  <2> SUFFICES ASSUME call' = "Write", NEW h \in Slots, Listed(work.queue, h)
               PROVE  arg'.lba \subseteq work.queue[h + 1].lba
    BY <1>1 DEF Fits
  <2>1. LastRecordIn(work.queue) = h + 1 /\ h + 1 \in Slots
    BY <1>2, ListedPending
  <2>2. QED
    BY <1>3, <2>1 DEF FitsRecord
<1>7. /\ PAbort \in Progs /\ PWrite \in Progs /\ PGetLast \in Progs /\ <<>> \in Progs
      /\ PAlloc("Allocate") \in Progs /\ PRestart("Restart") \in Progs
      /\ PHeader("Allocate") \in Progs
      /\ {"refresh", "allocate", "write", "restart", "abort", "get_last"} \subseteq Ops
  BY PlaceTypes, OpNames
<1>8. CASE call' = "Abort"
  <2>1. WorkSpaceQueue = work.queue
    BY <1>2 DEF WorkSpaceQueue, IsValidWorkSpace
  <2>2. Calm(work)
    BY <1>2, <1>3, <1>8, <2>1, ListedPending DEF Calm, PendingAt
  <2>3. Calm(work)'
    BY <1>1, <2>2 DEF Calm, PendingAt
  <2>4. prog' = Push("refresh", PAbort)
    BY <1>3, <1>8, ServicePrograms DEF PRefAbort
  <2>5. Placed'
    BY <1>7, <2>4, Elsewhere DEF SpareOps
  <2>6. [Promise!Next]_(Promise!vars)
    BY <1>1, <1>4, <1>8 DEF Promise!vars, Phase
  <2>7. QED
    BY <1>5, <1>6, <2>3, <2>5, <2>6 DEF Kept, DInv
<1>9. CASE call' # "Abort"
  <2>1. PICK t \in {PAlloc("Allocate"), PWrite, PRestart("Restart"), PGetLast} :
          prog' = Push("refresh", t)
    BY <1>3, <1>9, ServicePrograms
  <2>2. t \in Progs
    BY <1>7, <2>1
  <2>3. ~(t # <<>> /\ Head(t) = "abort")
    <3>1. /\ Head(PAlloc("Allocate")) = "allocate" /\ Head(PWrite) = "write"
          /\ Head(PGetLast) = "get_last"
      BY <1>7, PushFacts DEF PAlloc, PWrite, PGetLast
    <3>2. Head(PRestart("Restart")) = "restart"
      BY <1>7, PushFacts DEF PRestart
    <3>3. QED
      BY <2>1, <3>1, <3>2
  <2>4. Placed' /\ ~Careful'
    BY <1>7, <2>1, <2>2, <2>3, Elsewhere DEF SpareOps
  <2>5. CASE call' # "Write"
    <3>1. [Promise!Next]_(Promise!vars)
      BY <1>1, <1>4, <2>5 DEF Promise!vars, Phase
    <3>2. QED
      BY <1>5, <1>6, <2>4, <3>1 DEF Kept, DInv
  <2>6. CASE call' = "Write"
    <3>1. prog' = Push("refresh", PWrite)
      BY <1>3, <2>6, ServicePrograms
    <3>2. Asked(prog')
      BY <1>7, <3>1, AskedPush, AskedFacts
    <3>3. Phase' = "asked" /\ Phase = "idle"
      BY <1>1, <2>6, <3>2 DEF Phase, Asked
    <3>4. Promise!Ask
      BY <1>3, <1>4, <2>6, <3>3 DEF Promise!Ask
    <3>5. QED
      BY <1>5, <1>6, <2>4, <3>4 DEF Kept, DInv, Promise!Next
  <2>7. QED
    BY <2>5, <2>6
<1>10. QED
  BY <1>8, <1>9

\* A return, and a power failure between calls, keep the contents.
LEMMA ReturnKept ==
  ASSUME DInv, Return \/ Reset
  PROVE  Kept
BY RefuseKept DEF Return, Reset, Stopped

\* Nothing changes in a stuttering step.
LEMMA StutterKept ==
  ASSUME DInv, UNCHANGED vars
  PROVE  Kept
<1>1. /\ work' = work /\ spare' = spare /\ target' = target /\ dev' = dev /\ prog' = prog
      /\ call' = call /\ arg' = arg
  BY DEF vars
<1>2. \A l : Contents(l)' = Contents(l)
  BY <1>1, ContentsRead
<1>3. Sound' /\ Fits'
  BY <1>1, <1>2 DEF DInv, Sound, Fits, PendingAt
<1>4. Careful' => Calm(work)'
  BY <1>1 DEF DInv, Careful, Calm, PendingAt, At, Second
<1>5. Placed'
  BY <1>1 DEF DInv, Placed, At, Second, Unwritten, Addressed, Moving, PendingAt, Overlay
<1>6. [Promise!Next]_(Promise!vars)
  BY <1>1, <1>2, Goes
<1>7. QED
  BY <1>3, <1>4, <1>5, <1>6 DEF Kept, DInv

\* A machine that starts for the first time has contents in every block.
LEMMA InitDInv ==
  ASSUME Init
  PROVE  DInv /\ Promise!Init
<1>1. /\ work = ErasedWork /\ target \in [Lbas -> [Cells -> Values]] /\ call = "Init"
      /\ prog = Push("refresh", PIValid) /\ PIValid \in Progs /\ "refresh" \in Ops /\ IInv
  BY ServicePrograms, PlaceTypes, OpNames, InitIInv DEF Init
<1>2. Calm(work)
  BY <1>1, InvalidIsCalm DEF ErasedWork
<1>3. \A l : Contents(l) = target[l]
  BY <1>1, <1>2, TypeFacts, ReadCalm, ContentsRead
<1>4. Sound
  BY <1>1, <1>2, <1>3 DEF Sound, Calm
<1>5. Placed
  <2>1. \A step : At(step) => step = "refresh"
    BY <1>1, FirstFacts DEF First
  <2>2. QED
    BY <2>1 DEF Placed
<1>6. DInv
  BY <1>1, <1>2, <1>4, <1>5 DEF DInv, Fits
<1>7. Promise!Init
  BY <1>1, <1>3 DEF Promise!Init, Phase
<1>8. QED
  BY <1>6, <1>7

\* Every step keeps the invariant of the data and is a step of AtomicWrite.
LEMMA NextKept ==
  ASSUME Setting, SameBlock, SafeAbort, IInv, DInv, [Next]_vars
  PROVE  Kept
<1>1. IInv'
  BY NextIInv
<1>2. CASE ReclaimStep
  BY <1>1, <1>2, WorkSpaceRefreshKept, RereadKept, CollectKept, ReclaimSpareKept,
     WorkInvalidKept, EraseWorkKept, WriteWorkKept, WorkValidKept DEF ReclaimStep
<1>3. CASE ServiceStep
  BY <1>1, <1>3, AllocateKept, WriteHeaderKept, WritesAllocatedKept, WriteKept,
     CheckWriteKept,
     WriteRecordKept, EraseSpareKept, WriteSpareKept, SpareCompleteKept, RestoreSpareKept,
     EraseTargetKept, WriteTargetKept, DestCompleteKept, WritesCompleteKept, RestartKept,
     AbortKept, GetLastWriteKept DEF ServiceStep
<1>4. CASE InitStep
  BY <1>4, CheckValidKept, CheckFirstKept, CheckLastKept, CheckEmptyKept, CheckSpareKept
     DEF InitStep
<1>5. CASE ClientCall \/ Return \/ Reset
  BY <1>1, <1>5, ClientCallKept, ReturnKept
<1>6. CASE UNCHANGED vars
  BY <1>6, StutterKept
<1>7. QED
  BY <1>2, <1>3, <1>4, <1>5, <1>6 DEF Next

\* The clients that keep the contents of the blocks: they retry a write that is left for
\* the same block, and do not abort one whose spare copy is complete.
Clients == SameBlock /\ SafeAbort

\* The invariant of the data.
LEMMA DataInvariance ==
  Setting /\ Clients => (Spec => [](IInv /\ DInv))
<1>1. SUFFICES ASSUME Setting, Clients PROVE Spec => [](IInv /\ DInv)
  OBVIOUS
<1>2. Init => IInv /\ DInv
  BY InitIInv, InitDInv
<1>3. IInv /\ DInv /\ [Next]_vars => (IInv /\ DInv)'
  BY <1>1, NextIInv, NextKept DEF Kept, Clients
<1>4. QED
  BY <1>2, <1>3, PTL DEF Spec

\* A block changes only by a whole write that was asked for, whatever power failures and
\* device errors do: the driver implements AtomicWrite.
THEOREM WritesAtomic ==
  Setting /\ Clients => (Spec => WritesAreAtomic)
<1>1. SUFFICES ASSUME Setting, Clients PROVE Spec => WritesAreAtomic
  OBVIOUS
<1>2. Init => Promise!Init
  BY InitDInv
<1>3. IInv /\ DInv /\ [Next]_vars => [Promise!Next]_(Promise!vars)
  BY <1>1, NextKept DEF Kept, Clients
<1>4. Spec => [](IInv /\ DInv)
  BY <1>1, DataInvariance
<1>5. QED
  BY <1>2, <1>3, <1>4, PTL DEF Spec, WritesAreAtomic, Promise!Spec

\* No part of a block is lost: the original contents or the modified ones are available.
THEOREM ContentsStay ==
  Setting /\ Clients => (Spec => []ContentsAvailable)
<1>1. SUFFICES ASSUME Setting, Clients PROVE Spec => []ContentsAvailable
  OBVIOUS
<1>2. IInv /\ DInv => ContentsAvailable
  BY FlashAssumption DEF DInv, Sound, ContentsAvailable
<1>3. Spec => [](IInv /\ DInv)
  BY <1>1, DataInvariance
<1>4. QED
  BY <1>2, <1>3, PTL

\* InitFtwProtocol ends with a return: none of its steps does.
LEMMA StartReturns ==
  ASSUME IInv, Next, call = "Init", call' = "none"
  PROVE  prog = <<>> /\ work' = work /\ spare' = spare /\ target' = target
<1>1. ASSUME NEW w, NEW s, NEW t, NEW d, Flash(w, s, t, d) PROVE FALSE
  BY <1>1 DEF Flash, Starts
<1>2. ASSUME NEW d, NEW p, Decide(d, p) PROVE FALSE
  BY <1>2 DEF Decide
<1>3. ~ReclaimStep
  BY <1>1, <1>2 DEF ReclaimStep, WorkSpaceRefresh, Reread, Collect, ReclaimErase,
     ReclaimCopy,
     ReclaimRestore, SpareValid, WorkInvalid, EraseWork, WriteWork, WorkValid
<1>4. ~(Allocate \/ Write \/ CheckWrite \/ GetLastWrite)
  <2>1. ~(Allocate \/ Write \/ CheckWrite)
    BY PlaceOfStep DEF Allocate, Write, CheckWrite, InAllocate, InWrite, InCheck
  <2>2. QED
    BY <1>2, <2>1 DEF GetLastWrite
<1>5. ~(WriteHeader \/ WritesAllocated \/ WriteRecord \/ EraseSpare \/ WriteSpare \/ SpareComplete)
  BY <1>1 DEF WriteHeader, WritesAllocated, WriteRecord, EraseSpare, WriteSpare,
     SpareComplete,
     UpdateBoth
<1>6. ~(RestoreSpare \/ EraseTarget \/ WriteTarget \/ DestComplete)
  BY <1>1 DEF RestoreSpare, EraseTarget, WriteTarget, DestComplete, UpdateBoth
<1>7. ~(WritesComplete \/ Restart \/ Abort)
  BY <1>1, <1>2 DEF WritesComplete, Restart, Abort, UpdateBoth
<1>8. ~InitStep
  BY <1>2 DEF InitStep, CheckValid, CheckFirst, CheckLast, CheckEmpty, CheckSpare
<1>9. ~ClientCall /\ ~Reset
  BY DEF ClientCall, Reset, Idle
<1>10. Return
  BY <1>3, <1>4, <1>5, <1>6, <1>7, <1>8, <1>9 DEF Next, ServiceStep
<1>11. QED
  BY <1>10 DEF Return

\* When InitFtwProtocol returns, no write is left to be recovered and no part of a target
\* block is lost.
THEOREM RecoveryIsWhole ==
  Setting /\ Clients => (Spec => RecoveredIsWhole)
<1>1. SUFFICES ASSUME Setting, Clients PROVE Spec => RecoveredIsWhole
  OBVIOUS
<1>2. ASSUME IInv, DInv, [Next]_vars, call = "Init", call' = "none"
      PROVE  target' \in [Lbas -> [Cells -> Values]] /\ ~IsPending(work'.queue)
  <2>1. Next
    BY <1>2 DEF vars
  <2>2. prog = <<>> /\ work' = work /\ target' = target
    BY <1>2, <2>1, StartReturns
  <2>3. Calm(work) /\ Sound
    BY <1>2, <2>2 DEF DInv, Careful
  <2>4. \A l : Contents(l) = target[l]
    BY <1>2, <2>3, TypeFacts, ReadCalm, ContentsRead
  <2>5. target \in [Lbas -> [Cells -> Values]]
    BY <1>2, <2>3, <2>4, TypeFacts DEF Sound, TargetType
  <2>6. Ready(work)
    BY <1>2, <2>2, EndIsReady
  <2>7. Shape(work.queue) /\ work.hdr = "Valid" /\ work.queue \in Queues
    BY <1>2, <2>6, TypeFacts, ReadyIsSafe DEF SafeValid
  <2>8. ~IsPending(work.queue)
    BY <2>3, <2>7, PendingIsListed DEF Calm, PendingAt
  <2>9. QED
    BY <2>2, <2>5, <2>8
<1>3. IInv /\ DInv /\ [Next]_vars =>
        [call = "Init" /\ call' = "none" =>
           target' \in [Lbas -> [Cells -> Values]] /\ ~IsPending(work'.queue)]_vars
  BY <1>2
<1>4. Spec => [](IInv /\ DInv)
  BY <1>1, DataInvariance
<1>5. QED
  BY <1>3, <1>4, PTL DEF Spec, RecoveredIsWhole

-----------------------------------------------------------------------------
(***************************************************************************)
(* FtwAllocate leaves what it promises.                                    *)
(***************************************************************************)

\* Programs with more than one step.
More(p) == \E op \in Ops, t \in Progs : p = Push(op, t) /\ t # <<>>

\* A program of several steps, when its first step is put before others.
LEMMA MorePush ==
  ASSUME NEW op \in Ops, NEW t \in Progs
  PROVE  Push(op, t) \in Progs /\ Push(op, t) # <<>> /\ (t # <<>> => More(Push(op, t)))
BY PushFacts DEF More

\* The reclaim is followed by something, whichever step it is at.
LEMMA MoreReclaim ==
  ASSUME NEW t \in Progs, t # <<>>
  PROVE  /\ More(Push("reread", t)) /\ More(RRestore(t)) /\ More(RErase2(t))
         /\ More(RWorkValid(t)) /\ More(RWriteWork(t)) /\ More(REraseWork(t))
         /\ More(RInvalid2(t)) /\ More(RValid2(t)) /\ More(RInvalid1(t))
         /\ More(RValid1(t)) /\ More(RCopy(t)) /\ More(RErase1(t))
         /\ RErase2(t) \in Progs /\ RErase2(t) # <<>>
<1>1. More(Push("reread", t)) /\ More(RRestore(t)) /\ RRestore(t) \in Progs /\ RRestore(t) # <<>>
  BY OpNames, MorePush DEF RRestore
<1>2. More(RErase2(t)) /\ RErase2(t) \in Progs /\ RErase2(t) # <<>>
  BY <1>1, OpNames, MorePush DEF RErase2
<1>3. More(RWorkValid(t)) /\ RWorkValid(t) \in Progs /\ RWorkValid(t) # <<>>
  BY OpNames, MorePush DEF RWorkValid
<1>4. More(RWriteWork(t)) /\ RWriteWork(t) \in Progs /\ RWriteWork(t) # <<>>
  BY <1>3, OpNames, MorePush DEF RWriteWork
<1>5. More(REraseWork(t)) /\ REraseWork(t) \in Progs /\ REraseWork(t) # <<>>
  BY <1>4, OpNames, MorePush DEF REraseWork
<1>6. More(RInvalid2(t)) /\ RInvalid2(t) \in Progs /\ RInvalid2(t) # <<>>
  BY <1>5, OpNames, MorePush DEF RInvalid2
<1>7. More(RValid2(t)) /\ RValid2(t) \in Progs /\ RValid2(t) # <<>>
  BY <1>6, OpNames, MorePush DEF RValid2
<1>8. More(RInvalid1(t)) /\ RInvalid1(t) \in Progs /\ RInvalid1(t) # <<>>
  BY <1>7, OpNames, MorePush DEF RInvalid1
<1>9. More(RValid1(t)) /\ RValid1(t) \in Progs /\ RValid1(t) # <<>>
  BY <1>8, OpNames, MorePush DEF RValid1
<1>10. More(RCopy(t)) /\ RCopy(t) \in Progs /\ RCopy(t) # <<>>
  BY <1>9, OpNames, MorePush DEF RCopy
<1>11. More(RErase1(t))
  BY <1>10, OpNames, MorePush DEF RErase1
<1>12. QED
  BY <1>1, <1>2, <1>3, <1>4, <1>5, <1>6, <1>7, <1>8, <1>9, <1>10, <1>11

\* While Allocate is at a step before its last one, there are others behind it.
LEMMA AllocatePlaces ==
  ASSUME IInv, call = "Allocate", prog # <<>>
  PROVE  InBit \/ More(prog)
<1>1. \A t : AfterReady(t) \/ AfterValid(t) \/ AfterSafe(t) => t \in Progs /\ t # <<>>
  <2>1. ASSUME NEW t, AfterReady(t) \/ AfterValid(t) \/ AfterSafe(t)
        PROVE  t \in Progs /\ t # <<>>
    <3>1. PICK op \in AfterOps, u \in Progs : t = Push(op, u)
      BY <2>1, AfterHeads
    <3>2. op \in Ops
      BY OpNames DEF AfterOps
    <3>3. QED
      BY <3>1, <3>2, MorePush
  <2>2. QED
    BY <2>1
<1>2. \A t : AfterReclaim(t) => t \in Progs /\ t # <<>>
  <2>1. \A u \in Progs : Push("reread", u) \in Progs /\ Push("reread", u) # <<>>
    BY OpNames, MorePush
  <2>2. PIFirst \in Progs /\ PISpare \in Progs /\ PIFirst # <<>> /\ PISpare # <<>>
    BY OpNames, PlaceTypes, MorePush DEF PIFirst, PISpare
  <2>3. QED
    BY <1>1, <2>1, <2>2 DEF AfterReclaim
<1>3. \A t : AfterFlush(t) => t \in Progs /\ t # <<>>
  BY <1>2, MoreReclaim DEF AfterFlush
<1>4. CASE InService
  <2>1. InBit \/ prog = PAlloc("Allocate") \/ prog = PHeader("Allocate")
    BY <1>4 DEF InService, InAllocate, InHeader, InWrite, InCheck, InRecord, InErase,
       InSpare,
       InCommit, InClear, InFlush, InDest, InDone, InRestore, InRestart, InGetLast, InAbort
  <2>2. PBit("Allocate") \in Progs /\ PHeader("Allocate") \in Progs
        /\ {"allocate", "write_header", "writes_allocated"} \subseteq Ops /\ <<>> \in Progs
    BY PlaceTypes, OpNames
  <2>3. PBit("Allocate") # <<>>
    BY <2>2, MorePush DEF PBit
  <2>4. More(PHeader("Allocate")) /\ PHeader("Allocate") # <<>>
    BY <2>2, <2>3, MorePush DEF PHeader
  <2>5. More(PAlloc("Allocate"))
    BY <2>2, <2>4, MorePush DEF PAlloc
  <2>6. QED
    BY <2>1, <2>4, <2>5
<1>5. CASE InRefresh
  BY <1>1, <1>5, OpNames, MorePush DEF InRefresh
<1>6. CASE InCollect
  <2>1. PICK t : prog = Push("collect", RErase1(RErase2(t))) /\ AfterReclaim(t)
    BY <1>6 DEF InCollect
  <2>2. RErase2(t) \in Progs /\ RErase2(t) # <<>>
    BY <1>2, <2>1, MoreReclaim
  <2>3. RErase1(RErase2(t)) \in Progs /\ More(RErase1(RErase2(t)))
    BY <2>2, MoreReclaim, ReclaimTypes
  <2>4. RErase1(RErase2(t)) # <<>>
    BY <2>3, MorePush DEF More
  <2>5. QED
    BY <2>1, <2>3, <2>4, OpNames, MorePush
<1>7. CASE InReclaim /\ ~InCollect
  BY <1>1, <1>2, <1>3, <1>7, MoreReclaim
     DEF InReclaim, InEraseR, InCopy, InSpareV, InWorkI, InEraseW, InWriteW, InWorkV, InRestoreR,
         InReread
<1>8. ~InIdle /\ ~InEnd /\ ~InStart
  BY DEF InIdle, InEnd, InStart, InValid, InFirst, InLast, InEmpty, InISpare
<1>9. QED
  BY <1>4, <1>5, <1>6, <1>7, <1>8 DEF IInv

\* The last step of Allocate leaves the header it has written.
LEMMA BitLeavesHeader ==
  ASSUME IInv, InBit, WritesAllocated, call = "Allocate"
  PROVE  AllocateIsFound'
<1> DEFINE w == [work EXCEPT !.queue = SetBit(@, dev.h, 2)]
<1>1. Amid /\ dev.off = dev.h
  BY DEF InBit
<1>2. w.queue \in Queues /\ Listed(w.queue, dev.h)
  BY <1>1, BitStaysListed
<1>3. Flash(w, spare, target, dev)
  BY <1>1 DEF WritesAllocated, WRITES_ALLOCATED
<1> HIDE DEF w
<1>4. CASE Whole(w, spare, target, dev)
  <2>1. work' = w
    BY <1>4 DEF Whole
  <2>2. Open(w.queue, dev.h) /\ 1 \in w.queue[dev.h].bits /\ dev.h \in Slots
    BY <1>2, TypeFacts DEF Listed
  <2>3. FtwGetLastWriteHeader(w.queue) = [ok |-> TRUE, h |-> dev.h]
    BY <1>2, <2>2, LastHeader
  <2>4. QED
    BY <2>1, <2>2, <2>3 DEF AllocateIsFound, Has, HEADER_ALLOCATED
<1>5. CASE Stopped
  BY <1>5 DEF Stopped, Starts, Ends, AllocateIsFound
<1>6. QED
  BY <1>3, <1>4, <1>5, FlashCases DEF Cut

\* No other step is the last one of Allocate.
LEMMA OthersGoOn ==
  ASSUME IInv, Next, call = "Allocate", More(prog)
  PROVE  ~(call' = "Allocate" /\ prog' = <<>>)
<1> DEFINE Goal == ~(call' = "Allocate" /\ prog' = <<>>)
<1> SUFFICES Goal
  OBVIOUS
<1>1. PICK op \in Ops, u \in Progs : prog = Push(op, u) /\ u # <<>>
  BY DEF More
<1>2. prog # <<>> /\ Tail(prog) # <<>> /\ Tail(prog) \in Progs
  BY <1>1, PushFacts
<1>3. ASSUME NEW w, NEW s, NEW t, NEW d, Flash(w, s, t, d) PROVE Goal
  BY <1>2, <1>3 DEF Flash, Starts, Ends
<1>4. ASSUME NEW d, NEW p, Decide(d, p), p # <<>> PROVE Goal
  BY <1>4 DEF Decide
<1>5. ASSUME Refuse PROVE Goal
  BY <1>5 DEF Refuse, Ends, Starts
<1>6. /\ FtwReclaimWorkSpace(TRUE) \o <<"reread">> \o Tail(prog) # <<>>
      /\ FtwReclaimWorkSpace(TRUE) \o Tail(prog) # <<>>
  <2>1. ASSUME NEW t \in Progs, t # <<>> PROVE Push("collect", RErase1(RErase2(t))) # <<>>
    BY <2>1, MoreReclaim, ReclaimTypes, OpNames, MorePush
  <2>2. Push("reread", Tail(prog)) \in Progs /\ Push("reread", Tail(prog)) # <<>>
    BY <1>2, OpNames, MorePush
  <2>3. /\ FtwReclaimWorkSpace(TRUE) \o <<"reread">> \o Tail(prog)
             = Push("collect", RErase1(RErase2(Push("reread", Tail(prog)))))
        /\ FtwReclaimWorkSpace(TRUE) \o Tail(prog)
             = Push("collect", RErase1(RErase2(Tail(prog))))
    BY <1>2, DecisionPrograms
  <2>4. QED
    BY <1>2, <2>1, <2>2, <2>3
<1> HIDE DEF Goal
<1>7. CASE ReclaimStep
  BY <1>2, <1>3, <1>4, <1>6, <1>7 DEF ReclaimStep, WorkSpaceRefresh, Reread, Collect,
     ReclaimErase, ReclaimCopy, ReclaimRestore, SpareValid, WorkInvalid, EraseWork, WriteWork,
     WorkValid
<1>8. CASE Allocate
  BY <1>2, <1>4, <1>5, <1>6, <1>8 DEF Allocate
<1>9. CASE \/ WriteHeader \/ WritesAllocated \/ WriteRecord \/ EraseSpare \/ WriteSpare
           \/ SpareComplete \/ RestoreSpare \/ EraseTarget \/ WriteTarget \/ DestComplete
  BY <1>3, <1>9 DEF WriteHeader, WritesAllocated, WriteRecord, EraseSpare, WriteSpare,
     SpareComplete, RestoreSpare, EraseTarget, WriteTarget, DestComplete, UpdateBoth
<1>10. CASE WritesComplete \/ Abort
  BY <1>2, <1>3, <1>4, <1>10 DEF WritesComplete, Abort, UpdateBoth
<1>11. ~(Write \/ CheckWrite \/ Restart \/ GetLastWrite \/ InitStep)
  BY PlaceOfStep DEF Write, CheckWrite, Restart, GetLastWrite, InitStep, CheckValid,
     CheckFirst,
     CheckLast, CheckEmpty, CheckSpare, InWrite, InCheck, InRestart, InGetLast, InValid, InFirst,
     InLast, InEmpty, InISpare
<1>12. ~ClientCall /\ ~Return /\ ~Reset
  BY <1>2 DEF ClientCall, Return, Reset, Idle
<1>13. QED
  BY <1>7, <1>8, <1>9, <1>10, <1>11, <1>12 DEF Next, ServiceStep

\* The step that is next is the one that is taken.
LEMMA OnlyBit ==
  ASSUME InBit, Next, call = "Allocate"
  PROVE  WritesAllocated
<1>1. prog # <<>> /\ \A step : At(step) => step = "writes_allocated"
  BY ServicePlaces, OpNames, FirstFacts
<1>2. ~ReclaimStep
  BY <1>1 DEF ReclaimStep, WorkSpaceRefresh, Reread, Collect, ReclaimErase, ReclaimCopy,
     ReclaimRestore, SpareValid, WorkInvalid, EraseWork, WriteWork, WorkValid
<1>3. ~InitStep
  BY <1>1 DEF InitStep, CheckValid, CheckFirst, CheckLast, CheckEmpty, CheckSpare
<1>4. ~(ClientCall \/ Return \/ Reset)
  BY <1>1 DEF ClientCall, Return, Reset, Idle
<1>5. ServiceStep
  BY <1>2, <1>3, <1>4 DEF Next
<1>6. QED
  BY <1>1, <1>5 DEF ServiceStep, Allocate, WriteHeader, Write, CheckWrite, WriteRecord,
     EraseSpare, WriteSpare, SpareComplete, RestoreSpare, EraseTarget, WriteTarget,
     DestComplete, WritesComplete, Restart, Abort, GetLastWrite

\* Only a step of Allocate ends Allocate.
LEMMA NotMeanwhile ==
  ASSUME Next, call # "Allocate" \/ prog = <<>>
  PROVE  ~(call' = "Allocate" /\ prog' = <<>>)
<1> DEFINE Goal == ~(call' = "Allocate" /\ prog' = <<>>)
<1> SUFFICES Goal
  OBVIOUS
<1>1. FtwAllocate # <<>>
  BY ServicePrograms, PlaceTypes, OpNames, PushFacts
<1>2. CASE ClientCall \/ Return \/ Reset
  BY <1>1, <1>2 DEF ClientCall, Return, Reset, Starts, Ends
<1>3. CASE call # "Allocate" /\ (ReclaimStep \/ ServiceStep \/ InitStep)
  <2>1. ASSUME NEW w, NEW s, NEW t, NEW d, Flash(w, s, t, d) PROVE Goal
    BY <1>3, <2>1 DEF Flash, Starts, Ends
  <2>2. ASSUME NEW d, NEW p, Decide(d, p) PROVE Goal
    BY <1>3, <2>2 DEF Decide
  <2>3. ASSUME Refuse PROVE Goal
    BY <2>3 DEF Refuse, Ends, Starts
  <2> HIDE DEF Goal
  <2>4. CASE ReclaimStep
    BY <2>1, <2>2, <2>4 DEF ReclaimStep, WorkSpaceRefresh, Reread, Collect, ReclaimErase,
       ReclaimCopy, ReclaimRestore, SpareValid, WorkInvalid, EraseWork, WriteWork, WorkValid
  <2>5. CASE Allocate \/ Write \/ CheckWrite \/ Restart \/ GetLastWrite
    BY <2>2, <2>3, <2>5 DEF Allocate, Write, CheckWrite, Restart, GetLastWrite
  <2>6. CASE WritesComplete \/ Abort
    BY <2>1, <2>2, <2>6 DEF WritesComplete, Abort, UpdateBoth
  <2>7. CASE \/ WriteHeader \/ WritesAllocated \/ WriteRecord \/ EraseSpare \/ WriteSpare
             \/ SpareComplete \/ RestoreSpare \/ EraseTarget \/ WriteTarget \/ DestComplete
    BY <2>1, <2>7 DEF WriteHeader, WritesAllocated, WriteRecord, EraseSpare, WriteSpare,
       SpareComplete, RestoreSpare, EraseTarget, WriteTarget, DestComplete, UpdateBoth
  <2>8. CASE InitStep
    BY <2>2, <2>8 DEF InitStep, CheckValid, CheckFirst, CheckLast, CheckEmpty, CheckSpare
  <2>9. QED
    BY <1>3, <2>4, <2>5, <2>6, <2>7, <2>8 DEF ServiceStep
<1>4. CASE prog = <<>> /\ (ReclaimStep \/ ServiceStep \/ InitStep)
  <2>1. \A step : ~At(step)
    BY <1>4 DEF At
  <2>2. ~ReclaimStep
    BY <2>1 DEF ReclaimStep, WorkSpaceRefresh, Reread, Collect, ReclaimErase, ReclaimCopy,
       ReclaimRestore, SpareValid, WorkInvalid, EraseWork, WriteWork, WorkValid
  <2>3. ~InitStep
    BY <2>1 DEF InitStep, CheckValid, CheckFirst, CheckLast, CheckEmpty, CheckSpare
  <2>4. ~ServiceStep
    BY <2>1 DEF ServiceStep, Allocate, WriteHeader, WritesAllocated, Write, CheckWrite,
       WriteRecord, EraseSpare, WriteSpare, SpareComplete, RestoreSpare, EraseTarget,
       WriteTarget, DestComplete, WritesComplete, Restart, Abort, GetLastWrite
  <2>5. QED
    BY <1>4, <2>2, <2>3, <2>4
<1>5. QED
  BY <1>2, <1>3, <1>4 DEF Next

\* When Allocate succeeds, the next call finds the header it has allocated.
THEOREM AllocatedIsFound ==
  Setting => (Spec => []AllocateIsFound)
<1>1. SUFFICES ASSUME Setting PROVE Spec => []AllocateIsFound
  OBVIOUS
<1>2. Init => AllocateIsFound
  BY DEF Init, AllocateIsFound
<1>3. ASSUME IInv, AllocateIsFound, [Next]_vars PROVE AllocateIsFound'
  <2>1. CASE UNCHANGED vars
    BY <1>3, <2>1 DEF AllocateIsFound, vars
  <2>2. CASE Next /\ call = "Allocate" /\ prog # <<>>
    <3>1. CASE More(prog)
      BY <1>3, <2>2, <3>1, OthersGoOn DEF AllocateIsFound
    <3>2. CASE InBit /\ WritesAllocated
      BY <1>3, <2>2, <3>2, BitLeavesHeader
    <3>3. CASE InBit /\ ~WritesAllocated
      BY <1>3, <2>2, <3>3, OnlyBit
    <3>4. QED
      BY <1>3, <2>2, <3>1, <3>2, <3>3, AllocatePlaces
  <2>3. CASE Next /\ ~(call = "Allocate" /\ prog # <<>>)
    BY <1>3, <2>3, NotMeanwhile DEF AllocateIsFound
  <2>4. QED
    BY <1>3, <2>1, <2>2, <2>3
<1>4. Spec => []IInv
  BY <1>1, Invariance
<1>5. QED
  BY <1>2, <1>3, <1>4, PTL DEF Spec
=============================================================================
