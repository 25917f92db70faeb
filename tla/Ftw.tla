-------------------------------- MODULE Ftw ---------------------------------
(***************************************************************************)
(* The fault tolerant write driver                                         *)
(* (MdeModulePkg/Universal/FaultTolerantWriteDxe): a target block is       *)
(* updated by way of a spare block, under the control of a queue of write  *)
(* headers and records in the work space of a working block.               *)
(*                                                                         *)
(* A function of the driver is a list of steps, a step is one flash        *)
(* operation or one decision; prog holds the steps that are left, and a    *)
(* decision puts the steps of the branch it takes, or of the function it   *)
(* calls, in front.  A power failure during a flash operation leaves any   *)
(* part of it done, and the driver starts again with InitFtwProtocol.  A   *)
(* flash operation of a service may also fail, which ends the service with *)
(* EFI_ABORTED.                                                            *)
(*                                                                         *)
(* The configuration is OVMF's: the working block holds the work space     *)
(* only, and there is no boot block swapping.  Headers and records without *)
(* private data have the same size, one slot of the queue.                 *)
(***************************************************************************)
EXTENDS Integers, Sequences

CONSTANTS
  Bits,        \* bits of a block address
  Lbas,        \* target blocks, each the set of the bits set in its address
  Cells,       \* parts of a block that are written separately
  Values,      \* what a part can hold
  Erased,
  QueueSize,   \* slots of the work space
  Requests,    \* writes of clients: [lba, cells, value, private]
  NoRequest,
  AllocSizes,  \* NumberOfWrites clients give to Allocate
  FaultSteps,  \* steps at which the device may report an error
  TornHeader,  \* the write of a write header may be cut off in the middle
  SameBlock,   \* clients retry an unfinished record for the same block only
  SafeAbort    \* clients do not abort a write whose spare copy is complete

ASSUME FlashAssumption ==
  /\ Lbas \subseteq SUBSET Bits
  /\ Erased \notin Values
  /\ QueueSize \in Nat \ {0, 1}
  /\ AllocSizes \subseteq Nat \ {0}
  /\ NoRequest \notin Requests
  /\ Requests \subseteq [lba : Lbas, cells : SUBSET Cells, value : Values,
                         private : BOOLEAN]
  /\ {TornHeader, SameBlock, SafeAbort} \subseteq BOOLEAN

VARIABLES
  work,     \* flash: the working block
  spare,    \* flash: the spare block
  target,   \* flash: the target blocks
  dev,      \* memory: EFI_FTW_DEVICE and the locals of its functions
  prog,     \* the steps left of the call in progress
  call,     \* the service in progress, or "none"
  arg       \* its argument: a request, NumberOfWrites, or NoRequest

vars == <<work, spare, target, dev, prog, call, arg>>

\* State bits.  Flash erases to ones; a bit is set by clearing it.
HEADER_ALLOCATED == 1
WRITES_ALLOCATED == 2
WRITES_COMPLETED == 4
SPARE_COMPLETED  == 2
DEST_COMPLETED   == 4

\* A slot is a write header (bits, NumberOfWrites) or a record (bits, Lba); an
\* erased NumberOfWrites is 0 here.
ErasedSlot  == [bits |-> {}, n |-> 0, lba |-> Bits]
Slots       == 1 .. QueueSize
EmptyQueue  == [i \in Slots |-> ErasedSlot]
ErasedData  == [c \in Cells |-> Erased]

\* The work space header: erased, written without a state bit, or with the bit
\* WorkingBlockValid, or with WorkingBlockInvalid.
HdrStates == {"Erased", "Blank", "Valid", "Invalid"}
SetValid(hdr)   == IF hdr = "Blank" THEN "Valid" ELSE hdr
SetInvalid(hdr) == IF hdr = "Erased" THEN hdr ELSE "Invalid"

ErasedWork  == [hdr |-> "Erased", queue |-> EmptyQueue]
ErasedSpare == [hdr |-> "Erased", queue |-> EmptyQueue, data |-> ErasedData]

NoDev == [ws |-> ErasedWork, h |-> 1, r |-> 1, save |-> ErasedSpare, off |-> 1]

-----------------------------------------------------------------------------
(***************************************************************************)
(* Reading the queue.                                                      *)
(***************************************************************************)
Has(q, i, bit) == bit \in q[i].bits

\* FtwGetLastWriteHeader: the first header that is not complete; it fails when
\* the queue ends before.
FtwGetLastWriteHeader(q) ==
  LET find[i \in Slots] ==
        LET next == i + 1 + q[i].n
        IN  IF ~Has(q, i, WRITES_COMPLETED) THEN [ok |-> TRUE, h |-> i]
            ELSE IF next > QueueSize THEN [ok |-> FALSE, h |-> i]
            ELSE find[next]
  IN  find[1]

\* Mutant: the record behind the last one, when all are complete.
MutLastWriteRecord(q, h) ==
  LET open == {r \in h + 1 .. QueueSize :
                 /\ q[h].n = 0 \/ r <= h + q[h].n
                 /\ ~Has(q, r, DEST_COMPLETED)}
  IN  IF open = {} THEN h + q[h].n + 1 ELSE CHOOSE r \in open : \A s \in open : r <= s

\* FtwGetLastWriteRecord: the first record of header h whose destination is not
\* complete, else the last record.
FtwGetLastWriteRecord(q, h) ==
  LET open == {r \in h + 1 .. QueueSize :
                 /\ q[h].n = 0 \/ r <= h + q[h].n
                 /\ ~Has(q, r, DEST_COMPLETED)}
  IN  IF open = {} THEN h + q[h].n ELSE CHOOSE r \in open : \A s \in open : r <= s

IsFirstRecordOfWrites(h, r)   == r = h + 1
IsLastRecordOfWrites(q, h, r) == r = h + q[h].n

Header == dev.ws.queue[dev.h]
Record == dev.ws.queue[dev.r]
HeaderHas(bit) == bit \in Header.bits
RecordHas(bit) == bit \in Record.bits

\* dev with the work space ws and the last header and record found in it.
Found(d, ws) ==
  LET h == FtwGetLastWriteHeader(ws.queue).h
  IN  [d EXCEPT !.ws = ws, !.h = h, !.r = FtwGetLastWriteRecord(ws.queue, h)]

-----------------------------------------------------------------------------
(***************************************************************************)
(* The functions as lists of steps.                                        *)
(***************************************************************************)

FlushSpareBlockToWorkingBlock ==
  <<"spare_valid", "work_invalid", "erase_work", "write_work", "work_valid">>

FtwReclaimWorkSpace(preserve) ==
  <<IF preserve THEN "collect" ELSE "collect_none",
    "reclaim_erase", "reclaim_copy", "spare_valid", "work_invalid">>
  \o FlushSpareBlockToWorkingBlock \o <<"reclaim_erase", "reclaim_restore">>

FlushSpareBlockToTargetBlock == <<"erase_target", "write_target">>

\* Mutant: the record is completed before the target is written.
MutWriteRecord ==
  <<"erase_target", "dest_complete", "write_target", "writes_complete">>

FtwWriteRecord ==
  FlushSpareBlockToTargetBlock \o <<"dest_complete", "writes_complete">>

FtwAllocate == <<"refresh", "allocate", "write_header", "writes_allocated">>

\* Mutant: the spare copy is declared complete before it is written.
MutWriteSteps ==
  <<"write_record", "erase_spare", "spare_complete", "write_spare">>
  \o FtwWriteRecord \o <<"erase_spare", "restore_spare">>

\* The part of FtwWrite that writes, after its checks.
WriteSteps ==
  <<"write_record", "erase_spare", "write_spare", "spare_complete">>
  \o FtwWriteRecord \o <<"erase_spare", "restore_spare">>

FtwWrite        == <<"refresh", "write">>
FtwRestart      == <<"refresh", "restart">>
FtwAbort        == <<"refresh", "abort">>
FtwGetLastWrite == <<"refresh", "get_last">>
InitFtwProtocol == <<"refresh", "check_valid", "check_first", "check_last",
                     "check_empty", "check_spare">>

-----------------------------------------------------------------------------
(***************************************************************************)
(* Executing a step.                                                       *)
(***************************************************************************)
At(step) == prog # <<>> /\ Head(prog) = step

Starts(service, a, steps) == call' = service /\ arg' = a /\ prog' = steps /\ dev' = NoDev

\* The service ends; every service begins with WorkSpaceRefresh, so what is in
\* memory is of no further use.
Ends == Starts("none", NoRequest, <<>>)

\* A decision: go on with the steps p, with d in memory.
Decide(d, p) ==
  /\ dev' = d /\ prog' = p
  /\ UNCHANGED <<work, spare, target, call, arg>>

\* An error return of a service: nothing but memory has changed.
Refuse == Ends /\ UNCHANGED <<work, spare, target>>

\* What a write of slot t over slot s may leave when it is cut off: each field as it
\* was, written, or in between (a NumberOfWrites in between is a huge number).
TornSlot(s, t) ==
  IF s.n # t.n /\ ~TornHeader THEN {s, t} ELSE
  [bits : {s.bits, t.bits},
   n    : {s.n, t.n} \cup (IF s.n # t.n THEN {QueueSize} ELSE {}),
   lba  : {b \in SUBSET (s.lba \cup t.lba) : s.lba \cap t.lba \subseteq b}]

Torn(f, g)       == {[i \in DOMAIN f |-> IF i \in s THEN g[i] ELSE f[i]] :
                       s \in SUBSET DOMAIN f}
TornQueue(p, q)  ==
  IF \E i \in Slots : \A j \in Slots \ {i} : p[j] = q[j]
  THEN LET i == CHOOSE i \in Slots : \A j \in Slots \ {i} : p[j] = q[j]
       IN  {[p EXCEPT ![i] = s] : s \in TornSlot(p[i], q[i])}
  ELSE Torn(p, q)

\* A flash operation that would leave w, s, t in the flash and d in memory.
Flash(w, s, t, d) ==
  \/ /\ work' = w /\ spare' = s /\ target' = t
     /\ dev' = d /\ prog' = Tail(prog)
     /\ UNCHANGED <<call, arg>>
  \/ /\ \E h \in {work.hdr, w.hdr}, q \in TornQueue(work.queue, w.queue) :
          work' = [hdr |-> h, queue |-> q]
     /\ \E h \in {spare.hdr, s.hdr}, q \in TornQueue(spare.queue, s.queue),
           c \in Torn(spare.data, s.data) :
          spare' = [hdr |-> h, queue |-> q, data |-> c]
     /\ \E b \in {b \in Lbas : target[b] # t[b]} \cup {CHOOSE b \in Lbas : TRUE} :
          \E c \in Torn(target[b], t[b]) : target' = [target EXCEPT ![b] = c]
     /\ \/ Starts("Init", NoRequest, InitFtwProtocol)           \* power failure
        \/ call # "Init" /\ Head(prog) \in FaultSteps /\ Ends   \* EFI_ABORTED

SetBit(q, i, bit) == [q EXCEPT ![i].bits = @ \cup {bit}]

\* FtwUpdateFvState on slot i of the working block, and in memory.
UpdateBoth(i, bit) ==
  Flash([work EXCEPT !.queue = SetBit(@, i, bit)], spare, target,
        [dev EXCEPT !.ws.queue = SetBit(@, i, bit)])

-----------------------------------------------------------------------------
(***************************************************************************)
(* WorkSpaceRefresh and FtwReclaimWorkSpace.                               *)
(***************************************************************************)
WorkSpaceRefresh ==
  /\ At("refresh")
  /\ LET last == FtwGetLastWriteHeader(work.queue)
     IN  IF last.ok /\ last.h < QueueSize
         THEN Decide(Found(dev, work), Tail(prog))
         ELSE Decide([dev EXCEPT !.ws = work],
                     FtwReclaimWorkSpace(TRUE) \o <<"reread">> \o Tail(prog))

Reread == At("reread") /\ Decide(Found(dev, work), Tail(prog))

\* The queue that is left: the last header with its records, if it is pending.
Preserved(q) ==
  LET last == FtwGetLastWriteHeader(q)
  IN  IF last.ok /\ Has(q, last.h, HEADER_ALLOCATED)
      THEN [i \in Slots |-> IF i <= 1 + q[last.h].n /\ last.h + i - 1 \in Slots
                            THEN q[last.h + i - 1] ELSE ErasedSlot]
      ELSE EmptyQueue

Collect ==
  /\ At("collect") \/ At("collect_none")
  /\ LET q == IF At("collect") THEN Preserved(dev.ws.queue) ELSE EmptyQueue
     IN  Decide([Found(dev, [dev.ws EXCEPT !.queue = q]) EXCEPT !.save = spare],
                Tail(prog))

ReclaimErase   == At("reclaim_erase") /\ Flash(work, ErasedSpare, target, dev)
ReclaimCopy    == At("reclaim_copy")
                  /\ Flash(work, [spare EXCEPT
                             !.hdr = IF dev.ws.hdr = "Erased" THEN @ ELSE "Blank",
                             !.queue = dev.ws.queue], target, dev)
ReclaimRestore == At("reclaim_restore") /\ Flash(work, dev.save, target, dev)

SpareValid  == At("spare_valid")
               /\ Flash(work, [spare EXCEPT !.hdr = SetValid(@)], target, dev)
WorkInvalid == At("work_invalid")
               /\ Flash([work EXCEPT !.hdr = SetInvalid(@)], spare, target,
                        [dev EXCEPT !.ws.hdr = "Invalid"])
EraseWork   == At("erase_work") /\ Flash(ErasedWork, spare, target, dev)
WriteWork   == At("write_work")
               /\ Flash([hdr |-> "Blank", queue |-> spare.queue], spare, target, dev)
WorkValid   == At("work_valid")
               /\ Flash([work EXCEPT !.hdr = SetValid(@)], spare, target,
                        [dev EXCEPT !.ws.hdr = "Valid"])

ReclaimStep ==
  \/ WorkSpaceRefresh \/ Reread \/ Collect
  \/ ReclaimErase \/ ReclaimCopy \/ ReclaimRestore
  \/ SpareValid \/ WorkInvalid \/ EraseWork \/ WriteWork \/ WorkValid

-----------------------------------------------------------------------------
(***************************************************************************)
(* FtwAllocate, FtwWrite, FtwRestart, FtwAbort, FtwGetLastWrite.           *)
(***************************************************************************)
NumberOfWrites == IF call = "Allocate" THEN arg ELSE 1

\* Offset is the one found before a reclaim moves the header.
Allocate ==
  /\ At("allocate")
  /\ IF 1 + NumberOfWrites > QueueSize \/ HeaderHas(HEADER_ALLOCATED)
                                       \/ HeaderHas(WRITES_ALLOCATED)
     THEN Refuse
     ELSE Decide([dev EXCEPT !.off = dev.h],
                 IF dev.h + NumberOfWrites > QueueSize
                 THEN FtwReclaimWorkSpace(TRUE) \o Tail(prog) ELSE Tail(prog))

WriteHeader ==
  /\ At("write_header")
  /\ LET new == [ErasedSlot EXCEPT !.bits = {HEADER_ALLOCATED}, !.n = NumberOfWrites]
     IN  Flash([work EXCEPT !.queue[dev.off] = [new EXCEPT !.bits = @ \cup work.queue[dev.off].bits]],
               spare, target, [dev EXCEPT !.ws.queue[dev.h] = new])

WritesAllocated ==
  /\ At("writes_allocated")
  /\ Flash([work EXCEPT !.queue = SetBit(@, dev.off, WRITES_ALLOCATED)], spare, target, dev)

Write ==
  /\ At("write")
  /\ IF Header # ErasedSlot
     THEN Decide(dev, <<"check_write">>)
     ELSE IF arg.private
          THEN Refuse
          ELSE Decide(dev, FtwAllocate \o <<"check_write">>)

CheckWrite ==
  /\ At("check_write")
  /\ IF \/ Header.n # 0 /\ dev.r - dev.h > Header.n
        \/ HeaderHas(WRITES_COMPLETED)
        \/ RecordHas(DEST_COMPLETED) \/ RecordHas(SPARE_COMPLETED)
     THEN Refuse
     ELSE Decide([dev EXCEPT !.save = spare], WriteSteps)

\* The record goes over what an earlier attempt has left: bits are only cleared.
WriteRecord ==
  /\ At("write_record")
  /\ Flash([work EXCEPT !.queue[dev.r].lba = @ \cap arg.lba], spare, target,
           [dev EXCEPT !.ws.queue[dev.r].lba = arg.lba])

\* The image of a block once request r is written over the image old.
Overlay(old, r) == [c \in Cells |-> IF c \in r.cells THEN r.value ELSE old[c]]

EraseSpare   == At("erase_spare") /\ Flash(work, ErasedSpare, target, dev)
WriteSpare   == At("write_spare")
                /\ Flash(work, [spare EXCEPT !.data = Overlay(target[arg.lba], arg)],
                         target, dev)
RestoreSpare == At("restore_spare") /\ Flash(work, dev.save, target, dev)

SpareComplete == At("spare_complete") /\ UpdateBoth(dev.r, SPARE_COMPLETED)

\* The target of the flush is the Lba of the record in memory.
OnTarget(image) ==
  IF Record.lba \in Lbas THEN [target EXCEPT ![Record.lba] = image] ELSE target

EraseTarget == At("erase_target") /\ Flash(work, spare, OnTarget(ErasedData), dev)
WriteTarget == At("write_target") /\ Flash(work, spare, OnTarget(spare.data), dev)

DestComplete == At("dest_complete") /\ UpdateBoth(dev.r, DEST_COMPLETED)

WritesComplete ==
  /\ At("writes_complete")
  /\ IF IsLastRecordOfWrites(dev.ws.queue, dev.h, dev.r)
     THEN UpdateBoth(dev.h, WRITES_COMPLETED)
     ELSE Decide(dev, Tail(prog))

\* In the driver's start the steps of InitFtwProtocol follow a refused restart.
Restart ==
  /\ At("restart")
  /\ IF HeaderHas(WRITES_COMPLETED) \/ RecordHas(DEST_COMPLETED)
                                    \/ ~RecordHas(SPARE_COMPLETED)
     THEN IF call = "Init" THEN Decide(dev, Tail(prog)) ELSE Refuse
     ELSE Decide(dev, FtwWriteRecord \o <<"erase_spare">> \o Tail(prog))

Abort ==
  /\ At("abort")
  /\ IF HeaderHas(HEADER_ALLOCATED) /\ ~HeaderHas(WRITES_COMPLETED)
     THEN UpdateBoth(dev.h, WRITES_COMPLETED)
     ELSE Decide(dev, Tail(prog))

LastCompleteHeaderNot ==
  /\ ~HeaderHas(WRITES_COMPLETED) /\ RecordHas(DEST_COMPLETED)
  /\ IsLastRecordOfWrites(dev.ws.queue, dev.h, dev.r)

GetLastWrite ==
  /\ At("get_last")
  /\ IF \/ LastCompleteHeaderNot
        \/ /\ HeaderHas(HEADER_ALLOCATED) /\ ~RecordHas(SPARE_COMPLETED)
           /\ IsFirstRecordOfWrites(dev.h, dev.r)
     THEN Decide(dev, FtwAbort)
     ELSE Decide(dev, <<>>)

ServiceStep ==
  \/ Allocate \/ WriteHeader \/ WritesAllocated
  \/ Write \/ CheckWrite \/ WriteRecord
  \/ EraseSpare \/ WriteSpare \/ SpareComplete \/ RestoreSpare
  \/ EraseTarget \/ WriteTarget \/ DestComplete \/ WritesComplete
  \/ Restart \/ Abort \/ GetLastWrite

-----------------------------------------------------------------------------
(***************************************************************************)
(* InitFtwProtocol.                                                        *)
(***************************************************************************)
IsValidWorkSpace(hdr) == hdr = "Valid"

CheckValid ==
  /\ At("check_valid")
  /\ IF IsValidWorkSpace(dev.ws.hdr)
     THEN Decide(dev, Tail(prog))
     ELSE IF IsValidWorkSpace(spare.hdr)
     THEN Decide([dev EXCEPT !.ws = [hdr |-> spare.hdr, queue |-> spare.queue]],
                 FlushSpareBlockToWorkingBlock \o FtwAbort \o <<"refresh">> \o Tail(prog))
     ELSE Decide([dev EXCEPT !.ws = [hdr |-> "Valid", queue |-> EmptyQueue]],
                 FtwReclaimWorkSpace(FALSE) \o Tail(prog))

CheckFirst ==
  /\ At("check_first")
  /\ Decide(dev, IF /\ HeaderHas(HEADER_ALLOCATED) /\ ~RecordHas(SPARE_COMPLETED)
                    /\ IsFirstRecordOfWrites(dev.h, dev.r)
                 THEN FtwAbort \o Tail(prog) ELSE Tail(prog))

CheckLast ==
  /\ At("check_last")
  /\ Decide(dev, IF LastCompleteHeaderNot THEN FtwAbort \o Tail(prog) ELSE Tail(prog))

\* The slots behind the last write are erased.
EmptyAfter(q, h) ==
  LET from == IF q[h].bits = {} THEN h ELSE h + 1 + q[h].n
  IN  \A i \in Slots : i >= from => q[i] = ErasedSlot

\* Mutant: what a power failure has left behind the last write is not looked for.
MutCheckEmpty == At("check_empty") /\ Decide(dev, Tail(prog))

CheckEmpty ==
  /\ At("check_empty")
  /\ Decide(dev, IF EmptyAfter(dev.ws.queue, dev.h) THEN Tail(prog)
                 ELSE FtwReclaimWorkSpace(TRUE) \o Tail(prog))

\* Mutant: a write whose spare copy is complete is left for its caller to restart.
MutCheckSpare == At("check_spare") /\ Decide(dev, <<>>)

\* The FVB of a block is installed before the driver starts; the abort follows in
\* any case.
CheckSpare ==
  /\ At("check_spare")
  /\ IF ~HeaderHas(WRITES_COMPLETED) /\ RecordHas(SPARE_COMPLETED)
     THEN Decide(dev, IF Record.lba \in Lbas THEN FtwRestart \o FtwAbort ELSE FtwAbort)
     ELSE Decide(dev, <<>>)

InitStep == CheckValid \/ CheckFirst \/ CheckLast \/ CheckEmpty \/ CheckSpare

-----------------------------------------------------------------------------
(***************************************************************************)
(* Clients, and the machine.                                               *)
(***************************************************************************)

\* The record whose contents are in the spare block only, in the work space that
\* a start of the driver would use; 0 if there is none.
WorkSpaceQueue ==
  IF IsValidWorkSpace(work.hdr) THEN work.queue
  ELSE IF IsValidWorkSpace(spare.hdr) THEN spare.queue ELSE EmptyQueue

LastRecordIn(q) == FtwGetLastWriteRecord(q, FtwGetLastWriteHeader(q).h)

IsPending(q) ==
  LET last == FtwGetLastWriteHeader(q)
      r    == FtwGetLastWriteRecord(q, last.h)
  IN  /\ last.ok /\ Has(q, last.h, HEADER_ALLOCATED)
      /\ r \in Slots /\ Has(q, r, SPARE_COMPLETED) /\ ~Has(q, r, DEST_COMPLETED)

Idle == call = "none"

\* What an earlier attempt has left in the record leaves room for the address.
FitsRecord(lba) ==
  LET r == LastRecordIn(work.queue)
  IN  r \in Slots => lba \subseteq work.queue[r].lba

ClientCall ==
  /\ Idle
  /\ \/ \E n \in AllocSizes : Starts("Allocate", n, FtwAllocate)
     \/ \E q \in Requests : /\ SameBlock => FitsRecord(q.lba)
                            /\ Starts("Write", q, FtwWrite)
     \/ Starts("Restart", NoRequest, FtwRestart)
     \/ /\ SafeAbort => ~IsPending(WorkSpaceQueue)
        /\ Starts("Abort", NoRequest, FtwAbort)
     \/ Starts("GetLastWrite", NoRequest, FtwGetLastWrite)
  /\ UNCHANGED <<work, spare, target>>

Return == ~Idle /\ prog = <<>> /\ Ends /\ UNCHANGED <<work, spare, target>>

Reset == /\ Idle /\ Starts("Init", NoRequest, InitFtwProtocol)
         /\ UNCHANGED <<work, spare, target>>

\* A machine with erased flash blocks beside its targets starts for the first time.
Init ==
  /\ work = ErasedWork /\ spare = ErasedSpare
  /\ target \in [Lbas -> [Cells -> Values]]
  /\ dev = NoDev /\ prog = InitFtwProtocol /\ call = "Init" /\ arg = NoRequest

Next == ReclaimStep \/ ServiceStep \/ InitStep \/ ClientCall \/ Return \/ Reset

Spec == Init /\ [][Next]_vars

-----------------------------------------------------------------------------
(***************************************************************************)
(* Properties.                                                             *)
(***************************************************************************)
SlotType  == [bits : SUBSET {1, 2, 4}, n : 0 .. QueueSize, lba : SUBSET Bits]
SpareType == [hdr : HdrStates, queue : [Slots -> SlotType],
              data : [Cells -> Values \cup {Erased}]]
WorkType  == [hdr : HdrStates, queue : [Slots -> SlotType]]

\* Types of the flash blocks and of the driver's memory; the last header and the
\* last record are always slots of the work space.
FtwTypeOK ==
  /\ work \in WorkType /\ spare \in SpareType
  /\ target \in [Lbas -> [Cells -> Values \cup {Erased}]]
  /\ dev \in [ws : WorkType, h : Slots, r : Slots, save : SpareType, off : Slots]
  /\ call \in {"none", "Init", "Allocate", "Write", "Restart", "Abort", "GetLastWrite"}

\* What a reader finds in a block once the driver has recovered.
Contents(lba) ==
  LET q == WorkSpaceQueue
  IN  IF IsPending(q) /\ q[LastRecordIn(q)].lba = lba THEN spare.data ELSE target[lba]

Phase ==
  IF call # "Write" THEN "idle"
  ELSE IF \E i \in DOMAIN prog : prog[i] \in {"write", "check_write", "spare_complete"}
       THEN "asked" ELSE "done"

Promise == INSTANCE AtomicWrite WITH
  block   <- [lba \in Lbas |-> Contents(lba)],
  phase   <- Phase,
  request <- IF call = "Write" THEN arg ELSE NoRequest

\* The driver implements AtomicWrite: whatever power failures and device errors do
\* to erases, writes and reclaims, a block changes only by a whole write that was
\* asked for, at the moment its record gets SPARE_COMPLETED.
WritesAreAtomic == Promise!Spec

\* "ensuring at all times that either the original contents or the modified
\* contents are available" (comment of FtwWrite): no part of a block is lost.
ContentsAvailable == \A lba \in Lbas, c \in Cells : Contents(lba)[c] # Erased

\* When InitFtwProtocol returns, no write is left to be recovered and no part of a
\* target block is lost, whatever the power failures before and during it were.
RecoveredIsWhole ==
  [][call = "Init" /\ call' = "none" =>
       /\ target' \in [Lbas -> [Cells -> Values]]
       /\ ~IsPending(work'.queue)]_vars

\* Between calls the work space is valid, and erased behind its last write:
\* nothing that the next Allocate or the next start would stumble over.
QueueTidy ==
  Idle => /\ IsValidWorkSpace(work.hdr)
          /\ EmptyAfter(work.queue, FtwGetLastWriteHeader(work.queue).h)

\* "this function enables the protocol to ensure that enough space exists to track
\* information about the upcoming writes" (comment of FtwAllocate): when Allocate
\* succeeds, the next call finds the header it has allocated.
AllocateIsFound ==
  call = "Allocate" /\ prog = <<>> =>
    Has(work.queue, FtwGetLastWriteHeader(work.queue).h, HEADER_ALLOCATED)
=============================================================================
