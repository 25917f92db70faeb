# A verification project for liano's firmware core

liano is a study fork of EDK II for the OVMF virtual machine platform: a UEFI
firmware written in C, plus the author's own `KarlPkg` (an IPMI driver over the
KCS interface and a library for HII forms). This directory holds TLA+ models of
the parts that carry the firmware's own concurrent or failure-prone logic, TLC
configurations that check them on small instances, and TLAPS proofs of the
properties that matter most.

`PROJECT.json` lists the components, runs, findings, hazards and theorems, and
maps every definition that models code to its source lines. Paths below are
relative to `src/`.

## 1. Inventory

| Component | State | Operations | What is hard |
|---|---|---|---|
| **DXE events, TPL, timers** (`MdeModulePkg/Core/Dxe/Event`) | current TPL, notification queues and pending bits per TPL, event structures, sorted timer list, system time, locks | CreateEvent(Ex), SignalEvent, CheckEvent, WaitForEvent, CloseEvent, SetTimer, RaiseTPL, RestoreTPL, the timer tick, CoreCheckTimers | every release of a lock dispatches callbacks; interrupts fall anywhere below TPL_HIGH_LEVEL and dispatch callbacks on top of the interrupted code |
| Fault tolerant write (`MdeModulePkg/Universal/FaultTolerantWriteDxe`) | flash: working block (header, records with state bits), spare block, target block; RAM copy of the work space | Allocate, Write, Restart, Abort, GetLastWrite, reclaim of the work space, start-up recovery | power failure between any two flash writes; bits only clear without an erase |
| UEFI variables (`MdeModulePkg/Universal/Variable/RuntimeDxe`) | variable store in flash, state bits per variable, volatile store, cache | Get/SetVariable, GetNextVariableName, Reclaim | update as a sequence of state bits, crash in between, reclaim through fault tolerant write |
| Protocol database (`Core/Dxe/Hand`) | handles, protocol interfaces, open-protocol entries, notifications | Install, Uninstall, Reinstall, Open, Close, RegisterNotify, Connect | callbacks of drivers inside Reinstall and Disconnect |
| DXE dispatcher (`Core/Dxe/Dispatcher`) | discovered, scheduled and dispatched drivers, dependency expressions | Schedule, Trust, Dispatch, evaluate Depex | order of drivers, firmware volumes appearing while it runs |
| Memory and GCD (`Core/Dxe/Mem`, `Core/Dxe/Gcd`) | memory map, pools, GCD maps | allocate, free, convert | re-entrance of the map's own allocations |
| Image services (`Core/Dxe/Image`) | loaded images | Load, Start, Exit, Unload | long jumps |
| PEI core (`Core/Pei`), SMM core (`Core/PiSmmCore`) | PPI database, SMI handler lists | install, notify, dispatch, SMI handling | handlers that unregister themselves |
| SMM rendezvous (`UefiCpuPkg/PiSmmCpuDxeSmm/MpService.c`), MP library (`UefiCpuPkg/Library/MpInitLib`) | semaphores and flags of each processor | SMI rendezvous, StartupAllAPs, SwitchBSP | several processors, timeouts, late arrivals |
| KCS driver (`KarlPkg/Ipmi/Kcs`) | status and data registers of the BMC | send, read, error exit | busy polling with timeouts, retry, aborted transfers |
| HII question tree (`KarlPkg/Library/HiiAttributeQuestionTreeLib`) | tree of form sets, forms, questions | build, look up | cycles of form references |
| Monotonic counter, watchdog (`MdeModulePkg/Universal`) | counter in a variable, an armed timer event | GetNextHighMonotonicCount, SetWatchdogTimer | reset between increments |
| Platform devices (`OvmfPkg`), network, file systems, shell, crypto, build tools | device and protocol state | | upstream feature packages, vendored code, host tools: left aside |

The components meet in the event services: drivers run their work in
notification functions, take TPL locks, and wait on timers. The variable driver
stores through fault tolerant write, which writes through a firmware volume
block driver. The timer driver of the platform (`OvmfPkg/8254TimerDxe`) calls
`CoreTimerTick` from its interrupt handler.

Properties that make each component correct:

* events: a callback runs at its own TPL, never re-entered and never below a
  callback of a higher TPL; no signal and no periodic timer is lost; queues
  never refer to freed events; locks are free when they are taken; what is
  queued is dispatched, what expires is signalled, who waits returns;
* fault tolerant write: after a crash at any point and a restart, the target
  holds the old or the new contents, and a write reported complete is complete;
* variables: after a crash a reader sees the old or the new value, never none
  and never both; reclaim loses no valid variable;
* protocol database: no interface is removed while a driver has it open;
* SMM rendezvous: one BSP, no processor leaves before all work is done, nobody
  waits for a processor that does not come, semaphores end where they began;
* KCS: a command returns, its answer is its own, and what is reported sent has
  been received.

## 2. Modules and plan

| Module | What | Checked by |
|---|---|---|
| `DxeEvent`, `DxeEventLive` | event, TPL and timer services (section 3) | `event_*` |
| `DxeEventProofs`, `DxeEventListProofs`, `DxeEventSignalProofs` | theorems about `DxeEvent`: levels and locks; queues and lists; signals | TLAPS |
| `AtomicWrite`, `Ftw` | what fault tolerant write promises, and how it works (section 4) | `ftw_*` |
| `FtwProofs` | theorems about `Ftw`: the queue and the programs; that it implements `AtomicWrite` | TLAPS |
| `VarMap`, `VarStore` | what the variable services promise, and how the store works (section 5) | `var_*` |
| `VarStoreProofs` | theorems about `VarStore`: flash, cache and sizes; that it implements `VarMap` | TLAPS |
| `SmmRendezvous` | processors in SMM (section 6) | `smm_rendezvous` |
| `SmmRendezvousPlaces`, `SmmRendezvousProofs` | theorems about `SmmRendezvous`: places and the invariant; that every step keeps it | TLAPS |
| `Kcs` | the IPMI driver and a BMC (section 7) | `kcs_*` |
| `KcsProofs` | theorems about `Kcs` | TLAPS |

`VarStore` rests on `AtomicWrite`: Reclaim replaces the whole store through the
fault tolerant write driver, and `Ftw` shows that this is atomic, so a reclaim is
one step of `VarStore` that a power failure finds done or not done.

Besides the runs, six configurations are instances a maintainer may want to run
by hand: `MCDxeEvent_unmask`, `MCDxeEvent_create`, `MCFtw_retarget`,
`MCSmmRendezvous_broadcast`, `MCSmmRendezvous_startup` and `MCVarStore_delete`.
Each ends in a counterexample, which the section of its module explains.

Left, in order of worth:

1. the runtime cache of the SMM variable driver, whose readers run outside SMM;
2. the protocol database (open, close and reinstall with callbacks of drivers),
   the dispatcher, the multiprocessor library;
3. theorems: `Ftw` with lists of several records, where headers written in one
   piece are a condition (section 4).

## 3. The event services: `DxeEvent`

### State

| Variable | Code |
|---|---|
| `gEfiCurrentTpl`, `interrupts` | `gEfiCurrentTpl`, the processor's interrupt flag set by `CoreSetInterruptState` |
| `gEventQueue`, `gEventPending` | the list heads per TPL and the bit mask (a set of TPLs) |
| `gEventSignalQueue` | list of NOTIFY_SIGNAL events, newest first |
| `IEvent`, `Signature` | fields of the event structures; those whose `Signature` is valid (allocated) |
| `mEfiTimerList`, `mEfiTimerLock`, `mEfiSystemTime` | the variables of `Timer.c`; the lock is its `OwnerTpl` or `Released` |
| `stack` | the activations on the one processor's call stack, running one last |
| `UserEvents`, `calls` | the array of the WaitForEvent in progress; the number of client calls, for the bound |

An activation is a record `[k, pc, tpl, ev, x]`: the function, where it is, the
level its code runs at, the event and one more local. There is one processor, so
only the last activation moves. Concurrency comes from timer interrupts, which
push an `Irq` activation whenever `interrupts` is TRUE, and from callbacks, which
the release of any lock pushes through `Restore` and `Dispatch` activations.

Code that runs at TPL_HIGH_LEVEL cannot be interrupted and is one step; so a
critical section of `gEventQueueLock` or `mEfiSystemTimeLock` is a step that
leaves the processor at TPL_HIGH_LEVEL with a `Restore` activation on the stack.
Below TPL_HIGH_LEVEL a function is cut where it reads or writes state that an
interrupt or a callback can see: `CoreRestoreTpl` into its loop test, the entry
to the dispatcher and the assignment of the new level; `CoreCheckTimers` into
acquire, scan, re-arm, signal, insert; `CoreSetTimer` into unlink, time, insert,
release; `CoreCloseEvent` into cancel, unlink, free; the group signal into its
three critical sections; `CoreCheckEvent` into its two.

| Actions | Code |
|---|---|
| `CoreRaiseTpl`, `RestoreTest`, `RestoreEnter`, `RestoreSet` | `Tpl.c` |
| `DispatchNext`, `DispatchCall`, `NotifyReturn` | `CoreDispatchEventNotifies` |
| `CoreSignalEvent`, `GroupList`, `CoreNotifySignalList`, `GroupRelock` | `CoreSignalEvent` and the group walk |
| `CoreCheckEvent`, `CoreWaitForEvent` | the functions of the same name |
| `CoreCreateEventEx`, `CoreCloseEvent` | creation with all its checks and conversions; the three parts of close |
| `TimersAcquire` .. `TimersInsert`, `SetTimerUnlink` .. `SetTimerRelease` | `Timer.c` |
| `TimerInterruptHandler`, `InterruptReturn` | `OvmfPkg/8254TimerDxe/Timer.c` with `CoreTimerTick` |
| `Client...` | calls by the application and by notification functions, chosen freely from `ClientOps` and the argument sets |

Clients are as free as the UEFI contract allows: they pair RaiseTPL and
RestoreTPL, pass only events they have created and not begun to close, do not
call SetTimer or CloseEvent at TPL_HIGH_LEVEL (the timer lock would lower the
level), and do not close an event that another of their own calls is working on.
`SafeClose` adds that they do not close an event which the dispatcher has just
taken off its queue; the run `event_close` drops it.

Abstractions: times are small numbers and the system time saturates at `MaxTime`;
GUIDs are model values; a list insertion or removal is one step (the pointer
writes of `InsertTailList` keep the forward chain that `CoreTimerTick` reads
intact). Left out: the runtime event list, protocol notifications,
EVT_SIGNAL_VIRTUAL_ADDRESS_CHANGE (treated like ExitBootServices), allocation
failures (they leave the state alone) and programming the 8254.

### Runs

All are instances of `MCDxeEvent` (arguments of the clients) and
`MCDxeEventLive`.

| Run | Instance | Shows |
|---|---|---|
| `event_timers` | 2 events, 5 client calls, 2 nested interrupts, time to 2 | `TypeOK`, `NotifyNesting`, `InterruptsFollowTpl`, `ResumedAtOwnTpl`, `QueuedIsPending`, `TimerLockExclusive`, `TimerListSorted`, `PeriodicTimerKept`, `NoDanglingEvent` |
| `event_groups` | 3 events, 6 calls, one group at two TPLs, ExitBootServices, an event waited for | `NoStuckSignal` |
| `event_live` | 1 event, 4 calls, an interrupt, time to 2, fairness | `WaitReturns`, `QueuedIsDispatched`, `ExpiredIsSignalled`, `SignalConsumedByCheck` |
| `event_close` | | violation of `NoNotifyAfterClose` |

Why the bounds suffice for the cases of interest: a race needs an event, a
second one of another TPL that preempts it, and the timer-check event, which is
always there; creating two events, arming one and still raising, signalling or
closing takes five calls. In `event_timers` one interrupt inside another is enough to
meet every window twice; a lost wake-up needs one. A time of 2 lets a timer expire, be re-armed and expire again
behind a stale SystemTime. Deadlock is checked in every run. The liveness run has
one event of the client's beside the timer-check event and the idle event: a
second one multiplies its states until TLC no longer ends in minutes, so arrays of
two events are not in it.

### Fairness

`DxeEventLive` adds weak fairness of the running activation (the processor runs),
strong fairness of the tick (the interrupt controller latches it while
interrupts are disabled), and the assumption that the code below an interrupt
gets to run one step before the next interrupt, as it does when the period of
the timer exceeds the time of its handler. Without the last one the handlers
could starve everything; the code has no protection of its own. Nothing is
assumed of the clients: they may stop calling. An endless body of a notification
function is excluded by the weak fairness of its return.

### Findings

1. `CoreRestoreTpl` tests `gEventPending` at the old level and assigns the new
   one afterwards. A tick in that window queues a notification which the
   function's comment says is dispatched; it stays queued until the next tick or
   RestoreTPL (instance `MCDxeEvent_unmask`, `RestoreDispatchesUnmasked`). `event_live`
   shows that it is dispatched in the end.
2. `CoreDispatchEventNotifies` releases the lock between dequeuing an event and
   calling its function. A callback of a higher TPL that closes the event there
   frees it under the dispatcher (run `event_close`).
3. `CoreCreateEventEx` checks NotifyTpl before `CoreCreateEventInternal` converts
   the type: type 0 with the ExitBootServices group gets any level between
   TPL_APPLICATION and TPL_HIGH_LEVEL (instance `MCDxeEvent_create`,
   `ClientNotifyTpl`).

### Proofs: `DxeEventProofs`, `DxeEventListProofs`, `DxeEventSignalProofs`

Proved by TLAPS for all sets of events, groups and arguments and all bounds,
from `EventAssumption` (the core's two events are distinct and no client's),
`ArgsAssumption` (types of arguments) and `BoundAssumption` (types of bounds):

| Theorem | Statement |
|---|---|
| `Invariance` | `Spec => []IInv` |
| `TypeCorrect` | `Spec => []TypeOK` |
| `NestingRises` | `Spec => []NotifyNesting` |
| `LevelsKept` | `Spec => []ResumedAtOwnTpl` |
| `InterruptsFollow` | `Spec => []InterruptsFollowTpl` |
| `TimerLockFree` | `Spec => []TimerLockExclusive` |

None of these is inductive by itself. That callbacks nest at rising levels
depends on what lies between them on the stack: a dispatcher is entered at a
level above the one being restored, which is at least the level of everything
below it. `IInv` therefore says of every pair of activations which may lie on
which (`Fits`): levels never fall towards the top; a `Dispatch` is strictly above
all below it; a callback is strictly above everything but its own dispatcher; an
activation returns to a caller of its own level unless a `Restore` is in between;
on top of a holder of the timer lock there are only restores, interrupts and
signals, because the lock's level is the highest level a callback can have, so
no dispatcher fits there; the lock's `OwnerTpl` is the level of the holder's
caller. It also
keeps each event's NotifyTpl among the levels that have a queue, the timer-check
event at its level, each closing event closed by one activation only and off the
signal queue when it is freed. Since `Fits` speaks of all pairs and not of
neighbours, no induction over the stack is needed. One lemma per action shows
that it keeps `IInv`; `CallStk`, `BecomeStk`, `ReturnOk` and `BecomeRestoreOk` say
once what pushing, replacing and popping an activation needs.

`DxeEventListProofs` adds to `IInv` what the queues and lists hold:

| Theorem | Statement |
|---|---|
| `ListInvariance` | `Spec => [](IInv /\ LInv)` |
| `TimersSorted` | `Spec => []TimerListSorted` |
| `PeriodicKept` | `Spec => []PeriodicTimerKept` |
| `NothingDangles` | `Spec => []NoDanglingEvent` |
| `PendingCovers` | `Spec => []QueuedIsPending` |
| `SignalsConsumed` | `Spec => SignalConsumedByCheck` |

That the timer list stays sorted depends on who may change the time of an event:
only an activation that has taken it out of the list. `LInv` therefore says that an
event an activation of CoreCheckTimers or CoreSetTimer is about to insert is not in
the list and is held by that activation alone (`InFlight`); that a close leaves its
event out of the timer list from its second section on and out of the queues from
its third (`Closing`, `Unqueued`), although signals and timers go on in between; and
that a periodic timer is in the list, in flight, or about to be cancelled (`Kept`).
It is stated with the parts of the state as parameters (`LI`), so that the proofs can
follow one step through the activations it pushes and pops. What
`RemoveEntryList` and the sorted insertion do to order and membership is proved once,
as lemmas.

`DxeEventSignalProofs` adds where the notification of a signalled event is:

| Theorem | Statement |
|---|---|
| `SignalInvariance` | `Spec => [](IInv /\ LInv /\ SInv)` |
| `SignalsReach` | `Spec => []NoStuckSignal` |
| `NotifiedAreOpen` | `SafeClose => (Spec => NoNotifyAfterClose)` |

`SInv` follows a signal from SignalCount to the queue: the event is queued, or a group
signal has still to reach its place in `gEventSignalQueue`, or a close will drop it
(`Heard`); the walk over the list is on top of the stack, so the list does not change
under it (`ListOnTop`). `NotifiedAreOpen` needs its hypothesis: `event_close` is the
counterexample without it, and the code leaves this to its clients.

Only model-checked: `WaitReturns`, `QueuedIsDispatched` and `ExpiredIsSignalled`
(fairness and ENABLED are out of the prover's reach).

## 4. Fault tolerant write: `Ftw`

### What it promises: `AtomicWrite`

A write replaces part of a block at one instant between the call and its return;
a call that fails or that a power failure cuts off has happened entirely or not
at all. Variables: the contents of the blocks, the phase and the arguments of the
write in progress.

### State and steps

| Variable | Code |
|---|---|
| `work`, `spare`, `target` | the flash: working block (state of its header, queue of slots), spare block (an image of the working block, or the data of a target block), target blocks (cells) |
| `dev` | the RAM copy of the work space, `FtwLastWriteHeader`, `FtwLastWriteRecord`, the saved spare block and the `Offset` of FtwAllocate |
| `prog` | the steps left of the call in progress |
| `call`, `arg` | the service and its argument |

A write header and a write record both take 40 bytes without private data, so the
queue is a sequence of slots; a slot has its state bits, NumberOfWrites and the
Lba as the set of its one bits, because a second write of the same record can
only clear bits.

A function of the driver is the list of its steps under its own name
(`FtwWriteRecord`, `FtwReclaimWorkSpace`, ...); a step is one flash operation or
one decision. The action for a step (`SpareComplete`, `EraseTarget`,
`CheckEmpty`, ...) takes it off `prog`; a decision puts the steps of its branch
in front. Since a power failure or an error is the only thing that can come
between two steps, nothing else needs to be interleaved: the services
run one at a time.

Every flash operation (`Flash`) ends in one of three ways: done; torn by a power
failure, after which `InitFtwProtocol` runs; torn and reported as an error, which
ends the service, for the steps in `FaultSteps`. Torn means that any subset of
the cells or slots is done, and for one slot any of its fields and of its address
bits. A NumberOfWrites that is cut off in between is a number beyond the queue: the UINTN
arithmetic of `FTW_WRITE_TOTAL_SIZE` on it is not modelled. A state bit is one bit and
is set or not. A header that is partly erased
counts as erased: no start accepts it. Power failures are not counted or bounded,
and may fall on the recovery too.

Clients call every service at any time, with two restrictions: `SafeAbort` (they
do not abort a write whose spare copy is complete, which discards it by intent)
and `SameBlock` (an interrupted record is retried for the same block; the
instance `MCFtw_retarget` drops it).

The configuration is OVMF's: the working block holds nothing but the work space
(`PcdFlashNvStorageFtwWorkingSize` is a block), no boot block swapping. Left out:
`FlushSpareBlockToBootBlock`, the working block as a target, private data (only
whether there is any), the geometry of the blocks (`FindFvbForFtw`,
`InitFtwDevice`), the SMM front ends, read errors, and memory allocation failures
(they end a service where a device error at the next step does).

### Refinement

`Contents(lba)` is what a reader finds after recovery: the spare block's data
when the work space a start would accept has a pending record for that block,
the target block otherwise. `WritesAreAtomic` is `AtomicWrite!Spec` with this
mapping: the write takes place when the record gets SPARE_COMPLETED, and erasing
and rewriting the target, completing the record, restoring the spare block,
reclaiming the work space and every recovery are stuttering steps.

### Runs

| Run | Instance | Shows |
|---|---|---|
| `ftw_single` | 1 block of 2 cells, queue of 4 slots, lists of 1 record, torn headers, device errors | `FtwTypeOK`, `QueueTidy`, `WritesAreAtomic`, `RecoveredIsWhole` |
| `ftw_records` | 2 blocks, queue of 3 slots, lists of 2 records with private data, device errors | `WritesAreAtomic` |
| `ftw_allocate` | lists of 1 and of 2 records in 4 slots | violation of `AllocateIsFound` |

Nothing is bounded but the sizes. Two cells show a block half written, two values
tell old from new, four slots hold two lists and so a list behind a completed one
and a full queue; three slots hold one list of two records, and every later list
needs a reclaim. Lists of two records with torn headers meet the first finding
(a header whose NumberOfWrites was not written shifts the queue by one slot), so
`ftw_records` writes headers in one piece (`TornHeader` FALSE). The write of a
header has no device error in any run: FtwWrite would use such a header although
its HeaderAllocated bit is missing, and the recovery drops it.

### Findings

1. `FtwAllocate` keeps the `Offset` from before the reclaim and writes its header
   there. It reports success, but the header is not found; what it leaves behind
   makes a later start reclaim the queue, through the spare block, while the
   spare block holds the only copy of a pending write.
2. An interrupted record is written over: for another block the address in flash
   becomes the AND of both (instance `MCFtw_retarget`, `ContentsAvailable`).

Two limits of the code are assumptions of the model instead of runs. The services
never check that the work space is valid, so after a reclaim that failed on a
device error they work in one that the next start throws away: adding
`erase_work` to `FaultSteps` violates `ContentsAvailable`. And `InitFtwProtocol`
aborts a pending write when the FVB of its target is not installed yet; on OVMF
the variable store, the work space and the spare block are in one FVB, so it is.

### Proofs: `FtwProofs`

For any blocks, cells, values, requests and size of the queue, any number of power
failures and of device errors:

| Theorem | Statement |
|---|---|
| `FtwTypes` | `Setting => (Spec => []FtwTypeOK)` |
| `QueueStaysTidy` | `Setting => (Spec => []QueueTidy)` |
| `AllocatedIsFound` | `Setting => (Spec => []AllocateIsFound)` |
| `WritesAtomic` | `Setting /\ Clients => (Spec => WritesAreAtomic)` |
| `ContentsStay` | `Setting /\ Clients => (Spec => []ContentsAvailable)` |
| `RecoveryIsWhole` | `Setting /\ Clients => (Spec => RecoveredIsWhole)` |

`Setting` is `SingleWrites` and `ServiceErrors`. Lists have one record: no client in
the repository calls Allocate, and the list FtwWrite allocates itself has one;
with other lists `AllocateIsFound` is false (the first finding). Device errors are
reported by any flash operation of a service but those of the reclaim and the write
of a header, which are the limits named above; power failures fall on every flash
operation, those and the recovery included, and tear headers (`TornHeader` is
free). `Clients` is `SameBlock /\ SafeAbort`; without the first the theorems are
false (the second finding), without the second an abort discards a write by intent.
The run `ftw_single` is an instance of all of these hypotheses.

The invariant of the first three is `IInv`. It says, of flash,

* `Route(q, h)`: the search of FtwGetLastWriteHeader comes by slot `h`, stated as a
  set of slots closed under "complete, so go on behind the records", which the
  provers can handle where the recursive function cannot be unfolded;
* what the last header then is: erased (`Fresh`), the rest of a torn header
  (`Frayed`, `Partial`), a header with its record (`Listed`), or past the end
  (`Ended`); `Safe` is what a power failure may leave, in a valid work space and in
  one that is half erased; `Ready` is what a service needs and leaves. `QueueTidy`
  is not inductive because it speaks of the moments between calls, when a torn header
  has already been dealt with by a recovery;

and, of the driver, that `prog` is one of its places (`InAllocate`, `InHeader`,
`InCopy`, ...): a step, what may follow it, and what flash and the copies in
memory hold there. The reclaim is called from several services, so its places carry
the program that follows (`AfterReady`, `AfterReclaim`). There is one lemma per action
(`AllocateStep`, `ReclaimCopyStep`, ...), and a lemma for each way a write to the
queue can be torn (`TornSlot`): a torn record is still `Listed`, a torn header is
`Frayed` or `Partial`, an erase that is cut off is `Dead`.

The invariant of the last three adds `DInv`, which is about the data. `PendingAt` is
a record with SPARE_COMPLETED and without DEST_COMPLETED, and `Calm` says there is
none. `Careful` names the places whose next step would lose the spare copy or the
header of a pending write: there the work space is `Calm`. This is what makes a reclaim
and an abort harmless, and what the violations of `SafeAbort` and of the first finding
break. `Placed` says that at `spare_complete` the spare block is the overlay of the
old contents, and that until `dest_complete` the record in flash and the one in memory
name the same block; `Fits`, that the address of a retried record can still be written.
From `DInv` each action (`EraseTargetKept`, `WritesCompleteKept`, ...) leaves
`Contents` of every block, except `SpareComplete`, which is the write of
`AtomicWrite`.

Both invariants were model-checked on instances of one and two blocks and of two to
four slots before they were proved.

## 5. The variable store: `VarStore`

### What it promises: `VarMap`

Names map to values. A SetVariable changes the value of its own name only, at one
instant between call and return; a call that fails or that a power failure cuts
off has happened entirely or not at all; a reset changes nothing.

### State and steps

| Variable | Code |
|---|---|
| `flash` | the variables behind the store header, and whether something behind the last of them is not 0xFF (`junk`) |
| `cache` | `mNvVariableCache` |
| `offset`, `total` | `NonVolatileLastVariableOffset`, `CommonVariableTotalSize` |
| `os` | boot, `ReclaimForOS` called, `AtRuntime ()` |
| `prog`, `arg` | the flash writes left of the call; its request and the indices of `CurrPtr` and `InDeletedTransitionPtr` |
| `status` | what the call will return |

`SetVariable` finds the variable in the cache and computes, as `UpdateVariable`
does, the flash writes to make: the old copy to IN_DELETED_TRANSITION; header,
HEADER_VALID_ONLY, data, ADDED of the new copy; DELETED for the old copies. When
the store is full it reclaims (before the operating system runs) or refuses
(after). Each write is an action of its own. `Added`, `ValidBuffer` and
`Reclaim` are the garbage collection as functions of the records: a first walk takes
the ADDED copies, a second the copies in deletion whose name is not there yet, then
comes the new variable. The five values of a header's state stand for the state byte, of
which each write clears one more bit.

Faults: a power failure at any moment (a header write may be half done, a
reclaim is done or not), after which `InitStore` scans the store and reclaims
when there is junk behind it; a device error at the write of a state byte of an
old copy; an error of the fault tolerant write. Not among the faults: device
errors at the header and data writes of a new copy, after which flash is dirty at
an offset the driver uses again.

One size unit stands for a header and for each unit of data; sizes are constants
of the instance. An error of the fault tolerant write leaves the indices of the call as
they were; Reclaim has moved `CurrPtr` by then, and nobody reads it behind the return.
Left out: volatile and HOB variables, authentication,
timestamps, append writes, hardware error records, the quota of user variables,
the runtime cache of the SMM variant, the variable lock and check libraries,
EmuNvMode.

### Refinement

`map[k]` is what `GetVariable` finds in flash: the first ADDED copy, else the last
copy in deletion. The update takes place when the new copy becomes ADDED, with
the fault tolerant write of a reclaim, or with the last deletion.

### Runs

| Run | Instance | Shows |
|---|---|---|
| `var_faults` | 2 names, 2 values, store of 9 units (4 records and a header), reserve 2; one fault of any kind, or an operating system and none | `VarTypeOK`, `WritesOverErased`, `CacheInSync`, `OneAdded`, `VarMapSpec` |
| `var_full` | values of 1 and 3 units, store of 5, no fault | violation of `SuccessMeansStored` |

The length of the behaviours is not bounded: the store bounds the states. Four
records hold two names with an old and a new copy each, and the next update finds
the store full. One fault is enough for each window of an update and of the
recovery; a power failure during the operating system's updates is in the
instance `MCVarStore_delete`.

### Findings

1. Reclaim's EFI_OUT_OF_RESOURCES, and any error of the fault tolerant write, is
   overwritten by the status of the runtime cache: SetVariable reports success
   for a variable that is not stored (`var_full`).
2. The operating system's update of a full store is refused after the old copy
   was marked. If a power failure has left another copy in deletion before, a
   later deletion finds only the last of the two, and the older value is back
   (instance `MCVarStore_delete`: `SuccessMeansStored` for a deletion).

3. With more than one fault the refinement is false. Two power failures can leave
   two copies of a variable in deletion: FindVariableEx returns the last of them and
   Reclaim keeps the first. One power failure is enough when an update is refused
   after it, at run time or because even a reclaimed store is too full. And when a
   power failure has left junk behind the records and the Reclaim of the next start
   fails as well, that failure is lost as in the first finding, and the next header
   is written over flash that is not erased.

### Proofs: `VarStoreProofs`

For all names, values, sizes, stores and scenarios, from `VarAssumption` (a variable
of each value fits an empty store, the reserve is a part of it):

| Theorem | Statement |
|---|---|
| `Invariance` | `Spec => []IInv` |
| `TypeCorrect` | `Spec => []VarTypeOK` |
| `CacheMirrors` | `Spec => []CacheInSync` |
| `HeadersOverErased` | if no scenario with both power failures and failures of the fault tolerant write has more than one fault, `Spec => []WritesOverErased` |
| `OneAddedCopy` | `Spec /\ []Calm => []OneAdded` |
| `ImplementsMap` | `Spec /\ []Calm => VarMapSpec` |

`CacheInSync` speaks of the moments between calls, so `IInv` has to say what holds at
each place of a call. `Control` gives the shape of the remaining writes (`AtHeader`,
`AtAdded` and so on: a step and what may follow it) and with each the relation of
flash to cache: the same (`Synced`), or flash has the new copy in a known state and
the cache has it not (`Half`). `TypeInv` bounds the end of the records by the store;
`CopyInv` says that CurrPtr and InDeletedTransitionPtr are records whose header is
complete, so that a new state byte does not move the end; `JunkInv` says where flash
that is not erased comes from. The hypothesis of `HeadersOverErased` is the third
finding above; faults of one kind, or of power failures and device errors, may be of
any number.

`End`, `Added` and `ValidBuffer` are recursive functions over the records. What they
compute is proved by an induction of the module's own (`RangeInduction`, over a set
instead of a predicate, which the provers can instantiate), with `RangeRecursion` for
the existence of such functions. `ReclaimShrinks` is the lemma that matters: what a
reclaim keeps is never longer than what was there, although the copies come in
another order.

`OneAddedCopy` and `ImplementsMap` are under `Calm`: at most one
fault so far, of any kind and at any flash write, and no update that is refused after
it, at run time or by Reclaim. Without faults `Calm` always holds, refusals included;
what it leaves out is the third finding, where both statements are false. The run
`var_faults` satisfies it: its store is never too full for a reclaim, and its operating
system runs only without faults.

The invariant `MapInv` says which copies of a name count. A name that no call is about
(`Settled`) has at most one ADDED copy and one in deletion before it, and both only
after a fault. For the name of the call there is one formula for each place
(`PlaceInv`): before the new copy is ADDED, exactly the copies FindVariableEx has found
(`Pair`), none of them ADDED once the old one is marked; afterwards the new copy with the
old ones in deletion before it (`Replaced`); at the return it is settled again. A first
fault may fall on any place, and leaves every name with an ADDED copy and one in deletion
at most (`FaultShape`): this is where a second one would break the argument. For the
reclaim, `ValidKeeps` and `BufferMap` say what its two walks keep: each name once, with
the value it had, except the name whose copies are replaced. `MapStep` is then the step
of `VarMap` each action makes: none but the last write of a new copy, the last deletion
and the reclaim change the map, and a power failure ends the call before or after that.

## 6. SMM rendezvous: `SmmRendezvous`

### State and steps

| Variable | Code |
|---|---|
| `counter`, `inside`, `allInSync`, `bspIndex` | `*Counter`, `*InsideSmm`, `*AllCpusInSync`, `BspIndex` of `mSmmMpSyncData` |
| `cpu[c]` | `CpuData[c]`: Run, Present, Busy, Procedure, Token |
| `prog[c]`, `local[c]` | the steps processor c has left, and the locals of its functions |
| `platform` | the top level SMI status, SMIs latched at each processor |
| `calls` | the procedures SMI handlers have started: tokens, `ApWrapperFunc`, and which runs are owed (history) |

A step is one access to shared memory; the processors interleave at every step.
`BSPHandler`, `APHandler` and so on are the lists of the steps of the functions
of these names in the mode of the platform. Semaphores are the atomic
operations of the code: `ReleaseSemaphore` leaves a locked counter alone, the
waits are guards. Two accesses are one step where the second cannot be seen by
others yet (Busy is initialised with the check-in; nobody looks at it before
Present is set) or cannot change in between (the exchange of an election and the read of
BspIndex behind it: the reset waits for the processor that reads). `WaitForAllAPs` takes
its releases at once: only the BSP waits there. `SendSmiIpis` reads Counter and all
Present flags at once; what a flag set in between changes is a spurious IPI more or less.
`running` is the RunningApCount of a call's token: a
call that blocks has none, and SmmStartupThisAp makes it behind its test for presence.

An SMI reaches all processors, each at its own time; IPIs bring in those that
are missing. Timers may expire at any time, with the restriction `Timely`: an AP
does not give up while a BSP is between its check-in and the lock of Counter.
This is what the comment in BSPHandler asks of PcdCpuSmmMaxSyncLoops. With
`Timely = FALSE` an AP that gives up decrements the locked Counter and the BSP
waits for it for ever.

Left out: hot plug, `SwitchBsp` and `CandidateBsp`, an election by the platform,
LMCE and the delayed or blocked flags (such processors are late), SMM profile,
the `Status` pointers and the return of `CheckOnProcedure`, startup procedures,
MTRR values.

### Run

`smm_rendezvous` checks seven platforms in one run (`Rendezvous` in
`MCSmmRendezvous`): traditional and relaxed mode, with and without MTRRs, with
election and a fixed BSP; two processors with two SMIs and procedures, three
processors with one SMI.

| Property | Says |
|---|---|
| `OneBsp`, `ApKnowsBsp` | election and reset never make two BSPs, and APs signal a real one |
| `CounterInRange`, `CountedArePresent` | who is counted comes, who is not is not waited for |
| `RunDrained`, `SmmTypeOK` | the semaphores are balanced (the ASSERT at the end of SmiRendezvous) and bounded |
| `BusyHeld`, `NothingOwed`, `TokenTellsDone` | procedures run under Busy, are all run before the SMI ends, and a token is released exactly when its procedures have returned: not before the last AP has returned, and its count does come down, although it starts from all processors and the BSP and absent APs are taken off |
| `EveryoneLeaves` | in the end all are out of SMM |

Two processors meet every race between a BSP and an AP, two SMIs a BSP leaving
while the next SMI begins; a third processor adds one that is late while another
takes part. Deadlock is not checked because the SMIs end (`MaxSmis`).
Fairness: each processor in SMM runs on (they are not preempted there); nothing
is assumed of the platform or of processors outside SMM.

### Limits the instances show

1. In the relaxed mode `InternalSmmStartupAllAPs` evaluates `IsPresentAp` again in
   each of its loops. An AP that arrives in between runs the procedure without
   Busy, where APHandler asserts it (`MCSmmRendezvous_broadcast`, `BusyHeld`).
2. `SmmStartupThisAp` writes `ApWrapperFunc` before it waits for Busy. A second
   call for the same AP replaces the procedure of the first, which was reported
   as scheduled (`MCSmmRendezvous_startup`, `NothingOwed`).

### Proofs: `SmmRendezvousPlaces` and `SmmRendezvousProofs`

For any number of processors, SMIs and calls and any set of platforms, under the
hypotheses below:

| Theorem | Statement |
|---|---|
| `SmmMeets` | `Spec => []Meets` |
| `SmmOneBsp`, `SmmApKnowsBsp`, `SmmRunDrained`, `SmmCounterInRange`, `SmmCountedArePresent`, `SmmBusyHeld` | `Spec => []` of the property |
| `SmmServes` | `Spec => []Serves` |
| `SmmTypes` | `Spec => []SmmTypeOK` |
| `SmmNothingOwed`, `SmmTokenTellsDone` | `Spec => []` of the property |

Hypotheses: `Timely` and `Supported` for all of them (`BroadcastProcedure` is used only
where the BSP gathers the APs before the handlers), `OneStartup` for the last two (at
most one call in an SMI where `SmmStartupThisAp` is used). The code does not enforce
them; each is one of the limits above, and the instance named there violates the
property without it. `Timely` is what the comment in BSPHandler requires of the
platform. The platforms of the run satisfy all three.

No property is inductive: that a processor leaves with Run at 0 depends on everything
BSP and AP have released and waited for before, in one of several lists of phases. The
proof replaces the list of the steps a processor has left by a *place*: its stage, the
index of a loop, and `k`, the number of handshakes that are left (11 with MTRRs, 5 or 4
without). `Code` gives the program at a place and `Succ` the next place, and
`CodeFollows` shows once for all that the step at a place leads to `Succ`; after that
no proof looks into a program. The invariant `Meeting` says of the places:

- `IndexInv`: at most one processor is in BSPHandler, and BspIndex names it until it
  gives the role back;
- `PairInv`: an AP and its BSP are at most one handshake apart;
- `RunInv`, `GatherInv`: Run of an AP is 1 just when the BSP is one handshake ahead, and
  Run of the BSP is the number of APs that are one handshake ahead of it; in the loop for
  procedures Run and Busy say whether the AP is idle, loaded or running (`LoopOK`);
- `CounterInv`, `LateInv`, `ArriveInv`: Counter is locked from the first gathering on and
  counts the processors that have checked in before, nobody takes itself off a locked
  Counter, and nobody who was counted comes after the BSP has stopped waiting;
- `InsideInv`, `PresentInv`, `OneInv`: the flags are set exactly at the places where the
  code has them set.

`Serves` adds, for the calls: a token counts exactly the APs that hold it and, while its
service is on the way, those it is still to be given to or to be taken off (`CountOK`);
before SmmStartupThisAp has found its AP present its call has no token (`ServedOK`); who holds a token or owes a procedure is busy in its
loop, and the procedure it would run is the one that is owed (`HolderOK`, `OweOK`).

Only model-checked: `EveryoneLeaves` (liveness).

## 7. IPMI over KCS: `Kcs`

### State and steps

`pc` says where the driver is: `w_` in KcsWriteDataToBmc, `r_` in
KcsReadDataFromBmc, `e_` in KcsErrorExit. A step is one register access or one
poll that ends. `i`, `RetryCount`, `Times` and `Response` are the locals and the
instance data of those names, `seen` the state bits of the last poll. Bytes are
tagged with the command they belong to and their place, which is what the
properties tell apart.

The BMC is a process of its own and external: `bmc` holds its state bits, the
byte it has not taken (IBF), the byte the driver has not read (OBF), what it has
received and has left to answer. It may take or answer at any time or never, turn
to the error state at any time, or be absent. A poll ends when the flag is as
wanted, or in a time-out as long as it is not, or with EFI_DEVICE_ERROR when
there is no BMC. The byte behind WRITE_END, which carries the driver's READ code as the
last byte of the request, is taken and not added to what was received. A request without
a buffer (EFI_INVALID_PARAMETER of `IpmiCmd.c:32`) touches no register and is left out.

### Runs

| Run | Instance | Shows |
|---|---|---|
| `kcs_transfers` | 4 commands (3 tries of the self test and a client's), requests of 2 bytes, answers of 1 or 3 bytes | `KcsTypeOK`, `NoOverrun`, `OwnResponse`, `AbortDrains`, `ReceivedUnlessAborted`, `CommandReturns` |
| `kcs_aborted` | 1 command | violation of `SuccessMeansReceived` |

Two bytes give a first, a last and a WRITE_END; three commands after one that was
given up let a late answer meet each part of a later transfer. The four bytes of
`ResponseSize` do not reach the wrap of finding 2. Deadlock is not
checked because the commands end. Fairness: weak fairness of the driver only; its
polls are loops that `KCS_TIME_OUT_LIMIT` ends, so `CommandReturns` holds with a
BMC that does nothing.

### Findings

1. `KcsCheckStatus` returns the EFI_SUCCESS of `KcsErrorExit`; the write loop goes
   on behind an aborted transfer and reports success (`kcs_aborted`).
   `ReceivedUnlessAborted` shows that this is the only way.
2. The read loop advances its UINT8 index twice. Every second byte of `Response` is
   never written and keeps the byte of an earlier command (`OwnResponse` speaks of the
   even ones), and for a DataSize of 255 the index wraps to 0 and the answer is written
   over its own beginning (`OwnResponse` with ResponseSize = 255 and AnswerSizes =
   {140}). This is a client's 252 bytes and the header (`Dxe/IpmiCmd.c:40`).
3. Seen in the code and not the subject of a run: requests of 254 bytes and more wrap
   the UINT8 DataSize (`IpmiCmd.c:36`); the self test passes no buffer and so gets
   EFI_INVALID_PARAMETER for a good answer; `ASSERT (Status)` in `BmcInitEntryPoint`
   is the wrong way round.

### Proofs: `KcsProofs`

For all sizes, numbers of commands and retries, and every behaviour of the BMC:

| Theorem | Statement |
|---|---|
| `Invariance` | `Spec => []IInv` |
| `TypeCorrect` | `Spec => []KcsTypeOK` |
| `RequestReceived` | `Spec => []ReceivedUnlessAborted` |
| `NothingOverrun` | `Spec => NoOverrun` |
| `AbortsDrain` | `Spec => AbortDrains` |
| `ResponseIsOwn` | `ResponseSize < 255 => (Spec => []OwnResponse)` |

The driver sees one state byte and one data byte of the BMC; that a late answer
cannot pass for a new one rests on what the BMC may be doing at each place of the
driver. `IInv` says where the input register is known to be empty (`QuietInv`), how
far the abort has drained both directions (`ErrorInv`), and, as long as nothing was
aborted, that the BMC has the bytes sent so far (`WriteInv`). `ResponseIsOwn` adds
what is left of the answer against the index (`ReadInv`) and that the index is even
(`EvenInv`), which a wrap at 255 breaks; the hypothesis is that finding.

Only model-checked: `CommandReturns` (liveness).

The PEI driver uses the same functions and is not modelled apart.

## 8. Not modelled

The protocol database, the dispatcher and the multiprocessor library are worth
modelling and not reached yet. The memory services are allocators over address
ranges whose small instances show little; the image services and the HII question
tree are mostly data; the PEI and SMM cores are dispatchers much like the DXE
one. Network, file systems, shell, security, crypto, the platform's device drivers
and the build tools are upstream packages outside the core this project is about.
The repository has 1.7 million lines, nearly all of them these packages, tables
of registers and vendored code: the models cover the part of its core where
concurrency and failure make errors hard to find by testing.

Out of the prover's reach, and so only model-checked: the liveness properties
(fairness, ENABLED). Within its reach and only model-checked: `WritesAreAtomic` for lists
of two records (`ftw_records`). Every other property of a passing run is the
statement of a theorem.

## 9. Running

    tlc -config MCDxeEvent_timers.cfg MCDxeEvent
    tlc -config MCDxeEventLive_all.cfg MCDxeEventLive
    tlc -config MCFtw_single.cfg MCFtw
    tlc -config MCVarStore_faults.cfg MCVarStore
    tlc -config MCSmmRendezvous_all.cfg MCSmmRendezvous
    tlc -config MCKcs_transfers.cfg MCKcs
    tlapm DxeEventProofs.tla
    tlapm DxeEventListProofs.tla
    tlapm DxeEventSignalProofs.tla
    tlapm FtwProofs.tla
    tlapm VarStoreProofs.tla
    tlapm SmmRendezvousPlaces.tla
    tlapm SmmRendezvousProofs.tla
    tlapm KcsProofs.tla
