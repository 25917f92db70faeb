--------------------------- MODULE SmmRendezvous ----------------------------
(***************************************************************************)
(* The multiprocessor rendezvous of system management mode                 *)
(* (UefiCpuPkg/PiSmmCpuDxeSmm/MpService.c): on an SMI every processor      *)
(* enters SmiRendezvous, one is elected BSP, the others wait as APs for    *)
(* procedures, and all leave together.  They meet by way of the semaphores *)
(* Counter and Run, the flags InsideSmm, AllCpusInSync and Present, and    *)
(* the spin locks Busy.                                                    *)
(*                                                                         *)
(* A function is a list of steps; a step is one access to shared memory    *)
(* (with the local computation around it), so that the processors          *)
(* interleave at every access.  prog[c] holds the steps CPU c has left;    *)
(* a step is a pair of its name and the index of a loop.  The processors   *)
(* run in parallel and none is preempted in SMM.                           *)
(***************************************************************************)
EXTENDS Integers, Sequences, FiniteSets

CONSTANTS
  N,          \* mMaxNumberOfCpus
  MaxSmis,    \* bound: SMIs the platform raises
  MaxCalls,   \* bound: procedures the SMI handlers start in an SMI
  Configs,    \* platforms: cpus (mNumberOfCpus), tradition and mtrrs (the sync mode and
              \* SmmCpuFeaturesNeedConfigureMtrrs), election (PcdCpuSmmEnableBspElection),
              \* services that SMI handlers use, and the bounds smis and calls for each
  Timely      \* PcdCpuSmmMaxSyncLoops is long: see TimerFires and LockdownSemaphore

Services == {"DispatchProcedure", "BroadcastProcedure", "SmmStartupThisAp"}

ASSUME SmmAssumption ==
  /\ N \in Nat \ {0, 1}
  /\ MaxSmis \in Nat /\ MaxCalls \in Nat /\ Timely \in BOOLEAN
  /\ Configs \subseteq [cpus : 1 .. N, tradition : BOOLEAN, mtrrs : BOOLEAN,
                        election : BOOLEAN, services : SUBSET Services,
                        smis : 0 .. MaxSmis, calls : 0 .. MaxCalls]

CPUs    == 1 .. N
NoBsp   == 0        \* BspIndex = -1
NoCall  == 0
WRAPPER == -1       \* ProcedureWrapper, which runs what ApWrapperFunc[c] holds
LOCKED  == -1       \* a UINT32 semaphore after LockdownSemaphore; read as signed here

VARIABLES
  counter,    \* *Counter
  inside,     \* *InsideSmm
  allInSync,  \* *AllCpusInSync
  bspIndex,   \* BspIndex
  cpu,        \* CpuData[c]: run, present, busy, proc (a call or WRAPPER), token
  prog,       \* the steps each processor has left; empty outside SMM
  local,      \* locals of its functions: valid, inProgress, bsp, apCount
  platform,   \* status: the top level SMI status; pending: SMIs latched; smis raised
  calls,      \* made: calls of this SMI; proc, token: what the last one passes on;
              \* wrapper: ApWrapperFunc[c]; running: RunningApCount of each token;
              \* owed: <<call, c>> scheduled and not run yet (history)
  config      \* the platform, a constant of each behaviour

vars == <<counter, inside, allInSync, bspIndex, cpu, prog, local, platform, calls, config>>

Tradition == config.tradition
Mtrrs     == config.mtrrs

-----------------------------------------------------------------------------
(***************************************************************************)
(* The functions as lists of steps.                                        *)
(***************************************************************************)
Step(op)   == << <<op, 0>> >>
ForAll(op) == [i \in CPUs |-> <<op, i>>]
When(b, s) == IF b THEN s ELSE <<>>

ReleaseAllAPs == ForAll("release")

\* BSPHandler: gathering the APs first (traditional mode or MTRRs), or last.
GatherFirst == Tradition \/ Mtrrs

\* Mutant: the BSP does not wait for the procedures it has started.
MutBSPHandler ==
  Step("inside") \o Step("present")
  \o When(GatherFirst,
       Step("arrive") \o Step("send_ipi") \o Step("sync") \o Step("lockdown") \o Step("gather"))
  \o When(Mtrrs, ReleaseAllAPs \o Step("gather") \o ReleaseAllAPs \o Step("gather"))
  \o Step("busy") \o Step("handlers")
  \o When(~GatherFirst, Step("sync") \o Step("lockdown") \o Step("all_present"))
  \o Step("outside") \o ReleaseAllAPs \o Step("gather")
  \o When(Mtrrs, ReleaseAllAPs \o Step("gather"))
  \o ReleaseAllAPs \o Step("absent") \o Step("gather")
  \o Step("reset_bsp") \o Step("reset_counter") \o Step("reset_sync")

BSPHandler ==
  Step("inside") \o Step("present")
  \o When(GatherFirst,
       Step("arrive") \o Step("send_ipi") \o Step("sync") \o Step("lockdown") \o Step("gather"))
  \o When(Mtrrs, ReleaseAllAPs \o Step("gather") \o ReleaseAllAPs \o Step("gather"))
  \o Step("busy") \o Step("handlers") \o ForAll("not_busy")
  \o When(~GatherFirst, Step("sync") \o Step("lockdown") \o Step("all_present"))
  \o Step("outside") \o ReleaseAllAPs \o Step("gather")
  \o When(Mtrrs, ReleaseAllAPs \o Step("gather"))
  \o ReleaseAllAPs \o Step("absent") \o Step("gather")
  \o Step("reset_bsp") \o Step("reset_counter") \o Step("reset_sync")

\* APHandler, from the point where the BSP is known to be in SMM.
APHandler ==
  Step("find_bsp") \o Step("ap_present")
  \o When(GatherFirst, Step("signal"))
  \o When(Mtrrs, Step("wait") \o Step("signal") \o Step("wait") \o Step("signal"))
  \o Step("idle")

\* APHandler once the BSP wants to exit.
APExit ==
  When(Mtrrs, Step("signal") \o Step("wait"))
  \o Step("signal") \o Step("wait") \o Step("ap_absent") \o Step("signal")

\* SmiRendezvous.
SmiRendezvous == Step("valid_smi") \o Step("in_progress")

\* InternalSmmStartupThisAp and InternalSmmStartupAllAPs after their checks; a
\* blocking call ends with a wait for Busy to be free.
StartupThisAp(i, blocking) ==
  << <<"acquire", i>>, <<"schedule", i>>, <<"release_run", i>> >>
  \o When(blocking, << <<"not_busy", i>> >>)

StartupAllAPs(blocking) ==
  ForAll("acquire_present") \o ForAll("schedule_present") \o ReleaseAllAPs
  \o When(blocking, ForAll("not_busy"))

-----------------------------------------------------------------------------
Data0  == [run |-> 0, present |-> FALSE, busy |-> FALSE, proc |-> NoCall, token |-> NoCall]
Local0 == [valid |-> FALSE, inProgress |-> FALSE, bsp |-> NoBsp, apCount |-> 0]
Calls0 == [made |-> 0, proc |-> NoCall, token |-> NoCall, wrapper |-> [c \in CPUs |-> NoCall],
           running |-> [k \in 1 .. MaxCalls |-> 0], owed |-> {}]

\* InitializeMpSyncData.
Init ==
  /\ config \in Configs
  /\ counter = 0 /\ inside = FALSE /\ allInSync = FALSE
  /\ bspIndex = IF config.election THEN NoBsp ELSE 1
  /\ cpu = [c \in CPUs |-> Data0]
  /\ prog = [c \in CPUs |-> <<>>]
  /\ local = [c \in CPUs |-> Local0]
  /\ platform = [status |-> FALSE, pending |-> [c \in CPUs |-> FALSE], smis |-> 0]
  /\ calls = Calls0

InSmm(c)  == prog[c] # <<>>
At(c, op) == InSmm(c) /\ Head(prog[c])[1] = op
Index(c)  == Head(prog[c])[2]

\* CPU c goes on with steps, and then with what it had left.
Go(c, steps) == prog' = [prog EXCEPT ![c] = steps \o Tail(@)]
Done(c)      == Go(c, <<>>)

\* Mutant: a locked semaphore is released like any other.
MutReleaseSemaphore(value) == value + 1

\* ReleaseSemaphore and the writes of a field of CpuData[c].
ReleaseSemaphore(value) == IF value = LOCKED THEN value ELSE value + 1
SetData(c, field, value) == cpu' = [cpu EXCEPT ![c][field] = value]

\* IsPresentAp, as the BSP b sees CPU i.
IsPresentAp(b, i) == i # b /\ cpu[i].present
-----------------------------------------------------------------------------
(***************************************************************************)
(* SmiRendezvous.                                                          *)
(***************************************************************************)

\* The platform sets the top level SMI status and signals all processors.
Raise ==
  /\ platform.smis < config.smis
  /\ platform' = [status |-> TRUE, pending |-> [c \in CPUs |-> c <= config.cpus],
                  smis |-> platform.smis + 1]
  /\ UNCHANGED <<counter, inside, allInSync, bspIndex, cpu, prog, local, calls, config>>

\* An SMI is latched while the processor is in SMM, blocked or delayed.
Enter(c) ==
  /\ ~InSmm(c) /\ platform.pending[c]
  /\ platform' = [platform EXCEPT !.pending[c] = FALSE]
  /\ prog' = [prog EXCEPT ![c] = SmiRendezvous]
  /\ UNCHANGED <<counter, inside, allInSync, bspIndex, cpu, local, calls, config>>

PlatformValidSmi(c) ==
  /\ At(c, "valid_smi") /\ Done(c)
  /\ local' = [local EXCEPT ![c].valid = platform.status]
  /\ UNCHANGED <<counter, inside, allInSync, bspIndex, cpu, platform, calls, config>>

BspInProgress(c) ==
  /\ At(c, "in_progress")
  /\ local' = [local EXCEPT ![c].inProgress = inside]
  /\ Go(c, When(inside \/ local[c].valid, Step("check_in")))
  /\ UNCHANGED <<counter, inside, allInSync, bspIndex, cpu, platform, calls, config>>

\* Mutant: Busy keeps the state the last SMI left it in.
MutCheckIn(c) ==
  /\ At(c, "check_in")
  /\ counter' = ReleaseSemaphore(counter)
  /\ Go(c, IF counter = LOCKED THEN Step("late")
           ELSE (IF local[c].inProgress THEN << <<"await", 1>> >> ELSE Step("elect"))
                \o Step("leave"))
  /\ UNCHANGED <<inside, allInSync, bspIndex, cpu, local, platform, calls, config>>

\* ReleaseSemaphore (Counter); 0 is returned once the BSP has locked it.
CheckIn(c) ==
  /\ At(c, "check_in")
  /\ counter' = ReleaseSemaphore(counter)
  /\ IF counter = LOCKED
     THEN Go(c, Step("late")) /\ UNCHANGED cpu
     ELSE /\ Go(c, (IF local[c].inProgress THEN << <<"await", 1>> >> ELSE Step("elect"))
                   \o Step("leave"))
          /\ SetData(c, "busy", FALSE)
  /\ UNCHANGED <<inside, allInSync, bspIndex, local, platform, calls, config>>

\* Mutant: a store in place of the compare and exchange.
MutElect(c) ==
  /\ At(c, "elect")
  /\ bspIndex' = IF config.election THEN c ELSE bspIndex
  /\ Go(c, IF bspIndex' = c THEN BSPHandler ELSE << <<"await", 1>> >>)
  /\ UNCHANGED <<counter, inside, allInSync, cpu, local, platform, calls, config>>

\* The default election; PlatformSmmBspElection of the null library decides nothing.
Elect(c) ==
  /\ At(c, "elect")
  /\ bspIndex' = IF config.election /\ bspIndex = NoBsp THEN c ELSE bspIndex
  /\ Go(c, IF bspIndex' = c THEN BSPHandler ELSE << <<"await", 1>> >>)
  /\ UNCHANGED <<counter, inside, allInSync, cpu, local, platform, calls, config>>

\* The wait for the BSP's signal, of a processor that has taken part or came late.
Leave(c) ==
  /\ At(c, "leave") \/ At(c, "late")
  /\ ~allInSync
  /\ Done(c)
  /\ local' = [local EXCEPT ![c] = Local0]
  /\ UNCHANGED <<counter, inside, allInSync, bspIndex, cpu, platform, calls, config>>

-----------------------------------------------------------------------------
(***************************************************************************)
(* BSPHandler.                                                             *)
(***************************************************************************)
FlagBsp(c) ==
  /\ At(c, "inside") /\ Done(c)
  /\ inside' = TRUE
  /\ UNCHANGED <<counter, allInSync, bspIndex, cpu, local, platform, calls, config>>

\* Present, and ClearTopLevelSmiStatus.
MarkBsp(c) ==
  /\ At(c, "present") /\ Done(c)
  /\ SetData(c, "present", TRUE)
  /\ platform' = [platform EXCEPT !.status = FALSE]
  /\ UNCHANGED <<counter, inside, allInSync, bspIndex, local, calls, config>>

\* SmmWaitForApArrival.  Its two waits end when all APs have arrived or at a timeout,
\* which may come at any time: the first ends here, the second with SetAllCpusInSync.
AwaitAps(c) ==
  /\ At(c, "arrive") /\ Done(c)
  /\ UNCHANGED <<counter, inside, allInSync, bspIndex, cpu, local, platform, calls, config>>

SendSmiIpis(c) ==
  /\ At(c, "send_ipi") /\ Done(c)
  /\ platform' = IF counter = config.cpus THEN platform
                 ELSE [platform EXCEPT !.pending =
                        [i \in CPUs |-> @[i] \/ (i <= config.cpus /\ ~cpu[i].present)]]
  /\ UNCHANGED <<counter, inside, allInSync, bspIndex, cpu, local, calls, config>>

SetAllCpusInSync(c) ==
  /\ At(c, "sync") /\ Done(c)
  /\ allInSync' = TRUE
  /\ UNCHANGED <<counter, inside, bspIndex, cpu, local, platform, calls, config>>

\* LockdownSemaphore.  Timely: an AP that has seen its last timer expire gives up
\* before a processor entering SMM gets here.
LockdownSemaphore(c) ==
  /\ At(c, "lockdown") /\ Done(c)
  /\ Timely => \A i \in CPUs : ~(At(i, "look") \/ At(i, "ask_bsp") \/ At(i, "give_up"))
  /\ local' = [local EXCEPT ![c].apCount = counter - 1]
  /\ counter' = LOCKED
  /\ UNCHANGED <<inside, allInSync, bspIndex, cpu, platform, calls, config>>

\* Mutant: the semaphore is tested and not taken.
MutWaitForAllAPs(c) ==
  /\ At(c, "gather") /\ Done(c)
  /\ cpu[c].run >= local[c].apCount
  /\ UNCHANGED <<counter, inside, allInSync, bspIndex, cpu, local, platform, calls, config>>

\* WaitForAllAPs: the semaphore is the BSP's own, and only APs release it.
WaitForAllAPs(c) ==
  /\ At(c, "gather") /\ Done(c)
  /\ cpu[c].run >= local[c].apCount
  /\ SetData(c, "run", cpu[c].run - local[c].apCount)
  /\ UNCHANGED <<counter, inside, allInSync, bspIndex, local, platform, calls, config>>

\* Mutant: the BSP releases itself as well.
MutReleaseAp(c) ==
  /\ At(c, "release") /\ Done(c)
  /\ LET i == Index(c)
     IN  IF cpu[i].present THEN SetData(i, "run", ReleaseSemaphore(cpu[i].run))
         ELSE UNCHANGED cpu
  /\ UNCHANGED <<counter, inside, allInSync, bspIndex, local, platform, calls, config>>

\* One turn of ReleaseAllAPs.
ReleaseAp(c) ==
  /\ At(c, "release") /\ Done(c)
  /\ LET i == Index(c)
     IN  IF IsPresentAp(c, i) THEN SetData(i, "run", ReleaseSemaphore(cpu[i].run))
         ELSE UNCHANGED cpu
  /\ UNCHANGED <<counter, inside, allInSync, bspIndex, local, platform, calls, config>>

AcquireOwnBusy(c) ==
  /\ At(c, "busy") /\ Done(c)
  /\ ~cpu[c].busy
  /\ SetData(c, "busy", TRUE)
  /\ UNCHANGED <<counter, inside, allInSync, bspIndex, local, platform, calls, config>>

\* One turn of WaitForAllAPsNotBusy (TRUE).
WaitNotBusy(c) ==
  /\ At(c, "not_busy") /\ Done(c)
  /\ ~(IsPresentAp(c, Index(c)) /\ cpu[Index(c)].busy)
  /\ UNCHANGED <<counter, inside, allInSync, bspIndex, cpu, local, platform, calls, config>>

\* Mutant: the BSP forgets that it is present itself.
MutAllPresent(c) ==
  /\ At(c, "all_present") /\ Done(c)
  /\ Cardinality({i \in CPUs : cpu[i].present}) >= local[c].apCount
  /\ UNCHANGED <<counter, inside, allInSync, bspIndex, cpu, local, platform, calls, config>>

\* The relaxed mode's wait until PresentCount exceeds ApCount.
AllPresent(c) ==
  /\ At(c, "all_present") /\ Done(c)
  /\ Cardinality({i \in CPUs : cpu[i].present}) > local[c].apCount
  /\ UNCHANGED <<counter, inside, allInSync, bspIndex, cpu, local, platform, calls, config>>

NotifyExit(c) ==
  /\ At(c, "outside") /\ Done(c)
  /\ inside' = FALSE
  /\ UNCHANGED <<counter, allInSync, bspIndex, cpu, local, platform, calls, config>>

ClearPresent(c) ==
  /\ At(c, "absent") \/ At(c, "ap_absent")
  /\ Done(c)
  /\ SetData(c, "present", FALSE)
  /\ UNCHANGED <<counter, inside, allInSync, bspIndex, local, platform, calls, config>>

\* ResetTokens and the reset of BspIndex.
ResetBsp(c) ==
  /\ At(c, "reset_bsp") /\ Done(c)
  /\ bspIndex' = IF config.election THEN NoBsp ELSE bspIndex
  /\ calls' = Calls0
  /\ UNCHANGED <<counter, inside, allInSync, cpu, local, platform, config>>

ResetCounter(c) ==
  /\ At(c, "reset_counter") /\ Done(c)
  /\ counter' = 0
  /\ UNCHANGED <<inside, allInSync, bspIndex, cpu, local, platform, calls, config>>

ResetSync(c) ==
  /\ At(c, "reset_sync") /\ Done(c)
  /\ allInSync' = FALSE
  /\ UNCHANGED <<counter, inside, bspIndex, cpu, local, platform, calls, config>>

-----------------------------------------------------------------------------
(***************************************************************************)
(* The SMI handlers the BSP runs, and the procedures they start on APs.    *)
(***************************************************************************)
EndHandlers(c) ==
  /\ At(c, "handlers") /\ Done(c)
  /\ UNCHANGED <<counter, inside, allInSync, bspIndex, cpu, local, platform, calls, config>>

\* The next call starts, with a token when it does not block.
NewCall(service, blocking, running) ==
  LET k == calls.made + 1
  IN  /\ service \in config.services /\ k <= config.calls
      /\ calls' = [calls EXCEPT !.made = k,
                               !.proc = IF service = "SmmStartupThisAp" THEN WRAPPER ELSE k,
                               !.token = IF blocking THEN NoCall ELSE k,
                               !.running[k] = IF blocking THEN 0 ELSE running]

\* DispatchProcedure and SmmBlockingStartupThisAp (InternalSmmStartupThisAp).
DispatchProcedure(c, i, blocking) ==
  /\ At(c, "handlers") /\ IsPresentAp(c, i)
  /\ NewCall("DispatchProcedure", blocking, 1)
  /\ Go(c, StartupThisAp(i, blocking) \o Step("handlers"))
  /\ UNCHANGED <<counter, inside, allInSync, bspIndex, cpu, local, platform, config>>

\* SmmStartupThisAp (PcdCpuSmmBlockStartupThisAp is FALSE) writes ApWrapperFunc[i] first.
SmmStartupThisAp(c, i) ==
  /\ At(c, "handlers") /\ i # c
  /\ NewCall("SmmStartupThisAp", FALSE, 0)
  /\ Go(c, << <<"wrap", i>> >>)
  /\ UNCHANGED <<counter, inside, allInSync, bspIndex, cpu, local, platform, config>>

\* InternalSmmStartupThisAp makes the token once the AP is known to be present.
Wrap(c) ==
  /\ At(c, "wrap")
  /\ calls' = [calls EXCEPT !.wrapper[Index(c)] = calls.made,
                           !.running[calls.made] = IF IsPresentAp(c, Index(c)) THEN 1 ELSE 0]
  /\ Go(c, When(IsPresentAp(c, Index(c)), StartupThisAp(Index(c), FALSE)) \o Step("handlers"))
  /\ UNCHANGED <<counter, inside, allInSync, bspIndex, cpu, local, platform, config>>

\* BroadcastProcedure (InternalSmmStartupAllAPs): none present, or one busy, is an error.
BroadcastProcedure(c, blocking) ==
  /\ At(c, "handlers")
  /\ \E i \in CPUs : IsPresentAp(c, i)
  /\ \A i \in CPUs : IsPresentAp(c, i) => ~cpu[i].busy
  /\ NewCall("BroadcastProcedure", blocking, N)
  /\ Go(c, StartupAllAPs(blocking) \o Step("handlers"))
  /\ UNCHANGED <<counter, inside, allInSync, bspIndex, cpu, local, platform, config>>

\* Mutant: Busy is waited for and not held.
MutAcquireBusy(c) ==
  /\ At(c, "acquire") \/ At(c, "acquire_present")
  /\ Done(c)
  /\ ~cpu[Index(c)].busy
  /\ UNCHANGED <<counter, inside, allInSync, bspIndex, cpu, local, platform, calls, config>>

\* AcquireSpinLock (Busy) of the AP, which releases it after the procedure.
AcquireBusy(c) ==
  /\ At(c, "acquire") \/ At(c, "acquire_present")
  /\ Done(c)
  /\ LET i == Index(c)
     IN  IF At(c, "acquire") \/ IsPresentAp(c, i)
         THEN ~cpu[i].busy /\ SetData(i, "busy", TRUE)
         ELSE UNCHANGED cpu
  /\ UNCHANGED <<counter, inside, allInSync, bspIndex, local, platform, calls, config>>

\* Mutant: an absent AP stays in the token's count.
MutSchedule(c) ==
  /\ At(c, "schedule") \/ At(c, "schedule_present")
  /\ Done(c)
  /\ LET i == Index(c)
     IN  IF At(c, "schedule") \/ IsPresentAp(c, i)
         THEN /\ cpu' = [cpu EXCEPT ![i].proc = calls.proc,
                                    ![i].token = IF calls.token = NoCall THEN @ ELSE calls.token]
              /\ calls' = [calls EXCEPT !.owed = @ \cup {<<calls.made, i>>}]
         ELSE UNCHANGED <<cpu, calls>>
  /\ UNCHANGED <<counter, inside, allInSync, bspIndex, local, platform, config>>

\* Procedure and Token of the AP; an absent AP is taken off the token's count.
Schedule(c) ==
  /\ At(c, "schedule") \/ At(c, "schedule_present")
  /\ Done(c)
  /\ LET i == Index(c)
     IN  IF At(c, "schedule") \/ IsPresentAp(c, i)
         THEN /\ cpu' = [cpu EXCEPT ![i].proc = calls.proc,
                                    ![i].token = IF calls.token = NoCall THEN @ ELSE calls.token]
              /\ calls' = [calls EXCEPT !.owed = @ \cup {<<calls.made, i>>}]
         ELSE /\ calls' = IF calls.token = NoCall THEN calls
                          ELSE [calls EXCEPT !.running[calls.token] = @ - 1]
              /\ UNCHANGED cpu
  /\ UNCHANGED <<counter, inside, allInSync, bspIndex, local, platform, config>>

ReleaseRun(c) ==
  /\ At(c, "release_run") /\ Done(c)
  /\ SetData(Index(c), "run", ReleaseSemaphore(cpu[Index(c)].run))
  /\ UNCHANGED <<counter, inside, allInSync, bspIndex, local, platform, calls, config>>

-----------------------------------------------------------------------------
(***************************************************************************)
(* APHandler.                                                              *)
(***************************************************************************)

\* The BSP is seen in SMM, in one of the two waits or at the look after a timeout.
BspSeen(c) ==
  /\ At(c, "await") \/ At(c, "look")
  /\ inside
  /\ Go(c, APHandler)
  /\ UNCHANGED <<counter, inside, allInSync, bspIndex, cpu, local, platform, calls, config>>

\* A processor that has checked in and may become BSP.
BspComing == \E b \in CPUs : At(b, "elect") \/ At(b, "inside")

\* IsSyncTimerTimeout.  Timely: no timer that may end in giving up expires while a
\* BSP is on its way.
TimerFires(c) ==
  /\ At(c, "await")
  /\ Timely /\ (Index(c) = 2 \/ bspIndex = NoBsp) => ~BspComing
  /\ Go(c, << <<"look", Index(c)>> >>)
  /\ UNCHANGED <<counter, inside, allInSync, bspIndex, cpu, local, platform, calls, config>>

LookAgain(c) ==
  /\ At(c, "look") /\ ~inside
  /\ Go(c, IF Index(c) = 1 THEN Step("ask_bsp") ELSE Step("give_up"))
  /\ UNCHANGED <<counter, inside, allInSync, bspIndex, cpu, local, platform, calls, config>>

\* SendSmiIpi to a known BSP.
AskBsp(c) ==
  /\ At(c, "ask_bsp")
  /\ IF bspIndex = NoBsp
     THEN Go(c, Step("give_up")) /\ UNCHANGED platform
     ELSE /\ Go(c, << <<"await", 2>> >>)
          /\ platform' = [platform EXCEPT !.pending[bspIndex] = TRUE]
  /\ UNCHANGED <<counter, inside, allInSync, bspIndex, cpu, local, calls, config>>

\* Mutant: an AP that gives up stays counted.
MutGiveUp(c) ==
  /\ At(c, "give_up") /\ Done(c)
  /\ UNCHANGED <<counter, inside, allInSync, bspIndex, cpu, local, platform, calls, config>>

\* WaitForSemaphore (Counter).
GiveUp(c) ==
  /\ At(c, "give_up") /\ Done(c)
  /\ counter # 0
  /\ counter' = counter - 1
  /\ UNCHANGED <<inside, allInSync, bspIndex, cpu, local, platform, calls, config>>

FindBsp(c) ==
  /\ At(c, "find_bsp") /\ Done(c)
  /\ local' = [local EXCEPT ![c].bsp = bspIndex]
  /\ UNCHANGED <<counter, inside, allInSync, bspIndex, cpu, platform, calls, config>>

MarkAp(c) ==
  /\ At(c, "ap_present") /\ Done(c)
  /\ SetData(c, "present", TRUE)
  /\ UNCHANGED <<counter, inside, allInSync, bspIndex, local, platform, calls, config>>

SignalBsp(c) ==
  /\ At(c, "signal") /\ Done(c)
  /\ LET b == local[c].bsp IN SetData(b, "run", ReleaseSemaphore(cpu[b].run))
  /\ UNCHANGED <<counter, inside, allInSync, bspIndex, local, platform, calls, config>>

\* WaitForSemaphore (Run) between two phases, and in the loop for something to do.
WaitForRun(c) ==
  /\ At(c, "wait") \/ At(c, "idle")
  /\ cpu[c].run > 0
  /\ SetData(c, "run", cpu[c].run - 1)
  /\ Go(c, When(At(c, "idle"), Step("test_exit")))
  /\ UNCHANGED <<counter, inside, allInSync, bspIndex, local, platform, calls, config>>

TestExit(c) ==
  /\ At(c, "test_exit")
  /\ Go(c, IF inside THEN Step("procedure") ELSE APExit)
  /\ UNCHANGED <<counter, inside, allInSync, bspIndex, cpu, local, platform, calls, config>>

\* The call whose procedure CPU c runs.
Callee(c) == IF cpu[c].proc = WRAPPER THEN calls.wrapper[c] ELSE cpu[c].proc

RunProcedure(c) ==
  /\ At(c, "procedure")
  /\ calls' = [calls EXCEPT !.owed = @ \ {<<Callee(c), c>>}]
  /\ Go(c, When(cpu[c].token # NoCall, Step("token")) \o Step("free"))
  /\ UNCHANGED <<counter, inside, allInSync, bspIndex, cpu, local, platform, config>>

ReleaseToken(c) ==
  /\ At(c, "token") /\ Done(c)
  /\ calls' = [calls EXCEPT !.running[cpu[c].token] = @ - 1]
  /\ SetData(c, "token", NoCall)
  /\ UNCHANGED <<counter, inside, allInSync, bspIndex, local, platform, config>>

FreeBusy(c) ==
  /\ At(c, "free")
  /\ SetData(c, "busy", FALSE)
  /\ Go(c, Step("idle"))
  /\ UNCHANGED <<counter, inside, allInSync, bspIndex, local, platform, calls, config>>

-----------------------------------------------------------------------------
RendezvousStep(c) ==
  PlatformValidSmi(c) \/ BspInProgress(c) \/ CheckIn(c) \/ Elect(c) \/ Leave(c)

BspStep(c) ==
  \/ FlagBsp(c) \/ MarkBsp(c) \/ AwaitAps(c) \/ SendSmiIpis(c) \/ SetAllCpusInSync(c)
  \/ LockdownSemaphore(c) \/ WaitForAllAPs(c) \/ ReleaseAp(c) \/ AcquireOwnBusy(c)
  \/ WaitNotBusy(c) \/ AllPresent(c) \/ NotifyExit(c) \/ ClearPresent(c)
  \/ ResetBsp(c) \/ ResetCounter(c) \/ ResetSync(c)

HandlerStep(c) ==
  \/ EndHandlers(c) \/ Wrap(c) \/ AcquireBusy(c) \/ Schedule(c) \/ ReleaseRun(c)
  \/ \E i \in CPUs : SmmStartupThisAp(c, i)
  \/ \E blocking \in BOOLEAN : \/ BroadcastProcedure(c, blocking)
                              \/ \E i \in CPUs : DispatchProcedure(c, i, blocking)

ApStep(c) ==
  \/ BspSeen(c) \/ TimerFires(c) \/ LookAgain(c) \/ AskBsp(c) \/ GiveUp(c) \/ FindBsp(c)
  \/ MarkAp(c) \/ SignalBsp(c) \/ WaitForRun(c) \/ TestExit(c) \/ RunProcedure(c)
  \/ ReleaseToken(c) \/ FreeBusy(c)

CpuStep(c) == RendezvousStep(c) \/ BspStep(c) \/ HandlerStep(c) \/ ApStep(c)

Next == Raise \/ \E c \in CPUs : Enter(c) \/ CpuStep(c)

\* A processor in SMM runs on; nothing makes one enter.
Spec == Init /\ [][Next]_vars /\ \A c \in CPUs : WF_vars(CpuStep(c))

-----------------------------------------------------------------------------
(***************************************************************************)
(* Properties.                                                             *)
(***************************************************************************)
BspOps == {"inside", "present", "arrive", "send_ipi", "sync", "lockdown", "gather", "release",
           "busy", "handlers", "not_busy", "all_present", "outside", "absent", "reset_bsp",
           "reset_counter", "wrap", "acquire", "acquire_present", "schedule",
           "schedule_present", "release_run"}
ApOps  == {"valid_smi", "in_progress", "check_in", "elect", "leave", "late", "await", "look",
           "ask_bsp", "give_up", "find_bsp", "ap_present", "signal", "wait", "idle", "test_exit",
           "procedure", "token", "free", "ap_absent", "reset_sync"}

\* Types, and the range of every semaphore: Run and RunningApCount never exceed the number
\* of processors.
SmmTypeOK ==
  /\ counter \in LOCKED - N .. N
  /\ inside \in BOOLEAN /\ allInSync \in BOOLEAN /\ bspIndex \in {NoBsp} \cup CPUs
  /\ cpu \in [CPUs -> [run : 0 .. N, present : BOOLEAN, busy : BOOLEAN,
                       proc : {WRAPPER, NoCall} \cup 1 .. MaxCalls, token : 0 .. MaxCalls]]
  /\ \A c \in CPUs : \A j \in DOMAIN prog[c] : prog[c][j] \in (BspOps \cup ApOps) \X (0 .. N)
  /\ local \in [CPUs -> [valid : BOOLEAN, inProgress : BOOLEAN, bsp : {NoBsp} \cup CPUs,
                         apCount : -1 .. N]]
  /\ platform \in [status : BOOLEAN, pending : [CPUs -> BOOLEAN], smis : 0 .. MaxSmis]
  /\ calls.owed \subseteq (1 .. MaxCalls) \X CPUs /\ calls.running \in [1 .. MaxCalls -> 0 .. N]
  /\ config \in Configs

\* A CPU in BSPHandler that has not let the next SMI begin.
IsBsp(c) == InSmm(c) /\ Head(prog[c])[1] \in BspOps

\* Election (SmiRendezvous) and the reset at the end of BSPHandler never let two
\* processors be in BSPHandler before its reset of Counter.
OneBsp == \A b, c \in CPUs : IsBsp(b) /\ IsBsp(c) => b = c

\* ASSERT (CpuIndex != BspIndex) of APHandler, for the index of a real processor.
ApKnowsBsp ==
  \A c \in CPUs : (At(c, "ap_present") \/ At(c, "signal")) => local[c].bsp \in CPUs \ {c}

\* ASSERT (*mSmmMpSyncData->CpuData[CpuIndex].Run == 0) at the end of SmiRendezvous: what
\* BSP and APs release in their phases, each has waited for.
RunDrained == \A c \in CPUs : At(c, "leave") => cpu[c].run = 0

\* ASSERT (*mSmmMpSyncData->Counter <= mNumberOfCpus) of SmmWaitForApArrival, Counter
\* being unsigned.
CounterInRange ==
  \A c \in CPUs : At(c, "arrive") \/ At(c, "send_ipi") => counter \in 0 .. config.cpus

\* Once the BSP asks the APs to exit, the APs that are present (and get its signals)
\* are as many as it has counted (and waits for).
CountedArePresent ==
  \A b \in CPUs : At(b, "outside") =>
    Cardinality({i \in CPUs : IsPresentAp(b, i)}) = local[b].apCount

\* ASSERT (!AcquireSpinLockOrFail (Busy)) of APHandler: "BUSY should be acquired by
\* SmmStartupThisAp()".
BusyHeld == \A c \in CPUs : At(c, "procedure") => cpu[c].busy

\* When the BSP ends the SMI, every procedure that was scheduled has been run.
NothingOwed == \A b \in CPUs : At(b, "outside") => calls.owed = {}

\* A token is released when the procedures of its call have returned, and only then: its
\* count has come down to 0 although absent processors and the BSP are counted at first,
\* and no AP is in its procedure, or about to report its return, behind a released token.
TokenTellsDone ==
  \A b \in CPUs : At(b, "handlers") \/ At(b, "outside") =>
    \A k \in 1 .. calls.made :
      calls.running[k] = 0 <=>
        /\ \A i \in CPUs : <<k, i>> \notin calls.owed
        /\ \A i \in CPUs : cpu[i].token # k

\* After finitely many SMIs all processors are out of SMM for good: no wait of the
\* rendezvous is for ever, and the IPIs it sends bring nobody in again and again.
EveryoneLeaves == <>[](\A c \in CPUs : ~InSmm(c))
=============================================================================
