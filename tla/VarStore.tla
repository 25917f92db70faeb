------------------------------ MODULE VarStore ------------------------------
(***************************************************************************)
(* The non-volatile store of the variable driver                           *)
(* (MdeModulePkg/Universal/Variable/RuntimeDxe): a log of variable headers *)
(* in flash, mirrored by the memory copy mNvVariableCache.  An update      *)
(* marks the old copy, appends a new one in four flash writes and deletes  *)
(* the old copy; garbage is collected by writing the whole store anew      *)
(* through the fault tolerant write driver.                                *)
(*                                                                         *)
(* prog holds the flash writes left of the call in progress.  A power      *)
(* failure may fall on any of them; it leaves a header or data write       *)
(* anywhere in between.  The state of a header is one byte of which each   *)
(* write clears one bit, and the fault tolerant write is atomic (Ftw).     *)
(*                                                                         *)
(* One store: the variables are NV, runtime accessible and without         *)
(* authentication; no HOB variables, hardware error records, user quota,   *)
(* append writes or volatile variables.                                    *)
(***************************************************************************)
EXTENDS Integers, Sequences, FiniteSets, FiniteSetsExt

CONSTANTS
  Keys,        \* names with their vendor GUIDs
  Values,
  NoValue,     \* zero DataSize: a SetVariable that deletes
  NoRequest,
  Size,        \* the units of flash of a value, a header being one unit
  Space,       \* CommonVariableSpace
  Reserved,    \* PcdBoottimeReservedNvVariableSpaceSize: not for the operating system
  Scenarios    \* faults: how many, kinds: of which, runtime: the OS calls too

Kinds == {"power", "state", "ftw"}

ASSUME VarAssumption ==
  /\ NoValue \notin Values /\ Size \in [Values -> Nat \ {0}]
  /\ NoRequest \notin [key : Keys, val : Values \cup {NoValue}]
  /\ Space \in Nat /\ Reserved \in 0 .. Space
  /\ \A v \in Values : 1 + Size[v] <= Space
  /\ Scenarios \subseteq [faults : Nat, kinds : SUBSET Kinds, runtime : BOOLEAN]

VARIABLES
  flash,     \* records: the variables in flash; junk: something behind them is not 0xFF
  cache,     \* mNvVariableCache
  offset,    \* NonVolatileLastVariableOffset
  total,     \* CommonVariableTotalSize
  os,        \* boot, ready (ReclaimForOS was called), runtime (AtRuntime)
  prog,      \* the steps left of the call in progress
  arg,       \* the request, and the indices of CurrPtr and InDeletedTransitionPtr
  status,    \* what the last call returned
  faults,    \* power failures and device errors so far
  scenario

vars == <<flash, cache, offset, total, os, prog, arg, status, faults, scenario>>

\* States of a variable header: 0xFF, VAR_HEADER_VALID_ONLY, VAR_ADDED, VAR_ADDED and
\* VAR_IN_DELETED_TRANSITION, and any with VAR_DELETED.
States == {"none", "header", "added", "indel", "deleted"}

NoArg == [req |-> NoRequest, curr |-> 0, indel |-> 0]

-----------------------------------------------------------------------------
(***************************************************************************)
(* Walking the records.                                                    *)
(***************************************************************************)

\* The units a record takes.  The sizes in a header count once its state says so.
Length(r) == IF r.state = "none" THEN 1 ELSE 1 + Size[r.val]

\* Where the walk over records (GetNextVariablePtr, IsValidVariableHeader) ends.
End(records) ==
  LET end[n \in 0 .. Len(records)] == IF n = 0 THEN 0 ELSE end[n - 1] + Length(records[n])
  IN  end[Len(records)]

In(records, key, state) ==
  {i \in DOMAIN records : records[i].key = key /\ records[i].state = state}

First(is) == IF is = {} THEN 0 ELSE Min(is)
Final(is) == IF is = {} THEN 0 ELSE Max(is)

\* FindVariableEx: the first ADDED copy with the last copy in deletion before it, else
\* the last copy in deletion.
FindVariableEx(records, key) ==
  LET added == First(In(records, key, "added"))
      indel == In(records, key, "indel")
  IN  IF added = 0 THEN [curr |-> Final(indel), indel |-> 0]
      ELSE [curr |-> added, indel |-> Final({i \in indel : i < added})]

\* GetVariable over records.
GetVariable(records, key) ==
  LET i == FindVariableEx(records, key).curr
  IN  IF i = 0 THEN NoValue ELSE records[i].val

-----------------------------------------------------------------------------
(***************************************************************************)
(* Reclaim.                                                                *)
(***************************************************************************)
SetState(r, s) == [r EXCEPT !.state = s]

\* The first walk: the ADDED copies, without the copy curr that is being replaced.
Added(records, curr) ==
  LET kept[n \in 0 .. Len(records)] ==
        IF n = 0 THEN <<>>
        ELSE IF records[n].state = "added" /\ n # curr THEN Append(kept[n - 1], records[n])
        ELSE kept[n - 1]
  IN  kept[Len(records)]

\* The second walk promotes a copy in deletion whose key the buffer has not; the result
\* is ValidBuffer without the new variable.
ValidBuffer(records, curr, indel) ==
  LET valid[n \in 0 .. Len(records)] ==
        IF n = 0 THEN Added(records, curr)
        ELSE LET buffer == valid[n - 1]
             IN  IF /\ records[n].state = "indel" /\ n \notin {curr, indel}
                    /\ \A i \in DOMAIN buffer : buffer[i].key # records[n].key
                 THEN Append(buffer, SetState(records[n], "added"))
                 ELSE buffer
  IN  valid[Len(records)]

Record(req) == [key |-> req.key, val |-> req.val, state |-> "added"]

\* What Reclaim writes: ValidBuffer and the new variable; ok is FALSE when that is too much.
Reclaim(records, a, new) ==
  LET valid  == ValidBuffer(records, a.curr, a.indel)
      buffer == IF new THEN Append(valid, Record(a.req)) ELSE valid
  IN  [ok |-> ~new \/ End(buffer) <= Space, records |-> buffer]

-----------------------------------------------------------------------------
\* A formatted store, and the driver started on it.
Init ==
  /\ scenario \in Scenarios
  /\ flash = [records |-> <<>>, junk |-> FALSE] /\ cache = flash
  /\ offset = 0 /\ total = 0
  /\ os = "boot" /\ prog = <<>> /\ arg = NoArg /\ status = "none" /\ faults = 0

Idle     == prog = <<>>
At(step) == ~Idle /\ Head(prog) = step
Runtime  == os = "runtime"

\* Mutant: the header is not counted.
MutFull(v) == total + Size[v] > (IF Runtime THEN Space - Reserved ELSE Space)

\* The test before a new copy of v is written; at run time the reserve is not touched.
Full(v) == total + 1 + Size[v] > (IF Runtime THEN Space - Reserved ELSE Space)

\* Mutant: the current copy is deleted first.
MutDeleteOld(found) ==
  (IF found.curr # 0 THEN <<"delete_curr">> ELSE <<>>)
  \o (IF found.indel # 0 THEN <<"delete_indel">> ELSE <<>>)

\* The old copies, the one that was in deletion before first.
DeleteOld(found) ==
  (IF found.indel # 0 THEN <<"delete_indel">> ELSE <<>>)
  \o (IF found.curr # 0 THEN <<"delete_curr">> ELSE <<>>)

\* Mutant: the old copy is not marked before the new one is written.
MutUpdateVariable(found, old, v) ==
  IF v = NoValue THEN (IF found.curr = 0 THEN <<"not_found">> ELSE DeleteOld(found))
  ELSE IF v = old THEN <<>>
  ELSE IF ~Full(v) THEN <<"header", "header_valid", "data", "added">> \o DeleteOld(found)
  ELSE IF Runtime THEN <<"out_of_resources">> ELSE <<"reclaim">>

\* UpdateVariable: the flash writes it will make.
UpdateVariable(found, old, v) ==
  IF v = NoValue THEN (IF found.curr = 0 THEN <<"not_found">> ELSE DeleteOld(found))
  ELSE IF v = old THEN <<>>
  ELSE (IF found.curr # 0 THEN <<"mark_old">> ELSE <<>>)
       \o (IF ~Full(v) THEN <<"header", "header_valid", "data", "added">> \o DeleteOld(found)
           ELSE IF Runtime THEN <<"out_of_resources">>
           ELSE <<"reclaim">>)

\* FindVariable in the cache, then UpdateVariable.
SetVariable(k, v) ==
  /\ Idle
  /\ LET found == FindVariableEx(cache.records, k)
     IN  /\ prog' = UpdateVariable(found, GetVariable(cache.records, k), v) \o <<"return">>
         /\ arg' = [req |-> [key |-> k, val |-> v], curr |-> found.curr, indel |-> found.indel]
  /\ status' = "success"
  /\ UNCHANGED <<flash, cache, offset, total, os, faults, scenario>>

Done == prog' = Tail(prog)

\* A new state byte for record i, in flash and then in the cache.
WriteState(step, i, state) ==
  /\ At(step) /\ Done
  /\ flash' = [flash EXCEPT !.records[i].state = state]
  /\ cache' = [cache EXCEPT !.records[i].state = state]
  /\ UNCHANGED <<offset, total, os, arg, status, faults, scenario>>

MarkOld     == WriteState("mark_old", arg.curr, "indel")
DeleteIndel == WriteState("delete_indel", arg.indel, "deleted")
DeleteCurr  == WriteState("delete_curr", arg.curr, "deleted")

\* The four writes of a new copy at NonVolatileLastVariableOffset.
Tip == Len(flash.records)

WriteHeader ==
  /\ At("header") /\ Done
  /\ flash' = [flash EXCEPT !.records = Append(@, SetState(Record(arg.req), "none"))]
  /\ UNCHANGED <<cache, offset, total, os, arg, status, faults, scenario>>

WriteHeaderValid ==
  /\ At("header_valid") /\ Done
  /\ flash' = [flash EXCEPT !.records[Tip].state = "header"]
  /\ UNCHANGED <<cache, offset, total, os, arg, status, faults, scenario>>

\* The data is looked at only when the state says ADDED.
WriteData ==
  /\ At("data") /\ Done
  /\ UNCHANGED <<flash, cache, offset, total, os, arg, status, faults, scenario>>

\* Mutant: the cache is not updated.
MutWriteAdded ==
  /\ At("added") /\ Done
  /\ flash' = [flash EXCEPT !.records[Tip].state = "added"]
  /\ offset' = offset + 1 + Size[arg.req.val]
  /\ total' = total + 1 + Size[arg.req.val]
  /\ UNCHANGED <<cache, os, arg, status, faults, scenario>>

\* The last write, and then the cache, the offset and the total.
WriteAdded ==
  /\ At("added") /\ Done
  /\ flash' = [flash EXCEPT !.records[Tip].state = "added"]
  /\ cache' = [cache EXCEPT !.records = Append(@, Record(arg.req))]
  /\ offset' = offset + 1 + Size[arg.req.val]
  /\ total' = total + 1 + Size[arg.req.val]
  /\ UNCHANGED <<os, arg, status, faults, scenario>>

\* Reclaim and FtwVariableSpace: of UpdateVariable with the new variable, of ReclaimForOS
\* and of VariableWriteServiceInitialize without.  The status is that of
\* SynchronizeRuntimeVariableCache, which does not fail.
Reclaiming == At("reclaim") \/ At("reclaim_os") \/ At("reclaim_junk")
Collected  == Reclaim(flash.records, arg, At("reclaim"))

DoReclaim ==
  /\ Reclaiming /\ Done
  /\ IF Collected.ok
     THEN /\ flash' = [records |-> Collected.records, junk |-> FALSE]
          /\ offset' = End(Collected.records) /\ total' = End(Collected.records)
          /\ arg' = IF arg.curr = 0 THEN arg
                    ELSE [arg EXCEPT !.curr = Len(Collected.records), !.indel = 0]
     ELSE UNCHANGED <<flash, offset, total, arg>>
  /\ cache' = flash'
  /\ UNCHANGED <<os, status, faults, scenario>>

\* A call that is refused without or after the mark of the old copy.
Refuse ==
  /\ At("not_found") \/ At("out_of_resources")
  /\ Done
  /\ status' = Head(prog)
  /\ UNCHANGED <<flash, cache, offset, total, os, arg, faults, scenario>>

Return ==
  /\ At("return") /\ Done
  /\ arg' = NoArg
  /\ UNCHANGED <<flash, cache, offset, total, os, status, faults, scenario>>

-----------------------------------------------------------------------------
(***************************************************************************)
(* Ready to boot, the start of the operating system, and a reset.          *)
(***************************************************************************)
MaxVariableSize == 1 + Max({Size[v] : v \in Values})

ReclaimForOS ==
  /\ Idle /\ os = "boot" /\ os' = "ready"
  /\ prog' = IF Space - Reserved < total + MaxVariableSize THEN <<"reclaim_os">> ELSE <<>>
  /\ UNCHANGED <<flash, cache, offset, total, arg, status, faults, scenario>>

ExitBootServices ==
  /\ Idle /\ os = "ready" /\ os' = "runtime"
  /\ scenario.runtime
  /\ UNCHANGED <<flash, cache, offset, total, prog, arg, status, faults, scenario>>

\* What a flash write that is cut off leaves in flash.
CutOff ==
  CASE At("header") -> {flash, [flash EXCEPT !.junk = TRUE],
                        [flash EXCEPT !.records = Append(@, SetState(Record(arg.req), "none"))]}
    [] Reclaiming   -> {flash, IF Collected.ok THEN [records |-> Collected.records, junk |-> FALSE]
                               ELSE flash}
    [] OTHER        -> {flash}

Fault(kind) == kind \in scenario.kinds /\ faults < scenario.faults /\ faults' = faults + 1

\* A power failure at any time; InitNonVolatileVariableStore follows.
PowerFailure ==
  /\ Fault("power")
  /\ flash' \in CutOff
  /\ prog' = <<"init_store">>
  /\ arg' = NoArg /\ os' = "boot" /\ status' = "none"
  /\ UNCHANGED <<cache, offset, total, scenario>>

\* An orderly reset.
Reset ==
  /\ Idle /\ os # "boot"
  /\ prog' = <<"init_store">> /\ os' = "boot" /\ status' = "none"
  /\ UNCHANGED <<flash, cache, offset, total, arg, faults, scenario>>

\* Mutant: what is behind the last record is not looked at.
MutInitStore ==
  /\ At("init_store")
  /\ cache' = flash
  /\ offset' = End(flash.records) /\ total' = End(flash.records)
  /\ prog' = <<>>
  /\ UNCHANGED <<flash, os, arg, status, faults, scenario>>

\* InitNonVolatileVariableStore and the check of the free area.
InitStore ==
  /\ At("init_store")
  /\ cache' = flash
  /\ offset' = End(flash.records) /\ total' = End(flash.records)
  /\ prog' = IF flash.junk THEN <<"reclaim_junk">> ELSE <<>>
  /\ UNCHANGED <<flash, os, arg, status, faults, scenario>>

\* A device error at the write of a state byte of an old copy.
StateError ==
  /\ Fault("state")
  /\ At("mark_old") \/ At("delete_indel") \/ At("delete_curr")
  /\ prog' = <<"return">> /\ status' = "device_error"
  /\ UNCHANGED <<flash, cache, offset, total, os, arg, scenario>>

\* An error of the fault tolerant write; the totals are those of the store as it was.
FtwError ==
  /\ Fault("ftw")
  /\ Reclaiming /\ Done
  /\ offset' = End(flash.records) /\ total' = End(flash.records) /\ cache' = flash
  /\ UNCHANGED <<flash, os, arg, status, scenario>>

Next ==
  \/ \E k \in Keys, v \in Values \cup {NoValue} : SetVariable(k, v)
  \/ MarkOld \/ DeleteIndel \/ DeleteCurr
  \/ WriteHeader \/ WriteHeaderValid \/ WriteData \/ WriteAdded \/ DoReclaim
  \/ Refuse \/ Return \/ ReclaimForOS \/ ExitBootServices \/ Reset
  \/ PowerFailure \/ InitStore \/ StateError \/ FtwError

Spec == Init /\ [][Next]_vars

-----------------------------------------------------------------------------
Records == [key : Keys, val : Values, state : States]

\* Types, and the offset and the total within the store.
VarTypeOK ==
  /\ \A store \in {flash, cache} :
       store.junk \in BOOLEAN /\ \A i \in DOMAIN store.records : store.records[i] \in Records
  /\ offset \in 0 .. Space /\ total \in 0 .. Space
  /\ os \in {"boot", "ready", "runtime"}
  /\ arg.curr \in 0 .. Len(flash.records) /\ arg.indel \in 0 .. Len(flash.records)
  /\ faults \in 0 .. scenario.faults

\* UpdateVariable writes a header only over erased flash, behind the last record.
WritesOverErased == At("header") => offset = End(flash.records) /\ ~flash.junk

\* "Keep the memory and the FLASH in sync as updates occur" (VariableNonVolatile.c).
CacheInSync ==
  Idle => /\ cache.records = flash.records
          /\ offset = End(flash.records) /\ total = End(flash.records)

\* Marking the old copy before the new one is ADDED leaves no two ADDED copies.
OneAdded == \A k \in Keys : Cardinality(In(flash.records, k, "added")) <= 1

\* The store is a map from names to values.
Map == INSTANCE VarMap WITH
  map <- [k \in Keys |-> GetVariable(flash.records, k)],
  request <- arg.req

\* Every interleaving of updates, resets and faults is one of atomic updates.
VarMapSpec == Map!Spec

\* EFI_SUCCESS means that the variable has the value asked for.
SuccessMeansStored ==
  At("return") /\ status = "success" => GetVariable(flash.records, arg.req.key) = arg.req.val
=============================================================================
