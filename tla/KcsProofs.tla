------------------------------ MODULE KcsProofs -----------------------------
(***************************************************************************)
(* Proofs about Kcs for requests and responses of every size, any number   *)
(* of commands and every BMC.                                              *)
(*                                                                         *)
(* The inductive invariant says, for each place of the driver, what the    *)
(* BMC can be up to: what is in the input register, whether an answer is   *)
(* being prepared, and how much of the request or the answer has passed.   *)
(***************************************************************************)
EXTENDS Kcs, SequenceTheorems, TLAPS

Bytes     == Nat \X Nat
Registers == {"none", "command", "data"}

BmcType ==
  [present : BOOLEAN, state : States, in : Registers \X Bytes, out : Bytes, busy : BOOLEAN,
   ended : BOOLEAN, aborting : BOOLEAN, failed : BOOLEAN, got : Seq(Bytes), left : Seq(Bytes)]

WritePcs == {"w_ibf", "w_flush", "w_start", "w_check", "w_clear", "w_next"}
ReadPcs  == {"r_ask", "r_check", "r_obf", "r_take"}
ErrorPcs == {"e_ibf", "e_abort", "e_wait1", "e_clear", "e_zero", "e_wait2", "e_obf1",
             "e_code", "e_ack", "e_wait3", "e_obf2", "e_dummy"}
Pcs      == WritePcs \cup ReadPcs \cup ErrorPcs \cup {"idle", "r_ibf", "complete", "return"}

\* Between a poll of IBF and the write that follows it.
QuietPcs == {"w_flush", "w_start", "w_clear", "w_next", "r_ask", "r_obf", "r_take",
             "complete", "e_clear", "e_zero", "e_obf1", "e_code", "e_ack", "e_obf2", "e_dummy"}

TypeInv ==
  /\ pc \in Pcs /\ i \in 0 .. 255 /\ seen \in States /\ ret \in {"idle", "w_next", "r_take"}
  /\ RetryCount \in 0 .. KCS_RETRY_LIMIT
  /\ command \in 0 .. MaxCommands /\ Times \in 0 .. Tries
  /\ result \in {"none", "success", "timeout", "device_error", "invalid_parameter"}
  /\ Response \in [0 .. ResponseSize - 1 -> Bytes] /\ aborted \in BOOLEAN
  /\ bmc \in BmcType

\* The index of the loop, also while KcsErrorExit runs in it.
ControlInv ==
  /\ pc \in ErrorPcs => aborted /\ ret \in {"w_next", "r_take"} /\ RetryCount < KCS_RETRY_LIMIT
  /\ pc \in WritePcs \/ (pc \in ErrorPcs /\ ret = "w_next") => i <= RequestSize
  /\ pc \in ReadPcs \/ (pc \in ErrorPcs /\ ret = "r_take") => i < ResponseSize
  /\ pc \in {"w_ibf", "w_flush", "w_start", "r_ibf"} => i = 0
  /\ pc # "idle" => command > 0

QuietInv ==
  /\ pc \in QuietPcs => ~Ibf
  /\ pc = "r_check" /\ Ibf => bmc.in = <<"data", <<0, KSC_CRTL_READ>>>>

\* KcsErrorExit: once the abort is taken no answer is prepared behind a byte in DATA_OUT.
ErrorInv ==
  /\ pc = "e_wait1" => IF Ibf THEN bmc.in = <<"command", <<0, KSC_CRTL_ABORT>>>> ELSE ~bmc.busy
  /\ pc \in {"e_clear", "e_code", "e_dummy"} => ~bmc.busy
  /\ pc \in {"e_zero", "e_ack"} \/ (pc \in {"e_wait2", "e_wait3"} /\ Ibf) => ~bmc.busy /\ ~Obf
  /\ pc \in {"e_wait2", "e_wait3", "e_obf1", "e_obf2"} => ~(bmc.busy /\ Obf)

\* The first n bytes of the request of command c.
Sent(c, n) == [k \in 1 .. n |-> <<c, k - 1>>]

\* The BMC has taken WRITE_START.
Started ==
  /\ ~bmc.aborting /\ ~bmc.busy
  /\ bmc.state = IF bmc.failed THEN "ERROR" ELSE "WRITE"

\* KcsWriteDataToBmc before an abort.
WriteInv ==
  /\ pc = "w_check" /\ Ibf /\ i = 0 => bmc.in = <<"command", <<command, KSC_CRTL_WRITE_START>>>>
  /\ pc = "w_check" /\ Ibf /\ i > 0 => bmc.in = <<"data", <<command, i - 1>>>> /\ bmc.got = Sent(command, i - 1)
  /\ (pc = "w_check" /\ ~(Ibf /\ i = 0)) \/ pc \in {"w_clear", "w_next"} => Started /\ ~bmc.ended
  /\ (pc = "w_check" /\ ~Ibf /\ ~bmc.failed) \/ pc \in {"w_clear", "w_next"} => bmc.got = Sent(command, i)
  /\ (pc = "w_check" /\ i > 0) \/ pc \in {"w_next", "r_ibf"} => ~Obf
  /\ pc = "r_ibf" =>
       /\ Started /\ bmc.got = Sent(command, RequestSize)
       /\ IF Ibf THEN bmc.in = <<"command", <<0, KSC_CRTL_WRITE_END>>>> /\ ~bmc.ended
          ELSE bmc.failed \/ bmc.ended

IInv == /\ TypeInv /\ ControlInv /\ QuietInv /\ ErrorInv
        /\ ~aborted => WriteInv

\* The bytes left of the answer to command c are those from the n-th on.
Rest(c, left, n) == \A k \in 1 .. Len(left) : left[k] = <<c, n + k - 1>>

\* The places before the BMC has taken the READ of the byte Response[i].
Asking == pc = "r_ask" \/ (pc = "r_check" /\ Ibf)

\* KcsReadDataFromBmc without an abort and without an error of the BMC.
ReadInv ==
  /\ Asking /\ i = 0 => Started /\ bmc.ended /\ ~Obf /\ bmc.got = Sent(command, RequestSize)
  /\ Asking /\ i > 0 => /\ bmc.state = "READ" /\ ~bmc.busy /\ ~bmc.aborting /\ ~Obf
                        /\ Rest(command, bmc.left, i \div 2)
  /\ pc \in {"r_check", "r_obf", "r_take"} /\ ~Ibf =>
       /\ ~bmc.aborting /\ bmc.state \in {"READ", "IDLE"}
       /\ bmc.state = "READ" =>
            IF bmc.busy THEN ~Obf /\ bmc.left # <<>> /\ Rest(command, bmc.left, i \div 2)
            ELSE bmc.out = <<command, i \div 2>> /\ Rest(command, bmc.left, i \div 2 + 1)
  /\ pc = "r_take" => seen = bmc.state /\ (bmc.state = "READ" => ~bmc.busy)

EvenInv ==
  pc \in ReadPcs \cup {"r_ibf", "complete"} \/ (pc \in ErrorPcs /\ ret = "r_take") => i % 2 = 0

\* The part of RInv about what is read.
FillInv == OwnResponse /\ (~aborted /\ ~bmc.failed => ReadInv)

RInv == EvenInv /\ FillInv

-----------------------------------------------------------------------------
\* What one more byte does to the bytes sent.
LEMMA SentMore ==
  ASSUME NEW n \in Nat, NEW c \in Nat
  PROVE  Sent(c, n) \in Seq(Bytes) /\ Len(Sent(c, n)) = n
         /\ Append(Sent(c, n), <<c, n>>) = Sent(c, n + 1)
BY DEF Sent, Bytes

\* The first byte of a request names its command.
LEMMA SentFirst ==
  ASSUME NEW n \in Nat \ {0}, NEW c \in Nat
  PROVE  Sent(c, n) # <<>> /\ Sent(c, n)[1] = <<c, 0>>
<1>1. Len(Sent(c, n)) = n
  BY SentMore
<1>2. Sent(c, n)[1] = <<c, 1 - 1>>
  BY DEF Sent
<1>3. QED
  BY <1>1, <1>2

\* Head and tail, position by position.
LEMMA HeadTail ==
  ASSUME NEW S, NEW s \in Seq(S), s # <<>>
  PROVE  /\ Head(s) = s[1] /\ Len(s) \in Nat \ {0} /\ Len(Tail(s)) = Len(s) - 1
         /\ \A k \in 1 .. Len(s) - 1 : Tail(s)[k] = s[k + 1]
BY HeadTailProperties, LenProperties, EmptySeq

\* No byte.
LEMMA SentNone == ASSUME NEW c PROVE Sent(c, 0) = <<>>
BY DEF Sent

\* The empty sequence of bytes.
LEMMA EmptyBytes == <<>> \in Seq(Bytes)
OBVIOUS

\* The fields of the record bmc.
LEMMA BmcFields ==
  ASSUME bmc \in BmcType
  PROVE  /\ bmc.present \in BOOLEAN /\ bmc.state \in States /\ bmc.in \in Registers \X Bytes
         /\ bmc.out \in Bytes /\ bmc.busy \in BOOLEAN /\ bmc.ended \in BOOLEAN
         /\ bmc.aborting \in BOOLEAN /\ bmc.failed \in BOOLEAN
         /\ bmc.got \in Seq(Bytes) /\ bmc.left \in Seq(Bytes)
BY DEF BmcType

\* The first states.
LEMMA InitIInv == Init => IInv
<1> SUFFICES ASSUME Init PROVE IInv
  OBVIOUS
<1> USE KcsAssumption DEF Init
<1>1. bmc \in BmcType
  <2>1. NewBmc(TRUE) \in BmcType /\ NewBmc(FALSE) \in BmcType
    BY EmptyBytes DEF NewBmc, BmcType, States, Registers, Bytes, Nothing, NoByte
  <2>2. QED
    BY <2>1
<1>2. NoByte \in Bytes
  BY DEF NoByte, Bytes
<1>3. aborted \in BOOLEAN
  BY Zenon
<1>4. TypeInv
  BY <1>1, <1>2, <1>3 DEF TypeInv, Pcs, States
<1>5. ControlInv /\ QuietInv /\ ErrorInv /\ WriteInv
  BY DEF ControlInv, QuietInv, ErrorInv, WriteInv, WritePcs, ReadPcs, ErrorPcs, QuietPcs
<1>6. QED
  BY <1>4, <1>5 DEF IInv

-----------------------------------------------------------------------------
(***************************************************************************)
(* What the register accesses and the steps of the BMC do, field by field. *)
(***************************************************************************)

\* A register write changes the input register only.
LEMMA WriteFields ==
  ASSUME bmc \in BmcType, NEW r \in {"command", "data"}, NEW b \in Bytes, IoWrite(r, b)
  PROVE  /\ bmc' \in BmcType /\ bmc'.in = <<r, b>> /\ Ibf' /\ (Obf' <=> Obf)
         /\ bmc'.present = bmc.present /\ bmc'.state = bmc.state /\ bmc'.out = bmc.out
         /\ (bmc'.busy <=> bmc.busy) /\ (bmc'.ended <=> bmc.ended) /\ (bmc'.aborting <=> bmc.aborting)
         /\ (bmc'.failed <=> bmc.failed) /\ bmc'.got = bmc.got /\ bmc'.left = bmc.left
<1>1. <<r, b>> \in Registers \X Bytes /\ <<r, b>> # Nothing
  BY DEF Registers, Nothing
<1>2. QED
  BY <1>1 DEF IoWrite, BmcType, Ibf, Obf

\* A register read changes the output register only.
LEMMA ReadFields ==
  ASSUME bmc \in BmcType, IoRead
  PROVE  /\ bmc' \in BmcType /\ bmc'.out = NoByte /\ (Ibf' <=> Ibf) /\ ~Obf'
         /\ bmc'.present = bmc.present /\ bmc'.state = bmc.state /\ bmc'.in = bmc.in
         /\ (bmc'.busy <=> bmc.busy) /\ (bmc'.ended <=> bmc.ended) /\ (bmc'.aborting <=> bmc.aborting)
         /\ (bmc'.failed <=> bmc.failed) /\ bmc'.got = bmc.got /\ bmc'.left = bmc.left
<1>1. NoByte \in Bytes
  BY DEF NoByte, Bytes
<1>2. QED
  BY <1>1 DEF IoRead, BmcType, Ibf, Obf

\* Taking what was written empties the input register.
LEMMA TakeFields ==
  ASSUME NEW b \in BmcType, Take(b)
  PROVE  /\ bmc' \in BmcType /\ bmc'.in = Nothing /\ ~Ibf'
         /\ bmc'.present = b.present /\ bmc'.state = b.state /\ bmc'.out = b.out
         /\ (bmc'.busy <=> b.busy) /\ (bmc'.ended <=> b.ended) /\ (bmc'.aborting <=> b.aborting)
         /\ (bmc'.failed <=> b.failed) /\ bmc'.got = b.got /\ bmc'.left = b.left
<1>1. Nothing \in Registers \X Bytes
  BY DEF Nothing, NoByte, Registers, Bytes
<1>2. QED
  BY <1>1 DEF Take, BmcType, Ibf

\* The error state ends the preparation of an answer.
LEMMA FailedFields ==
  ASSUME bmc \in BmcType
  PROVE  /\ Failed \in BmcType
         /\ Failed.state = "ERROR" /\ ~Failed.busy /\ Failed.failed
         /\ Failed.present = bmc.present /\ Failed.in = bmc.in /\ Failed.out = bmc.out
         /\ (Failed.ended <=> bmc.ended) /\ (Failed.aborting <=> bmc.aborting)
         /\ Failed.got = bmc.got /\ Failed.left = bmc.left
BY DEF Failed, BmcType, States

\* WRITE_START starts afresh.
LEMMA StartFields ==
  ASSUME bmc \in BmcType, NEW b,
         b = [bmc EXCEPT !.state = "WRITE", !.busy = FALSE, !.ended = FALSE,
                         !.aborting = FALSE, !.failed = FALSE, !.got = <<>>]
  PROVE  /\ b \in BmcType
         /\ b.state = "WRITE" /\ ~b.busy /\ ~b.ended /\ ~b.aborting /\ ~b.failed /\ b.got = <<>>
         /\ b.out = bmc.out /\ b.left = bmc.left
<1>1. b = [present |-> bmc.present, state |-> "WRITE", in |-> bmc.in, out |-> bmc.out,
           busy |-> FALSE, ended |-> FALSE, aborting |-> FALSE, failed |-> FALSE,
           got |-> <<>>, left |-> bmc.left]
  BY DEF BmcType
<1>2. QED
  BY <1>1, EmptyBytes, BmcFields, ZenonT(40) DEF BmcType, States

\* The input register was emptied, and these are the other fields a step may set.
Taken(state, busy, ended, aborting, failed, got, left) ==
  /\ bmc' \in BmcType /\ ~Ibf' /\ bmc'.out = bmc.out /\ (Obf' <=> Obf)
  /\ bmc'.state = state /\ bmc'.got = got /\ bmc'.left = left
  /\ (bmc'.busy <=> busy) /\ (bmc'.ended <=> ended)
  /\ (bmc'.aborting <=> aborting) /\ (bmc'.failed <=> failed)

AsFailed == Taken("ERROR", FALSE, bmc.ended, bmc.aborting, TRUE, bmc.got, bmc.left)

\* A command is taken.
CommandEffect ==
  /\ Ibf /\ DriverUnchanged /\ bmc.in[1] = "command"
  /\ \/ /\ bmc.in[2][2] = KSC_CRTL_WRITE_START
        /\ Taken("WRITE", FALSE, FALSE, FALSE, FALSE, <<>>, bmc.left)
     \/ /\ bmc.in[2][2] = KSC_CRTL_WRITE_END /\ bmc.state = "WRITE"
        /\ Taken(bmc.state, bmc.busy, TRUE, bmc.aborting, bmc.failed, bmc.got, bmc.left)
     \/ bmc.in[2][2] = KSC_CRTL_WRITE_END /\ bmc.state # "WRITE" /\ AsFailed
     \/ /\ bmc.in[2][2] = KSC_CRTL_ABORT
        /\ Taken(bmc.state, FALSE, bmc.ended, TRUE, bmc.failed, bmc.got, bmc.left)

\* What BmcCommand does to the fields.
LEMMA BmcCommandEffect == bmc \in BmcType /\ BmcCommand => CommandEffect
<1> SUFFICES ASSUME bmc \in BmcType, BmcCommand PROVE CommandEffect
  OBVIOUS
<1>1. Ibf /\ DriverUnchanged /\ bmc.in[1] = "command"
  BY DEF BmcCommand, Ibf, Nothing
<1>2. CASE /\ bmc.in[2][2] = KSC_CRTL_WRITE_START
           /\ Take([bmc EXCEPT !.state = "WRITE", !.busy = FALSE, !.ended = FALSE,
                               !.aborting = FALSE, !.failed = FALSE, !.got = <<>>])
  <2> DEFINE b == [bmc EXCEPT !.state = "WRITE", !.busy = FALSE, !.ended = FALSE,
                               !.aborting = FALSE, !.failed = FALSE, !.got = <<>>]
  <2> HIDE DEF b
  <2>1. Take(b)
    BY <1>2 DEF b
  <2>2. /\ b \in BmcType
        /\ b.state = "WRITE" /\ ~b.busy /\ ~b.ended /\ ~b.aborting /\ ~b.failed /\ b.got = <<>>
        /\ b.out = bmc.out /\ b.left = bmc.left
    BY StartFields DEF b
  <2>4. Taken("WRITE", FALSE, FALSE, FALSE, FALSE, <<>>, bmc.left)
    BY <2>1, <2>2, TakeFields DEF Taken, Obf
  <2>5. QED
    BY <1>1, <1>2, <2>4 DEF CommandEffect
<1>3. CASE bmc.in[2][2] = KSC_CRTL_WRITE_END /\ bmc.state = "WRITE" /\ Take([bmc EXCEPT !.ended = TRUE])
  <2> DEFINE b == [bmc EXCEPT !.ended = TRUE]
  <2>1. /\ b \in BmcType /\ b.state = bmc.state /\ b.out = bmc.out /\ (b.busy <=> bmc.busy) /\ b.ended
        /\ (b.aborting <=> bmc.aborting) /\ (b.failed <=> bmc.failed) /\ b.got = bmc.got /\ b.left = bmc.left
    BY DEF BmcType
  <2> HIDE DEF b
  <2>2. Take(b)
    BY <1>3 DEF b
  <2>3. Taken(bmc.state, bmc.busy, TRUE, bmc.aborting, bmc.failed, bmc.got, bmc.left)
    BY <2>1, <2>2, TakeFields DEF Taken, Obf, BmcType
  <2>4. QED
    BY <1>1, <1>3, <2>3 DEF CommandEffect
<1>4. CASE bmc.in[2][2] = KSC_CRTL_WRITE_END /\ bmc.state # "WRITE" /\ Take(Failed)
  <2>1. AsFailed
    BY <1>4, FailedFields, TakeFields DEF Taken, AsFailed, Obf, BmcType
  <2>2. QED
    BY <1>1, <1>4, <2>1 DEF CommandEffect
<1>5. CASE /\ bmc.in[2][2] = KSC_CRTL_ABORT
           /\ Take([bmc EXCEPT !.aborting = TRUE, !.busy = FALSE])
  <2> DEFINE b == [bmc EXCEPT !.aborting = TRUE, !.busy = FALSE]
  <2>1. /\ b \in BmcType /\ b.state = bmc.state /\ b.out = bmc.out /\ ~b.busy /\ (b.ended <=> bmc.ended)
        /\ b.aborting /\ (b.failed <=> bmc.failed) /\ b.got = bmc.got /\ b.left = bmc.left
    BY DEF BmcType
  <2> HIDE DEF b
  <2>2. Take(b)
    BY <1>5 DEF b
  <2>3. Taken(bmc.state, FALSE, bmc.ended, TRUE, bmc.failed, bmc.got, bmc.left)
    BY <2>1, <2>2, TakeFields DEF Taken, Obf, BmcType
  <2>4. QED
    BY <1>1, <1>5, <2>3 DEF CommandEffect
<1>6. QED
  BY <1>1, <1>2, <1>3, <1>4, <1>5 DEF BmcCommand

\* A command of the driver is taken: the abort, WRITE_START or WRITE_END.
LEMMA BmcCommandStep == IInv /\ BmcCommand => IInv'
<1> SUFFICES ASSUME IInv, BmcCommand PROVE IInv'
  OBVIOUS
<1>0. bmc \in BmcType /\ pc' = pc /\ i' = i /\ command' = command /\ aborted' = aborted
      /\ UNCHANGED <<seen, ret, RetryCount, Times, result, Response>>
  BY DEF IInv, TypeInv, BmcCommand, DriverUnchanged, local
<1>1. CommandEffect
  BY <1>0, BmcCommandEffect
<1> USE DEF CommandEffect, Taken, AsFailed
<1>2. TypeInv'
  BY <1>0, <1>1 DEF IInv, TypeInv
<1>3. ControlInv'
  BY <1>0 DEF IInv, ControlInv
<1>4. QuietInv'
  BY <1>0, <1>1 DEF IInv, QuietInv
<1>5. ErrorInv'
  BY <1>0, <1>1 DEF IInv, ErrorInv, KSC_CRTL_ABORT, KSC_CRTL_WRITE_START, KSC_CRTL_WRITE_END
<1>6. (~aborted)' => WriteInv'
  <2> SUFFICES ASSUME ~aborted PROVE WriteInv'
    BY <1>0
  <2>1. WriteInv /\ i \in 0 .. 255
    BY DEF IInv, TypeInv
  <2>2. CASE pc = "w_check"
    <3>1. i = 0 /\ bmc.in[2][2] = KSC_CRTL_WRITE_START
      BY <1>1, <2>1, <2>2 DEF WriteInv
    <3>2. Taken("WRITE", FALSE, FALSE, FALSE, FALSE, <<>>, bmc.left)
      BY <1>1, <3>1 DEF KSC_CRTL_ABORT, KSC_CRTL_WRITE_START, KSC_CRTL_WRITE_END
    <3>3. QED
      BY <1>0, <2>2, <3>1, <3>2, SentNone DEF WriteInv, Started
  <2>3. CASE pc = "r_ibf"
    <3>1. bmc.in[2][2] = KSC_CRTL_WRITE_END /\ Started /\ ~bmc.ended /\ ~Obf
      BY <1>1, <2>1, <2>3 DEF WriteInv
    <3>2. QED
      BY <1>0, <1>1, <2>1, <2>3, <3>1 DEF WriteInv, Started, KSC_CRTL_ABORT, KSC_CRTL_WRITE_START, KSC_CRTL_WRITE_END
  <2>4. CASE pc \notin {"w_check", "r_ibf"}
    <3>1. pc \notin {"w_clear", "w_next"}
      BY <1>1 DEF IInv, QuietInv, QuietPcs
    <3>2. QED
      BY <1>0, <2>4, <3>1 DEF WriteInv
  <2>5. QED
    BY <2>2, <2>3, <2>4
<1>7. QED
  BY <1>2, <1>3, <1>4, <1>5, <1>6 DEF IInv
-----------------------------------------------------------------------------
(***************************************************************************)
(* The steps of the driver.                                                *)
(***************************************************************************)
\* A poll that gives up returns, or goes on with the abort.
LEMMA PollFailsStep == IInv /\ PollFails => IInv'
<1> SUFFICES ASSUME IInv, PollFails PROVE IInv'
  OBVIOUS
<1> USE KcsAssumption DEF PollFails, Return, IbfWaits, ObfWaits, Ibf, Obf
<1>1. TypeInv'
  BY DEF IInv, TypeInv, ControlInv, Pcs, WritePcs, ReadPcs, ErrorPcs, States
<1>2. ControlInv'
  BY DEF IInv, TypeInv, ControlInv, Pcs, WritePcs, ReadPcs, ErrorPcs
<1>3. QuietInv'
  BY DEF IInv, QuietInv, QuietPcs, ControlInv, ErrorPcs
<1>4. ErrorInv'
  BY DEF IInv, ErrorInv, QuietInv, QuietPcs, ControlInv, ErrorPcs
<1>5. (~aborted)' => WriteInv'
  BY DEF IInv, WriteInv, Started, ControlInv, ErrorPcs
<1>6. QED
  BY <1>1, <1>2, <1>3, <1>4, <1>5 DEF IInv

\* A poll of KcsErrorExit that succeeds.
LEMMA ErrorWaitStep == IInv /\ ErrorWait => IInv'
<1> SUFFICES ASSUME IInv, ErrorWait PROVE IInv'
  OBVIOUS
<1> USE KcsAssumption DEF ErrorWait, WaitForIbfFalse, WaitForObfTrue, ErrorFrame, Ibf, Obf
<1>1. TypeInv'
  BY DEF IInv, TypeInv, ControlInv, Pcs, WritePcs, ReadPcs, ErrorPcs, States
<1>2. ControlInv'
  BY DEF IInv, TypeInv, ControlInv, Pcs, WritePcs, ReadPcs, ErrorPcs
<1>3. QuietInv'
  BY DEF IInv, QuietInv, QuietPcs, ControlInv, ErrorPcs
<1>4. ErrorInv'
  BY DEF IInv, ErrorInv, QuietInv, QuietPcs, ControlInv, ErrorPcs
<1>5. (~aborted)' => WriteInv'
  BY DEF IInv, WriteInv, Started, ControlInv, ErrorPcs
<1>6. QED
  BY <1>1, <1>2, <1>3, <1>4, <1>5 DEF IInv

\* Another attempt of KcsErrorExit, or its failure.
LEMMA RetryStep == IInv /\ Retry => IInv'
<1> SUFFICES ASSUME IInv, Retry PROVE IInv'
  OBVIOUS
<1> USE KcsAssumption DEF Retry, WaitForIbfFalse, Return, ErrorFrame, Ibf, Obf
<1>1. TypeInv'
  BY DEF IInv, TypeInv, ControlInv, Pcs, WritePcs, ReadPcs, ErrorPcs, States
<1>2. ControlInv'
  BY DEF IInv, TypeInv, ControlInv, Pcs, WritePcs, ReadPcs, ErrorPcs
<1>3. QuietInv'
  BY DEF IInv, QuietInv, QuietPcs, ControlInv, ErrorPcs
<1>4. ErrorInv'
  BY DEF IInv, ErrorInv, QuietInv, QuietPcs, ControlInv, ErrorPcs
<1>5. (~aborted)' => WriteInv'
  BY DEF IInv, WriteInv, Started, ControlInv, ErrorPcs
<1>6. QED
  BY <1>1, <1>2, <1>3, <1>4, <1>5 DEF IInv

\* KcsCheckStatus in the write loop.
LEMMA CheckWriteStep == IInv /\ CheckWrite => IInv'
<1> SUFFICES ASSUME IInv, CheckWrite PROVE IInv'
  OBVIOUS
<1> USE KcsAssumption DEF CheckWrite, WaitForIbfFalse, See, EnterErrorExit, local, Ibf, Obf
<1>0. aborted' \in BOOLEAN /\ bmc' = bmc /\ bmc \in BmcType
  BY Zenon DEF IInv, TypeInv
<1>1. TypeInv'
  BY <1>0, BmcFields DEF IInv, TypeInv, ControlInv, Pcs, WritePcs, ReadPcs, ErrorPcs, States
<1>2. ControlInv'
  BY DEF IInv, TypeInv, ControlInv, Pcs, WritePcs, ReadPcs, ErrorPcs
<1>3. QuietInv'
  BY DEF IInv, QuietInv, QuietPcs, ControlInv, ErrorPcs
<1>4. ErrorInv'
  BY DEF IInv, ErrorInv, QuietInv, QuietPcs, ControlInv, ErrorPcs
<1>5. (~aborted)' => WriteInv'
  BY DEF IInv, WriteInv, Started, ControlInv, ErrorPcs
<1>6. QED
  BY <1>1, <1>2, <1>3, <1>4, <1>5 DEF IInv

\* KcsCheckStatus in the read loop.
LEMMA CheckReadStep == IInv /\ CheckRead => IInv'
<1> SUFFICES ASSUME IInv, CheckRead PROVE IInv'
  OBVIOUS
<1> USE KcsAssumption DEF CheckRead, WaitForIbfFalse, WaitForObfTrue, See, EnterErrorExit, local, Ibf, Obf
<1>0. aborted' \in BOOLEAN /\ bmc' = bmc /\ bmc \in BmcType
  BY Zenon DEF IInv, TypeInv
<1>1. TypeInv'
  BY <1>0, BmcFields DEF IInv, TypeInv, ControlInv, Pcs, WritePcs, ReadPcs, ErrorPcs, States
<1>2. ControlInv'
  BY DEF IInv, TypeInv, ControlInv, Pcs, WritePcs, ReadPcs, ErrorPcs
<1>3. QuietInv'
  BY DEF IInv, QuietInv, QuietPcs, ControlInv, ErrorPcs
<1>4. ErrorInv'
  BY DEF IInv, ErrorInv, QuietInv, QuietPcs, ControlInv, ErrorPcs
<1>5. (~aborted)' => WriteInv'
  BY DEF IInv, WriteInv, Started, ControlInv, ErrorPcs
<1>6. QED
  BY <1>1, <1>2, <1>3, <1>4, <1>5 DEF IInv

\* A command starts.
LEMMA CommandStep == IInv /\ Command => IInv'
<1> SUFFICES ASSUME IInv, Command PROVE IInv'
  OBVIOUS
<1> USE KcsAssumption DEF Command, Ibf, Obf
<1>0. aborted' \in BOOLEAN /\ bmc' = bmc /\ bmc \in BmcType
  BY Zenon DEF IInv, TypeInv
<1>1. TypeInv'
  BY <1>0, BmcFields DEF IInv, TypeInv, ControlInv, Pcs, WritePcs, ReadPcs, ErrorPcs, States
<1>2. ControlInv'
  BY DEF IInv, TypeInv, ControlInv, Pcs, WritePcs, ReadPcs, ErrorPcs
<1>3. QuietInv'
  BY DEF IInv, QuietInv, QuietPcs, ControlInv, ErrorPcs
<1>4. ErrorInv'
  BY DEF IInv, ErrorInv, QuietInv, QuietPcs, ControlInv, ErrorPcs
<1>5. (~aborted)' => WriteInv'
  BY DEF IInv, WriteInv, Started, ControlInv, ErrorPcs
<1>6. QED
  BY <1>1, <1>2, <1>3, <1>4, <1>5 DEF IInv

\* A command completes.
LEMMA CompleteStep == IInv /\ Complete => IInv'
<1> SUFFICES ASSUME IInv, Complete PROVE IInv'
  OBVIOUS
<1> USE KcsAssumption DEF Complete, Return, SelfTest, Ibf, Obf
<1>1. TypeInv'
  BY DEF IInv, TypeInv, ControlInv, Pcs, WritePcs, ReadPcs, ErrorPcs, States
<1>2. ControlInv'
  BY DEF IInv, TypeInv, ControlInv, Pcs, WritePcs, ReadPcs, ErrorPcs
<1>3. QuietInv'
  BY DEF IInv, QuietInv, QuietPcs, ControlInv, ErrorPcs
<1>4. ErrorInv'
  BY DEF IInv, ErrorInv, QuietInv, QuietPcs, ControlInv, ErrorPcs
<1>5. (~aborted)' => WriteInv'
  BY DEF IInv, WriteInv, Started, ControlInv, ErrorPcs
<1>6. QED
  BY <1>1, <1>2, <1>3, <1>4, <1>5 DEF IInv

\* The return to the caller.
LEMMA ReturnedStep == IInv /\ Returned => IInv'
<1> SUFFICES ASSUME IInv, Returned PROVE IInv'
  OBVIOUS
<1> USE KcsAssumption DEF Returned, Ibf, Obf
<1>1. TypeInv'
  BY DEF IInv, TypeInv, ControlInv, Pcs, WritePcs, ReadPcs, ErrorPcs, States
<1>2. ControlInv'
  BY DEF IInv, TypeInv, ControlInv, Pcs, WritePcs, ReadPcs, ErrorPcs
<1>3. QuietInv'
  BY DEF IInv, QuietInv, QuietPcs, ControlInv, ErrorPcs
<1>4. ErrorInv'
  BY DEF IInv, ErrorInv, QuietInv, QuietPcs, ControlInv, ErrorPcs
<1>5. (~aborted)' => WriteInv'
  BY DEF IInv, WriteInv, Started, ControlInv, ErrorPcs
<1>6. QED
  BY <1>1, <1>2, <1>3, <1>4, <1>5 DEF IInv

\* A write of KcsErrorExit.
LEMMA ErrorWriteStep == IInv /\ ErrorWrite => IInv'
<1> SUFFICES ASSUME IInv, ErrorWrite PROVE IInv'
  OBVIOUS
<1> USE KcsAssumption DEF ErrorWrite, ErrorFrame
<1>0. bmc \in BmcType /\ command \in Nat /\ i \in 0 .. 255
  BY DEF IInv, TypeInv
<1>1. /\ bmc' \in BmcType /\ Ibf' /\ (Obf' <=> Obf) /\ (bmc'.busy <=> bmc.busy)
      /\ pc = "e_abort" => bmc'.in = <<"command", <<0, KSC_CRTL_ABORT>>>>
  BY <1>0, WriteFields DEF Bytes, Other, KSC_CRTL_ABORT, KSC_CRTL_READ
<1>2. TypeInv'
  BY <1>0, <1>1 DEF IInv, TypeInv, Pcs, WritePcs, ReadPcs, ErrorPcs
<1>3. ControlInv'
  BY <1>0 DEF IInv, TypeInv, ControlInv, Pcs, WritePcs, ReadPcs, ErrorPcs
<1>4. QuietInv'
  BY <1>0, <1>1 DEF IInv, QuietInv, QuietPcs, ControlInv, ErrorPcs
<1>5. ErrorInv'
  BY <1>0, <1>1 DEF IInv, ErrorInv, QuietInv, QuietPcs, ControlInv, ErrorPcs
<1>6. (~aborted)' => WriteInv'
  BY <1>0, <1>1 DEF IInv, ControlInv, ErrorPcs, WriteInv
<1>7. QED
  BY <1>2, <1>3, <1>4, <1>5, <1>6 DEF IInv

\* A read of KcsErrorExit.
LEMMA ErrorReadStep == IInv /\ ErrorRead => IInv'
<1> SUFFICES ASSUME IInv, ErrorRead PROVE IInv'
  OBVIOUS
<1> USE KcsAssumption DEF ErrorRead, ErrorFrame
<1>0. bmc \in BmcType /\ command \in Nat /\ i \in 0 .. 255
  BY DEF IInv, TypeInv
<1>1. bmc' \in BmcType /\ (Ibf' <=> Ibf) /\ ~Obf' /\ (bmc'.busy <=> bmc.busy)
  BY <1>0, ReadFields
<1>2. TypeInv'
  BY <1>0, <1>1 DEF IInv, TypeInv, Pcs, WritePcs, ReadPcs, ErrorPcs
<1>3. ControlInv'
  BY <1>0 DEF IInv, TypeInv, ControlInv, Pcs, WritePcs, ReadPcs, ErrorPcs
<1>4. QuietInv'
  BY <1>0, <1>1 DEF IInv, QuietInv, QuietPcs, ControlInv, ErrorPcs
<1>5. ErrorInv'
  BY <1>0, <1>1 DEF IInv, ErrorInv, QuietInv, QuietPcs, ControlInv, ErrorPcs
<1>6. (~aborted)' => WriteInv'
  BY <1>0, <1>1 DEF IInv, ControlInv, ErrorPcs, WriteInv
<1>7. QED
  BY <1>2, <1>3, <1>4, <1>5, <1>6 DEF IInv

\* The first steps of KcsWriteDataToBmc, up to WRITE_START.
LEMMA WriteStartStep == IInv /\ WriteStart => IInv'
<1> SUFFICES ASSUME IInv, WriteStart PROVE IInv'
  OBVIOUS
<1> USE KcsAssumption DEF WriteStart, WriteFrame, WaitForIbfFalse, See, local
<1>0. bmc \in BmcType /\ command \in Nat /\ i \in 0 .. 255
  BY DEF IInv, TypeInv
<1>1. /\ bmc' \in BmcType /\ seen' \in States
      /\ pc = "w_ibf" => ~Ibf'
      /\ pc = "w_flush" => (Ibf' <=> Ibf)
      /\ pc = "w_start" => bmc'.in = <<"command", <<command, KSC_CRTL_WRITE_START>>>> /\ Ibf'
  <2>1. CASE pc = "w_ibf"
    BY <1>0, <2>1, BmcFields DEF Ibf
  <2>2. CASE pc = "w_flush"
    BY <1>0, <2>2, ReadFields DEF IInv, TypeInv
  <2>3. CASE pc = "w_start"
    BY <1>0, <2>3, WriteFields DEF IInv, TypeInv, Bytes, KSC_CRTL_WRITE_START
  <2>4. QED
    BY <2>1, <2>2, <2>3
<1>2. TypeInv'
  BY <1>0, <1>1 DEF IInv, TypeInv, Pcs, WritePcs, ReadPcs, ErrorPcs
<1>3. ControlInv'
  BY <1>0 DEF IInv, TypeInv, ControlInv, Pcs, WritePcs, ReadPcs, ErrorPcs
<1>4. QuietInv'
  BY <1>0, <1>1 DEF IInv, QuietInv, QuietPcs, ControlInv, ErrorPcs
<1>5. ErrorInv'
  BY <1>0, <1>1 DEF IInv, ErrorInv, QuietInv, QuietPcs, ControlInv, ErrorPcs
<1>6. (~aborted)' => WriteInv'
  BY <1>0, <1>1 DEF IInv, ControlInv, WritePcs, WriteInv
<1>7. QED
  BY <1>2, <1>3, <1>4, <1>5, <1>6 DEF IInv

\* DATA_OUT is read before the next byte of the request is written.
LEMMA ClearObfStep == IInv /\ ClearObf => IInv'
<1> SUFFICES ASSUME IInv, ClearObf PROVE IInv'
  OBVIOUS
<1> USE KcsAssumption DEF ClearObf, WriteFrame, local
<1>0. bmc \in BmcType /\ command \in Nat /\ i \in 0 .. 255
  BY DEF IInv, TypeInv
<1>1. /\ bmc' \in BmcType /\ (Ibf' <=> Ibf) /\ ~Obf'
      /\ bmc'.present = bmc.present /\ bmc'.state = bmc.state
      /\ (bmc'.busy <=> bmc.busy) /\ (bmc'.ended <=> bmc.ended)
      /\ (bmc'.aborting <=> bmc.aborting) /\ (bmc'.failed <=> bmc.failed)
      /\ bmc'.got = bmc.got /\ bmc'.left = bmc.left
  BY <1>0, ReadFields
<1>2. TypeInv'
  BY <1>0, <1>1 DEF IInv, TypeInv, Pcs, WritePcs, ReadPcs, ErrorPcs
<1>3. ControlInv'
  BY <1>0 DEF IInv, TypeInv, ControlInv, Pcs, WritePcs, ReadPcs, ErrorPcs
<1>4. QuietInv'
  BY <1>0, <1>1 DEF IInv, QuietInv, QuietPcs, ControlInv, ErrorPcs
<1>5. ErrorInv'
  BY <1>0, <1>1 DEF IInv, ErrorInv, QuietInv, QuietPcs, ControlInv, ErrorPcs
<1>6. (~aborted)' => WriteInv'
  BY <1>0, <1>1 DEF IInv, ControlInv, WritePcs, WriteInv, Started
<1>7. QED
  BY <1>2, <1>3, <1>4, <1>5, <1>6 DEF IInv

\* A byte of the request, or WRITE_END.
LEMMA WriteNextStep == IInv /\ WriteNext => IInv'
<1> SUFFICES ASSUME IInv, WriteNext PROVE IInv'
  OBVIOUS
<1> USE KcsAssumption DEF WriteNext, WriteFrame, local
<1>0. bmc \in BmcType /\ command \in Nat /\ i \in 0 .. 255
  BY DEF IInv, TypeInv
<1>1. /\ bmc' \in BmcType /\ Ibf' /\ (Obf' <=> Obf)
      /\ bmc'.present = bmc.present /\ bmc'.state = bmc.state
      /\ (bmc'.busy <=> bmc.busy) /\ (bmc'.ended <=> bmc.ended)
      /\ (bmc'.aborting <=> bmc.aborting) /\ (bmc'.failed <=> bmc.failed)
      /\ bmc'.got = bmc.got /\ bmc'.left = bmc.left
      /\ bmc'.in = IF i < RequestSize THEN <<"data", <<command, i>>>>
                   ELSE <<"command", <<0, KSC_CRTL_WRITE_END>>>>
  BY <1>0, WriteFields DEF Request, Bytes, KSC_CRTL_WRITE_END
<1>i. /\ i <= RequestSize /\ (i < RequestSize => i' = i + 1 /\ i' <= RequestSize)
      /\ i' \in 0 .. 255 /\ pc' \in {"w_check", "r_ibf"}
  <2>1. i <= RequestSize
    BY DEF IInv, ControlInv, WritePcs
  <2>2. \A n \in 0 .. 254 : (n + 1) % 256 = n + 1
    OBVIOUS
  <2>3. QED
    BY <1>0, <2>1, <2>2
<1>2. TypeInv'
  BY <1>0, <1>1, <1>i DEF IInv, TypeInv, Pcs, WritePcs, ReadPcs, ErrorPcs
<1>3. ControlInv'
  BY <1>0, <1>i DEF IInv, TypeInv, ControlInv, Pcs, WritePcs, ReadPcs, ErrorPcs
<1>4. QuietInv'
  BY <1>0, <1>1 DEF IInv, QuietInv, QuietPcs, ControlInv, ErrorPcs
<1>5. ErrorInv'
  BY <1>0, <1>1 DEF IInv, ErrorInv, QuietInv, QuietPcs, ControlInv, ErrorPcs
<1>6. (~aborted)' => WriteInv'
  BY <1>0, <1>1 DEF IInv, ControlInv, WritePcs, WriteInv, Started
<1>7. QED
  BY <1>2, <1>3, <1>4, <1>5, <1>6 DEF IInv

\* READ is written.
LEMMA ReadAskStep == IInv /\ ReadAsk => IInv'
<1> SUFFICES ASSUME IInv, ReadAsk PROVE IInv'
  OBVIOUS
<1> USE KcsAssumption DEF ReadAsk, WriteFrame, WaitForIbfFalse, See, local
<1>0. bmc \in BmcType /\ command \in Nat /\ i \in 0 .. 255
  BY DEF IInv, TypeInv
<1>1. /\ bmc' \in BmcType /\ seen' \in States
      /\ pc = "r_ibf" => ~Ibf'
      /\ pc = "r_ask" => bmc'.in = <<"data", <<0, KSC_CRTL_READ>>>>
  <2>1. CASE pc = "r_ibf"
    BY <1>0, <2>1, BmcFields DEF Ibf
  <2>2. CASE pc = "r_ask"
    BY <1>0, <2>2, WriteFields DEF IInv, TypeInv, Bytes, KSC_CRTL_READ
  <2>3. QED
    BY <2>1, <2>2
<1>2. TypeInv'
  BY <1>0, <1>1 DEF IInv, TypeInv, Pcs, WritePcs, ReadPcs, ErrorPcs
<1>3. ControlInv'
  BY <1>0 DEF IInv, TypeInv, ControlInv, Pcs, WritePcs, ReadPcs, ErrorPcs
<1>4. QuietInv'
  BY <1>0, <1>1 DEF IInv, QuietInv, QuietPcs, ControlInv, ErrorPcs
<1>5. ErrorInv'
  BY <1>0, <1>1 DEF IInv, ErrorInv, QuietInv, QuietPcs, ControlInv, ErrorPcs
<1>6. (~aborted)' => WriteInv'
  BY <1>0, <1>1 DEF IInv, WriteInv
<1>7. QED
  BY <1>2, <1>3, <1>4, <1>5, <1>6 DEF IInv

\* A byte is read into the response.
LEMMA ReadTakeStep == IInv /\ ReadTake => IInv'
<1> SUFFICES ASSUME IInv, ReadTake PROVE IInv'
  OBVIOUS
<1> USE KcsAssumption DEF ReadTake, local
<1>0. bmc \in BmcType /\ command \in Nat /\ i \in 0 .. 255
  BY DEF IInv, TypeInv
<1>1. bmc' \in BmcType /\ (Ibf' <=> Ibf) /\ Response' \in [0 .. ResponseSize - 1 -> Bytes]
  <2>1. CASE seen = "IDLE"
    BY <1>0, <2>1 DEF IInv, TypeInv, Ibf
  <2>2. CASE seen # "IDLE"
    <3>1. ReadByte \in Bytes
      BY <1>0, BmcFields DEF ReadByte, Other, Bytes
    <3>2. QED
      BY <1>0, <2>2, <3>1, ReadFields DEF IInv, TypeInv
  <2>3. QED
    BY <2>1, <2>2
<1>i. i' \in 0 .. 255
  <2>1. \A n \in 0 .. 255 : (n + 2) % 256 \in 0 .. 255
    OBVIOUS
  <2>2. QED
    BY <1>0, <2>1
<1>2. TypeInv'
  BY <1>0, <1>1, <1>i DEF IInv, TypeInv, Pcs, WritePcs, ReadPcs, ErrorPcs
<1>3. ControlInv'
  BY <1>0 DEF IInv, TypeInv, ControlInv, Pcs, WritePcs, ReadPcs, ErrorPcs
<1>4. QuietInv'
  BY <1>0, <1>1 DEF IInv, QuietInv, QuietPcs, ControlInv, ErrorPcs
<1>5. ErrorInv'
  BY <1>0, <1>1 DEF IInv, ErrorInv, QuietInv, QuietPcs, ControlInv, ErrorPcs
<1>6. (~aborted)' => WriteInv'
  BY <1>0, <1>1 DEF IInv, WriteInv
<1>7. QED
  BY <1>2, <1>3, <1>4, <1>5, <1>6 DEF IInv

-----------------------------------------------------------------------------
(***************************************************************************)
(* The other steps of the BMC.                                             *)
(***************************************************************************)

\* A byte of the request is taken, or the one behind WRITE_END.
RequestEffect ==
  /\ Ibf /\ DriverUnchanged /\ bmc.in[1] = "data" /\ ~bmc.aborting /\ bmc.state = "WRITE"
  /\ \/ /\ bmc.ended
        /\ \E size \in AnswerSizes :
             Taken("READ", TRUE, FALSE, FALSE, bmc.failed, bmc.got,
                   IF bmc.got = <<>> THEN <<>> ELSE Answer(bmc.got[1], size))
     \/ /\ ~bmc.ended
        /\ Taken("WRITE", bmc.busy, FALSE, FALSE, bmc.failed, Append(bmc.got, bmc.in[2]), bmc.left)

\* An answer is a sequence of bytes of its command.
LEMMA AnswerShape ==
  ASSUME NEW b \in Bytes, NEW size \in Nat
  PROVE  /\ Answer(b, size) \in Seq(Bytes) /\ Len(Answer(b, size)) = size
         /\ \A n \in 1 .. size : Answer(b, size)[n] = <<b[1], n - 1>>
BY DEF Answer, Bytes

\* The record of the BMC behind the last byte of the request.
LEMMA RequestFields ==
  ASSUME bmc \in BmcType, NEW b, NEW left \in Seq(Bytes),
         b = [bmc EXCEPT !.state = "READ", !.busy = TRUE, !.ended = FALSE, !.left = left]
  PROVE  /\ b \in BmcType /\ b.state = "READ" /\ b.busy /\ ~b.ended /\ b.left = left
         /\ (b.aborting <=> bmc.aborting) /\ (b.failed <=> bmc.failed)
         /\ b.got = bmc.got /\ b.out = bmc.out
<1>1. b = [present |-> bmc.present, state |-> "READ", in |-> bmc.in, out |-> bmc.out,
           busy |-> TRUE, ended |-> FALSE, aborting |-> bmc.aborting, failed |-> bmc.failed,
           got |-> bmc.got, left |-> left]
  BY DEF BmcType
<1>2. QED
  BY <1>1, BmcFields DEF BmcType, States

\* What BmcRequest does to the fields.
LEMMA BmcRequestEffect == bmc \in BmcType /\ BmcRequest => RequestEffect
<1> SUFFICES ASSUME bmc \in BmcType, BmcRequest PROVE RequestEffect
  OBVIOUS
<1>1. Ibf /\ DriverUnchanged /\ bmc.in[1] = "data" /\ ~bmc.aborting /\ bmc.state = "WRITE"
  <2>1. DriverUnchanged /\ bmc.in[1] = "data" /\ ~bmc.aborting /\ bmc.state = "WRITE"
    BY DEF BmcRequest
  <2>2. QED
    BY <2>1 DEF Ibf, Nothing
<1>2. CASE bmc.ended
  <2>1. PICK size \in AnswerSizes :
          Take([bmc EXCEPT !.state = "READ", !.busy = TRUE, !.ended = FALSE,
                           !.left = IF bmc.got = <<>> THEN <<>> ELSE Answer(bmc.got[1], size)])
    BY <1>2 DEF BmcRequest
  <2> DEFINE left == IF bmc.got = <<>> THEN <<>> ELSE Answer(bmc.got[1], size)
             b == [bmc EXCEPT !.state = "READ", !.busy = TRUE, !.ended = FALSE, !.left = left]
  <2>2. left \in Seq(Bytes)
    <3>1. bmc.got # <<>> => bmc.got[1] \in Bytes
      BY BmcFields
    <3>2. QED
      BY <3>1, AnswerShape, EmptyBytes, KcsAssumption
  <2>3. Take(b)
    BY <2>1
  <2> HIDE DEF left, b
  <2>4. /\ b \in BmcType /\ b.state = "READ" /\ b.busy /\ ~b.ended /\ b.left = left
        /\ (b.aborting <=> bmc.aborting) /\ (b.failed <=> bmc.failed)
        /\ b.got = bmc.got /\ b.out = bmc.out
    BY <2>2, RequestFields DEF b
  <2>5. Taken("READ", TRUE, FALSE, FALSE, bmc.failed, bmc.got, left)
    BY <1>1, <2>3, <2>4, TakeFields DEF Taken, Obf
  <2>6. QED
    BY <1>1, <1>2, <2>5 DEF RequestEffect, left
<1>3. CASE ~bmc.ended
  <2> DEFINE b == [bmc EXCEPT !.got = Append(@, bmc.in[2])]
  <2>1. Take(b)
    BY <1>3 DEF BmcRequest
  <2>2. Append(bmc.got, bmc.in[2]) \in Seq(Bytes)
    BY BmcFields
  <2>3. /\ b \in BmcType /\ b.state = bmc.state /\ b.out = bmc.out /\ (b.busy <=> bmc.busy)
        /\ (b.ended <=> bmc.ended) /\ (b.aborting <=> bmc.aborting) /\ (b.failed <=> bmc.failed)
        /\ b.got = Append(bmc.got, bmc.in[2]) /\ b.left = bmc.left
    BY <2>2 DEF BmcType
  <2> HIDE DEF b
  <2>4. Taken("WRITE", bmc.busy, FALSE, FALSE, bmc.failed, Append(bmc.got, bmc.in[2]), bmc.left)
    BY <1>1, <1>3, <2>1, <2>3, TakeFields DEF Taken, Obf
  <2>5. QED
    BY <1>1, <1>3, <2>4 DEF RequestEffect
<1>4. QED
  BY <1>2, <1>3

\* Data is taken outside of a request.
DataEffect ==
  /\ Ibf /\ DriverUnchanged /\ bmc.in[1] = "data" /\ (bmc.aborting \/ bmc.state # "WRITE")
  /\ \/ /\ bmc.aborting
        /\ Taken("READ", TRUE, bmc.ended, FALSE, bmc.failed, <<>>, <<>>)
     \/ /\ ~bmc.aborting /\ bmc.state = "READ" /\ ~bmc.busy
        /\ Taken(IF bmc.left = <<>> THEN "IDLE" ELSE "READ", TRUE, bmc.ended, FALSE, bmc.failed,
                 bmc.got, bmc.left)
     \/ /\ ~bmc.aborting /\ (bmc.state # "READ" \/ bmc.busy)
        /\ AsFailed

\* The record of the BMC that sends the status code of an abort.
LEMMA AbortFields ==
  ASSUME bmc \in BmcType, NEW b,
         b = [bmc EXCEPT !.aborting = FALSE, !.state = "READ", !.busy = TRUE,
                         !.left = <<>>, !.got = <<>>]
  PROVE  /\ b \in BmcType /\ b.state = "READ" /\ b.busy /\ (b.ended <=> bmc.ended)
         /\ b.left = <<>> /\ ~b.aborting /\ (b.failed <=> bmc.failed)
         /\ b.got = <<>> /\ b.out = bmc.out
<1>1. b = [present |-> bmc.present, state |-> "READ", in |-> bmc.in, out |-> bmc.out,
           busy |-> TRUE, ended |-> bmc.ended, aborting |-> FALSE, failed |-> bmc.failed,
           got |-> <<>>, left |-> <<>>]
  BY DEF BmcType
<1>2. QED
  BY <1>1, BmcFields, EmptyBytes, ZenonT(40) DEF BmcType, States

\* What BmcData does to the fields.
LEMMA BmcDataEffect == bmc \in BmcType /\ BmcData => DataEffect
<1> SUFFICES ASSUME bmc \in BmcType, BmcData PROVE DataEffect
  OBVIOUS
<1>1. /\ Ibf /\ DriverUnchanged /\ bmc.in[1] = "data"
      /\ (bmc.aborting \/ bmc.state # "WRITE")
  BY DEF BmcData, Ibf, Nothing
<1>2. CASE bmc.aborting
  <2> DEFINE b == [bmc EXCEPT !.aborting = FALSE, !.state = "READ", !.busy = TRUE,
                              !.left = <<>>, !.got = <<>>]
  <2>1. Take(b)
    BY <1>2 DEF BmcData
  <2> HIDE DEF b
  <2>2. /\ b \in BmcType /\ b.state = "READ" /\ b.busy /\ (b.ended <=> bmc.ended)
        /\ b.left = <<>> /\ ~b.aborting /\ (b.failed <=> bmc.failed)
        /\ b.got = <<>> /\ b.out = bmc.out
    BY AbortFields DEF b
  <2>3. Taken("READ", TRUE, bmc.ended, FALSE, bmc.failed, <<>>, <<>>)
    BY <2>1, <2>2, TakeFields DEF Taken, Obf
  <2>4. QED
    BY <1>1, <1>2, <2>3 DEF DataEffect
<1>3. CASE ~bmc.aborting /\ bmc.state = "READ" /\ ~bmc.busy
  <2> DEFINE st == IF bmc.left = <<>> THEN "IDLE" ELSE "READ"
             b == [bmc EXCEPT !.busy = TRUE, !.state = st]
  <2>1. Take(b)
    BY <1>3 DEF BmcData
  <2>2. st \in States
    BY DEF States
  <2> HIDE DEF st
  <2>3. /\ b \in BmcType /\ b.state = st /\ b.busy /\ (b.ended <=> bmc.ended)
        /\ b.left = bmc.left /\ (b.aborting <=> bmc.aborting) /\ (b.failed <=> bmc.failed)
        /\ b.got = bmc.got /\ b.out = bmc.out
    BY <2>2 DEF BmcType
  <2> HIDE DEF b
  <2>4. Taken(st, TRUE, bmc.ended, FALSE, bmc.failed, bmc.got, bmc.left)
    BY <1>3, <2>1, <2>3, TakeFields DEF Taken, Obf
  <2>5. QED
    BY <1>1, <1>3, <2>4 DEF DataEffect, st
<1>4. CASE ~bmc.aborting /\ (bmc.state # "READ" \/ bmc.busy)
  <2>1. Take(Failed)
    BY <1>4 DEF BmcData
  <2>2. AsFailed
    BY <2>1, FailedFields, TakeFields DEF Taken, AsFailed, Obf, BmcType
  <2>3. QED
    BY <1>1, <1>4, <2>2 DEF DataEffect
<1>5. QED
  BY <1>2, <1>3, <1>4

\* What BmcAnswer and BmcError do to the fields.
LEMMA BmcAnswerEffect ==
  ASSUME bmc \in BmcType, BmcAnswer
  PROVE  /\ DriverUnchanged /\ bmc.busy /\ bmc' \in BmcType /\ ~bmc'.busy /\ (Ibf' <=> Ibf)
         /\ bmc'.in = bmc.in /\ bmc'.state = bmc.state /\ bmc'.got = bmc.got
         /\ (bmc'.ended <=> bmc.ended) /\ (bmc'.aborting <=> bmc.aborting)
         /\ (bmc'.failed <=> bmc.failed)
         /\ bmc.left = <<>> => bmc'.out = Other /\ bmc'.left = <<>>
         /\ bmc.left # <<>> => bmc'.out = Head(bmc.left) /\ bmc'.left = Tail(bmc.left)
<1>1. DriverUnchanged /\ bmc.busy
  BY DEF BmcAnswer
<1>2. CASE bmc.left = <<>>
  <2>1. bmc' = [bmc EXCEPT !.busy = FALSE, !.out = Other] /\ Other \in Bytes
    BY <1>2 DEF BmcAnswer, Other, Bytes
  <2>2. QED
    BY <1>1, <1>2, <2>1 DEF BmcType, Ibf
<1>3. CASE bmc.left # <<>>
  <2>1. bmc' = [bmc EXCEPT !.busy = FALSE, !.out = Head(bmc.left), !.left = Tail(bmc.left)]
    BY <1>3 DEF BmcAnswer
  <2>2. Head(bmc.left) \in Bytes /\ Tail(bmc.left) \in Seq(Bytes)
    BY <1>3, BmcFields
  <2>3. QED
    BY <1>1, <1>3, <2>1, <2>2 DEF BmcType, Ibf
<1>4. QED
  BY <1>2, <1>3

\* A byte of a request is taken.
LEMMA BmcRequestStep == IInv /\ BmcRequest => IInv'
<1> SUFFICES ASSUME IInv, BmcRequest PROVE IInv'
  OBVIOUS
<1>0. /\ bmc \in BmcType /\ pc' = pc /\ i' = i /\ command' = command /\ aborted' = aborted
      /\ UNCHANGED <<seen, ret, RetryCount, Times, result, Response>>
  BY DEF IInv, TypeInv, BmcRequest, DriverUnchanged, local
<1>1. RequestEffect
  BY <1>0, BmcRequestEffect
<1>2. TypeInv'
  BY <1>0, <1>1 DEF IInv, TypeInv, RequestEffect, Taken
<1>3. ControlInv'
  BY <1>0 DEF IInv, ControlInv
<1>4. QuietInv'
  BY <1>0, <1>1 DEF IInv, QuietInv, RequestEffect, Taken
<1>5. ErrorInv'
  BY <1>0, <1>1 DEF IInv, ErrorInv, QuietInv, QuietPcs, RequestEffect, Taken
<1>6. (~aborted)' => WriteInv'
  <2> SUFFICES ASSUME ~aborted PROVE WriteInv'
    BY <1>0
  <2>1. WriteInv /\ i \in 0 .. 255 /\ command \in Nat
    BY KcsAssumption DEF IInv, TypeInv
  <2>2. CASE pc = "w_check"
    <3>1. /\ i > 0 /\ bmc.in = <<"data", <<command, i - 1>>>> /\ bmc.got = Sent(command, i - 1)
          /\ Started /\ ~bmc.ended /\ ~Obf
      BY <1>1, <2>1, <2>2 DEF WriteInv, RequestEffect
    <3>2. Append(bmc.got, bmc.in[2]) = Sent(command, i)
      <4>1. i - 1 \in Nat /\ (i - 1) + 1 = i
        BY <2>1, <3>1
      <4>2. Append(Sent(command, i - 1), <<command, i - 1>>) = Sent(command, (i - 1) + 1)
        BY <2>1, <4>1, SentMore
      <4>3. QED
        BY <3>1, <4>1, <4>2
    <3>3. QED
      BY <1>0, <1>1, <2>1, <2>2, <3>1, <3>2 DEF WriteInv, Started, RequestEffect, Taken
  <2>3. CASE pc # "w_check"
    <3>1. pc \notin {"w_clear", "w_next", "r_ibf"}
      BY <1>1, <2>1 DEF IInv, QuietInv, QuietPcs, WriteInv, RequestEffect
    <3>2. QED
      BY <1>0, <2>3, <3>1 DEF WriteInv
  <2>4. QED
    BY <2>2, <2>3
<1>7. QED
  BY <1>2, <1>3, <1>4, <1>5, <1>6 DEF IInv

\* READ, the byte behind ABORT or data the BMC does not expect is taken.
LEMMA BmcDataStep == IInv /\ BmcData => IInv'
<1> SUFFICES ASSUME IInv, BmcData PROVE IInv'
  OBVIOUS
<1>0. /\ bmc \in BmcType /\ pc' = pc /\ i' = i /\ command' = command /\ aborted' = aborted
      /\ UNCHANGED <<seen, ret, RetryCount, Times, result, Response>>
  BY DEF IInv, TypeInv, BmcData, DriverUnchanged, local
<1>1. DataEffect
  BY <1>0, BmcDataEffect
<1>2. TypeInv'
  BY <1>0, <1>1 DEF IInv, TypeInv, DataEffect, Taken, AsFailed
<1>3. ControlInv'
  BY <1>0 DEF IInv, ControlInv
<1>4. QuietInv'
  BY <1>0, <1>1 DEF IInv, QuietInv, DataEffect, Taken, AsFailed
<1>5. ErrorInv'
  BY <1>0, <1>1 DEF IInv, ErrorInv, QuietInv, QuietPcs, DataEffect, Taken, AsFailed
<1>6. (~aborted)' => WriteInv'
  <2> SUFFICES ASSUME ~aborted PROVE WriteInv'
    BY <1>0
  <2>1. WriteInv /\ i \in 0 .. 255
    BY KcsAssumption DEF IInv, TypeInv
  <2>2. CASE pc = "w_check"
    <3>1. i > 0 /\ Started /\ ~bmc.ended /\ ~Obf /\ bmc.failed
      BY <1>1, <2>1, <2>2 DEF WriteInv, DataEffect, Started
    <3>2. AsFailed
      BY <1>1, <3>1 DEF DataEffect, Started
    <3>3. QED
      BY <1>0, <2>1, <2>2, <3>1, <3>2 DEF WriteInv, Started, AsFailed, Taken
  <2>3. CASE pc # "w_check"
    <3>1. pc \notin {"w_clear", "w_next", "r_ibf"}
      BY <1>1, <2>1 DEF IInv, QuietInv, QuietPcs, WriteInv, DataEffect
    <3>2. QED
      BY <1>0, <2>3, <3>1 DEF WriteInv
  <2>4. QED
    BY <2>2, <2>3
<1>7. QED
  BY <1>2, <1>3, <1>4, <1>5, <1>6 DEF IInv

\* The BMC fills DATA_OUT.
LEMMA BmcAnswerStep == IInv /\ BmcAnswer => IInv'
<1> SUFFICES ASSUME IInv, BmcAnswer PROVE IInv'
  OBVIOUS
<1>0. /\ bmc \in BmcType /\ pc' = pc /\ i' = i /\ command' = command /\ aborted' = aborted
      /\ UNCHANGED <<seen, ret, RetryCount, Times, result, Response>>
  BY DEF IInv, TypeInv, BmcAnswer, DriverUnchanged, local
<1>1. /\ bmc.busy /\ bmc' \in BmcType /\ ~bmc'.busy /\ (Ibf' <=> Ibf)
      /\ bmc'.in = bmc.in /\ bmc'.state = bmc.state /\ bmc'.got = bmc.got
      /\ (bmc'.ended <=> bmc.ended) /\ (bmc'.aborting <=> bmc.aborting)
      /\ (bmc'.failed <=> bmc.failed)
  BY <1>0, BmcAnswerEffect
<1>2. TypeInv'
  BY <1>0, <1>1 DEF IInv, TypeInv
<1>3. ControlInv'
  BY <1>0 DEF IInv, ControlInv
<1>4. QuietInv'
  BY <1>0, <1>1 DEF IInv, QuietInv
<1>5. ErrorInv'
  BY <1>0, <1>1 DEF IInv, ErrorInv, QuietInv, QuietPcs
<1>6. (~aborted)' => WriteInv'
  BY <1>0, <1>1 DEF IInv, TypeInv, WriteInv, Started
<1>7. QED
  BY <1>2, <1>3, <1>4, <1>5, <1>6 DEF IInv

\* The BMC turns to the error state.
LEMMA BmcErrorStep == IInv /\ BmcError => IInv'
<1> SUFFICES ASSUME IInv, BmcError PROVE IInv'
  OBVIOUS
<1>0. /\ bmc \in BmcType /\ pc' = pc /\ i' = i /\ command' = command /\ aborted' = aborted
      /\ UNCHANGED <<seen, ret, RetryCount, Times, result, Response>>
  BY DEF IInv, TypeInv, BmcError, DriverUnchanged, local
<1>1. /\ bmc' \in BmcType /\ ~bmc'.busy /\ (Ibf' <=> Ibf) /\ (Obf' <=> Obf)
      /\ bmc'.in = bmc.in /\ bmc'.state = "ERROR" /\ bmc'.got = bmc.got
      /\ (bmc'.ended <=> bmc.ended) /\ (bmc'.aborting <=> bmc.aborting) /\ bmc'.failed
  BY <1>0, FailedFields DEF BmcError, Ibf, Obf
<1>2. TypeInv'
  BY <1>0, <1>1 DEF IInv, TypeInv
<1>3. ControlInv'
  BY <1>0 DEF IInv, ControlInv
<1>4. QuietInv'
  BY <1>0, <1>1 DEF IInv, QuietInv
<1>5. ErrorInv'
  BY <1>0, <1>1 DEF IInv, ErrorInv, QuietInv, QuietPcs
<1>6. (~aborted)' => WriteInv'
  BY <1>0, <1>1 DEF IInv, TypeInv, WriteInv, Started
<1>7. QED
  BY <1>2, <1>3, <1>4, <1>5, <1>6 DEF IInv

-----------------------------------------------------------------------------
(***************************************************************************)
(* The theorems for sizes of every kind.                                   *)
(***************************************************************************)

\* The invariant holds in every state.
THEOREM Invariance == Spec => []IInv
<1>1. Init => IInv
  BY InitIInv
<1>2. IInv /\ [Next]_vars => IInv'
  <2> SUFFICES ASSUME IInv, [Next]_vars PROVE IInv'
    OBVIOUS
  <2>1. CASE Driver
    BY <2>1, PollFailsStep, ErrorWaitStep, ErrorWriteStep, ErrorReadStep, RetryStep,
       WriteStartStep, CheckWriteStep, ClearObfStep, WriteNextStep, ReadAskStep,
       CheckReadStep, ReadTakeStep, CompleteStep, ReturnedStep DEF Driver
  <2>2. CASE Command
    BY <2>2, CommandStep
  <2>3. CASE Bmc
    BY <2>3, BmcCommandStep, BmcRequestStep, BmcDataStep, BmcAnswerStep, BmcErrorStep DEF Bmc
  <2>4. CASE UNCHANGED vars
    BY <2>4 DEF vars, IInv, TypeInv, ControlInv, QuietInv, ErrorInv, WriteInv, Started, Ibf, Obf
  <2>5. QED
    BY <2>1, <2>2, <2>3, <2>4 DEF Next
<1>3. QED
  BY <1>1, <1>2, PTL DEF Spec

\* The types of the driver's variables, and the index of KcsReadDataFromBmc within
\* the response whenever it is used, also behind an error exit.
THEOREM TypeCorrect == Spec => []KcsTypeOK
<1>1. IInv => KcsTypeOK
  BY KcsAssumption, BmcFields
     DEF IInv, TypeInv, ControlInv, KcsTypeOK, Reading, Pcs, WritePcs, ReadPcs, ErrorPcs,
         IbfWaits, ObfWaits
<1>2. QED
  BY <1>1, Invariance, PTL

\* KcsWriteDataToBmc returns EFI_SUCCESS without an abort only when the BMC has the request.
THEOREM RequestReceived == Spec => []ReceivedUnlessAborted
<1>1. IInv => ReceivedUnlessAborted
  BY DEF IInv, WriteInv, ReceivedUnlessAborted, Received, Request, Sent
<1>2. QED
  BY <1>1, Invariance, PTL

\* The steps that write to a register, but for the abort, find it empty.
LEMMA WritesWhenTaken ==
  ASSUME IInv, Next, bmc'.in # bmc.in, bmc'.in # Nothing
  PROVE  ~Ibf \/ pc = "e_abort"
<1>0. bmc \in BmcType
  BY DEF IInv, TypeInv
<1>1. CASE Bmc
  <2>1. bmc'.in = Nothing \/ bmc'.in = bmc.in
    <3>1. CASE BmcCommand
      BY <1>0, <3>1, BmcCommandEffect DEF CommandEffect, Taken, AsFailed, Ibf
    <3>2. CASE BmcRequest
      BY <1>0, <3>2, BmcRequestEffect DEF RequestEffect, Taken, Ibf
    <3>3. CASE BmcData
      BY <1>0, <3>3, BmcDataEffect DEF DataEffect, Taken, AsFailed, Ibf
    <3>4. CASE BmcAnswer
      BY <1>0, <3>4, BmcAnswerEffect
    <3>5. CASE BmcError
      BY <1>0, <3>5, FailedFields DEF BmcError
    <3>6. QED
      BY <1>1, <3>1, <3>2, <3>3, <3>4, <3>5 DEF Bmc
  <2>2. QED
    BY <2>1
<1>2. CASE pc \in QuietPcs
  BY <1>2 DEF IInv, QuietInv
<1>3. CASE Driver /\ pc \notin QuietPcs /\ pc # "e_abort"
  <2>1. bmc' = bmc
    BY <1>3 DEF Driver, PollFails, ErrorWait, ErrorWrite, ErrorRead, Retry, WriteStart, CheckWrite,
       ClearObf, WriteNext, ReadAsk, CheckRead, ReadTake, Complete, Returned, QuietPcs
  <2>2. QED
    BY <2>1
<1>4. CASE Command
  BY <1>4 DEF Command
<1>5. QED
  BY <1>1, <1>2, <1>3, <1>4 DEF Next

\* The driver writes to a register only when the BMC has taken what was written before;
\* only the abort may write over a byte.
THEOREM NothingOverrun == Spec => NoOverrun
<1> DEFINE A == Ibf /\ bmc'.in # bmc.in => bmc'.in = Nothing \/ pc = "e_abort"
<1>1. IInv /\ [Next]_vars => [A]_vars
  BY WritesWhenTaken
<1>2. QED
  BY <1>1, Invariance, PTL DEF Spec, NoOverrun

\* A KcsErrorExit that succeeds leaves nothing on its way: the input register is empty,
\* no answer is being prepared and DATA_OUT has been read.
THEOREM AbortsDrain == Spec => AbortDrains
<1> DEFINE A == pc = "e_dummy" /\ pc' = ret => ~Ibf /\ ~bmc.busy /\ bmc'.out = NoByte
<1>1. ASSUME IInv, Next, pc = "e_dummy", pc' = ret
      PROVE  ~Ibf /\ ~bmc.busy /\ bmc'.out = NoByte
  <2>1. ~Ibf /\ ~bmc.busy /\ bmc \in BmcType /\ pc' # "e_dummy"
    BY <1>1 DEF IInv, TypeInv, QuietInv, QuietPcs, ErrorInv, ControlInv, ErrorPcs
  <2>2. ErrorRead
    BY <1>1, <2>1 DEF Next, Driver, Command, Bmc, BmcCommand, BmcRequest, BmcData, BmcAnswer, BmcError,
       DriverUnchanged, PollFails, IbfWaits, ObfWaits, ErrorWait, ErrorWrite, Retry, WriteStart,
       CheckWrite, ClearObf, WriteNext, ReadAsk, CheckRead, ReadTake, Complete, Returned,
       WaitForIbfFalse, WaitForObfTrue
  <2>3. IoRead
    BY <2>2 DEF ErrorRead
  <2>4. QED
    BY <2>1, <2>3, ReadFields
<1>2. IInv /\ [Next]_vars => [A]_vars
  BY <1>1
<1>3. QED
  BY <1>2, Invariance, PTL DEF Spec, AbortDrains

-----------------------------------------------------------------------------
(***************************************************************************)
(* What is read into the response.  The index of KcsReadDataFromBmc is a   *)
(* UINT8 that advances by two: with a DataSize of 255 it goes from 254 to  *)
(* 0 and the loop starts over, so the size is assumed to be smaller.       *)
(***************************************************************************)

\* Halves of even numbers.
LEMMA Halves ==
  /\ \A n \in 0 .. 253 : /\ (n + 2) % 256 = n + 2 /\ (n + 2) \div 2 = n \div 2 + 1
                         /\ (n + 2) % 2 = n % 2
                         /\ n % 2 = 0 => (n + 1) % 2 # 0
  /\ \A n \in Nat : n \div 2 \in Nat
  /\ 0 % 2 = 0 /\ 0 \div 2 = 0
OBVIOUS

\* Nothing is said of what is read behind an abort, or outside of KcsReadDataFromBmc.
LEMMA FillElsewhere ==
  ASSUME pc' \notin ReadPcs \cup {"complete"} \/ aborted' \/ bmc'.failed
  PROVE  FillInv'
<1>1. OwnResponse'
  BY DEF OwnResponse, Reading, ReadPcs
<1>2. (~aborted /\ ~bmc.failed)' => ReadInv'
  BY DEF ReadInv, Asking, ReadPcs
<1>3. QED
  BY <1>1, <1>2 DEF FillInv

\* The index stays even.
LEMMA EvenStep ==
  ASSUME IInv, EvenInv, [Next]_vars
  PROVE  EvenInv'
<1> USE DEF EvenInv, ReadPcs, ErrorPcs
<1>0. i \in 0 .. 255 /\ ret \in {"idle", "w_next", "r_take"}
  BY DEF IInv, TypeInv
<1>1. \A n \in 0 .. 255 : n % 2 = 0 => ((n + 2) % 256) % 2 = 0
  OBVIOUS
<1>2. CASE PollFails \/ ErrorWait \/ ErrorWrite \/ ErrorRead \/ Retry
  BY <1>0, <1>2 DEF PollFails, ErrorWait, ErrorWrite, ErrorRead, Retry, IbfWaits, ObfWaits,
     WaitForIbfFalse, WaitForObfTrue, ErrorFrame, Return
<1>3. CASE WriteStart \/ CheckWrite \/ ClearObf
  BY <1>3 DEF WriteStart, CheckWrite, ClearObf, WriteFrame, WaitForIbfFalse, EnterErrorExit
<1>4. CASE WriteNext
  BY <1>4, Halves DEF WriteNext, WriteFrame
<1>5. CASE ReadAsk \/ CheckRead
  BY <1>5 DEF ReadAsk, CheckRead, WriteFrame, WaitForIbfFalse, WaitForObfTrue, EnterErrorExit
<1>6. CASE ReadTake
  BY <1>0, <1>1, <1>6 DEF ReadTake
<1>7. CASE Complete \/ Returned \/ Command
  BY <1>7 DEF Complete, Returned, Command, Return
<1>8. CASE Bmc
  BY <1>8 DEF Bmc, BmcCommand, BmcRequest, BmcData, BmcAnswer, BmcError, DriverUnchanged
<1>9. CASE UNCHANGED vars
  BY <1>9 DEF vars
<1>10. QED
  BY <1>2, <1>3, <1>4, <1>5, <1>6, <1>7, <1>8, <1>9 DEF Next, Driver

\* A step of the driver that is not one of KcsReadDataFromBmc.
LEMMA FillOther ==
  ASSUME IInv, \/ PollFails \/ ErrorWait \/ ErrorWrite \/ ErrorRead \/ Retry
               \/ WriteStart \/ CheckWrite \/ ClearObf \/ WriteNext
               \/ Complete \/ Returned \/ Command
  PROVE  FillInv'
<1>1. pc' \notin ReadPcs \cup {"complete"} \/ aborted'
  <2> USE DEF ReadPcs, WaitForIbfFalse, WaitForObfTrue
  <2>1. CASE ErrorWait \/ ErrorWrite \/ ErrorRead \/ Retry
    <3>1. pc \in ErrorPcs /\ aborted' = aborted
      BY <2>1 DEF ErrorWait, ErrorWrite, ErrorRead, Retry, ErrorFrame, ErrorPcs
    <3>2. QED
      BY <3>1 DEF IInv, ControlInv
  <2>2. CASE PollFails
    BY <2>2 DEF PollFails, Return
  <2>3. CASE WriteStart \/ CheckWrite \/ ClearObf \/ WriteNext
    BY <2>3 DEF WriteStart, CheckWrite, ClearObf, WriteNext, EnterErrorExit
  <2>4. CASE Complete \/ Returned \/ Command
    BY <2>4 DEF Complete, Returned, Command, Return
  <2>5. QED
    BY <2>1, <2>2, <2>3, <2>4
<1>2. QED
  BY <1>1, FillElsewhere

\* READ is written.
LEMMA FillReadAsk == IInv /\ RInv /\ ReadAsk => FillInv'
<1> SUFFICES ASSUME IInv, RInv, ReadAsk, ~aborted, ~bmc'.failed PROVE FillInv'
  BY FillElsewhere DEF ReadAsk, WriteFrame
<1> USE DEF ReadAsk, WriteFrame, local, WaitForIbfFalse
<1>0. bmc \in BmcType /\ i \in 0 .. 255 /\ UNCHANGED <<i, Response, command, aborted>>
  BY DEF IInv, TypeInv
<1>1. CASE pc = "r_ibf"
  <2>1. i = 0 /\ bmc' = bmc /\ pc' = "r_ask" /\ ~Ibf
    BY <1>1 DEF IInv, ControlInv
  <2>2. OwnResponse'
    BY <1>0, <2>1 DEF OwnResponse
  <2>3. ReadInv'
    BY <1>0, <1>1, <2>1 DEF IInv, WriteInv, ReadInv, Asking, Started, Ibf, Obf
  <2>4. QED
    BY <2>2, <2>3 DEF FillInv
<1>2. CASE pc = "r_ask"
  <2>1. /\ bmc'.in = <<"data", <<0, KSC_CRTL_READ>>>> /\ Ibf' /\ (Obf' <=> Obf) /\ pc' = "r_check"
        /\ bmc'.state = bmc.state /\ (bmc'.busy <=> bmc.busy) /\ (bmc'.ended <=> bmc.ended)
        /\ (bmc'.aborting <=> bmc.aborting) /\ (bmc'.failed <=> bmc.failed)
        /\ bmc'.got = bmc.got /\ bmc'.left = bmc.left
    BY <1>0, <1>2, WriteFields DEF Bytes, KSC_CRTL_READ
  <2>2. OwnResponse'
    BY <1>0, <1>2, <2>1 DEF RInv, FillInv, OwnResponse, Reading
  <2>3. ReadInv /\ ~bmc.failed
    BY <2>1 DEF RInv, FillInv
  <2>4. ReadInv'
    BY <1>0, <1>2, <2>1, <2>3 DEF ReadInv, Asking, Started
  <2>5. QED
    BY <2>2, <2>4 DEF FillInv
<1>3. QED
  BY <1>1, <1>2

\* KcsCheckStatus in the read loop.
LEMMA FillCheckRead == IInv /\ RInv /\ CheckRead => FillInv'
<1> SUFFICES ASSUME IInv, RInv, CheckRead, ~aborted', ~bmc.failed PROVE FillInv'
  BY FillElsewhere DEF CheckRead
<1> USE DEF CheckRead, local, WaitForIbfFalse, WaitForObfTrue, See, EnterErrorExit
<1>1. /\ UNCHANGED <<i, Response, command, aborted, bmc>> /\ ~Ibf
      /\ \/ pc = "r_check" /\ pc' = "r_obf"
         \/ pc = "r_obf" /\ pc' = "r_take" /\ Obf /\ seen' = bmc.state
  BY DEF IInv, QuietInv, QuietPcs
<1>2. OwnResponse /\ ReadInv
  BY <1>1 DEF RInv, FillInv
<1>3. OwnResponse'
  BY <1>1, <1>2 DEF OwnResponse, Reading
<1>4. ReadInv'
  BY <1>1, <1>2 DEF ReadInv, Asking, Started, Ibf, Obf
<1>5. QED
  BY <1>3, <1>4 DEF FillInv

\* A byte of the answer is read.
LEMMA FillReadTake == ResponseSize < 255 /\ IInv /\ RInv /\ ReadTake => FillInv'
<1> SUFFICES ASSUME ResponseSize < 255, IInv, RInv, ReadTake, ~aborted, ~bmc'.failed PROVE FillInv'
  BY FillElsewhere DEF ReadTake
<1>0. /\ bmc \in BmcType /\ i \in 0 .. 255 /\ i < ResponseSize /\ i % 2 = 0 /\ ~Ibf
      /\ UNCHANGED <<command, aborted>> /\ ResponseSize \in 1 .. 254 /\ pc = "r_take"
      /\ Response \in [0 .. ResponseSize - 1 -> Bytes]
  BY KcsAssumption
     DEF IInv, TypeInv, ControlInv, ReadPcs, QuietInv, QuietPcs, RInv, EvenInv, ReadTake, local
<1>1. CASE seen = "IDLE"
  <2>1. UNCHANGED <<i, Response, bmc>> /\ pc' = "complete"
    BY <1>1 DEF ReadTake
  <2>2. OwnResponse'
    BY <1>0, <2>1 DEF RInv, FillInv, OwnResponse, Reading
  <2>3. ReadInv'
    BY <2>1 DEF ReadInv, Asking
  <2>4. QED
    BY <2>2, <2>3 DEF FillInv
<1>2. CASE seen # "IDLE"
  <2>1. IoRead /\ Response' = [Response EXCEPT ![i] = ReadByte] /\ i' = (i + 2) % 256
    BY <1>2 DEF ReadTake
  <2>2. /\ ~Ibf' /\ ~Obf' /\ bmc'.state = bmc.state /\ (bmc'.busy <=> bmc.busy)
        /\ (bmc'.aborting <=> bmc.aborting) /\ (bmc'.failed <=> bmc.failed)
        /\ bmc'.left = bmc.left
    BY <1>0, <2>1, ReadFields
  <2>3. ReadInv /\ OwnResponse
    BY <2>2 DEF RInv, FillInv
  <2>4. /\ bmc.state = "READ" /\ ~bmc.busy /\ ~bmc.aborting
        /\ bmc.out = <<command, i \div 2>> /\ Rest(command, bmc.left, i \div 2 + 1)
    BY <1>0, <1>2, <2>3 DEF ReadInv
  <2>5. ReadByte = <<command, i \div 2>>
    <3>1. command > 0 /\ command \in Nat
      BY <1>0, KcsAssumption DEF IInv, TypeInv, ControlInv
    <3>2. <<command, i \div 2>> # NoByte
      BY <3>1 DEF NoByte
    <3>3. QED
      BY <2>4, <3>2 DEF ReadByte, Obf
  <2>6. i' = i + 2 /\ i' \div 2 = i \div 2 + 1 /\ (i + 1) % 2 # 0
    BY <1>0, <2>1, Halves
  <2>7. pc' \in {"r_ask", "complete"}
    BY <1>2 DEF ReadTake
  <2>8. OwnResponse'
    <3>1. \A n \in 0 .. i - 1 : n % 2 = 0 => Response[n] = <<command, n \div 2>>
      BY <1>0, <2>2, <2>3 DEF OwnResponse, Reading
    <3>2. ASSUME NEW n \in 0 .. i + 1, n % 2 = 0
          PROVE  Response'[n] = <<command, n \div 2>>
      <4>1. n = i \/ n \in 0 .. i - 1
        BY <1>0, <2>6, <3>2
      <4>2. CASE n = i
        BY <1>0, <2>1, <2>5, <4>2
      <4>3. CASE n \in 0 .. i - 1
        BY <1>0, <2>1, <3>1, <3>2, <4>3
      <4>4. QED
        BY <4>1, <4>2, <4>3
    <3>3. i' - 1 = i + 1
      BY <1>0, <2>6
    <3>4. QED
      BY <1>0, <3>2, <3>3 DEF OwnResponse
  <2>9. ReadInv'
    BY <1>0, <2>2, <2>4, <2>6, <2>7 DEF ReadInv, Asking
  <2>10. QED
    BY <2>8, <2>9 DEF FillInv
<1>3. QED
  BY <1>1, <1>2

\* The BMC leaves the driver alone.
LEMMA BmcFrame == Bmc => UNCHANGED <<pc, i, seen, ret, RetryCount, command, Times, result, Response, aborted>>
BY DEF Bmc, BmcCommand, BmcRequest, BmcData, BmcAnswer, BmcError, DriverUnchanged, local

\* A step of the BMC while the driver reads.
LEMMA FillBmc == IInv /\ RInv /\ Bmc => FillInv'
<1> SUFFICES ASSUME IInv, RInv, Bmc, ~aborted, ~bmc'.failed, pc \in ReadPcs \cup {"complete"}
             PROVE  FillInv'
  BY FillElsewhere, BmcFrame
<1>0. /\ bmc \in BmcType /\ i \in 0 .. 255 /\ command \in Nat \ {0} /\ i \div 2 \in Nat
      /\ UNCHANGED <<pc, i, Response, command, aborted, seen>>
  BY KcsAssumption, BmcFrame, Halves DEF IInv, TypeInv, ControlInv, ReadPcs
<1>1. QuietInv
  BY DEF IInv
<1>2. Ibf => pc = "r_check" /\ bmc.in = <<"data", <<0, KSC_CRTL_READ>>>>
  BY <1>1 DEF QuietInv, QuietPcs, ReadPcs
<1>3. ~BmcCommand
  <2> SUFFICES ASSUME BmcCommand PROVE FALSE
    OBVIOUS
  <2>1. Ibf /\ bmc.in[1] = "command"
    BY <1>0, BmcCommandEffect DEF CommandEffect
  <2>2. QED
    BY <1>2, <2>1
<1>4. ~bmc.failed
  <2>1. CASE BmcRequest
    BY <1>0, <2>1, BmcRequestEffect DEF RequestEffect, Taken
  <2>2. CASE BmcData
    BY <1>0, <2>2, BmcDataEffect DEF DataEffect, Taken, AsFailed
  <2>3. CASE BmcAnswer
    BY <1>0, <2>3, BmcAnswerEffect
  <2>4. CASE BmcError
    BY <1>0, <2>4, FailedFields DEF BmcError
  <2>5. QED
    BY <1>3, <2>1, <2>2, <2>3, <2>4 DEF Bmc
<1>5. OwnResponse'
  BY <1>0, <1>4 DEF RInv, FillInv, OwnResponse, Reading, ReadPcs
<1>6. ReadInv
  BY <1>4 DEF RInv, FillInv
<1>7. CASE BmcRequest
  <2>1. RequestEffect
    BY <1>0, <1>7, BmcRequestEffect
  <2>2. /\ pc = "r_check" /\ Ibf /\ i = 0 /\ bmc.ended /\ ~Obf
        /\ bmc.got = Sent(command, RequestSize)
    BY <1>0, <1>2, <1>6, <2>1 DEF ReadInv, Asking, RequestEffect
  <2>3. bmc.got # <<>> /\ bmc.got[1] = <<command, 0>>
    BY <1>0, <2>2, SentFirst, KcsAssumption
  <2>4. PICK size \in AnswerSizes :
          Taken("READ", TRUE, FALSE, FALSE, bmc.failed, bmc.got, Answer(bmc.got[1], size))
    BY <2>1, <2>2, <2>3 DEF RequestEffect
  <2>5. size \in Nat \ {0} /\ <<command, 0>> \in Bytes
    BY <1>0, KcsAssumption DEF Bytes
  <2>6. bmc'.left = Answer(<<command, 0>>, size)
    BY <2>3, <2>4 DEF Taken
  <2>7. bmc'.left # <<>> /\ Rest(command, bmc'.left, 0)
    <3> DEFINE l == Answer(<<command, 0>>, size)
    <3>1. Len(l) = size /\ \A n \in 1 .. size : l[n] = <<command, n - 1>>
      <4>1. <<command, 0>>[1] = command
        OBVIOUS
      <4>2. QED
        BY <2>5, <4>1, AnswerShape
    <3> HIDE DEF l
    <3>2. l # <<>>
      BY <2>5, <3>1
    <3>3. \A k \in 1 .. Len(l) : l[k] = <<command, 0 + k - 1>>
      BY <2>5, <3>1
    <3>4. bmc'.left = l
      BY <2>6 DEF l
    <3>5. QED
      BY <3>2, <3>3, <3>4 DEF Rest
  <2>8. ReadInv'
    BY <1>0, <2>2, <2>4, <2>7, Halves DEF ReadInv, Asking, Taken
  <2>9. QED
    BY <1>5, <2>8 DEF FillInv
<1>8. CASE BmcData
  <2>1. DataEffect
    BY <1>0, <1>8, BmcDataEffect
  <2>2. pc = "r_check" /\ Ibf
    BY <1>2, <2>1 DEF DataEffect
  <2>3. /\ ~bmc.aborting /\ bmc.state = "READ" /\ ~bmc.busy /\ ~Obf
        /\ Rest(command, bmc.left, i \div 2)
    BY <1>0, <1>4, <1>6, <2>1, <2>2 DEF ReadInv, Asking, Started, DataEffect
  <2>4. Taken(IF bmc.left = <<>> THEN "IDLE" ELSE "READ", TRUE, bmc.ended, FALSE, bmc.failed,
              bmc.got, bmc.left)
    BY <2>1, <2>3 DEF DataEffect
  <2>5. ReadInv'
    BY <1>0, <2>2, <2>3, <2>4 DEF ReadInv, Asking, Taken
  <2>6. QED
    BY <1>5, <2>5 DEF FillInv
<1>9. CASE BmcAnswer
  <2>1. /\ bmc.busy /\ ~bmc'.busy /\ (Ibf' <=> Ibf) /\ bmc'.in = bmc.in
        /\ bmc'.state = bmc.state /\ bmc'.got = bmc.got
        /\ (bmc'.ended <=> bmc.ended) /\ (bmc'.aborting <=> bmc.aborting)
        /\ bmc.left = <<>> => bmc'.out = Other /\ bmc'.left = <<>>
        /\ bmc.left # <<>> => bmc'.out = Head(bmc.left) /\ bmc'.left = Tail(bmc.left)
    BY <1>0, <1>9, BmcAnswerEffect
  <2>2. CASE pc = "complete"
    BY <1>0, <1>5, <2>2 DEF FillInv, ReadInv, Asking
  <2>3. CASE pc # "complete"
    <3>1. /\ pc \in {"r_check", "r_obf", "r_take"} /\ ~Ibf
          /\ ~bmc.aborting /\ bmc.state \in {"READ", "IDLE"}
      <4>1. ~Asking
        BY <1>0, <1>6, <2>1 DEF ReadInv, Started
      <4>2. QED
        BY <1>2, <1>6, <2>3, <4>1 DEF ReadInv, Asking, ReadPcs
    <3>2. CASE bmc.state = "READ"
      <4>1. ~Obf /\ bmc.left # <<>> /\ Rest(command, bmc.left, i \div 2)
        BY <1>6, <2>1, <3>1, <3>2 DEF ReadInv
      <4>2. bmc.left \in Seq(Bytes)
        BY <1>0, BmcFields
      <4>3. bmc'.out = <<command, i \div 2>> /\ Rest(command, bmc'.left, i \div 2 + 1)
        <5>1. Len(bmc.left) \in Nat \ {0} /\ Len(bmc'.left) = Len(bmc.left) - 1
              /\ Head(bmc.left) = bmc.left[1]
              /\ \A k \in 1 .. Len(bmc'.left) : bmc'.left[k] = bmc.left[k + 1]
          BY <2>1, <4>1, <4>2, HeadTail, ZenonT(40)
        <5>2. bmc'.out = <<command, i \div 2 + 1 - 1>>
          BY <2>1, <4>1, <5>1 DEF Rest
        <5>3. ASSUME NEW k \in 1 .. Len(bmc'.left)
              PROVE  bmc'.left[k] = <<command, i \div 2 + 1 + k - 1>>
          <6>1. k + 1 \in 1 .. Len(bmc.left)
            BY <5>1
          <6>2. bmc.left[k + 1] = <<command, i \div 2 + (k + 1) - 1>>
            BY <4>1, <6>1 DEF Rest
          <6>3. i \div 2 + (k + 1) - 1 = i \div 2 + 1 + k - 1
            BY <1>0
          <6>4. QED
            BY <5>1, <6>2, <6>3
        <5>4. i \div 2 + 1 - 1 = i \div 2
          BY <1>0
        <5>5. QED
          BY <5>2, <5>3, <5>4 DEF Rest
      <4>4. pc # "r_take"
        BY <1>6, <2>1, <3>2 DEF ReadInv
      <4>5. ReadInv'
        BY <1>0, <2>1, <3>1, <3>2, <4>3, <4>4 DEF ReadInv, Asking
      <4>6. QED
        BY <1>5, <4>5 DEF FillInv
    <3>3. CASE bmc.state = "IDLE"
      <4>1. ReadInv'
        BY <1>0, <1>6, <2>1, <3>1, <3>3 DEF ReadInv, Asking
      <4>2. QED
        BY <1>5, <4>1 DEF FillInv
    <3>4. QED
      BY <3>1, <3>2, <3>3
  <2>4. QED
    BY <2>2, <2>3
<1>10. CASE BmcError
  BY <1>0, <1>10, FailedFields DEF BmcError
<1>11. QED
  BY <1>3, <1>7, <1>8, <1>9, <1>10 DEF Bmc

\* Every byte read into the response is the one of the answer to this command that
\* belongs there, however late the BMC answers commands the driver has given up, for
\* every DataSize below 255.
THEOREM ResponseIsOwn == ResponseSize < 255 => (Spec => []OwnResponse)
<1> SUFFICES ASSUME ResponseSize < 255 PROVE Spec => []OwnResponse
  OBVIOUS
<1>1. Init => RInv
  BY DEF Init, RInv, EvenInv, FillInv, OwnResponse, ReadInv, Asking, Reading, ReadPcs, ErrorPcs
<1>2. IInv /\ RInv /\ [Next]_vars => RInv'
  <2> SUFFICES ASSUME IInv, RInv, [Next]_vars PROVE RInv'
    OBVIOUS
  <2>1. EvenInv'
    BY EvenStep DEF RInv
  <2>2. FillInv'
    <3>1. CASE Driver
      BY <3>1, FillOther, FillReadAsk, FillCheckRead, FillReadTake DEF Driver
    <3>2. CASE Command
      BY <3>2, FillOther
    <3>3. CASE Bmc
      BY <3>3, FillBmc
    <3>4. CASE UNCHANGED vars
      BY <3>4 DEF vars, RInv, FillInv, OwnResponse, Reading, ReadInv, Asking, Started, Ibf, Obf
    <3>5. QED
      BY <3>1, <3>2, <3>3, <3>4 DEF Next
  <2>3. QED
    BY <2>1, <2>2 DEF RInv
<1>3. RInv => OwnResponse
  BY DEF RInv, FillInv
<1>4. QED
  BY <1>1, <1>2, <1>3, Invariance, PTL DEF Spec
=============================================================================
