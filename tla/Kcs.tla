-------------------------------- MODULE Kcs ---------------------------------
(***************************************************************************)
(* The IPMI driver of KarlPkg (KarlPkg/Ipmi/Kcs): IpmiKcsCmd sends a       *)
(* request to the BMC and reads the response, byte by byte, through the    *)
(* registers of the KCS interface; it polls the status register with a     *)
(* time-out and leaves a failed transfer with KcsErrorExit.                *)
(*                                                                         *)
(* The BMC is external.  It takes what the driver writes whenever it likes *)
(* (or never), may answer after the driver has given up, may turn to the   *)
(* error state at any time, and may be absent, when the status register    *)
(* reads 0xFF.  No fairness is assumed of it.                              *)
(***************************************************************************)
EXTENDS Integers, Sequences

CONSTANTS
  Tries,          \* how often GetSelfTestResults sends its command
  MaxCommands,    \* bound: the commands of the self test and of clients
  RequestSize,    \* DataSize of KcsWriteDataToBmc
  ResponseSize,   \* DataSize of KcsReadDataFromBmc
  AnswerSizes,    \* how many bytes the BMC answers: at least a completion code
  KCS_RETRY_LIMIT

ASSUME KcsAssumption ==
  /\ Tries \in 1 .. MaxCommands /\ MaxCommands \in Nat
  /\ RequestSize \in 1 .. 255 /\ ResponseSize \in 1 .. 255
  /\ AnswerSizes \subseteq Nat \ {0} /\ KCS_RETRY_LIMIT \in Nat \ {0}

VARIABLES
  pc,         \* where the driver is: w_ KcsWriteDataToBmc, r_ KcsReadDataFromBmc, e_ KcsErrorExit
  i,          \* the byte of the loop (UINT8)
  seen,       \* KcsStatus.Bit.State as last polled, outside KcsErrorExit
  ret,        \* where KcsErrorExit returns to
  RetryCount,
  command,    \* the number of the command
  Times,      \* tries the self test has left
  result,     \* what the last command returned
  Response,   \* Instance->Response, which keeps its bytes from command to command
  aborted,    \* an error exit was made in this command
  bmc

vars == <<pc, i, seen, ret, RetryCount, command, Times, result, Response, aborted, bmc>>
local == <<command, Times, result>>

\* A byte is the command it belongs to and its place in the request or the answer.
NoByte == <<0, 0>>
Other  == <<0, 1>>     \* a status code or a dummy byte

KSC_CRTL_ABORT       == 96
KSC_CRTL_WRITE_START == 97
KSC_CRTL_WRITE_END   == 98
KSC_CRTL_READ        == 104

States == {"IDLE", "READ", "WRITE", "ERROR"}
Nothing == <<"none", NoByte>>

\* present: the BMC is there; state: the state bits; in: what was written to a register
\* and not yet taken (IBF); out: the byte in DATA_OUT, NoByte when OBF is clear;
\* busy: an answer is being prepared; ended, aborting: WRITE_END, ABORT was taken;
\* failed: it was in the error state in this transfer; got: the request so far; left: the
\* bytes of the answer not sent.
NewBmc(present) ==
  [present |-> present, state |-> "IDLE", in |-> Nothing, out |-> NoByte, busy |-> FALSE,
   ended |-> FALSE, aborting |-> FALSE, failed |-> FALSE, got |-> <<>>, left |-> <<>>]

Ibf == bmc.in # Nothing
Obf == bmc.out # NoByte

Init ==
  /\ pc = "idle" /\ i = 0 /\ seen = "IDLE" /\ ret = "idle" /\ RetryCount = 0
  /\ command = 0 /\ Times = Tries /\ result = "none" /\ aborted = FALSE
  /\ Response = [n \in 0 .. ResponseSize - 1 |-> NoByte]
  /\ bmc \in {NewBmc(TRUE), NewBmc(FALSE)}

-----------------------------------------------------------------------------
(***************************************************************************)
(* Register accesses and polling.                                          *)
(***************************************************************************)
IoWrite(register, byte) == bmc' = [bmc EXCEPT !.in = <<register, byte>>]
IoRead                  == bmc' = [bmc EXCEPT !.out = NoByte]
ReadByte                == IF Obf THEN bmc.out ELSE Other   \* what DATA_OUT holds

Request(n) == <<command, n>>

\* The polls.  KcsErrorExit has a KcsStatus of its own, so seen stays as it was.
WaitForIbfFalse(at) == pc = at /\ bmc.present /\ ~Ibf
WaitForObfTrue(at)  == pc = at /\ bmc.present /\ Obf
See                 == seen' = bmc.state

IbfWaits == {"w_ibf", "w_check", "r_ibf", "r_check", "e_ibf", "e_wait1", "e_wait2", "e_wait3"}
ObfWaits == {"r_obf", "e_obf1", "e_obf2"}

Return(status) == pc' = "return" /\ result' = status

\* A poll that gives up: the time-out, or 0xFF.  KcsErrorExit ignores its first one.
PollFails ==
  /\ pc \in IbfWaits \cup ObfWaits
  /\ ~bmc.present \/ (IF pc \in IbfWaits THEN Ibf ELSE ~Obf)
  /\ IF pc = "e_ibf" THEN pc' = "e_abort" /\ UNCHANGED result
     ELSE Return(IF bmc.present THEN "timeout" ELSE "device_error")
  /\ UNCHANGED <<i, seen, ret, RetryCount, command, Times, Response, aborted, bmc>>

-----------------------------------------------------------------------------
(***************************************************************************)
(* KcsErrorExit.                                                           *)
(***************************************************************************)
EnterErrorExit(to) == pc' = "e_ibf" /\ ret' = to /\ RetryCount' = 0 /\ aborted' = TRUE

ErrorFrame == UNCHANGED <<i, seen, command, Times, Response, aborted, ret>>

\* Mutant: a byte left in DATA_OUT is not read before the abort goes on.
MutErrorWait ==
  /\ \/ WaitForIbfFalse("e_ibf")   /\ pc' = "e_abort"
     \/ WaitForIbfFalse("e_wait1") /\ pc' = "e_zero"
     \/ WaitForIbfFalse("e_wait2") /\ bmc.state = "READ" /\ pc' = "e_obf1"
     \/ WaitForIbfFalse("e_wait3") /\ bmc.state = "IDLE" /\ pc' = "e_obf2"
     \/ WaitForObfTrue("e_obf1")   /\ pc' = "e_code"
     \/ WaitForObfTrue("e_obf2")   /\ pc' = "e_dummy"
  /\ ErrorFrame /\ UNCHANGED <<RetryCount, result, bmc>>

ErrorWait ==
  /\ \/ WaitForIbfFalse("e_ibf")   /\ pc' = "e_abort"
     \/ WaitForIbfFalse("e_wait1") /\ pc' = IF Obf THEN "e_clear" ELSE "e_zero"
     \/ WaitForIbfFalse("e_wait2") /\ bmc.state = "READ" /\ pc' = "e_obf1"
     \/ WaitForIbfFalse("e_wait3") /\ bmc.state = "IDLE" /\ pc' = "e_obf2"
     \/ WaitForObfTrue("e_obf1")   /\ pc' = "e_code"
     \/ WaitForObfTrue("e_obf2")   /\ pc' = "e_dummy"
  /\ ErrorFrame /\ UNCHANGED <<RetryCount, result, bmc>>

ErrorWrite ==
  /\ \/ pc = "e_abort" /\ IoWrite("command", <<0, KSC_CRTL_ABORT>>)    /\ pc' = "e_wait1"
     \/ pc = "e_zero"  /\ IoWrite("data", Other)                      /\ pc' = "e_wait2"
     \/ pc = "e_ack"   /\ IoWrite("data", <<0, KSC_CRTL_READ>>)        /\ pc' = "e_wait3"
  /\ ErrorFrame /\ UNCHANGED <<RetryCount, result>>

\* The byte in the way, the status code, and the dummy byte, behind which EFI_SUCCESS
\* is returned.
ErrorRead ==
  /\ \/ pc = "e_clear" /\ pc' = "e_zero"
     \/ pc = "e_code"  /\ pc' = "e_ack"
     \/ pc = "e_dummy" /\ pc' = ret
  /\ IoRead
  /\ ErrorFrame /\ UNCHANGED <<RetryCount, result>>

\* Mutant: the retries are not counted.
MutRetry ==
  /\ \/ WaitForIbfFalse("e_wait2") /\ bmc.state # "READ"
     \/ WaitForIbfFalse("e_wait3") /\ bmc.state # "IDLE"
  /\ pc' = "e_ibf"
  /\ ErrorFrame /\ UNCHANGED <<RetryCount, result, bmc>>

\* The BMC is not in the state it should be in.
Retry ==
  /\ \/ WaitForIbfFalse("e_wait2") /\ bmc.state # "READ"
     \/ WaitForIbfFalse("e_wait3") /\ bmc.state # "IDLE"
  /\ RetryCount' = RetryCount + 1
  /\ IF RetryCount' = KCS_RETRY_LIMIT THEN Return("device_error")
     ELSE pc' = "e_ibf" /\ UNCHANGED result
  /\ ErrorFrame /\ UNCHANGED bmc

-----------------------------------------------------------------------------
(***************************************************************************)
(* KcsWriteDataToBmc and KcsReadDataFromBmc, with KcsCheckStatus.          *)
(***************************************************************************)
WriteFrame == UNCHANGED <<ret, RetryCount, local, Response, aborted>>

\* What is left in DATA_OUT is read before WRITE_START.
WriteStart ==
  /\ \/ WaitForIbfFalse("w_ibf") /\ See /\ pc' = "w_flush" /\ UNCHANGED bmc
     \/ pc = "w_flush" /\ IoRead /\ pc' = "w_start" /\ UNCHANGED seen
     \/ /\ pc = "w_start" /\ pc' = "w_check"
        /\ IoWrite("command", <<command, KSC_CRTL_WRITE_START>>) /\ UNCHANGED seen
  /\ UNCHANGED i /\ WriteFrame

\* Mutant: IBF is not waited for.
MutCheckWrite ==
  /\ pc = "w_check" /\ bmc.present /\ seen' = bmc.state
  /\ IF bmc.state = "WRITE" THEN pc' = "w_clear" /\ UNCHANGED <<ret, RetryCount, aborted>>
     ELSE EnterErrorExit("w_next")
  /\ UNCHANGED <<i, local, Response, bmc>>

\* KcsCheckStatus of KSC_STATE_WRITE.
CheckWrite ==
  /\ WaitForIbfFalse("w_check") /\ See
  /\ IF bmc.state = "WRITE" THEN pc' = "w_clear" /\ UNCHANGED <<ret, RetryCount, aborted>>
     ELSE EnterErrorExit("w_next")
  /\ UNCHANGED <<i, local, Response, bmc>>

\* Mutant: DATA_OUT is not cleared.
MutClearObf == pc = "w_clear" /\ pc' = "w_next" /\ UNCHANGED <<i, seen, bmc>> /\ WriteFrame

ClearObf == pc = "w_clear" /\ IoRead /\ pc' = "w_next" /\ UNCHANGED <<i, seen>> /\ WriteFrame

\* Mutant: the last byte is left out.
MutWriteNext ==
  /\ pc = "w_next"
  /\ IF i < RequestSize - 1
     THEN IoWrite("data", Request(i)) /\ i' = (i + 1) % 256 /\ pc' = "w_check"
     ELSE IoWrite("command", <<0, KSC_CRTL_WRITE_END>>) /\ i' = 0 /\ pc' = "r_ibf"
  /\ UNCHANGED seen /\ WriteFrame

\* The next byte of the request, or WRITE_END and the return with EFI_SUCCESS.
WriteNext ==
  /\ pc = "w_next"
  /\ IF i < RequestSize
     THEN IoWrite("data", Request(i)) /\ i' = (i + 1) % 256 /\ pc' = "w_check"
     ELSE IoWrite("command", <<0, KSC_CRTL_WRITE_END>>) /\ i' = 0 /\ pc' = "r_ibf"
  /\ UNCHANGED seen /\ WriteFrame

ReadAsk ==
  /\ \/ WaitForIbfFalse("r_ibf") /\ See /\ pc' = "r_ask" /\ UNCHANGED bmc
     \/ pc = "r_ask" /\ IoWrite("data", <<0, KSC_CRTL_READ>>) /\ pc' = "r_check" /\ UNCHANGED seen
  /\ UNCHANGED i /\ WriteFrame

\* KcsCheckStatus of KSC_STATE_READ.
CheckRead ==
  /\ \/ /\ WaitForIbfFalse("r_check") /\ See
        /\ IF bmc.state \in {"READ", "IDLE"}
           THEN pc' = "r_obf" /\ UNCHANGED <<ret, RetryCount, aborted>>
           ELSE EnterErrorExit("r_take")
     \/ WaitForObfTrue("r_obf") /\ See /\ pc' = "r_take" /\ UNCHANGED <<ret, RetryCount, aborted>>
  /\ UNCHANGED <<i, local, Response, bmc>>

\* Mutant: one byte too many is asked for.
MutReadTake ==
  /\ pc = "r_take"
  /\ IF seen = "IDLE" THEN pc' = "complete" /\ UNCHANGED <<i, Response, bmc>>
     ELSE /\ IoRead /\ Response' = [Response EXCEPT ![i] = ReadByte]
          /\ i' = (i + 2) % 256
          /\ pc' = IF i' <= ResponseSize THEN "r_ask" ELSE "complete"
  /\ UNCHANGED <<seen, ret, RetryCount, local, aborted>>

\* The end of the answer, or a byte of it; the loop and Data[i++] both advance i.
ReadTake ==
  /\ pc = "r_take"
  /\ IF seen = "IDLE" THEN pc' = "complete" /\ UNCHANGED <<i, Response, bmc>>
     ELSE /\ IoRead /\ Response' = [Response EXCEPT ![i] = ReadByte]
          /\ i' = (i + 2) % 256
          /\ pc' = IF i' < ResponseSize THEN "r_ask" ELSE "complete"
  /\ UNCHANGED <<seen, ret, RetryCount, local, aborted>>

-----------------------------------------------------------------------------
(***************************************************************************)
(* IpmiKcsCmd, and who calls it.                                           *)
(***************************************************************************)
SelfTest == Times > 0

Command ==
  /\ pc = "idle" /\ command < MaxCommands
  /\ command' = command + 1 /\ pc' = "w_ibf" /\ i' = 0 /\ aborted' = FALSE
  /\ UNCHANGED <<seen, ret, RetryCount, Times, result, Response, bmc>>

\* The self test passes no buffer (Data is NULL), which counts when the completion code
\* is zero.
Complete ==
  /\ pc = "complete"
  /\ \/ Return("success")
     \/ SelfTest /\ Return("invalid_parameter")
  /\ UNCHANGED <<i, seen, ret, RetryCount, command, Times, Response, aborted, bmc>>

\* The return to GetSelfTestResults, which tries again, or to a client.
Returned ==
  /\ pc = "return" /\ pc' = "idle"
  /\ Times' = IF Times = 0 \/ result = "success" THEN 0 ELSE Times - 1
  /\ UNCHANGED <<i, seen, ret, RetryCount, command, result, Response, aborted, bmc>>

Driver ==
  \/ PollFails \/ ErrorWait \/ ErrorWrite \/ ErrorRead \/ Retry
  \/ WriteStart \/ CheckWrite \/ ClearObf \/ WriteNext
  \/ ReadAsk \/ CheckRead \/ ReadTake \/ Complete \/ Returned

-----------------------------------------------------------------------------
(***************************************************************************)
(* The BMC.                                                                *)
(***************************************************************************)
DriverUnchanged == UNCHANGED <<pc, i, seen, ret, RetryCount, local, Response, aborted>>

Take(new) == bmc' = [new EXCEPT !.in = Nothing]

\* The answer to the request that begins with byte b.
Answer(b, size) == [n \in 1 .. size |-> <<b[1], n - 1>>]

Failed == [bmc EXCEPT !.state = "ERROR", !.busy = FALSE, !.failed = TRUE]

BmcCommand ==
  /\ bmc.present /\ bmc.in[1] = "command"
  /\ LET code == bmc.in[2][2]
     IN  \/ /\ code = KSC_CRTL_WRITE_START
            /\ Take([bmc EXCEPT !.state = "WRITE", !.busy = FALSE, !.ended = FALSE,
                                !.aborting = FALSE, !.failed = FALSE, !.got = <<>>])
         \/ /\ code = KSC_CRTL_WRITE_END
            /\ Take(IF bmc.state = "WRITE" THEN [bmc EXCEPT !.ended = TRUE]
                    ELSE Failed)
         \/ /\ code = KSC_CRTL_ABORT
            /\ Take([bmc EXCEPT !.aborting = TRUE, !.busy = FALSE])
  /\ DriverUnchanged

\* A byte of the request; the one behind WRITE_END is the last, and the BMC works.
BmcRequest ==
  /\ bmc.present /\ bmc.in[1] = "data" /\ ~bmc.aborting /\ bmc.state = "WRITE"
  /\ IF bmc.ended
     THEN \E size \in AnswerSizes :
            Take([bmc EXCEPT !.state = "READ", !.busy = TRUE, !.ended = FALSE,
                  !.left = IF bmc.got = <<>> THEN <<>> ELSE Answer(bmc.got[1], size)])
     ELSE Take([bmc EXCEPT !.got = Append(@, bmc.in[2])])
  /\ DriverUnchanged

\* READ: the next byte of the answer will follow, or the end; data in another state is an
\* error; the byte behind ABORT is answered with the status code.
BmcData ==
  /\ bmc.present /\ bmc.in[1] = "data" /\ (bmc.aborting \/ bmc.state # "WRITE")
  /\ Take(IF bmc.aborting
          THEN [bmc EXCEPT !.aborting = FALSE, !.state = "READ", !.busy = TRUE,
                           !.left = <<>>, !.got = <<>>]
          ELSE IF bmc.state = "READ" /\ ~bmc.busy
          THEN [bmc EXCEPT !.busy = TRUE, !.state = IF bmc.left = <<>> THEN "IDLE" ELSE "READ"]
          ELSE Failed)
  /\ DriverUnchanged

\* A byte of the answer, the status code, or the dummy byte at the end.
BmcAnswer ==
  /\ bmc.present /\ bmc.busy
  /\ bmc' = IF bmc.left = <<>> THEN [bmc EXCEPT !.busy = FALSE, !.out = Other]
            ELSE [bmc EXCEPT !.busy = FALSE, !.out = Head(bmc.left), !.left = Tail(@)]
  /\ DriverUnchanged

BmcError ==
  /\ bmc.present /\ bmc.state # "ERROR"
  /\ bmc' = Failed
  /\ DriverUnchanged

Bmc == BmcCommand \/ BmcRequest \/ BmcData \/ BmcAnswer \/ BmcError

Next == Driver \/ Command \/ Bmc

\* The driver polls; every poll ends by KCS_TIME_OUT_LIMIT.
Spec == Init /\ [][Next]_vars /\ WF_vars(Driver)

-----------------------------------------------------------------------------
Reading == pc \in {"r_ask", "r_check", "r_obf", "r_take"}

\* Types, and the index of KcsReadDataFromBmc within the response when it is used.
KcsTypeOK ==
  /\ pc \in {"idle", "w_flush", "w_start", "w_clear", "w_next", "r_ask", "r_take", "e_abort",
             "e_zero", "e_ack", "e_clear", "e_code", "e_dummy", "complete", "return"}
            \cup IbfWaits \cup ObfWaits
  /\ i \in 0 .. 255 /\ (Reading => i < ResponseSize)
  /\ seen \in States /\ bmc.state \in States
  /\ ret \in {"idle", "w_next", "r_take"}
  /\ RetryCount \in 0 .. KCS_RETRY_LIMIT
  /\ command \in 0 .. MaxCommands /\ Times \in 0 .. Tries
  /\ result \in {"none", "success", "timeout", "device_error", "invalid_parameter"}
  /\ DOMAIN Response = 0 .. ResponseSize - 1

\* The driver writes to a register only when the BMC has taken what it wrote before;
\* only an abort may write over a byte, after a time-out.
NoOverrun == [][Ibf /\ bmc'.in # bmc.in => bmc'.in = Nothing \/ pc = "e_abort"]_vars

\* A byte that is read into the response belongs to the answer to this command, in order,
\* however late the BMC answers commands the driver has given up: what is left over in
\* DATA_OUT is never taken for an answer (unless the BMC failed in this transfer).
OwnResponse ==
  (Reading \/ pc = "complete") /\ ~aborted /\ ~bmc.failed =>
    \A n \in 0 .. i - 1 : n % 2 = 0 => Response[n] = <<command, n \div 2>>

\* After a successful KcsErrorExit nothing is on its way in either direction.
AbortDrains ==
  [][pc = "e_dummy" /\ pc' = ret => ~Ibf /\ ~bmc.busy /\ bmc'.out = NoByte]_vars

Received == bmc.got = [n \in 1 .. RequestSize |-> Request(n - 1)]

\* When KcsWriteDataToBmc returns EFI_SUCCESS without an abort, the BMC has the request.
ReceivedUnlessAborted == pc = "r_ibf" /\ ~aborted => Received

\* Every command returns, whatever the BMC does.
CommandReturns == pc # "idle" ~> pc = "idle"

\* "EFI_SUCCESS - Write the data successfully" (IpmiKcs.h): the BMC has the request.
SuccessMeansReceived == pc = "r_ibf" => Received
=============================================================================
