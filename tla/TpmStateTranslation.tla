------------------------ MODULE TpmStateTranslation ------------------------
(***************************************************************************)
(* TpmServiceStateTranslationLib: the TpmSst* calls that drive the TPM     *)
(* device, and the device itself as those calls see it.                    *)
(*                                                                         *)
(* A TpmSst call writes a device register and then polls, yielding the CPU *)
(* to the normal world between polls, so one call is many steps: between   *)
(* two polls the device may act and clients may write the shared CRB.  The *)
(* variable sst is the call in progress (the partition serves one message  *)
(* at a time).  A call gives up when a poll loop times out or when a yield *)
(* fails; the device may still act on the register afterwards.             *)
(***************************************************************************)
EXTENDS Integers

CONSTANTS
  NUM_LOCALITIES,  \* number of TPM localities (5 in the code)
  Commands,        \* TPM commands a client may place in a data buffer
  NoCommand,       \* what a zeroed buffer holds
  TpmKinds,        \* the interface types the device may report
  PollLimit,       \* yields before a poll loop times out (PTP_TIMEOUT_x / YIELD_AMOUNT)
  MaxGiveUps       \* bound: no call begins after more poll loops than this failed

ASSUME LocalityAssumption == NUM_LOCALITIES \in 1..255
ASSUME CommandAssumption == NoCommand \notin Commands
ASSUME KindAssumption == TpmKinds \subseteq [crb : BOOLEAN, bypass : BOOLEAN]
ASSUME PollAssumption == PollLimit \in Nat /\ MaxGiveUps \in Nat

VARIABLES
  mIsCrbInterface,         \* TRUE: CRB device, FALSE: FIFO device
  mIsIdleBypassSupported,  \* CapCRBIdleBypass of the device
  tpm,                     \* the device
  sst,                     \* the TpmSst call in progress
  giveUps                  \* history: poll loops that ended without their bits

sstVars == <<mIsCrbInterface, mIsIdleBypassSupported, tpm, sst, giveUps>>

Locality == 0 .. (NUM_LOCALITIES - 1)
NO_ACTIVE_LOCALITY == NUM_LOCALITIES

\* The control bits a client sets in a CRB, which are also the requests the
\* service forwards to the device.
CommandOps == {"cmdReady", "goIdle", "start"}
LocalityOps == {"request", "relinquish"}
Ops == CommandOps \cup LocalityOps

\* A data buffer is zeroed, holds a command, or the response to a command.
Buffer == [kind : {"zero", "cmd", "rsp"}, cmd : Commands \cup {NoCommand}]
Zeroed == [kind |-> "zero", cmd |-> NoCommand]
Command(c) == [kind |-> "cmd", cmd |-> c]
ResponseTo(b) == [kind |-> "rsp", cmd |-> b.cmd]

Phases == {"idle", "toReady", "ready", "complete", "toIdle"}
Stages == {"accept", "settle", "ready", "burst", "expect", "exec", "drain",
           "grant", "release", "none"}

NoCall == [op |-> "none", loc |-> 0, stage |-> "none", delay |-> 0, data |-> Zeroed]
Calling == sst.op # "none"

SstTypeOK ==
  /\ mIsCrbInterface \in BOOLEAN
  /\ mIsIdleBypassSupported \in BOOLEAN
  /\ tpm \in [phase : Phases, loc : Locality \cup {NO_ACTIVE_LOCALITY},
              pend : SUBSET (Ops \X Locality), expect : BOOLEAN, data : Buffer]
  /\ sst \in [op : Ops \cup {"none"}, loc : Locality, stage : Stages,
              delay : 0 .. PollLimit, data : Buffer]
  /\ giveUps \in Nat

\* TpmSstInit reads the interface type and the idle-bypass bit.
TpmSstInit ==
  /\ \E k \in TpmKinds : mIsCrbInterface = k.crb /\ mIsIdleBypassSupported = k.bypass
  /\ tpm = [phase |-> "idle", loc |-> NO_ACTIVE_LOCALITY, pend |-> {},
            expect |-> FALSE, data |-> Zeroed]
  /\ sst = NoCall
  /\ giveUps = 0

-----------------------------------------------------------------------------
(***************************************************************************)
(* The device (external: modelled from the registers the library writes    *)
(* and polls).  pend holds register writes it has not acted on yet.        *)
(***************************************************************************)

\* A write that asks for what already holds leaves nothing for the device to do.
NothingToDo(op, l) ==
  CASE op = "request" -> tpm.loc = l
    [] op = "relinquish" -> tpm.loc # l
    [] op \in {"cmdReady", "goIdle"} -> ~mIsCrbInterface /\ tpm.phase = "ready"
    [] OTHER -> FALSE

Written(d, op, l) ==
  IF NothingToDo(op, l) THEN d ELSE [d EXCEPT !.pend = @ \cup {<<op, l>>}]

\* The phase a command write takes the device to; a start outside the phases
\* that accept one is dropped.
PhaseAfter(op) ==
  CASE op = "cmdReady" ->
         IF mIsCrbInterface /\ tpm.phase \in {"idle", "toReady", "toIdle"}
         THEN "toReady" ELSE "ready"
    [] op = "goIdle" ->
         IF ~mIsCrbInterface THEN "ready"
         ELSE IF tpm.phase = "idle" THEN "idle" ELSE "toIdle"
    [] OTHER -> "complete"

Executes == \/ tpm.phase = "ready"
            \/ tpm.phase = "complete" /\ mIsIdleBypassSupported

\* The device acts on a pending command write of the locality it granted, and
\* drops one of any other locality.  Its own buffer is empty when it is ready or idle.
TpmActsOnCommand ==
  \E op \in CommandOps, l \in Locality :
    /\ <<op, l>> \in tpm.pend
    /\ LET d == [tpm EXCEPT !.pend = @ \ {<<op, l>>}]
       IN  tpm' = IF tpm.loc # l \/ (op = "start" /\ ~Executes)
                  THEN d
                  ELSE [d EXCEPT !.phase = PhaseAfter(op),
                                 !.data = IF op = "start" THEN ResponseTo(@) ELSE Zeroed]
    /\ UNCHANGED <<mIsCrbInterface, mIsIdleBypassSupported, sst, giveUps>>

\* A CRB device clears the request bit before its idle status follows.
TpmSettles ==
  /\ tpm.phase \in {"toReady", "toIdle"}
  /\ tpm' = [tpm EXCEPT !.phase = IF @ = "toReady" THEN "ready" ELSE "idle"]
  /\ UNCHANGED <<mIsCrbInterface, mIsIdleBypassSupported, sst, giveUps>>

\* Access is granted once no other locality holds it.
TpmActsOnLocality ==
  \E l \in Locality :
    /\ \/ /\ <<"request", l>> \in tpm.pend
          /\ tpm.loc \in {l, NO_ACTIVE_LOCALITY}
          /\ tpm' = [tpm EXCEPT !.loc = l, !.pend = @ \ {<<"request", l>>}]
       \/ /\ <<"relinquish", l>> \in tpm.pend
          /\ tpm' = [tpm EXCEPT !.loc = IF @ = l THEN NO_ACTIVE_LOCALITY ELSE @,
                                !.pend = @ \ {<<"relinquish", l>>}]
    /\ UNCHANGED <<mIsCrbInterface, mIsIdleBypassSupported, sst, giveUps>>

TpmStep == TpmActsOnCommand \/ TpmSettles \/ TpmActsOnLocality

-----------------------------------------------------------------------------
(***************************************************************************)
(* The calls.                                                              *)
(***************************************************************************)

\* The first poll loop of a call, and the one after a loop that succeeded.
FirstStage(op) ==
  CASE op \in {"cmdReady", "goIdle"} -> IF mIsCrbInterface THEN "accept" ELSE "ready"
    [] op = "start" -> IF mIsCrbInterface THEN "exec" ELSE "burst"
    [] op = "request" -> "grant"
    [] OTHER -> "release"

\* Fault variant: TpmSstCmdReady and TpmSstGoIdle return once the request bit clears.
NextStageNoSettle(stage) ==
  CASE stage = "burst" -> "expect"
    [] stage = "expect" -> "exec"
    [] stage = "exec" -> IF mIsCrbInterface THEN "none" ELSE "drain"
    [] OTHER -> "none"

NextStage(stage) ==
  CASE stage = "accept" -> "settle"
    [] stage = "burst" -> "expect"
    [] stage = "expect" -> "exec"
    [] stage = "exec" -> IF mIsCrbInterface THEN "none" ELSE "drain"
    [] OTHER -> "none"

\* Entering TpmSstCmdReady, TpmSstGoIdle, TpmSstLocalityRequest,
\* TpmSstLocalityRelinquish or TpmSstStart: the register write before the first
\* poll.  TpmSstStart snapshots the CRB buffer; on a CRB device the command is
\* copied and started at once, on a FIFO device it is sent by bursts first.
TpmSstBegin(op, l, buf) ==
  /\ giveUps <= MaxGiveUps
  /\ sst' = [op |-> op, loc |-> l, stage |-> FirstStage(op), delay |-> 0,
             data |-> IF op = "start" THEN buf ELSE Zeroed]
  /\ tpm' = IF op # "start" THEN Written(tpm, op, l)
            ELSE IF mIsCrbInterface THEN Written([tpm EXCEPT !.data = buf], op, l)
            ELSE tpm
  /\ UNCHANGED <<mIsCrbInterface, mIsIdleBypassSupported, giveUps>>

\* The register bits the current poll loop waits for.
TpmIdleBit == tpm.phase \in {"idle", "toReady"}

\* Fault variant: StartCommand does not wait for the end of the command.
WaitRegisterBitsNoExec ==
  CASE sst.stage = "accept" -> <<sst.op, sst.loc>> \notin tpm.pend
    [] sst.stage = "settle" -> (sst.op = "goIdle") = TpmIdleBit
    [] sst.stage = "ready" -> tpm.phase = "ready"
    [] sst.stage = "expect" -> ~tpm.expect
    [] sst.stage = "exec" -> TRUE
    [] sst.stage = "grant" -> tpm.loc = sst.loc
    [] OTHER -> tpm.loc # sst.loc

\* Fault variant: TpmSstCmdReady and TpmSstGoIdle look at the idle status alone.
WaitRegisterBitsNoAccept ==
  CASE sst.stage = "accept" -> TRUE
    [] sst.stage = "settle" -> (sst.op = "goIdle") = TpmIdleBit
    [] sst.stage = "ready" -> tpm.phase = "ready"
    [] sst.stage = "expect" -> ~tpm.expect
    [] sst.stage = "exec" -> IF mIsCrbInterface THEN <<"start", sst.loc>> \notin tpm.pend
                                                ELSE tpm.phase = "complete"
    [] sst.stage = "grant" -> tpm.loc = sst.loc
    [] OTHER -> tpm.loc # sst.loc

WaitRegisterBits ==
  CASE sst.stage = "accept" -> <<sst.op, sst.loc>> \notin tpm.pend
    [] sst.stage = "settle" -> (sst.op = "goIdle") = TpmIdleBit
    [] sst.stage = "ready" -> tpm.phase = "ready"
    [] sst.stage = "expect" -> ~tpm.expect
    [] sst.stage = "exec" -> IF mIsCrbInterface THEN <<"start", sst.loc>> \notin tpm.pend
                                                ELSE tpm.phase = "complete"
    [] sst.stage = "grant" -> tpm.loc = sst.loc
    [] OTHER -> tpm.loc # sst.loc

\* A FIFO device offers room for command bytes or holds response bytes.
FifoReadBurstCount ==
  IF sst.stage = "burst"
  THEN tpm.phase = "ready" \/ (tpm.phase = "complete" /\ mIsIdleBypassSupported)
  ELSE tpm.phase = "complete"

BurstStage == sst.stage \in {"burst", "drain"}

\* What the poll may read: a burst count can be zero at any time.
PollFinds(bits) ==
  IF BurstStage THEN bits => FifoReadBurstCount ELSE bits = WaitRegisterBits

\* The poll found its bits and another poll loop of the call follows: CopyCommandData
\* has sent all bytes, then waits for EXPECT to clear; StartCommand then sets GO.
SstNextLoop ==
  /\ Calling
  /\ PollFinds(TRUE)
  /\ NextStage(sst.stage) # "none"
  /\ sst' = [sst EXCEPT !.stage = NextStage(@), !.delay = 0]
  /\ tpm' = CASE sst.stage = "burst" -> [tpm EXCEPT !.data = sst.data, !.expect = FALSE,
                                                    !.phase = "ready"]
              [] sst.stage = "expect" -> Written(tpm, "start", sst.loc)
              [] OTHER -> tpm
  /\ UNCHANGED <<mIsCrbInterface, mIsIdleBypassSupported, giveUps>>

\* Fault variant: the time is compared with > instead of >=.
SstYieldOffByOne ==
  /\ Calling
  /\ PollFinds(FALSE)
  /\ sst.delay <= PollLimit
  /\ sst' = [sst EXCEPT !.delay = @ + 1]
  /\ UNCHANGED <<mIsCrbInterface, mIsIdleBypassSupported, tpm, giveUps>>

\* Fault variant: no timeout, and the elapsed time wraps around.
SstYieldNoTimeout ==
  /\ Calling
  /\ PollFinds(FALSE)
  /\ sst' = [sst EXCEPT !.delay = (@ + 1) % (PollLimit + 1)]
  /\ UNCHANGED <<mIsCrbInterface, mIsIdleBypassSupported, tpm, giveUps>>

\* The bits are missing and the time is not up: ArmFfaLibYield, then poll again.
SstYield ==
  /\ Calling
  /\ PollFinds(FALSE)
  /\ sst.delay < PollLimit
  /\ sst' = [sst EXCEPT !.delay = @ + 1]
  /\ UNCHANGED <<mIsCrbInterface, mIsIdleBypassSupported, tpm, giveUps>>

\* The poll loop ends without its bits: EFI_TIMEOUT when the time is up, or the
\* error of a failed yield before that.
PollFails == PollFinds(FALSE)

\* CopyCommandData drops the error of FifoReadBurstCount: it leaves the byte loop
\* and its status is overwritten by the wait for EXPECT.  The device may hold all,
\* some or none of the command.
SstBurstFails ==
  /\ Calling
  /\ sst.stage = "burst"
  /\ PollFails
  /\ sst' = [sst EXCEPT !.stage = "expect", !.delay = 0]
  /\ \E expect \in BOOLEAN, data \in {tpm.data, sst.data} :
       tpm' = [tpm EXCEPT !.expect = expect, !.data = data]
  /\ giveUps' = giveUps + 1
  /\ UNCHANGED <<mIsCrbInterface, mIsIdleBypassSupported>>

\* Returning from the call: EFI_SUCCESS after the last loop, else the error of
\* the loop that failed.
TpmSstReturns(success) ==
  /\ Calling
  /\ IF success
     THEN PollFinds(TRUE) /\ NextStage(sst.stage) = "none"
     ELSE PollFails /\ sst.stage # "burst"
  /\ sst' = NoCall
  /\ giveUps' = IF success THEN giveUps ELSE giveUps + 1
  /\ UNCHANGED <<mIsCrbInterface, mIsIdleBypassSupported, tpm>>

\* The bytes TpmSstStart copies back to the CRB buffer on success.
CopyResponseData == tpm.data
=============================================================================
