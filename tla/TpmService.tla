---------------------------- MODULE TpmService ----------------------------
(***************************************************************************)
(* TpmServiceLib: the TPM service of the secure partition.  It owns one    *)
(* internal CRB per locality in memory shared with the normal world.       *)
(* Clients set control bits and fill the data buffer of a CRB at any time, *)
(* then send a Start message; TF-A opens and closes localities.  The       *)
(* service forwards each request to the device (TpmStateTranslation) and   *)
(* cleans the active CRB when it answers.                                  *)
(***************************************************************************)
EXTENDS TpmStateTranslation, FiniteSets

CONSTANTS
  LocalityArgs,  \* values of Arg2 in messages (UINT64, truncated to UINT8)
  SourceIds,     \* FF-A partition ids that send messages
  MaxBits        \* bound: control bits set in all CRBs together

ASSUME ArgAssumption == LocalityArgs \subseteq Nat /\ SourceIds \subseteq 0 .. 65535

VARIABLES
  mCurrentState,    \* the service's view of the TPM's state
  mActiveLocality,  \* the locality in use, or NO_ACTIVE_LOCALITY
  mLocalityStates,  \* open or closed, as TF-A says
  crb,              \* the internal CRB of every locality
  response          \* Arg0 of the last response, or "none" while one is due

svcVars == <<mCurrentState, mActiveLocality, mLocalityStates, crb, response>>
vars == <<svcVars, sstVars>>

TpmStates == {"IDLE", "READY", "COMPLETE"}

\* Of the status codes only success and failure are told apart: "ERROR" stands
\* for INVARG, DENIED, NOMEM, NOTSUP and NOFUNC.
Statuses == {"OK", "ERROR", "none"}

\* Of a CRB: the control bits its client has set (LocalityControl,
\* CrbControlRequest, CrbControlStart), whether LocalityState and LocalityStatus
\* show the locality granted, the tpmIdle bit of CrbControlStatus, the buffer.
InternalCrb == [bits : SUBSET Ops, granted : BOOLEAN, idle : BOOLEAN, buffer : Buffer]

TypeOK ==
  /\ SstTypeOK
  /\ mCurrentState \in TpmStates
  /\ mActiveLocality \in Locality \cup {NO_ACTIVE_LOCALITY}
  /\ mLocalityStates \in [Locality -> {"OPEN", "CLOSED"}]
  /\ crb \in [Locality -> InternalCrb]
  /\ response \in Statuses

-----------------------------------------------------------------------------
InitInternalCrb == [bits |-> {}, granted |-> FALSE, idle |-> TRUE, buffer |-> Zeroed]

\* Fault variant: the tpmIdle bit is not brought up to date.
CleanInternalCrbKeepsIdle(crbs, active, state) ==
  IF active = NO_ACTIVE_LOCALITY THEN crbs
  ELSE [crbs EXCEPT ![active] = [@ EXCEPT !.bits = {}, !.granted = TRUE]]

\* The registers of the active CRB after CleanInternalCrb, given the state then
\* current; the buffer stays.  Without an active locality nothing is cleaned.
CleanInternalCrb(crbs, active, state) ==
  IF active = NO_ACTIVE_LOCALITY THEN crbs
  ELSE [crbs EXCEPT ![active] = [bits |-> {}, granted |-> TRUE,
                                 idle |-> (state = "IDLE"), buffer |-> @.buffer]]

\* TpmServiceInit, in a partition that has just booted.
Init ==
  /\ TpmSstInit
  /\ mCurrentState = "IDLE"
  /\ mActiveLocality = NO_ACTIVE_LOCALITY
  /\ mLocalityStates = [l \in Locality |-> "CLOSED"]
  /\ crb = [l \in Locality |-> InitInternalCrb]
  /\ response = "none"

-----------------------------------------------------------------------------
(***************************************************************************)
(* Clients: the shared memory is theirs to write whenever they like, also  *)
(* while the service waits for the device.                                 *)
(***************************************************************************)

BitsSet == UNION {crb[l].bits \X {l} : l \in Locality}

ClientSetsBit(l, bit) ==
  /\ bit \notin crb[l].bits
  /\ Cardinality(BitsSet) < MaxBits
  /\ crb' = [crb EXCEPT ![l].bits = @ \cup {bit}]
  /\ UNCHANGED <<mCurrentState, mActiveLocality, mLocalityStates, response, sstVars>>

ClientFillsBuffer(l, c) ==
  /\ crb' = [crb EXCEPT ![l].buffer = Command(c)]
  /\ UNCHANGED <<mCurrentState, mActiveLocality, mLocalityStates, response, sstVars>>

-----------------------------------------------------------------------------
(***************************************************************************)
(* The Start message.                                                      *)
(***************************************************************************)

\* Fault variant: COMPLETE goes on to READY or another command without idle bypass.
HandleCommandNoBypassCheck ==
  LET bits == crb[mActiveLocality].bits IN
  IF mCurrentState = "IDLE" THEN IF "cmdReady" \in bits THEN "cmdReady" ELSE "refuse"
  ELSE IF "goIdle" \in bits THEN "goIdle"
  ELSE IF "cmdReady" \in bits THEN "cmdReady"
  ELSE IF "start" \in bits THEN "start" ELSE "refuse"

\* The device request HandleCommand makes for the active CRB, or "refuse".
HandleCommand ==
  LET bits == crb[mActiveLocality].bits IN
  CASE mCurrentState = "IDLE" ->
         IF "cmdReady" \in bits THEN "cmdReady" ELSE "refuse"
    [] mCurrentState # "IDLE" /\ "goIdle" \in bits -> "goIdle"
    [] mCurrentState # "IDLE" /\ "goIdle" \notin bits ->
         IF mCurrentState = "COMPLETE" /\ ~mIsIdleBypassSupported THEN "refuse"
         ELSE IF "cmdReady" \in bits THEN "cmdReady"
         ELSE IF "start" \in bits THEN "start" ELSE "refuse"

\* The device request HandleLocalityRequest makes for locality l, or "refuse".
\* A relinquish bit is looked at before a request bit.
HandleLocalityRequest(l) ==
  IF "relinquish" \in crb[l].bits
  THEN IF l = mActiveLocality THEN "relinquish" ELSE "refuse"
  ELSE IF "request" \in crb[l].bits /\ mActiveLocality \in {NO_ACTIVE_LOCALITY, l}
       THEN "request" ELSE "refuse"

\* Fault variant: a locality may be requested and relinquished while it is closed.
StartDecisionClosedLocality(func, l) ==
  IF l >= NUM_LOCALITIES THEN "refuse"
  ELSE IF func = "LOCALITY" THEN HandleLocalityRequest(l)
  ELSE IF mLocalityStates[l] = "CLOSED" THEN "refuse"
  ELSE IF func = "COMMAND" /\ l = mActiveLocality THEN HandleCommand ELSE "refuse"

\* What StartHandler does with a message: a device request, or "refuse" for an
\* invalid or closed locality, a command of a locality that is not active, an
\* unknown function or bits that ask for nothing allowed.
StartDecision(func, l) ==
  IF l >= NUM_LOCALITIES THEN "refuse"
  ELSE IF mLocalityStates[l] = "CLOSED" THEN "refuse"
  ELSE IF func = "COMMAND"
       THEN IF l = mActiveLocality THEN HandleCommand ELSE "refuse"
  ELSE IF func = "LOCALITY" THEN HandleLocalityRequest(l)
  ELSE "refuse"

Truncated(arg) == arg % 256

\* StartHandler refuses: it still cleans the active CRB, whoever sent the message.
StartRefused(func, arg) ==
  /\ ~Calling
  /\ StartDecision(func, Truncated(arg)) = "refuse"
  /\ response' = "ERROR"
  /\ crb' = CleanInternalCrb(crb, mActiveLocality, mCurrentState)
  /\ UNCHANGED <<mCurrentState, mActiveLocality, mLocalityStates, sstVars>>

\* StartHandler enters the TpmSst call it decided on.
StartForwarded(func, arg) ==
  LET l == Truncated(arg) IN
  /\ ~Calling
  /\ StartDecision(func, l) # "refuse"
  /\ TpmSstBegin(StartDecision(func, l), l, crb[l].buffer)
  /\ response' = "none"
  /\ UNCHANGED <<mCurrentState, mActiveLocality, mLocalityStates, crb>>

StartHandler(func, arg) == StartRefused(func, arg) \/ StartForwarded(func, arg)

\* The TpmSst call succeeds and the handler ends: the state HandleCommand moves
\* to, the locality HandleLocalityRequest makes active, and the CRBs cleaned.
StateAfter(op) ==
  CASE op = "cmdReady" -> "READY"
    [] op = "goIdle" -> "IDLE"
    [] op = "start" -> "COMPLETE"
    [] OTHER -> mCurrentState

ActiveAfter(op) ==
  CASE op = "request" -> sst.loc
    [] op = "relinquish" -> NO_ACTIVE_LOCALITY
    [] OTHER -> mActiveLocality

\* Fault variant: a relinquished locality's CRB is not initialised.
CrbAfterNoInit(op, l) ==
  CASE op = "request" -> InitInternalCrb
    [] op = "start" -> [crb[l] EXCEPT !.buffer = CopyResponseData]
    [] op \in {"cmdReady", "goIdle"} /\ mCurrentState = "COMPLETE" ->
         [crb[l] EXCEPT !.buffer = Zeroed]
    [] OTHER -> crb[l]

\* Fault variant: the buffer survives COMPLETE.
CrbAfterNoClear(op, l) ==
  CASE op \in LocalityOps -> InitInternalCrb
    [] op = "start" -> [crb[l] EXCEPT !.buffer = CopyResponseData]
    [] OTHER -> crb[l]

\* The buffer is cleared when the TPM leaves COMPLETE, replaced by the response
\* after a command, and the whole CRB initialised when its locality changes hands.
CrbAfter(op, l) ==
  CASE op \in LocalityOps -> InitInternalCrb
    [] op = "start" -> [crb[l] EXCEPT !.buffer = CopyResponseData]
    [] OTHER -> IF mCurrentState = "COMPLETE"
                THEN [crb[l] EXCEPT !.buffer = Zeroed] ELSE crb[l]

StartSucceeds ==
  /\ TpmSstReturns(TRUE)
  /\ mCurrentState' = StateAfter(sst.op)
  /\ mActiveLocality' = ActiveAfter(sst.op)
  /\ crb' = CleanInternalCrb([crb EXCEPT ![sst.loc] = CrbAfter(sst.op, sst.loc)],
                             ActiveAfter(sst.op), StateAfter(sst.op))
  /\ response' = "OK"
  /\ UNCHANGED mLocalityStates

\* Fault variant: the state moves whatever the status of the TpmSst call.
StartFailsButMoves ==
  /\ TpmSstReturns(FALSE)
  /\ mCurrentState' = StateAfter(sst.op)
  /\ crb' = CleanInternalCrb(crb, mActiveLocality, StateAfter(sst.op))
  /\ response' = "ERROR"
  /\ UNCHANGED <<mActiveLocality, mLocalityStates>>

\* The TpmSst call fails: ConvertEfiToTpmStatus turns a timeout or a yield error
\* into DENIED, nothing moves, and the active CRB is cleaned all the same.
StartFails ==
  /\ TpmSstReturns(FALSE)
  /\ crb' = CleanInternalCrb(crb, mActiveLocality, mCurrentState)
  /\ response' = "ERROR"
  /\ UNCHANGED <<mCurrentState, mActiveLocality, mLocalityStates>>

-----------------------------------------------------------------------------
(***************************************************************************)
(* The other messages.                                                     *)
(***************************************************************************)

FromTfa(source) == source \div 256 = 255

\* ManageLocalityHandler: TF-A opens or closes a locality, active or not; any
\* other sender, locality or operation is refused.
ManageLocalityHandler(source, operation, arg) ==
  LET l == Truncated(arg)
      valid == /\ FromTfa(source)
               /\ l < NUM_LOCALITIES
               /\ operation \in {"OPEN", "CLOSED"}
  IN
  /\ ~Calling
  /\ mLocalityStates' = IF valid THEN [mLocalityStates EXCEPT ![l] = operation]
                                 ELSE mLocalityStates
  /\ response' = IF valid THEN "OK" ELSE "ERROR"
  /\ UNCHANGED <<mCurrentState, mActiveLocality, crb, sstVars>>

\* GetInterfaceVersion answers with the version; the notification ABIs are not
\* supported and any other opcode is unknown.
AnswerOnly(opcode) ==
  /\ ~Calling
  /\ response' = IF opcode = "GET_INTERFACE_VERSION" THEN "OK" ELSE "ERROR"
  /\ UNCHANGED <<mCurrentState, mActiveLocality, mLocalityStates, crb, sstVars>>

AnswerOnlyOpcodes ==
  {"GET_INTERFACE_VERSION", "GET_FEATURE_INFO", "REGISTER", "UNREGISTER", "FINISH", "INVALID"}

\* TpmServiceHandle serves one message at a time.
StartMessages ==
  \E func \in {"COMMAND", "LOCALITY", "INVALID"}, arg \in LocalityArgs :
    StartHandler(func, arg)

OtherMessages ==
  \/ \E source \in SourceIds, operation \in {"OPEN", "CLOSED", "INVALID"},
        arg \in LocalityArgs : ManageLocalityHandler(source, operation, arg)
  \/ \E opcode \in AnswerOnlyOpcodes : AnswerOnly(opcode)

TpmServiceHandle == StartMessages \/ OtherMessages

\* The TpmSst call in progress goes on.
HandlerStep ==
  \/ (SstNextLoop \/ SstYield \/ SstBurstFails) /\ UNCHANGED svcVars
  \/ StartSucceeds
  \/ StartFails

ClientStep ==
  \/ \E l \in Locality, bit \in Ops : ClientSetsBit(l, bit)
  \/ \E l \in Locality, c \in Commands : ClientFillsBuffer(l, c)

Next ==
  \/ ClientStep
  \/ TpmServiceHandle
  \/ HandlerStep
  \/ TpmStep /\ UNCHANGED svcVars

Spec == Init /\ [][Next]_vars

\* The partition that yielded is resumed and polls again; neither the device nor
\* any client owes a step.
FairSpec == Spec /\ WF_vars(HandlerStep)

-----------------------------------------------------------------------------
(***************************************************************************)
(* Properties.                                                             *)
(***************************************************************************)

\* What a client reads in any CRB is what the service will act on: exactly the
\* active locality's CRB shows access granted, and its tpmIdle bit says whether the
\* next Start is served from IDLE - also after a locality was relinquished in READY
\* or COMPLETE and another one took over (HandleLocalityRequest, CleanInternalCrb).
ShownStateAgrees ==
  \A l \in Locality :
    /\ crb[l].granted = (l = mActiveLocality)
    /\ crb[l].idle = (l = mActiveLocality => mCurrentState = "IDLE")

\* A response is visible only in the CRB of the active locality and only while the
\* service is COMPLETE: it is gone once the TPM leaves COMPLETE (HandleCommand's
\* SetMem) and once the locality changes hands (InitInternalCrb), so no locality
\* ever finds another's response or an old one of its own.
ResponseOnlyWhileComplete ==
  \A l \in Locality : crb[l].buffer.kind = "rsp" =>
    l = mActiveLocality /\ mCurrentState = "COMPLETE"

\* What StartHandler checked before it entered the TpmSst call still holds while the
\* call waits: nothing but the call itself changes the state or the active locality.
\* The other invariants and the refinement need it at the step where a call returns.
CallJustified ==
  Calling =>
    /\ sst.op \in CommandOps \cup {"relinquish"} => sst.loc = mActiveLocality
    /\ sst.op = "request" => mActiveLocality \in {NO_ACTIVE_LOCALITY, sst.loc}
    /\ sst.op \in CommandOps /\ mCurrentState = "IDLE" => sst.op = "cmdReady"
    /\ sst.op \in CommandOps /\ mCurrentState = "COMPLETE" =>
         sst.op = "goIdle" \/ mIsIdleBypassSupported

\* As long as no poll loop has given up, the device is, between messages, in the
\* state and at the locality the service believes (each TpmSst call's waits).
TpmAgrees ==
  giveUps = 0 /\ ~Calling =>
    /\ tpm.loc = mActiveLocality
    /\ mCurrentState = "IDLE" => tpm.phase \in (IF mIsCrbInterface THEN {"idle"}
                                                ELSE {"idle", "ready"})
    /\ mCurrentState = "READY" => tpm.phase = "ready"
    /\ mCurrentState = "COMPLETE" => tpm.phase = "complete"

\* As long as no poll loop has given up, a start that succeeds leaves in the CRB of
\* its locality the response to the bytes that were there when the message arrived,
\* whatever the client wrote to that buffer meanwhile (TpmSstStart's local copy).
ResponseIsForCommand ==
  [][sst.op = "start" /\ ~Calling' /\ response' = "OK" /\ giveUps = 0
       => crb'[sst.loc].buffer = ResponseTo(sst.data)]_vars

\* As long as no poll loop has given up, the only register write the device may still
\* have to act on is that of the call in progress, for an open locality: once a message
\* is answered, another client takes over or TF-A closes a locality, nothing that was
\* asked before is still to come (the waits of the TpmSst calls; StartHandler;
\* ManageLocalityHandler).
NoWriteLeftBehind ==
  giveUps = 0 =>
    \A w \in tpm.pend : Calling /\ w = <<sst.op, sst.loc>> /\ mLocalityStates[w[2]] = "OPEN"

\* Closing the active locality freezes the service: from the moment TF-A closes it until
\* it is opened again no request to the device is in progress or begun, for any locality,
\* and neither the state nor the active locality changes - not even its own client can
\* relinquish it (StartHandler, ManageLocalityHandler).
ClosedLocalityFrozen ==
  [][mActiveLocality # NO_ACTIVE_LOCALITY /\ mLocalityStates[mActiveLocality] = "CLOSED" =>
       UNCHANGED <<mCurrentState, mActiveLocality>> /\ ~Calling /\ ~Calling']_vars

\* The service implements the abstract machine: exclusive localities and only the
\* documented state changes, at whatever step of whichever call they happen, and none
\* for a Start that is refused or fails, after however many poll loops (HandleCommand,
\* HandleLocalityRequest).
Machine == INSTANCE TpmStateMachine
             WITH Owners <- Locality, NoOwner <- NO_ACTIVE_LOCALITY,
                  state <- mCurrentState, owner <- mActiveLocality,
                  bypass <- mIsIdleBypassSupported,
                  Answers <- Statuses, Success <- "OK", answer <- response

ImplementsMachine == Machine!Spec

\* Every device request ends and is answered, even when the device never reacts:
\* each poll loop is bounded (WaitRegisterBits, FifoReadBurstCount).
EveryCallReturns == Calling ~> ~Calling
=============================================================================
