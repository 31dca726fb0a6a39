---------------------------- MODULE FfaPartition ----------------------------
(***************************************************************************)
(* A secure partition with the notification, test and TPM services: the    *)
(* direct messages that reach it through ArmFfaLibEx, and the events it    *)
(* raises.                                                                 *)
(*                                                                         *)
(* The SPMC hands a partition one request at a time.  The partition waits  *)
(* for it in FfaMessageWait, or in the call that sent its last response;   *)
(* both calls first serve the interrupts that arrive.  Clients are a peer  *)
(* partition that uses FfaMessageSendDirectReq2, a caller of version 1     *)
(* messages, and the test application of FfaPartitionTestApp.  The SPMC    *)
(* and the partition's main loop are not part of the repository: they are  *)
(* modelled from the calls made and the results handled.                   *)
(***************************************************************************)
EXTENDS NotificationService, ArmFfaLibEx

CONSTANTS
  SP_ID, PEER_ID, LEGACY_ID, APP_ID,   \* endpoint IDs
  NotificationGuid, TestGuid, Tpm2Guid,
  PeerRequests,     \* the <<GUID, arguments>> the peer sends
  LegacyArgs,       \* the arguments of version 1 requests
  MaxDisturbances   \* bound on the interrupts and wake-ups of partitions, the requests of the
                    \* peer and the version 1 caller, and the calls that fail, together

ASSUME EndpointAssumption ==
  /\ {SP_ID, PEER_ID, LEGACY_ID, APP_ID} \subseteq 0 .. (INVALID_SOURCE_ID - 1)
  /\ PEER_ID # APP_ID
ASSUME RequestAssumption ==
  /\ IsGuid(NotificationGuid) /\ IsGuid(TestGuid) /\ IsGuid(Tpm2Guid)
  /\ NotificationGuid \notin {TestGuid, Tpm2Guid} /\ TestGuid # Tpm2Guid
  /\ \A r \in PeerRequests :
       IsGuid(r[1]) /\ r[2] = [a \in Args |-> r[2][a]] /\ r[2][5][0] \in Nat
\* The mappings of a request are in Arg7 to Arg13.
ASSUME WidthAssumption == INT_BITS = UINT32_BITS /\ MAPPING_MAX <= 7
ASSUME BoundAssumption == MaxDisturbances \in Nat

VARIABLES
  spPc,          \* where the partition's main loop is
  msg,           \* its buffer for incoming messages
  peerPc,        \* where the peer's FfaMessageSendDirectReq2 is
  mPartitionId,  \* the library's variable in every image that links it
  client,        \* SPMC: whose request is open
  request,       \* SPMC: that request, as its sender filled it in
  answer,        \* SPMC: the registers of the response
  bitmapCreated, \* SPMC: the application has a notification bitmap
  bound,         \* SPMC: its bits that are bound to the partition
  pending,       \* SPMC: the bits raised and not fetched
  sri,           \* SPMC: the schedule receiver interrupt is pending
  raised,        \* history: the bits of the events accepted for the application
  faults,        \* the names of the calls that failed
  disturbances   \* how often something was not as a test run alone would have it

spmc == <<client, request, answer>>
notifications == <<bitmapCreated, bound, pending, sri, raised>>
service == <<tables, call, reply, notified>>
disturbed == <<faults, disturbances>>
ffaVars == <<service, spPc, msg, peerPc, mPartitionId, client, request, answer,
             bitmapCreated, bound, pending, sri, raised, faults, disturbances>>

Images == {"sp", "peer", "app"}
NoFrame == [fid |-> "none"]
NoMessage == NoRequestMessage("none")

FfaInit ==
  /\ Init
  /\ spPc = "waiting" /\ msg = NoMessage
  /\ peerPc = "idle"
  /\ mPartitionId = [i \in Images |-> INVALID_SOURCE_ID]
  /\ client = "none" /\ request = NoMessage /\ answer = NoFrame
  /\ bitmapCreated = FALSE /\ bound = {} /\ pending = {} /\ sri = FALSE /\ raised = {}
  /\ faults = {} /\ disturbances = 0

Disturb == disturbances < MaxDisturbances /\ disturbances' = disturbances + 1

\* A call named f fails, or not.
Fault(f, fails) ==
  IF fails THEN Disturb /\ faults' = faults \cup {f} ELSE UNCHANGED disturbed

-----------------------------------------------------------------------------
(***************************************************************************)
(* The partition's calls into the SPMC.                                    *)
(***************************************************************************)

\* FFA_INTERRUPT comes back: the handler runs, and FfaReturnFromInterrupt waits again.
SpInterrupt ==
  /\ spPc = "waiting" /\ Disturb
  /\ spPc' = "interrupt"
  /\ UNCHANGED <<service, msg, peerPc, mPartitionId, spmc, notifications, faults>>

FfaReturnFromInterrupt ==
  /\ spPc = "interrupt"
  /\ spPc' = "waiting"
  /\ UNCHANGED <<service, msg, peerPc, mPartitionId, spmc, notifications, disturbed>>

\* FFA_SUCCESS comes back instead of a request: the buffer is cleared, and the main loop
\* waits again.
FfaWaitNoMessage ==
  /\ spPc = "waiting" /\ Disturb
  /\ msg' = NoRequestMessage("SUCCESS")
  /\ UNCHANGED <<service, spPc, peerPc, mPartitionId, spmc, notifications, faults>>

\* Fault variant: only the newer kind of request is recognised.
FfaMessageWaitReq2Only ==
  /\ spPc = "waiting" /\ client # "none" /\ answer = NoFrame /\ request.fid = "REQ2"
  /\ msg' = FfaUnpackDirectMessage(FfaPackDirectMessage(request), msg)
  /\ spPc' = "dispatch"
  /\ UNCHANGED <<service, peerPc, mPartitionId, spmc, notifications, disturbed>>

\* A request comes back from FfaMessageWait or FfaMessageSendDirectResp.
FfaMessageWait ==
  /\ spPc = "waiting" /\ client # "none" /\ answer = NoFrame
  /\ msg' = FfaUnpackDirectMessage(FfaPackDirectMessage(request), msg)
  /\ spPc' = "dispatch"
  /\ UNCHANGED <<service, peerPc, mPartitionId, spmc, notifications, disturbed>>

-----------------------------------------------------------------------------
(***************************************************************************)
(* The main loop: a REQ2 goes to the service its GUID names.               *)
(***************************************************************************)

Dispatched(guid) == spPc = "dispatch" /\ msg.fid = "REQ2" /\ msg.guid = guid

\* The mappings a request carries in Arg7 and up.
MappingOf(reg) == [cookie |-> reg[0], id |-> reg[1], perVcpu |-> reg[2] = 1]
MappingsSent(count) ==
  IF ValidCount(count % 256) THEN [k \in 1 .. (count % 256) |-> MappingOf(msg.arg[6 + k])]
                             ELSE << >>

DispatchNotification ==
  LET count == msg.arg[6][0] IN
  /\ Dispatched(NotificationGuid)
  /\ NotificationServiceHandle(msg.arg[5][0], <<msg.arg[3], msg.arg[4]>>, msg.source, count,
                               MappingsSent(count))
  /\ spPc' = "serving"
  /\ UNCHANGED <<msg, peerPc, mPartitionId, spmc, notifications, disturbed>>

TEST_OPCODE_TEST_NOTIFICATION == 1

\* SPMC: a notification is accepted from the partition for bits the receiver has bound
\* to it.
SetAccepted(c) ==
  /\ c.arg1 = <<SP_ID, APP_ID>> /\ bitmapCreated
  /\ Whole(c.arg3, c.arg4) \subseteq bound

\* An event of the test service.  FfaNotificationSet may look up the partition's ID, and
\* the SPMC may refuse; nothing is sent for a cookie that is not found.
DispatchEvent ==
  /\ Dispatched(TestGuid) /\ msg.arg[0][0] = TEST_OPCODE_TEST_NOTIFICATION
  /\ \E sent, found, refused \in BOOLEAN :
       /\ TestNotificationHandler(<<msg.arg[1], msg.arg[2]>>, msg.arg[3][0], sent)
       /\ IF notified' = {}
          THEN ~sent /\ found /\ ~refused /\ UNCHANGED <<mPartitionId, notifications, disturbed>>
          ELSE LET n == CHOOSE e \in notified' : TRUE
                   id == SourceId(mPartitionId["sp"], SP_ID, found)
                   c == FfaNotificationSet(id, n.dest, n.bits)
               IN /\ mPartitionId' = [mPartitionId EXCEPT !["sp"] = id]
                  /\ refused => found
                  /\ found \/ mPartitionId["sp"] = INVALID_SOURCE_ID
                  /\ Fault("set", refused \/ ~found)
                  /\ sent <=> SetAccepted(c) /\ ~refused
                  /\ pending' = IF sent THEN pending \cup Whole(c.arg3, c.arg4) ELSE pending
                  /\ sri' = (sri \/ sent)
                  /\ raised' = IF sent THEN raised \cup n.bits ELSE raised
                  /\ UNCHANGED <<bitmapCreated, bound>>
  /\ spPc' = "serving"
  /\ UNCHANGED <<msg, peerPc, spmc>>

DispatchTestInvalid ==
  /\ Dispatched(TestGuid) /\ msg.arg[0][0] # TEST_OPCODE_TEST_NOTIFICATION
  /\ TestServiceInvalid
  /\ spPc' = "serving"
  /\ UNCHANGED <<msg, peerPc, mPartitionId, spmc, notifications, disturbed>>

\* A request to the TPM service that moves no state (TpmStatus), or one that no service
\* is named for.
DispatchOther ==
  /\ spPc = "dispatch"
  /\ ~Dispatched(NotificationGuid) /\ ~Dispatched(TestGuid)
  /\ spPc' = "serving"
  /\ UNCHANGED <<service, msg, peerPc, mPartitionId, spmc, notifications, disturbed>>

\* The notification service goes on with the mappings of the request.
Serve ==
  /\ spPc = "serving"
  /\ LoopStep
  /\ UNCHANGED <<spPc, msg, peerPc, mPartitionId, spmc, notifications, disturbed>>

-----------------------------------------------------------------------------
(***************************************************************************)
(* Responses.                                                              *)
(***************************************************************************)

StatusCode(status) == CASE status = "SUCCESS" -> 0
                        [] status = "NOT_SUPPORTED" -> -1
                        [] status = "INVALID_PARAMETER" -> -2
                        [] status = "NO_MEM" -> -3

MESSAGE_INFO_DIR_RESP == 256

ZeroArgs == [a \in Args |-> ZeroReg]

\* Fault variant: the response starts one register late.
NotificationResponseShifted ==
  [a \in Args |-> CASE a \in 2 .. 5 -> msg.arg[a - 1]
                    [] a = 6 -> Scalar(StatusCode(reply) % 256)
                    [] OTHER -> ZeroReg]

\* NotificationServiceHandle: the request's Arg1 to Arg5 are echoed, Arg6 is the status
\* as a UINT8.
NotificationResponse ==
  LET info == msg.arg[5][0] IN
  [a \in Args |->
     CASE a \in 1 .. 4 -> msg.arg[a]
       [] a = 5 -> Scalar(IF (info \div MESSAGE_INFO_DIR_RESP) % 2 = 1
                          THEN info ELSE info + MESSAGE_INFO_DIR_RESP)
       [] a = 6 -> Scalar(StatusCode(reply) % 256)
       [] OTHER -> ZeroReg]

\* Distinct values for the opcodes and statuses of an external header.
TPM2_FFA_GET_INTERFACE_VERSION == 1
TPM2_FFA_MANAGE_LOCALITY == 2
TPM2_FFA_SUCCESS_OK_RESULTS_RETURNED == 11
TPM2_FFA_ERROR_NOFUNC == 12
TPM2_FFA_ERROR_DENIED == 13
TfaIds == 65280 .. 65535   \* (SourceId & 0xFF00) == 0xFF00

\* TpmServiceHandle, for the requests clients of this module make: none of them is TF-A
\* and none starts the TPM, so the state of the TPM service does not move.
TpmStatus(opcode, source) ==
  CASE opcode = TPM2_FFA_GET_INTERFACE_VERSION -> TPM2_FFA_SUCCESS_OK_RESULTS_RETURNED
    [] opcode = TPM2_FFA_MANAGE_LOCALITY /\ source \notin TfaIds -> TPM2_FFA_ERROR_DENIED
    [] OTHER -> TPM2_FFA_ERROR_NOFUNC

ResponseArgs ==
  CASE msg.fid # "REQ2" -> ZeroArgs
    [] msg.guid = NotificationGuid -> NotificationResponse
    [] msg.guid = TestGuid -> [ZeroArgs EXCEPT ![0] = Scalar(StatusCode(reply))]
    [] msg.guid = Tpm2Guid -> [ZeroArgs EXCEPT ![0] = Scalar(TpmStatus(msg.arg[0][0], msg.source))]
    [] OTHER -> ZeroArgs

\* FfaMessageSendDirectResp32, 64 and 2: the function ID answers the one of the request.
ResponseFid == CASE msg.fid = "REQ32" -> "RESP32" [] msg.fid = "REQ64" -> "RESP64"
                 [] OTHER -> "RESP2"

\* The response goes out; the same call waits for the next request.
FfaMessageSendDirectResp ==
  /\ spPc = "serving" /\ ~Busy
  /\ answer' = FfaPackDirectMessage(
                 DirectMsg(ResponseFid, msg.dest, msg.source, ZeroGuid, ResponseArgs))
  /\ spPc' = "waiting"
  /\ UNCHANGED <<service, msg, peerPc, mPartitionId, client, request, notifications,
                 disturbed>>

PartitionStep ==
  \/ FfaReturnFromInterrupt \/ FfaMessageWait
  \/ DispatchNotification \/ DispatchEvent \/ DispatchTestInvalid \/ DispatchOther
  \/ Serve \/ FfaMessageSendDirectResp

-----------------------------------------------------------------------------
(***************************************************************************)
(* Other clients.                                                          *)
(***************************************************************************)

Open(c, m) == client = "none" /\ client' = c /\ request' = m /\ UNCHANGED answer
Close(c) == client = c /\ answer # NoFrame
            /\ client' = "none" /\ request' = NoMessage /\ answer' = NoFrame

\* FfaMessageSendDirectReq2 fills in the caller's buffer and calls the SPMC, which
\* refuses a source that is not the caller's: the call returns, the next one looks again.
PeerSend(guid, arg) ==
  \E found \in BOOLEAN :
    LET id == SourceId(mPartitionId["peer"], PEER_ID, found) IN
    /\ peerPc = "idle" /\ Disturb
    /\ found \/ mPartitionId["peer"] = INVALID_SOURCE_ID
    /\ faults' = IF found THEN faults ELSE faults \cup {"lookup"}
    /\ mPartitionId' = [mPartitionId EXCEPT !["peer"] = id]
    /\ IF id = PEER_ID
       THEN Open("peer", DirectMsg("REQ2", id, SP_ID, guid, arg)) /\ peerPc' = "sent"
       ELSE UNCHANGED <<peerPc, spmc>>
    /\ UNCHANGED <<service, spPc, msg, notifications>>

\* An interrupt reaches the peer inside the call; its handler ends with FFA_MSG_WAIT, and
\* the call goes on waiting for the response.
PeerInterrupt ==
  /\ peerPc = "sent" /\ Disturb
  /\ peerPc' = "interrupt"
  /\ UNCHANGED <<service, spPc, msg, mPartitionId, spmc, notifications, faults>>

PeerInterruptDone ==
  /\ peerPc = "interrupt"
  /\ peerPc' = "sent"
  /\ UNCHANGED <<service, spPc, msg, mPartitionId, spmc, notifications, disturbed>>

\* What the peer reads in its buffer is AnswerFitsRequest's got (FfaPartitionTestApp).
PeerReceive ==
  /\ peerPc = "sent" /\ Close("peer")
  /\ peerPc' = "idle"
  /\ UNCHANGED <<service, spPc, msg, mPartitionId, notifications, disturbed>>

LegacySend(fid, arg) ==
  /\ Disturb
  /\ Open("legacy", DirectMsg(fid, LEGACY_ID, SP_ID, ZeroGuid, arg))
  /\ UNCHANGED <<service, spPc, msg, peerPc, mPartitionId, notifications, faults>>

LegacyReceive ==
  /\ Close("legacy")
  /\ UNCHANGED <<service, spPc, msg, peerPc, mPartitionId, notifications, disturbed>>

ClientStep ==
  \/ \E r \in PeerRequests : PeerSend(r[1], r[2])
  \/ \E fid \in RequestsV1, arg \in LegacyArgs : LegacySend(fid, arg)

\* What the SPMC, the partition and blocked callers owe once a request is open.
Progress == PartitionStep \/ PeerInterruptDone \/ PeerReceive \/ LegacyReceive

FfaNext == Progress \/ ClientStep \/ SpInterrupt \/ PeerInterrupt \/ FfaWaitNoMessage
=============================================================================
