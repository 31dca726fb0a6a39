------------------------ MODULE FfaPartitionTestApp ------------------------
(***************************************************************************)
(* FfaPartitionTestApp: the UEFI application that tests a partition's      *)
(* services from the normal world.  Its test cases run in order and build  *)
(* on the state the earlier ones left in the service and in the SPMC; a    *)
(* case that fails does not stop the suite.  Its interrupt handler runs at *)
(* any time.  Composed with the partition of FfaPartition.                 *)
(*                                                                         *)
(* Any call of the application may fail; a failure with no cause in the    *)
(* model is recorded in faults.                                            *)
(***************************************************************************)
EXTENDS FfaPartition

CONSTANTS
  Systems,          \* the systems under test: how many partitions offer each service, and
                    \* the <<major, minor>> version of the framework
  ARM_FFA_MAJOR_VERSION, ARM_FFA_MINOR_VERSION,
  BATTERY_HI, THERMAL_HI, UUID_LO   \* the words of the UUIDs that are registered

Services == {"mm", "test", "tpm2", "notification"}

ASSUME SystemAssumption == Systems \subseteq [deployed : [Services -> Nat], version : Nat \X Nat]
ASSUME WordAssumption == {BATTERY_HI, THERMAL_HI, UUID_LO} \subseteq 0 .. (BYTE - 1)

VARIABLES
  deployed, version,  \* the system under test
  test,               \* the number of the current test case
  appPc,              \* "run", "sent" (request open), "stall" or "done"
  result,             \* the verdicts
  available,          \* FFA_TEST_CONTEXT: the Is...Available flags that are set
  mIsInterruptFired,
  handler,            \* ApIrqInterruptHandler is registered
  fetched,            \* the bits FfaNotificationGet returned so far
  rxHeld              \* the application owns the RX buffer

app == <<deployed, version, test, appPc, result, available, mIsInterruptFired, handler, fetched,
         rxHeld>>
appVars == <<ffaVars, app>>

-----------------------------------------------------------------------------
(***************************************************************************)
(* The test cases.                                                         *)
(***************************************************************************)

WordOf(n) == [k \in 0 .. (WORD_BYTES - 1) |-> n]
Map(cookie, id) == <<cookie, id>>
MapReg(map) == [f \in 0 .. 2 |-> CASE f = 0 -> map[1] [] f = 1 -> map[2] [] f = 2 -> 0]

\* A case that sends the notification service an opcode, UUID words, a count and
\* mappings, and expects a status.
NotificationCase(name, opcode, lo, hi, count, maps, status) ==
  [name |-> name, needs |-> {"notification"}, guid |-> NotificationGuid,
   arg |-> [a \in Args |-> CASE a = 3 -> WordOf(lo) [] a = 4 -> WordOf(hi)
                             [] a = 5 -> Scalar(opcode) [] a = 6 -> Scalar(count)
                             [] a \in 7 .. (6 + Len(maps)) -> MapReg(maps[a - 6])
                             [] OTHER -> ZeroReg],
   expect |-> StatusCode(status)]

\* A case that sends a service up to four arguments and expects a value in Arg0.
ServiceCase(name, service_, guid, args, status) ==
  [name |-> name, needs |-> {service_}, guid |-> guid,
   arg |-> [a \in Args |-> IF a < Len(args) THEN args[a + 1] ELSE ZeroReg],
   expect |-> status]

LocalCase(name, needs) == [name |-> name, needs |-> needs, guid |-> ZeroGuid,
                           arg |-> ZeroArgs, expect |-> 0]

REGISTER == 2
UNREGISTER == 3

FfaMiscTestInterPartitionNormal ==
  NotificationCase("Normal", REGISTER, UUID_LO, BATTERY_HI, 5,
                   <<Map(0, 0), Map(1, 1), Map(2, 2), Map(3, 3), Map(4, 4)>>, "SUCCESS")
FfaMiscTestInterPartitionSecondary ==
  NotificationCase("Secondary", REGISTER, UUID_LO, THERMAL_HI, 3,
                   <<Map(0, 5), Map(1, 6), Map(2, 7)>>, "SUCCESS")
FfaMiscTestInterPartitionDuplicateCookie ==
  NotificationCase("DuplicateCookie", REGISTER, UUID_LO, THERMAL_HI, 1, <<Map(2, 8)>>,
                   "INVALID_PARAMETER")
FfaMiscTestInterPartitionInvalidDuplicateId ==
  NotificationCase("DuplicateId", REGISTER, UUID_LO, THERMAL_HI, 1, <<Map(3, 7)>>,
                   "INVALID_PARAMETER")
FfaMiscTestInterPartitionInvalidMappingCountMin ==
  NotificationCase("CountMin", REGISTER, UUID_LO, THERMAL_HI, 0, << >>, "INVALID_PARAMETER")
FfaMiscTestInterPartitionInvalidMappingCountMax ==
  NotificationCase("CountMax", REGISTER, UUID_LO, THERMAL_HI, 8, << >>, "INVALID_PARAMETER")
FfaMiscTestInterPartitionUnregisterNormal ==
  NotificationCase("Unregister", UNREGISTER, UUID_LO, THERMAL_HI, 1, <<Map(1, 6)>>, "SUCCESS")
FfaMiscTestInterPartitionUnregisterInvalidCookie ==
  NotificationCase("UnregisterCookie", UNREGISTER, UUID_LO, THERMAL_HI, 1, <<Map(1, 6)>>,
                   "INVALID_PARAMETER")
FfaMiscTestInterPartitionUnregisterInvalidId ==
  NotificationCase("UnregisterId", UNREGISTER, UUID_LO, THERMAL_HI, 1, <<Map(0, 0)>>,
                   "INVALID_PARAMETER")
FfaMiscTestInterPartitionUnregisterInvalidUuid ==
  NotificationCase("UnregisterUuid", UNREGISTER, 0, 0, 0, << >>, "INVALID_PARAMETER")

FfaMiscTestNotificationEvent ==
  ServiceCase("Event", "test", TestGuid,
              <<Scalar(TEST_OPCODE_TEST_NOTIFICATION), WordOf(UUID_LO), WordOf(BATTERY_HI),
                Scalar(2)>>, StatusCode("SUCCESS"))
FfaMiscTestTpmGetVersion ==
  ServiceCase("TpmVersion", "tpm2", Tpm2Guid, <<Scalar(TPM2_FFA_GET_INTERFACE_VERSION)>>,
              TPM2_FFA_SUCCESS_OK_RESULTS_RETURNED)
TPM2_FFA_MANAGE_LOCALITY_CLOSE == 1
FfaMiscTestTpmCloseLocality ==
  ServiceCase("TpmClose", "tpm2", Tpm2Guid,
              <<Scalar(TPM2_FFA_MANAGE_LOCALITY), Scalar(TPM2_FFA_MANAGE_LOCALITY_CLOSE)>>,
              TPM2_FFA_ERROR_DENIED)

\* The order of the AddTestCase calls in FfaPartitionTestAppEntry.
Suite == <<LocalCase("Version", {}), LocalCase("InfoRegs", {}), LocalCase("Info", {}),
           LocalCase("Setup", {"test"}), LocalCase("RegisterIrq", {}),
           FfaMiscTestInterPartitionNormal, FfaMiscTestInterPartitionSecondary,
           FfaMiscTestInterPartitionDuplicateCookie,
           FfaMiscTestInterPartitionInvalidDuplicateId,
           FfaMiscTestInterPartitionInvalidMappingCountMin,
           FfaMiscTestInterPartitionInvalidMappingCountMax,
           FfaMiscTestInterPartitionUnregisterNormal,
           FfaMiscTestInterPartitionUnregisterInvalidCookie,
           FfaMiscTestInterPartitionUnregisterInvalidId,
           FfaMiscTestInterPartitionUnregisterInvalidUuid,
           FfaMiscTestNotificationEvent, FfaMiscTestTpmGetVersion,
           FfaMiscTestTpmCloseLocality, LocalCase("NsResInfo", {})>>
Tests == 1 .. Len(Suite)
LocalNames == {"Version", "InfoRegs", "Info", "Setup", "RegisterIrq", "NsResInfo"}

\* The sets that bound the notification service's messages hold what the peer and the
\* test cases send to it.
Covered(guid, arg) ==
  /\ guid = NotificationGuid =>
       /\ arg[5][0] \in MsgInfos /\ <<arg[3], arg[4]>> \in UuidWords /\ arg[6][0] \in Counts
       /\ ValidCount(arg[6][0] % 256) =>
            \A k \in 1 .. (arg[6][0] % 256) : MappingOf(arg[6 + k]) \in Mappings
  /\ guid = TestGuid /\ arg[0][0] = TEST_OPCODE_TEST_NOTIFICATION =>
       <<arg[1], arg[2]>> \in UuidWords /\ arg[3][0] \in Cookies
ASSUME CoverAssumption ==
  /\ {PEER_ID, APP_ID} \subseteq Sources
  /\ \A r \in PeerRequests : Covered(r[1], r[2])
  /\ \A t \in Tests : Suite[t].name \notin LocalNames => Covered(Suite[t].guid, Suite[t].arg)

AppInit ==
  /\ FfaInit
  /\ \E system \in Systems : deployed = system.deployed /\ version = system.version
  /\ test = 1 /\ appPc = "run" /\ result = [t \in Tests |-> "none"]
  /\ available = {} /\ mIsInterruptFired = FALSE /\ handler = FALSE
  /\ fetched = {} /\ rxHeld = FALSE

-----------------------------------------------------------------------------
(***************************************************************************)
(* Running them.                                                           *)
(***************************************************************************)

\* The case that is due, when its prerequisite (CheckNotificationService and so on) is met;
\* the TPM cases are those of a build with TPM2_ENABLE.
Due(name) == /\ appPc = "run" /\ test \in Tests /\ Suite[test].name = name
             /\ Suite[test].needs \subseteq available

\* A case returns and the next one is due; the suite ends after the last.
Verdict(v) ==
  /\ result' = [result EXCEPT ![test] = v]
  /\ test' = test + 1
  /\ appPc' = IF test = Len(Suite) THEN "done" ELSE "run"

Passed(condition) == Verdict(IF condition THEN "passed" ELSE "failed")

Skip ==
  /\ appPc = "run" /\ test \in Tests /\ ~(Suite[test].needs \subseteq available)
  /\ Verdict("skipped")
  /\ UNCHANGED <<ffaVars, deployed, version, available, mIsInterruptFired, handler, fetched,
                 rxHeld>>

FfaMiscVerifyVersion ==
  /\ Due("Version")
  /\ \E fails \in BOOLEAN :
       /\ Fault("version", fails)
       /\ Passed(/\ ~fails
                 /\ version[1] >= ARM_FFA_MAJOR_VERSION /\ version[2] >= ARM_FFA_MINOR_VERSION)
  /\ UNCHANGED <<service, spPc, msg, peerPc, mPartitionId, spmc, notifications,
                 deployed, version, available, mIsInterruptFired, handler, fetched, rxHeld>>

\* One query per service, with room for one partition; a service that is not deployed
\* stands for a query that fails, too.  The case ends at once when there is
\* no MM partition, and then none of the other services counts as available.
FfaMiscGetPartitionInfoRegs ==
  LET found == {s \in Services : FfaPartitionInfoGetRegs(deployed[s], 1) = "SUCCESS"} IN
  /\ Due("InfoRegs")
  /\ available' = IF "mm" \in found THEN found ELSE available
  /\ Passed("mm" \in found)
  /\ UNCHANGED <<ffaVars, deployed, version, mIsInterruptFired, handler, fetched, rxHeld>>

\* The descriptors come in the RX buffer, which the case gives back.
FfaMiscGetPartitionInfo ==
  /\ Due("Info")
  /\ \E failing \in {"none", "get", "release"} :
       /\ Fault("info", failing # "none")
       /\ Passed(~rxHeld /\ failing = "none")
       /\ rxHeld' = (rxHeld \/ failing = "release")
  /\ UNCHANGED <<service, spPc, msg, peerPc, mPartitionId, spmc, notifications,
                 deployed, version, available, mIsInterruptFired, handler, fetched>>

BIND_BIT == 2

\* SPMC: a receiver binds bits of its own bitmap to a sender.
BindAccepted(c) == c.arg1 = <<SP_ID, APP_ID>> /\ bitmapCreated'

\* FfaNotificationBitmapCreate, then FfaNotificationBind, whose status is dropped: the case
\* passes when the bind is refused.
FfaMiscSetupNotifications ==
  /\ Due("Setup")
  /\ \E failing \in {"none", "lookup", "create", "bind"} :
       LET id == SourceId(mPartitionId["app"], APP_ID, failing # "lookup")
           c == FfaNotificationBind(id, SP_ID, {BIND_BIT})
       IN /\ Fault(failing, failing # "none")
          /\ mPartitionId' = [mPartitionId EXCEPT !["app"] = id]
          /\ bitmapCreated' = (bitmapCreated \/ (id = APP_ID /\ failing # "create"))
          /\ Passed(bitmapCreated' /\ ~bitmapCreated)
          /\ bound' = IF BindAccepted(c) /\ ~bitmapCreated /\ failing # "bind"
                      THEN bound \cup Whole(c.arg3, c.arg4) ELSE bound
  /\ UNCHANGED <<service, spPc, msg, peerPc, spmc, pending, sri, raised,
                 deployed, version, available, mIsInterruptFired, handler, fetched, rxHeld>>

\* Without the interrupt protocol the case passes and no handler is registered.
FfaMiscRegisterNotifications ==
  /\ Due("RegisterIrq")
  /\ \E failing \in {"none", "features", "locate", "register"} :
       /\ Fault(failing, failing # "none")
       /\ handler' = (handler \/ failing = "none")
       /\ Passed(failing \in {"none", "locate"})
  /\ UNCHANGED <<service, spPc, msg, peerPc, mPartitionId, spmc, notifications,
                 deployed, version, available, mIsInterruptFired, fetched, rxHeld>>

\* ArmFfaLibMsgSendDirectReq2: the request is open, or the call fails (the partition may be
\* busy) and with it the case.  The event case resets the flag first.
SendRequest ==
  /\ appPc = "run" /\ test \in Tests /\ Suite[test].name \notin LocalNames
  /\ Due(Suite[test].name)
  /\ mIsInterruptFired' = (mIsInterruptFired /\ Suite[test].name # "Event")
  /\ \E fails \in BOOLEAN :
       /\ Fault("send", fails)
       /\ IF fails THEN Verdict("failed") /\ UNCHANGED spmc
          ELSE /\ Open("app", DirectMsg("REQ2", APP_ID, SP_ID, Suite[test].guid, Suite[test].arg))
               /\ appPc' = "sent"
               /\ UNCHANGED <<test, result>>
  /\ UNCHANGED <<service, spPc, msg, peerPc, mPartitionId, notifications,
                 deployed, version, available, handler, fetched, rxHeld>>

\* (INT8)Arg6
Int8(n) == IF n % 256 >= 128 THEN (n % 256) - 256 ELSE n % 256

\* The status a response carries for the current case.
StatusOf(m) == IF Suite[test].needs = {"notification"} THEN Int8(m.arg[6][0]) ELSE m.arg[0][0]

ReceiveResponse ==
  LET status == StatusOf(FfaUnpackDirectMessage(answer, NoMessage)) IN
  /\ appPc = "sent" /\ Close("app")
  /\ IF Suite[test].name = "Event" /\ status = Suite[test].expect
     THEN appPc' = "stall" /\ UNCHANGED <<test, result>>
     ELSE Passed(status = Suite[test].expect)
  /\ UNCHANGED <<service, spPc, msg, peerPc, mPartitionId, notifications, disturbed,
                 deployed, version, available, mIsInterruptFired, handler, fetched, rxHeld>>

\* The millisecond is over; the interrupt may still be on its way.
StallEnds ==
  /\ appPc = "stall"
  /\ Passed(mIsInterruptFired)
  /\ faults' = IF sri /\ ~mIsInterruptFired THEN faults \cup {"late"} ELSE faults
  /\ UNCHANGED disturbances
  /\ UNCHANGED <<service, spPc, msg, peerPc, mPartitionId, spmc, notifications,
                 deployed, version, available, mIsInterruptFired, handler, fetched, rxHeld>>

\* The RX buffer is filled and not given back.
FfaMiscTestFfaNsResInfoGet ==
  /\ Due("NsResInfo")
  /\ \E failing \in {"none", "unsupported", "get", "buffers"} :
       /\ Fault("nsres", failing \in {"get", "buffers"})
       /\ Passed(failing = "unsupported" \/ (failing = "none" /\ ~rxHeld))
       /\ rxHeld' = (rxHeld \/ failing \in {"none", "buffers"})
  /\ UNCHANGED <<service, spPc, msg, peerPc, mPartitionId, spmc, notifications,
                 deployed, version, available, mIsInterruptFired, handler, fetched>>

\* Fault variant: the handler ends the interrupt without fetching the bits.
HandlerWithoutGet ==
  /\ sri /\ handler /\ appPc # "done"
  /\ mIsInterruptFired' = TRUE /\ sri' = FALSE
  /\ UNCHANGED <<service, spPc, msg, peerPc, mPartitionId, spmc, bitmapCreated, bound,
                 raised, pending, disturbed, deployed, version, test, appPc, result, available,
                 handler, fetched, rxHeld>>

\* The schedule receiver interrupt.  The flag is set whatever FfaNotificationGet returned,
\* and the end of the interrupt clears it.
ApIrqInterruptHandler ==
  /\ sri /\ handler /\ appPc # "done"
  /\ \E fails \in BOOLEAN :
       LET got == FfaNotificationGet("SP", [r \in 2 .. 7 |-> CASE r = 2 -> LowHalf(pending)
                                                               [] r = 3 -> HighHalf(pending)
                                                               [] OTHER -> {}])
       IN /\ Fault("get", fails)
          /\ mPartitionId' = [mPartitionId EXCEPT !["app"] = SourceId(@, APP_ID, ~fails)]
          /\ fetched' = IF fails THEN fetched ELSE fetched \cup got
          /\ pending' = IF fails THEN pending ELSE {}
  /\ mIsInterruptFired' = TRUE /\ sri' = FALSE
  /\ UNCHANGED <<service, spPc, msg, peerPc, spmc, bitmapCreated, bound, raised,
                 deployed, version, test, appPc, result, available, handler, rxHeld>>

AppStep ==
  \/ Skip \/ FfaMiscVerifyVersion \/ FfaMiscGetPartitionInfoRegs \/ FfaMiscGetPartitionInfo
  \/ FfaMiscSetupNotifications \/ FfaMiscRegisterNotifications \/ SendRequest
  \/ ReceiveResponse \/ StallEnds \/ FfaMiscTestFfaNsResInfoGet

AppNext == AppStep \/ ApIrqInterruptHandler \/ (FfaNext /\ UNCHANGED app)

AppSpec == AppInit /\ [][AppNext]_appVars

\* The application runs until it is done, and the SPMC schedules the partition and the
\* blocked callers.
FairAppSpec ==
  AppSpec /\ WF_appVars(AppStep) /\ WF_appVars(Progress /\ UNCHANGED app)
-----------------------------------------------------------------------------
(***************************************************************************)
(* Properties.                                                             *)
(***************************************************************************)

OwnId == [i \in Images |-> CASE i = "sp" -> SP_ID [] i = "peer" -> PEER_ID [] i = "app" -> APP_ID]
Bitmaps == SUBSET (0 .. (2 * UINT32_BITS - 1))

\* The types.  An image that links ArmFfaLibEx knows its own ID or none, never another:
\* mPartitionId is looked up once and then kept.
AppTypeOK ==
  /\ TypeOK
  /\ spPc \in {"waiting", "interrupt", "dispatch", "serving"}
  /\ peerPc \in {"idle", "sent", "interrupt"}
  /\ \A i \in Images : mPartitionId[i] \in {INVALID_SOURCE_ID, OwnId[i]}
  /\ client \in {"none", "peer", "legacy", "app"}
  /\ bound \in Bitmaps /\ pending \in Bitmaps /\ raised \in Bitmaps /\ fetched \in Bitmaps
  /\ disturbances \in 0 .. MaxDisturbances
  /\ test \in 1 .. (Len(Suite) + 1) /\ appPc \in {"run", "sent", "stall", "done"}
  /\ result \in [Tests -> {"none", "passed", "failed", "skipped"}]
  /\ available \subseteq Services
  /\ {bitmapCreated, sri, mIsInterruptFired, handler, rxHeld} \subseteq BOOLEAN

\* The request a service handles is the one its sender filled in: function ID, endpoints
\* and arguments, and for a REQ2 the GUID and all fourteen arguments.  Nothing of an
\* earlier message that is still in the buffer, and no interrupt served inside the wait,
\* gets in between (FfaPackDirectMessage, FfaUnpackDirectMessage, FfaMessageWait).
RequestIntact ==
  spPc \in {"dispatch", "serving"} =>
    IF request.fid = "REQ2" THEN msg = request
    ELSE /\ msg.fid = request.fid /\ msg.source = request.source /\ msg.dest = request.dest
         /\ \A a \in 0 .. 5 : msg.arg[a] = request.arg[a]

\* An answer goes to the sender of the open request and is of the kind that answers it;
\* one of the notification service, as its client unpacks it, echoes the UUID and keeps
\* the opcode (FfaMessageSendDirectResp, NotificationServiceHandle).
AnswerFitsRequest ==
  answer # NoFrame =>
    LET got == FfaUnpackDirectMessage(answer, NoMessage) IN
    /\ client # "none"
    /\ answer.arg1 = <<SP_ID, request.source>>
    /\ <<request.fid, answer.fid>> \in {<<"REQ32", "RESP32">>, <<"REQ64", "RESP64">>,
                                       <<"REQ2", "RESP2">>}
    /\ request.fid = "REQ2" /\ request.guid = NotificationGuid =>
         /\ got.arg[3] = request.arg[3] /\ got.arg[4] = request.arg[4]
         /\ got.arg[5][0] % 4 = request.arg[5][0] % 4

\* Every bit of an accepted event waits in the SPMC or was fetched by the application,
\* and one that waits still has its interrupt pending, unless a FfaNotificationGet failed
\* in the handler, which ends the interrupt all the same (FfaNotificationSet,
\* FfaNotificationGet, ApIrqInterruptHandler).
NotificationsConserved ==
  /\ raised = pending \cup fetched
  /\ pending # {} /\ "get" \notin faults => sri

AllPassed == appPc = "done" /\ \A t \in Tests : result[t] = "passed"
MeetsRequirements ==
  /\ \A s \in Services : deployed[s] = 1
  /\ version[1] >= ARM_FFA_MAJOR_VERSION /\ version[2] >= ARM_FFA_MINOR_VERSION

\* The service under test has room for the suite: two services, a request of five
\* mappings, IDs up to 7.  The application is not TF-A.
SuiteFits ==
  /\ NOTIFICATION_MAX_SERVICES >= 2 /\ MAPPING_MAX >= 5 /\ INT_BITS >= 8
  /\ BATTERY_HI # THERMAL_HI /\ APP_ID \notin TfaIds

\* The UUID the suite registers under with a high word of hi bytes.
SuiteUuid(hi) == NotificationServiceExtractUuid(WordOf(UUID_LO), WordOf(hi))

\* What a peer registers is out of the suite's way: under one of its two UUIDs, and with
\* other cookies and IDs.
KeepsClear(guid, arg) ==
  guid = NotificationGuid /\ arg[5][0] % 4 = REGISTER =>
    /\ \E hi \in {BATTERY_HI, THERMAL_HI} :
         SameUuid(NotificationServiceExtractUuid(arg[3], arg[4]), SuiteUuid(hi))
    /\ ValidCount(arg[6][0] % 256) => \A k \in 1 .. (arg[6][0] % 256) :
         LET m == MappingOf(arg[6 + k]) IN
         m.cookie \notin 0 .. 4 /\ \A id \in 0 .. 7 : IdBits(m.id) \cap IdBits(id) = {}
PeersKeepClear == \A r \in PeerRequests : KeepsClear(r[1], r[2])

\* On a system that meets the requirements, with no call failing and the interrupt in
\* time, every test case passes: the expectations the cases have of the state that the
\* earlier ones left are those the services meet, although other clients use the same
\* services meanwhile and share them (FfaPartitionTestAppEntry: "the order of the tests
\* is important").  It holds where SuiteFits and PeersKeepClear do.
FreshRunPasses ==
  appPc = "done" /\ MeetsRequirements /\ faults = {} => AllPassed

\* The mappings stored for the application, as <<first byte of the UUID, cookie, ID>>.
Mine == {e \in Used : Info(e).source = APP_ID}
Registered == {<<ServiceUuid[e[1]][0], Info(e).cookie, Info(e).id>> : e \in Mine}

\* A suite that passed has seen the whole path work, whatever failed on the way: its
\* mappings, and no others for it, are stored, whatever peers registered and
\* unregistered; bit 2 is bound, was raised and, unless its handler lost a
\* FfaNotificationGet, fetched.  Dropped statuses (FfaNotificationBind, the missing
\* interrupt protocol) do not end in a pass.
AllPassedSound ==
  AllPassed =>
    /\ Registered = {<<BATTERY_HI, c, c>> : c \in 0 .. 4}
                      \cup {<<THERMAL_HI, 0, 5>>, <<THERMAL_HI, 2, 7>>}
    /\ bitmapCreated /\ BIND_BIT \in bound /\ BIND_BIT \in raised /\ handler
    /\ "get" \in faults \/ BIND_BIT \in fetched

\* The suite ends, whichever requests of others are served first, interrupts arrive and
\* calls fail: no request stays unanswered (FfaMessageWait, FfaMessageSendDirectResp,
\* FfaMessageSendDirectReq2).
SuiteEnds == <>(appPc = "done")
=============================================================================
