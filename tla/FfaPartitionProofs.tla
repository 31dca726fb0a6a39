------------------------- MODULE FfaPartitionProofs -------------------------
(***************************************************************************)
(* The registers of a message, and the composition: requests and answers   *)
(* arrive as they were sent, for every set of requests, systems and        *)
(* bounds, and what the services promise holds in it.  Then the suite of   *)
(* the test application: what a passed one shows, and that it passes.      *)
(***************************************************************************)
EXTENDS FfaPartitionTestApp, NotificationProofs

-----------------------------------------------------------------------------
(***************************************************************************)
(* What the calls of ArmFfaLibEx put into registers comes out again, for   *)
(* every message, bitmap and handle.                                       *)
(***************************************************************************)

\* A byte that is swapped twice is where it was.
LEMMA SwappedTwice ==
  ASSUME NEW i \in GuidBytes
  PROVE  SwappedByte(i) \in GuidBytes /\ SwappedByte(SwappedByte(i)) = i
BY DEF SwappedByte, GuidBytes

\* FfaPrepareGuid is symmetric, as its comment says: "calling it twice will return the
\* original GUID".
THEOREM PrepareGuidSymmetric ==
  ASSUME NEW guid, IsGuid(guid)
  PROVE  FfaPrepareGuid(FfaPrepareGuid(guid)) = guid
  <1>1. ASSUME NEW i \in GuidBytes
        PROVE  FfaPrepareGuid(FfaPrepareGuid(guid))[i] = guid[i]
    BY SwappedTwice DEF FfaPrepareGuid
  <1> QED
    BY <1>1 DEF FfaPrepareGuid, IsGuid

\* The bytes of a GUID survive the two registers.
LEMMA GuidInRegisters ==
  ASSUME NEW guid, IsGuid(guid)
  PROVE  GuidOf(GuidLow(guid), GuidHigh(guid)) = guid
  <1>1. ASSUME NEW i \in GuidBytes
        PROVE  GuidOf(GuidLow(guid), GuidHigh(guid))[i] = guid[i]
    BY DEF GuidOf, GuidLow, GuidHigh, GuidBytes
  <1> QED
    BY <1>1 DEF GuidOf, IsGuid

\* A REQ2 or RESP2 is unpacked as it was packed: endpoints, GUID and fourteen arguments,
\* whatever the buffer held before (FfaPackDirectMessage, FfaUnpackDirectMessage).
THEOREM MessageRoundTrip ==
  ASSUME NEW m, NEW buffer, IsMessage(m), m.fid \notin RequestsV1 \cup ResponsesV1
  PROVE  FfaUnpackDirectMessage(FfaPackDirectMessage(m), buffer) = m
  <1> DEFINE guid == FfaPrepareGuid(m.guid)
             regs == FfaPackDirectMessage(m)
  <1>1. /\ regs.fid = m.fid /\ regs.arg1 = <<m.source, m.dest>>
        /\ \A r \in Regs : regs.x[r] = CASE r = 2 -> GuidLow(guid) [] r = 3 -> GuidHigh(guid)
                                         [] OTHER -> m.arg[r - 4]
    BY DEF FfaPackDirectMessage
  <1>2. regs.x[2] = GuidLow(guid) /\ regs.x[3] = GuidHigh(guid)
    BY <1>1 DEF Regs
  <1>3. ASSUME NEW a \in Args
        PROVE  regs.x[a + 4] = m.arg[a]
    BY <1>1 DEF Regs, Args
  <1>4. FfaPrepareGuid(GuidOf(regs.x[2], regs.x[3])) = m.guid
    <2>1. IsGuid(guid)
      BY DEF IsGuid, FfaPrepareGuid
    <2> QED
      BY <1>2, <2>1, GuidInRegisters, PrepareGuidSymmetric DEF IsMessage
  <1>5. [a \in Args |-> regs.x[a + 4]] = m.arg
    BY <1>3 DEF IsMessage
  <1>6. regs.fid \notin RequestsV1
    BY <1>1
  <1> QED
    BY <1>1, <1>4, <1>5, <1>6 DEF FfaUnpackDirectMessage, IsMessage

\* Of a version 1 request the six arguments arrive, and the GUID and the other arguments
\* are still those of the message before (FfaUnpackDirectMessage leaves them in place).
THEOREM OldRequestRoundTrip ==
  ASSUME NEW m, NEW buffer, m.fid \in RequestsV1
  PROVE  LET got == FfaUnpackDirectMessage(FfaPackDirectMessage(m), buffer) IN
         /\ got.fid = m.fid /\ got.source = m.source /\ got.dest = m.dest
         /\ got.guid = buffer.guid
         /\ \A a \in Args : got.arg[a] = IF a <= 5 THEN m.arg[a] ELSE buffer.arg[a]
  <1> DEFINE regs == FfaPackDirectMessage(m)
  <1>1. /\ regs.fid = m.fid /\ regs.arg1 = <<m.source, m.dest>>
        /\ \A r \in 2 .. 7 : regs.x[r] = m.arg[r - 2]
    BY DEF FfaPackDirectMessage, Regs
  <1>2. ASSUME NEW a \in 0 .. 5
        PROVE  regs.x[a + 2] = m.arg[a]
    BY <1>1
  <1> QED
    BY <1>1, <1>2 DEF FfaUnpackDirectMessage, DirectMsg, Args

-----------------------------------------------------------------------------
\* A 64-bit value survives two 32-bit registers.
LEMMA HalvesMakeWhole ==
  ASSUME NEW bits, bits \subseteq 0 .. (2 * UINT32_BITS - 1)
  PROVE  Whole(LowHalf(bits), HighHalf(bits)) = bits
  <1>1. ASSUME NEW b \in bits
        PROVE  b \in Whole(LowHalf(bits), HighHalf(bits))
    <2>1. b \in 0 .. (2 * UINT32_BITS - 1) /\ UINT32_BITS \in Nat
      BY <1>1, HalfAssumption
    <2>2. CASE b < UINT32_BITS
      BY <1>1, <2>1, <2>2 DEF Whole, LowHalf, Low32
    <2>3. CASE b >= UINT32_BITS
      <3>1. b - UINT32_BITS \in HighHalf(bits) /\ b = (b - UINT32_BITS) + UINT32_BITS
        BY <1>1, <2>1, <2>3 DEF HighHalf, Low32
      <3> QED
        BY <3>1 DEF Whole
    <2> QED
      BY <2>1, <2>2, <2>3
  <1>2. ASSUME NEW b \in Whole(LowHalf(bits), HighHalf(bits))
        PROVE  b \in bits
    BY <1>2 DEF Whole, LowHalf, HighHalf
  <1> QED
    BY <1>1, <1>2

\* The bitmap a sender passes to FfaNotificationSet is the one the SPMC makes of the
\* registers, and the receiver's FfaNotificationGet returns what the SPMC holds.
THEOREM BitmapRoundTrip ==
  ASSUME NEW bits, bits \subseteq 0 .. (2 * UINT32_BITS - 1), NEW id, NEW dest,
         NEW regs, regs[2] = LowHalf(bits), regs[3] = HighHalf(bits)
  PROVE  LET c == FfaNotificationSet(id, dest, bits) IN
         /\ Whole(c.arg3, c.arg4) = bits
         /\ FfaNotificationGet("SP", regs) = bits
BY HalvesMakeWhole DEF FfaNotificationSet, FfaNotificationGet

\* A handle is passed to FfaMemReclaim as the registers it was returned in.
THEOREM HandleRoundTrip ==
  ASSUME NEW low \in SUBSET Low32, NEW high \in SUBSET Low32,
         NEW regs, regs[2] = low, regs[3] = high
  PROVE  LET r == FfaMemReclaim(MemHandle(regs)) IN r[1] = low /\ r[2] = high
  <1>1. LowHalf(Whole(low, high)) = low
    <2>1. ASSUME NEW b \in high PROVE b + UINT32_BITS \notin Low32
      BY <2>1, HalfAssumption DEF Low32
    <2> QED
      BY <2>1 DEF LowHalf, Whole
  <1>2. HighHalf(Whole(low, high)) = high
    <2>1. ASSUME NEW b \in Low32
          PROVE  b + UINT32_BITS \in Whole(low, high) <=> b \in high
      <3>1. b \in Int /\ UINT32_BITS \in Int
        BY HalfAssumption DEF Low32
      <3>2. b + UINT32_BITS \notin low
        BY <2>1, HalfAssumption DEF Low32
      <3>3. ASSUME NEW c \in high, c + UINT32_BITS = b + UINT32_BITS PROVE c = b
        <4>1. c \in Int
          BY DEF Low32
        <4> QED
          BY <3>1, <3>3, <4>1
      <3> QED
        BY <3>2, <3>3 DEF Whole
    <2> QED
      BY <2>1 DEF HighHalf
  <1> QED
    BY <1>1, <1>2 DEF FfaMemReclaim, MemHandle

-----------------------------------------------------------------------------
(***************************************************************************)
(* Delivery.                                                               *)
(***************************************************************************)

\* What the SPMC holds of an open request: it is for the partition, and of a kind that the
\* library unpacks.
OpenRequest ==
  client # "none" =>
    /\ request.dest = SP_ID
    /\ \/ request.fid \in RequestsV1
       \/ request.fid = "REQ2" /\ IsMessage(request) /\ request.arg[5][0] \in Nat

\* The partition is at work only on a request that is open and has no answer yet.
AtWork == spPc \in {"dispatch", "serving"} => client # "none" /\ answer = NoFrame

MsgInv == OpenRequest /\ AtWork /\ RequestIntact /\ AnswerFitsRequest

delivery == <<spPc, msg, client, request, answer>>

-----------------------------------------------------------------------------
\* A test case carries a GUID and fourteen arguments.
WellFormed(c) == IsGuid(c.guid) /\ c.arg = [a \in Args |-> c.arg[a]] /\ c.arg[5][0] \in Nat

\* A case of the notification service has its opcode in Arg5.
LEMMA NotificationCaseShape ==
  ASSUME NEW name, NEW opcode \in Nat, NEW lo, NEW hi, NEW count, NEW maps, NEW status
  PROVE  WellFormed(NotificationCase(name, opcode, lo, hi, count, maps, status))
  <1> DEFINE c == NotificationCase(name, opcode, lo, hi, count, maps, status)
  <1>1. c.guid = NotificationGuid /\ c.arg = [a \in Args |-> c.arg[a]]
    BY DEF NotificationCase
  <1>2. c.arg[5] = Scalar(opcode)
    BY DEF NotificationCase, Args
  <1> QED
    BY <1>1, <1>2, RequestAssumption DEF WellFormed, Scalar

\* A service case has at most five arguments, so Arg5 is zero.
LEMMA ServiceCaseShape ==
  ASSUME NEW name, NEW srv, NEW guid, IsGuid(guid), NEW args, Len(args) \in 0 .. 5, NEW status
  PROVE  WellFormed(ServiceCase(name, srv, guid, args, status))
  <1> DEFINE c == ServiceCase(name, srv, guid, args, status)
  <1>1. c.guid = guid /\ c.arg = [a \in Args |-> c.arg[a]]
    BY DEF ServiceCase
  <1>2. c.arg[5] = ZeroReg
    BY DEF ServiceCase, Args
  <1> QED
    BY <1>1, <1>2 DEF WellFormed, ZeroReg, Scalar

\* A case with no request has zero in its place.
LEMMA LocalCaseShape ==
  ASSUME NEW name, NEW needs
  PROVE  WellFormed(LocalCase(name, needs))
BY DEF WellFormed, LocalCase, IsGuid, ZeroGuid, ZeroArgs, Args, ZeroReg, Scalar

\* So every case of the suite does.
LEMMA SuiteShape == \A t \in Tests : WellFormed(Suite[t])
  <1>1. /\ WellFormed(FfaMiscTestInterPartitionNormal)
        /\ WellFormed(FfaMiscTestInterPartitionSecondary)
        /\ WellFormed(FfaMiscTestInterPartitionDuplicateCookie)
        /\ WellFormed(FfaMiscTestInterPartitionInvalidDuplicateId)
        /\ WellFormed(FfaMiscTestInterPartitionInvalidMappingCountMin)
        /\ WellFormed(FfaMiscTestInterPartitionInvalidMappingCountMax)
    BY NotificationCaseShape
       DEF REGISTER, FfaMiscTestInterPartitionNormal, FfaMiscTestInterPartitionSecondary,
           FfaMiscTestInterPartitionDuplicateCookie,
           FfaMiscTestInterPartitionInvalidDuplicateId,
           FfaMiscTestInterPartitionInvalidMappingCountMin,
           FfaMiscTestInterPartitionInvalidMappingCountMax
  <1>2. /\ WellFormed(FfaMiscTestInterPartitionUnregisterNormal)
        /\ WellFormed(FfaMiscTestInterPartitionUnregisterInvalidCookie)
        /\ WellFormed(FfaMiscTestInterPartitionUnregisterInvalidId)
        /\ WellFormed(FfaMiscTestInterPartitionUnregisterInvalidUuid)
    BY NotificationCaseShape
       DEF UNREGISTER, FfaMiscTestInterPartitionUnregisterNormal,
           FfaMiscTestInterPartitionUnregisterInvalidCookie,
           FfaMiscTestInterPartitionUnregisterInvalidId,
           FfaMiscTestInterPartitionUnregisterInvalidUuid
  <1>3. /\ WellFormed(FfaMiscTestNotificationEvent)
        /\ WellFormed(FfaMiscTestTpmGetVersion)
        /\ WellFormed(FfaMiscTestTpmCloseLocality)
    BY ServiceCaseShape, RequestAssumption
       DEF FfaMiscTestNotificationEvent, FfaMiscTestTpmGetVersion, FfaMiscTestTpmCloseLocality
  <1> QED
    BY <1>1, <1>2, <1>3, LocalCaseShape DEF Tests, Suite

-----------------------------------------------------------------------------
\* What is not touched stays.
LEMMA DeliveryUnchanged ==
  ASSUME MsgInv, UNCHANGED delivery
  PROVE  MsgInv'
BY DEF MsgInv, delivery, OpenRequest, AtWork, RequestIntact, AnswerFitsRequest

\* A step that leaves the buffer and the SPMC's request and answer alone and ends outside
\* the handling of a request.
LEMMA NotAtWork ==
  ASSUME MsgInv, UNCHANGED <<client, request, answer>>, spPc' \notin {"dispatch", "serving"}
  PROVE  MsgInv'
BY DEF MsgInv, OpenRequest, AtWork, RequestIntact, AnswerFitsRequest

\* The dispatch of a request keeps it in the buffer.
LEMMA Dispatching ==
  ASSUME MsgInv, UNCHANGED <<msg, client, request, answer>>, spPc = "dispatch",
         spPc' = "serving"
  PROVE  MsgInv'
BY DEF MsgInv, OpenRequest, AtWork, RequestIntact, AnswerFitsRequest

\* A client's request is open.
LEMMA Opening ==
  ASSUME MsgInv, NEW c, NEW m, Open(c, m), c # "none", UNCHANGED spPc,
         /\ m.dest = SP_ID
         /\ \/ m.fid \in RequestsV1
            \/ m.fid = "REQ2" /\ IsMessage(m) /\ m.arg[5][0] \in Nat
  PROVE  MsgInv'
  <1>1. spPc \notin {"dispatch", "serving"} /\ answer = NoFrame
    BY DEF MsgInv, Open, AtWork, AnswerFitsRequest
  <1>2. client' = c /\ request' = m /\ answer' = answer
    BY DEF Open
  <1> QED
    BY <1>1, <1>2 DEF MsgInv, OpenRequest, AtWork, RequestIntact, AnswerFitsRequest

\* A client has its answer.
LEMMA Closing ==
  ASSUME MsgInv, NEW c, Close(c), UNCHANGED spPc
  PROVE  MsgInv'
  <1>1. spPc \notin {"dispatch", "serving"}
    BY DEF MsgInv, Close, AtWork
  <1>2. client' = "none" /\ answer' = NoFrame
    BY DEF Close
  <1> QED
    BY <1>1, <1>2 DEF MsgInv, OpenRequest, AtWork, RequestIntact, AnswerFitsRequest

\* The request is unpacked into the buffer as it was packed.
LEMMA Waiting ==
  ASSUME MsgInv, FfaMessageWait
  PROVE  MsgInv'
  <1>1. /\ client # "none" /\ answer = NoFrame /\ UNCHANGED <<client, request, answer>>
        /\ msg' = FfaUnpackDirectMessage(FfaPackDirectMessage(request), msg)
    BY DEF FfaMessageWait, spmc
  <1>2. OpenRequest
    BY DEF MsgInv
  <1>3. CASE request.fid = "REQ2"
    <2>1. IsMessage(request) /\ request.fid \notin RequestsV1 \cup ResponsesV1
      BY <1>1, <1>2, <1>3 DEF OpenRequest, RequestsV1, ResponsesV1
    <2>2. msg' = request
      BY <1>1, <2>1, MessageRoundTrip
    <2> QED
      BY <1>1, <1>3, <2>2 DEF MsgInv, OpenRequest, AtWork, RequestIntact, AnswerFitsRequest
  <1>4. CASE request.fid \in RequestsV1
    <2>1. /\ msg'.fid = request.fid /\ msg'.source = request.source /\ msg'.dest = request.dest
          /\ \A a \in Args : msg'.arg[a] = IF a <= 5 THEN request.arg[a] ELSE msg.arg[a]
      BY <1>1, <1>4, OldRequestRoundTrip
    <2>2. request.fid # "REQ2"
      BY <1>4 DEF RequestsV1
    <2>3. \A a \in 0 .. 5 : msg'.arg[a] = request.arg[a]
      BY <2>1 DEF Args
    <2> QED
      BY <1>1, <2>1, <2>2, <2>3
         DEF MsgInv, OpenRequest, AtWork, RequestIntact, AnswerFitsRequest
  <1> QED
    BY <1>1, <1>2, <1>3, <1>4 DEF OpenRequest

\* The answer of the notification service as its client unpacks it.
LEMMA NotificationEcho ==
  ASSUME msg.fid = "REQ2", msg.guid = NotificationGuid, msg.arg[5][0] \in Nat,
         NEW source, NEW dest
  PROVE  LET sent == DirectMsg("RESP2", source, dest, ZeroGuid, ResponseArgs)
             got == FfaUnpackDirectMessage(FfaPackDirectMessage(sent), NoMessage)
         IN /\ got.arg[3] = msg.arg[3] /\ got.arg[4] = msg.arg[4]
            /\ got.arg[5][0] % 4 = msg.arg[5][0] % 4
  <1> DEFINE sent == DirectMsg("RESP2", source, dest, ZeroGuid, ResponseArgs)
             info == msg.arg[5][0]
  <1>1. ResponseArgs = NotificationResponse
    BY RequestAssumption DEF ResponseArgs
  <1>2. /\ NotificationResponse = [a \in Args |-> NotificationResponse[a]]
        /\ NotificationResponse[3] = msg.arg[3] /\ NotificationResponse[4] = msg.arg[4]
        /\ NotificationResponse[5][0] \in {info, info + 256}
    BY DEF NotificationResponse, Args, Scalar, MESSAGE_INFO_DIR_RESP
  <1>3. IsMessage(sent) /\ sent.fid \notin RequestsV1 \cup ResponsesV1
    BY <1>1, <1>2 DEF IsMessage, IsGuid, DirectMsg, ZeroGuid, RequestsV1, ResponsesV1
  <1>4. FfaUnpackDirectMessage(FfaPackDirectMessage(sent), NoMessage) = sent
    BY <1>3, MessageRoundTrip
  <1>5. sent.arg = NotificationResponse
    BY <1>1 DEF DirectMsg
  <1>6. (info + 256) % 4 = info % 4
    OBVIOUS
  <1> QED
    BY <1>2, <1>4, <1>5, <1>6

\* The answer goes back where the request came from.
LEMMA Responding ==
  ASSUME MsgInv, FfaMessageSendDirectResp
  PROVE  MsgInv'
  <1> DEFINE sent == DirectMsg(ResponseFid, msg.dest, msg.source, ZeroGuid, ResponseArgs)
  <1>1. /\ spPc = "serving" /\ spPc' = "waiting" /\ UNCHANGED <<client, request>>
        /\ answer' = FfaPackDirectMessage(sent)
    BY DEF FfaMessageSendDirectResp
  <1>2. /\ client # "none" /\ request.dest = SP_ID
        /\ msg.fid = request.fid /\ msg.source = request.source /\ msg.dest = SP_ID
        /\ request.fid = "REQ2" => msg = request
        /\ \/ request.fid \in RequestsV1
           \/ request.fid = "REQ2" /\ request.arg[5][0] \in Nat
    BY <1>1 DEF MsgInv, OpenRequest, AtWork, RequestIntact
  <1>3. answer'.arg1 = <<SP_ID, request.source>> /\ answer'.fid = ResponseFid
    BY <1>1, <1>2 DEF FfaPackDirectMessage, DirectMsg
  <1>4. <<request.fid, answer'.fid>> \in {<<"REQ32", "RESP32">>, <<"REQ64", "RESP64">>,
                                         <<"REQ2", "RESP2">>}
    BY <1>2, <1>3 DEF ResponseFid, RequestsV1
  <1>5. ASSUME request.fid = "REQ2", request.guid = NotificationGuid
        PROVE  LET got == FfaUnpackDirectMessage(answer', NoMessage) IN
               /\ got.arg[3] = request.arg[3] /\ got.arg[4] = request.arg[4]
               /\ got.arg[5][0] % 4 = request.arg[5][0] % 4
    <2>1. msg = request /\ request.arg[5][0] \in Nat
      BY <1>2, <1>5 DEF RequestsV1
    <2>2. ResponseFid = "RESP2"
      BY <1>2, <1>5 DEF ResponseFid
    <2> QED
      BY <1>1, <1>5, <2>1, <2>2, NotificationEcho
  <1>6. AnswerFitsRequest'
    BY <1>1, <1>2, <1>3, <1>4, <1>5 DEF AnswerFitsRequest
  <1> QED
    BY <1>1, <1>6 DEF MsgInv, OpenRequest, AtWork, RequestIntact

-----------------------------------------------------------------------------
\* The initial state (FfaInit).
LEMMA MsgInvInit == AppInit => MsgInv
BY DEF AppInit, FfaInit, MsgInv, OpenRequest, AtWork, RequestIntact, AnswerFitsRequest

\* Every step of the partition, of the other clients and of the application.
LEMMA MsgInvStep == MsgInv /\ [AppNext]_appVars => MsgInv'
  <1> SUFFICES ASSUME MsgInv, [AppNext]_appVars
               PROVE  MsgInv'
    OBVIOUS
  <1>1. CASE SpInterrupt \/ FfaReturnFromInterrupt \/ FfaWaitNoMessage
    <2>1. UNCHANGED <<client, request, answer>> /\ spPc' \in {"interrupt", "waiting"}
      BY <1>1 DEF SpInterrupt, FfaReturnFromInterrupt, FfaWaitNoMessage, spmc
    <2> QED
      BY <2>1, NotAtWork
  <1>2. CASE FfaMessageWait
    BY <1>2, Waiting
  <1>3. CASE DispatchNotification \/ DispatchEvent \/ DispatchTestInvalid \/ DispatchOther
    <2>1. /\ UNCHANGED <<msg, client, request, answer>>
          /\ spPc = "dispatch" /\ spPc' = "serving"
      BY <1>3 DEF DispatchNotification, DispatchEvent, DispatchTestInvalid, DispatchOther,
                  Dispatched, spmc
    <2> QED
      BY <2>1, Dispatching
  <1>4. CASE Serve \/ PeerInterrupt \/ PeerInterruptDone
    <2>1. UNCHANGED delivery
      BY <1>4 DEF Serve, PeerInterrupt, PeerInterruptDone, delivery, spmc
    <2> QED
      BY <2>1, DeliveryUnchanged
  <1>5. CASE FfaMessageSendDirectResp
    BY <1>5, Responding
  <1>6. ASSUME NEW r \in PeerRequests, PeerSend(r[1], r[2])
        PROVE  MsgInv'
    <2>1. PICK found \in BOOLEAN :
            LET id == SourceId(mPartitionId["peer"], PEER_ID, found)
                m == DirectMsg("REQ2", id, SP_ID, r[1], r[2])
            IN /\ UNCHANGED <<spPc, msg>>
               /\ Open("peer", m) \/ UNCHANGED spmc
      BY <1>6 DEF PeerSend
    <2> DEFINE m == DirectMsg("REQ2", SourceId(mPartitionId["peer"], PEER_ID, found), SP_ID,
                              r[1], r[2])
    <2>2. m.dest = SP_ID /\ m.fid = "REQ2" /\ IsMessage(m) /\ m.arg[5][0] \in Nat
      BY <1>6, RequestAssumption DEF DirectMsg, IsMessage
    <2>3. CASE Open("peer", m)
      BY <2>1, <2>2, <2>3, Opening
    <2>4. CASE UNCHANGED spmc
      BY <2>1, <2>4, DeliveryUnchanged DEF spmc, delivery
    <2> QED
      BY <2>1, <2>3, <2>4
  <1>7. ASSUME NEW fid \in RequestsV1, NEW arg \in LegacyArgs, LegacySend(fid, arg)
        PROVE  MsgInv'
    <2> DEFINE m == DirectMsg(fid, LEGACY_ID, SP_ID, ZeroGuid, arg)
    <2>1. Open("legacy", m) /\ UNCHANGED spPc
      BY <1>7 DEF LegacySend
    <2>2. m.dest = SP_ID /\ m.fid \in RequestsV1
      BY <1>7 DEF DirectMsg
    <2> QED
      BY <2>1, <2>2, Opening
  <1>8. CASE PeerReceive \/ LegacyReceive \/ ReceiveResponse
    <2>1. UNCHANGED spPc /\ \E c \in {"peer", "legacy", "app"} : Close(c)
      BY <1>8 DEF PeerReceive, LegacyReceive, ReceiveResponse
    <2> QED
      BY <2>1, Closing
  <1>9. CASE SendRequest
    <2> DEFINE m == DirectMsg("REQ2", APP_ID, SP_ID, Suite[test].guid, Suite[test].arg)
    <2>1. UNCHANGED <<spPc, msg>> /\ test \in Tests /\ (Open("app", m) \/ UNCHANGED spmc)
      BY <1>9 DEF SendRequest
    <2>2. m.dest = SP_ID /\ m.fid = "REQ2" /\ IsMessage(m) /\ m.arg[5][0] \in Nat
      BY <2>1, SuiteShape DEF DirectMsg, IsMessage, WellFormed
    <2>3. CASE Open("app", m)
      BY <2>1, <2>2, <2>3, Opening
    <2>4. CASE UNCHANGED spmc
      BY <2>1, <2>4, DeliveryUnchanged DEF spmc, delivery
    <2> QED
      BY <2>1, <2>3, <2>4
  <1>10. CASE \/ Skip \/ FfaMiscVerifyVersion \/ FfaMiscGetPartitionInfoRegs
              \/ FfaMiscGetPartitionInfo \/ FfaMiscSetupNotifications
              \/ FfaMiscRegisterNotifications \/ StallEnds \/ FfaMiscTestFfaNsResInfoGet
              \/ ApIrqInterruptHandler \/ UNCHANGED appVars
    <2>1. UNCHANGED delivery
      BY <1>10 DEF Skip, FfaMiscVerifyVersion, FfaMiscGetPartitionInfoRegs,
                   FfaMiscGetPartitionInfo, FfaMiscSetupNotifications,
                   FfaMiscRegisterNotifications, StallEnds, FfaMiscTestFfaNsResInfoGet,
                   ApIrqInterruptHandler, appVars, ffaVars, delivery, spmc
    <2> QED
      BY <2>1, DeliveryUnchanged
  <1> QED
    BY <1>1, <1>2, <1>3, <1>4, <1>5, <1>6, <1>7, <1>8, <1>9, <1>10
       DEF AppNext, AppStep, FfaNext, Progress, PartitionStep, ClientStep

\* The invariant of the specification.
LEMMA MsgInvariance == AppSpec => []MsgInv
BY MsgInvInit, MsgInvStep, PTL DEF AppSpec

\* The request a service handles is the one its sender filled in, whatever messages came
\* before it and whenever interrupts arrive.
THEOREM RequestsIntact == AppSpec => []RequestIntact
  <1>1. MsgInv => RequestIntact
    BY DEF MsgInv
  <1> QED
    BY <1>1, MsgInvariance, PTL

\* Every answer is for the open request and of its kind, and the notification service
\* echoes what it was asked.
THEOREM AnswersFitRequests == AppSpec => []AnswerFitsRequest
  <1>1. MsgInv => AnswerFitsRequest
    BY DEF MsgInv
  <1> QED
    BY <1>1, MsgInvariance, PTL

-----------------------------------------------------------------------------
(***************************************************************************)
(* The notification service in the composition.  The requests that reach   *)
(* it are those its own module enumerates, so the composition implements   *)
(* that module and all that is proved of it holds here.                    *)
(***************************************************************************)

\* An open REQ2 carries what the sets of the notification service hold.
RequestCovered ==
  client # "none" /\ request.fid = "REQ2" =>
    request.source \in Sources /\ Covered(request.guid, request.arg)

\* Only clients fill in requests (PeerSend, LegacySend, SendRequest).
LEMMA RequestOrigin ==
  ASSUME [AppNext]_appVars
  PROVE  \/ UNCHANGED <<client, request>>
         \/ client' = "none"
         \/ \E r \in PeerRequests :
              request' = DirectMsg("REQ2", PEER_ID, SP_ID, r[1], r[2])
         \/ \E fid \in RequestsV1, arg \in LegacyArgs :
              request' = DirectMsg(fid, LEGACY_ID, SP_ID, ZeroGuid, arg)
         \/ \E t \in Tests :
              /\ Suite[t].name \notin LocalNames
              /\ request' = DirectMsg("REQ2", APP_ID, SP_ID, Suite[t].guid, Suite[t].arg)
  <1>1. CASE UNCHANGED spmc
    BY <1>1 DEF spmc
  <1>2. CASE SpInterrupt \/ FfaReturnFromInterrupt \/ FfaWaitNoMessage \/ FfaMessageWait
             \/ DispatchNotification \/ DispatchEvent \/ DispatchTestInvalid
             \/ DispatchOther \/ Serve \/ PeerInterrupt \/ PeerInterruptDone
    BY <1>1, <1>2 DEF SpInterrupt, FfaReturnFromInterrupt, FfaWaitNoMessage, FfaMessageWait,
                      DispatchNotification, DispatchEvent, DispatchTestInvalid, DispatchOther,
                      Serve, PeerInterrupt, PeerInterruptDone
  <1>3. CASE FfaMessageSendDirectResp
    BY <1>3 DEF FfaMessageSendDirectResp
  <1>4. ASSUME NEW r \in PeerRequests, PeerSend(r[1], r[2])
        PROVE  \/ UNCHANGED spmc
               \/ request' = DirectMsg("REQ2", PEER_ID, SP_ID, r[1], r[2])
    BY <1>4 DEF PeerSend, Open
  <1>5. ASSUME NEW fid \in RequestsV1, NEW arg \in LegacyArgs, LegacySend(fid, arg)
        PROVE  request' = DirectMsg(fid, LEGACY_ID, SP_ID, ZeroGuid, arg)
    BY <1>5 DEF LegacySend, Open
  <1>6. CASE PeerReceive \/ LegacyReceive \/ ReceiveResponse
    BY <1>6 DEF PeerReceive, LegacyReceive, ReceiveResponse, Close
  <1>7. CASE SendRequest
    <2>1. /\ test \in Tests /\ Suite[test].name \notin LocalNames
          /\ \/ UNCHANGED spmc
             \/ request' = DirectMsg("REQ2", APP_ID, SP_ID, Suite[test].guid, Suite[test].arg)
      BY <1>7 DEF SendRequest, Open
    <2> QED
      BY <1>1, <2>1
  <1>8. CASE \/ Skip \/ FfaMiscVerifyVersion \/ FfaMiscGetPartitionInfoRegs
             \/ FfaMiscGetPartitionInfo \/ FfaMiscSetupNotifications
             \/ FfaMiscRegisterNotifications \/ StallEnds \/ FfaMiscTestFfaNsResInfoGet
             \/ ApIrqInterruptHandler \/ UNCHANGED appVars
    <2>1. UNCHANGED <<client, request>>
      BY <1>8 DEF Skip, FfaMiscVerifyVersion, FfaMiscGetPartitionInfoRegs,
                  FfaMiscGetPartitionInfo, FfaMiscSetupNotifications,
                  FfaMiscRegisterNotifications, StallEnds, FfaMiscTestFfaNsResInfoGet,
                  ApIrqInterruptHandler, appVars, ffaVars, spmc
    <2> QED
      BY <2>1
  <1> QED
    BY <1>1, <1>2, <1>3, <1>4, <1>5, <1>6, <1>7, <1>8
       DEF AppNext, AppStep, FfaNext, Progress, PartitionStep, ClientStep

\* So they stay covered.
LEMMA RequestCoveredStep == RequestCovered /\ [AppNext]_appVars => RequestCovered'
  <1> SUFFICES ASSUME RequestCovered, [AppNext]_appVars, client' # "none",
                      request'.fid = "REQ2"
               PROVE  request'.source \in Sources /\ Covered(request'.guid, request'.arg)
    BY DEF RequestCovered
  <1>1. CASE UNCHANGED <<client, request>>
    BY <1>1 DEF RequestCovered
  <1>2. ASSUME NEW r \in PeerRequests,
               request' = DirectMsg("REQ2", PEER_ID, SP_ID, r[1], r[2])
        PROVE  request'.source \in Sources /\ Covered(request'.guid, request'.arg)
    BY <1>2, CoverAssumption DEF DirectMsg
  <1>3. ASSUME NEW fid \in RequestsV1, NEW arg \in LegacyArgs,
               request' = DirectMsg(fid, LEGACY_ID, SP_ID, ZeroGuid, arg)
        PROVE  FALSE
    BY <1>3 DEF DirectMsg, RequestsV1
  <1>4. ASSUME NEW t \in Tests, Suite[t].name \notin LocalNames,
               request' = DirectMsg("REQ2", APP_ID, SP_ID, Suite[t].guid, Suite[t].arg)
        PROVE  request'.source \in Sources /\ Covered(request'.guid, request'.arg)
    BY <1>4, CoverAssumption DEF DirectMsg
  <1> QED
    BY <1>1, <1>2, <1>3, <1>4, RequestOrigin

\* A request the partition dispatches to the notification or the test service is one that
\* the module of the service enumerates.
LEMMA DispatchIsMessage ==
  ASSUME MsgInv, RequestCovered,
         DispatchNotification \/ DispatchEvent \/ DispatchTestInvalid
  PROVE  Message
  <1>1. CASE DispatchNotification
    <2> DEFINE count == msg.arg[6][0]
    <2>1. Dispatched(NotificationGuid)
      BY <1>1 DEF DispatchNotification
    <2>2. msg = request /\ msg.source \in Sources /\ Covered(NotificationGuid, msg.arg)
      BY <2>1 DEF Dispatched, MsgInv, AtWork, RequestIntact, RequestCovered
    <2>3. /\ msg.arg[5][0] \in MsgInfos /\ <<msg.arg[3], msg.arg[4]>> \in UuidWords
          /\ count \in Counts
          /\ ValidCount(count % 256) =>
               \A k \in 1 .. (count % 256) : MappingOf(msg.arg[6 + k]) \in Mappings
      BY <2>2 DEF Covered
    <2>4. MappingsSent(count) \in MapsOf(count)
      BY <2>3 DEF MappingsSent, MapsOf
    <2>5. NotificationServiceHandle(msg.arg[5][0], <<msg.arg[3], msg.arg[4]>>, msg.source,
                                    count, MappingsSent(count))
      BY <1>1 DEF DispatchNotification
    <2> QED
      BY <2>2, <2>3, <2>4, <2>5, Zenon DEF Message
  <1>2. CASE DispatchEvent
    <2>1. Dispatched(TestGuid) /\ msg.arg[0][0] = TEST_OPCODE_TEST_NOTIFICATION
      BY <1>2 DEF DispatchEvent
    <2>2. msg = request /\ Covered(TestGuid, msg.arg)
      BY <2>1 DEF Dispatched, MsgInv, AtWork, RequestIntact, RequestCovered
    <2>3. <<msg.arg[1], msg.arg[2]>> \in UuidWords /\ msg.arg[3][0] \in Cookies
      BY <2>1, <2>2 DEF Covered
    <2>4. \E sent \in BOOLEAN :
            TestNotificationHandler(<<msg.arg[1], msg.arg[2]>>, msg.arg[3][0], sent)
      BY <1>2 DEF DispatchEvent
    <2> QED
      BY <2>3, <2>4, Zenon DEF Message
  <1>3. CASE DispatchTestInvalid
    BY <1>3 DEF DispatchTestInvalid, Message
  <1> QED
    BY <1>1, <1>2, <1>3

\* Every step of the composition is a step of the notification service, or leaves it alone.
LEMMA ServiceStep ==
  ASSUME MsgInv, RequestCovered, [AppNext]_appVars
  PROVE  [Next]_vars
  <1>1. CASE UNCHANGED service
    BY <1>1 DEF service, vars
  <1>2. CASE DispatchNotification \/ DispatchEvent \/ DispatchTestInvalid
    BY <1>2, DispatchIsMessage DEF Next
  <1>3. CASE Serve
    BY <1>3 DEF Serve, Next
  <1>4. CASE SpInterrupt \/ FfaReturnFromInterrupt \/ FfaWaitNoMessage \/ FfaMessageWait
             \/ DispatchOther \/ FfaMessageSendDirectResp \/ PeerInterrupt
             \/ PeerInterruptDone \/ PeerReceive \/ LegacyReceive \/ ClientStep
    BY <1>1, <1>4 DEF SpInterrupt, FfaReturnFromInterrupt, FfaWaitNoMessage, FfaMessageWait,
                      DispatchOther, FfaMessageSendDirectResp, PeerInterrupt,
                      PeerInterruptDone, PeerReceive, LegacyReceive, ClientStep, PeerSend,
                      LegacySend
  <1>5. CASE AppStep
    BY <1>1, <1>5 DEF AppStep, Skip, FfaMiscVerifyVersion, FfaMiscGetPartitionInfoRegs,
                      FfaMiscGetPartitionInfo, FfaMiscSetupNotifications,
                      FfaMiscRegisterNotifications, SendRequest, ReceiveResponse, StallEnds,
                      FfaMiscTestFfaNsResInfoGet, ffaVars
  <1>6. CASE ApIrqInterruptHandler \/ UNCHANGED appVars
    BY <1>1, <1>6 DEF ApIrqInterruptHandler, appVars, ffaVars
  <1> QED
    BY <1>2, <1>3, <1>4, <1>5, <1>6 DEF AppNext, FfaNext, Progress, PartitionStep

\* The partition with its clients runs the notification service as its module specifies
\* it: no interleaving of requests, interrupts and failing calls gets between the mappings
\* of a request, or hands the service a message that no client filled in.
THEOREM CompositionRunsService == AppSpec => Spec
  <1>1. AppInit => Init /\ RequestCovered
    BY DEF AppInit, FfaInit, RequestCovered
  <1>2. MsgInv /\ RequestCovered /\ [AppNext]_appVars => RequestCovered' /\ [Next]_vars
    BY RequestCoveredStep, ServiceStep
  <1> QED
    BY <1>1, <1>2, MsgInvariance, PTL DEF AppSpec, Spec

\* With several clients at once an ID has one registrant, and an event is raised at the
\* partition that asked for it.
THEOREM ServiceSafeInComposition == AppSpec => [](IdsExclusive /\ EventReachesOwner)
BY CompositionRunsService, IdsExclusiveCorrect, EventCorrect, PTL

-----------------------------------------------------------------------------
(***************************************************************************)
(* The types of the composition.  Each group of variables is changed by a  *)
(* few actions only.                                                       *)
(***************************************************************************)

CountersOK ==
  /\ spPc \in {"waiting", "interrupt", "dispatch", "serving"}
  /\ peerPc \in {"idle", "sent", "interrupt"}
  /\ client \in {"none", "peer", "legacy", "app"}
KnownIds ==
  /\ mPartitionId = [i \in Images |-> mPartitionId[i]]
  /\ \A i \in Images : mPartitionId[i] \in {INVALID_SOURCE_ID, OwnId[i]}
BitmapsOK == bound \in Bitmaps /\ pending \in Bitmaps /\ raised \in Bitmaps /\ fetched \in Bitmaps
DisturbancesOK == disturbances \in 0 .. MaxDisturbances
SuiteOK ==
  /\ test \in 1 .. (Len(Suite) + 1) /\ appPc \in {"run", "sent", "stall", "done"}
  /\ result \in [Tests -> {"none", "passed", "failed", "skipped"}]
  /\ appPc \in {"sent", "stall"} => test \in Tests
FlagsOK ==
  /\ bitmapCreated \in BOOLEAN /\ sri \in BOOLEAN /\ mIsInterruptFired \in BOOLEAN
  /\ handler \in BOOLEAN /\ rxHeld \in BOOLEAN

\* The steps of the partition and of the other clients, and those of the application.
LEMMA Steps ==
  ASSUME [AppNext]_appVars
  PROVE  \/ \/ SpInterrupt \/ FfaReturnFromInterrupt \/ FfaWaitNoMessage \/ FfaMessageWait
            \/ DispatchNotification \/ DispatchEvent \/ DispatchTestInvalid
            \/ DispatchOther \/ Serve \/ FfaMessageSendDirectResp
         \/ \/ PeerInterrupt \/ PeerInterruptDone \/ PeerReceive \/ LegacyReceive
            \/ \E r \in PeerRequests : PeerSend(r[1], r[2])
            \/ \E fid \in RequestsV1, arg \in LegacyArgs : LegacySend(fid, arg)
         \/ AppStep
         \/ ApIrqInterruptHandler
         \/ UNCHANGED appVars
BY DEF AppNext, FfaNext, Progress, PartitionStep, ClientStep

\* The steps that are not the application's leave its variables alone.
LEMMA AppUntouched ==
  ASSUME [AppNext]_appVars
  PROVE  AppStep \/ ApIrqInterruptHandler \/ UNCHANGED app
BY DEF AppNext, appVars

\* An event is a step of the partition.
LEMMA EventLeavesApp ==
  ASSUME [AppNext]_appVars, DispatchEvent
  PROVE  UNCHANGED app
  <1>1. spPc' # spPc
    BY DEF DispatchEvent, Dispatched
  <1>2. AppStep \/ ApIrqInterruptHandler => UNCHANGED spPc
    BY DEF AppStep, ApIrqInterruptHandler, Skip, FfaMiscVerifyVersion,
           FfaMiscGetPartitionInfoRegs, FfaMiscGetPartitionInfo, FfaMiscSetupNotifications,
           FfaMiscRegisterNotifications, SendRequest, ReceiveResponse, StallEnds,
           FfaMiscTestFfaNsResInfoGet, ffaVars
  <1> QED
    BY <1>1, <1>2, AppUntouched

\* A client's request is opened or closed, or the SPMC's client stays.
LEMMA CountersStep == CountersOK /\ [AppNext]_appVars => CountersOK'
  <1> SUFFICES ASSUME CountersOK, [AppNext]_appVars
               PROVE  CountersOK'
    OBVIOUS
  <1>1. CASE \/ SpInterrupt \/ FfaReturnFromInterrupt \/ FfaWaitNoMessage \/ FfaMessageWait
             \/ DispatchNotification \/ DispatchEvent \/ DispatchTestInvalid
             \/ DispatchOther \/ Serve \/ FfaMessageSendDirectResp
    <2>1. /\ UNCHANGED <<peerPc, client>>
          /\ spPc' \in {spPc, "waiting", "interrupt", "dispatch", "serving"}
      BY <1>1 DEF SpInterrupt, FfaReturnFromInterrupt, FfaWaitNoMessage, FfaMessageWait,
                  DispatchNotification, DispatchEvent, DispatchTestInvalid, DispatchOther,
                  Serve, FfaMessageSendDirectResp, spmc
    <2> QED
      BY <2>1 DEF CountersOK
  <1>2. CASE PeerInterrupt \/ PeerInterruptDone \/ PeerReceive \/ LegacyReceive
    <2>1. /\ UNCHANGED spPc /\ peerPc' \in {peerPc, "idle", "sent", "interrupt"}
          /\ client' \in {client, "none"}
      BY <1>2 DEF PeerInterrupt, PeerInterruptDone, PeerReceive, LegacyReceive, Close, spmc
    <2> QED
      BY <2>1 DEF CountersOK
  <1>3. ASSUME NEW r \in PeerRequests, PeerSend(r[1], r[2])
        PROVE  CountersOK'
    <2>1. /\ UNCHANGED spPc /\ peerPc' \in {peerPc, "sent"} /\ client' \in {client, "peer"}
      BY <1>3 DEF PeerSend, Open, spmc
    <2> QED
      BY <2>1 DEF CountersOK
  <1>4. ASSUME NEW fid \in RequestsV1, NEW arg \in LegacyArgs, LegacySend(fid, arg)
        PROVE  CountersOK'
    BY <1>4 DEF LegacySend, Open, CountersOK
  <1>5. CASE AppStep
    <2>1. UNCHANGED <<spPc, peerPc>> /\ client' \in {client, "app", "none"}
      BY <1>5 DEF AppStep, Skip, FfaMiscVerifyVersion, FfaMiscGetPartitionInfoRegs,
                  FfaMiscGetPartitionInfo, FfaMiscSetupNotifications,
                  FfaMiscRegisterNotifications, SendRequest, ReceiveResponse, StallEnds,
                  FfaMiscTestFfaNsResInfoGet, ffaVars, spmc, Open, Close
    <2> QED
      BY <2>1 DEF CountersOK
  <1>6. CASE ApIrqInterruptHandler \/ UNCHANGED appVars
    BY <1>6 DEF ApIrqInterruptHandler, appVars, ffaVars, spmc, CountersOK
  <1> QED
    BY <1>1, <1>2, <1>3, <1>4, <1>5, <1>6, Steps

\* Looking up an ID gives the image's own or none (SourceId).
LEMMA SourceIdKnown ==
  ASSUME NEW own, NEW id \in {INVALID_SOURCE_ID, own}, NEW found
  PROVE  SourceId(id, own, found) \in {INVALID_SOURCE_ID, own}
BY DEF SourceId

\* mPartitionId changes by such a lookup only.
LEMMA KnownIdsUpdate ==
  ASSUME KnownIds, NEW i \in Images, NEW found,
         mPartitionId' = [mPartitionId EXCEPT ![i] = SourceId(mPartitionId[i], OwnId[i], found)]
  PROVE  KnownIds'
  <1>1. SourceId(mPartitionId[i], OwnId[i], found) \in {INVALID_SOURCE_ID, OwnId[i]}
    BY SourceIdKnown DEF KnownIds
  <1>2. ASSUME NEW j \in Images
        PROVE  mPartitionId'[j] \in {INVALID_SOURCE_ID, OwnId[j]}
    BY <1>1 DEF KnownIds
  <1> QED
    BY <1>2 DEF KnownIds

\* The IDs of the three images.
LEMMA OwnIds == OwnId["sp"] = SP_ID /\ OwnId["peer"] = PEER_ID /\ OwnId["app"] = APP_ID
BY DEF OwnId, Images

\* An image knows its own ID or none.
LEMMA KnownIdsStep == KnownIds /\ [AppNext]_appVars => KnownIds'
  <1> SUFFICES ASSUME KnownIds, [AppNext]_appVars
               PROVE  KnownIds'
    OBVIOUS
  <1>0. {"sp", "peer", "app"} \subseteq Images
    BY DEF Images
  <1>1. CASE UNCHANGED mPartitionId
    BY <1>1 DEF KnownIds
  <1>2. CASE \/ SpInterrupt \/ FfaReturnFromInterrupt \/ FfaWaitNoMessage \/ FfaMessageWait
             \/ DispatchNotification \/ DispatchTestInvalid
             \/ DispatchOther \/ Serve \/ FfaMessageSendDirectResp
             \/ PeerInterrupt \/ PeerInterruptDone \/ PeerReceive \/ LegacyReceive
             \/ UNCHANGED appVars
    BY <1>1, <1>2 DEF SpInterrupt, FfaReturnFromInterrupt, FfaWaitNoMessage, FfaMessageWait,
                      DispatchNotification, DispatchTestInvalid, DispatchOther, Serve,
                      FfaMessageSendDirectResp, PeerInterrupt, PeerInterruptDone,
                      PeerReceive, LegacyReceive, appVars, ffaVars
  <1>3. CASE DispatchEvent
    <2>1. \/ UNCHANGED mPartitionId
          \/ \E found \in BOOLEAN :
               mPartitionId' = [mPartitionId EXCEPT !["sp"] =
                                  SourceId(mPartitionId["sp"], SP_ID, found)]
      BY <1>3 DEF DispatchEvent
    <2> QED
      BY <1>0, <1>1, <2>1, KnownIdsUpdate, OwnIds
  <1>4. ASSUME NEW r \in PeerRequests, PeerSend(r[1], r[2])
        PROVE  KnownIds'
    <2>1. \E found \in BOOLEAN :
            mPartitionId' = [mPartitionId EXCEPT !["peer"] =
                               SourceId(mPartitionId["peer"], PEER_ID, found)]
      BY <1>4 DEF PeerSend
    <2> QED
      BY <1>0, <2>1, KnownIdsUpdate, OwnIds
  <1>5. ASSUME NEW fid \in RequestsV1, NEW arg \in LegacyArgs, LegacySend(fid, arg)
        PROVE  KnownIds'
    BY <1>1, <1>5 DEF LegacySend
  <1>6. CASE FfaMiscSetupNotifications
    <2>1. \E found \in BOOLEAN :
            mPartitionId' = [mPartitionId EXCEPT !["app"] =
                               SourceId(mPartitionId["app"], APP_ID, found)]
      BY <1>6 DEF FfaMiscSetupNotifications
    <2> QED
      BY <1>0, <2>1, KnownIdsUpdate, OwnIds
  <1>7. CASE ApIrqInterruptHandler
    <2>1. \E found \in BOOLEAN :
            mPartitionId' = [mPartitionId EXCEPT !["app"] =
                               SourceId(mPartitionId["app"], APP_ID, found)]
      BY <1>7 DEF ApIrqInterruptHandler
    <2> QED
      BY <1>0, <2>1, KnownIdsUpdate, OwnIds
  <1>8. CASE AppStep /\ ~FfaMiscSetupNotifications
    BY <1>1, <1>8 DEF AppStep, Skip, FfaMiscVerifyVersion, FfaMiscGetPartitionInfoRegs,
                      FfaMiscGetPartitionInfo, FfaMiscRegisterNotifications, SendRequest,
                      ReceiveResponse, StallEnds, FfaMiscTestFfaNsResInfoGet, ffaVars
  <1> QED
    BY <1>2, <1>3, <1>4, <1>5, <1>6, <1>7, <1>8, Steps

\* What two registers hold is within the bitmap.
LEMMA WholeIsBitmap ==
  ASSUME NEW bits
  PROVE  Whole(LowHalf(bits), HighHalf(bits)) \in Bitmaps
  <1>1. ASSUME NEW b \in Whole(LowHalf(bits), HighHalf(bits))
        PROVE  b \in 0 .. (2 * UINT32_BITS - 1)
    <2>1. b \in Low32 \/ \E c \in Low32 : b = c + UINT32_BITS
      BY DEF Whole, LowHalf, HighHalf
    <2> QED
      BY <2>1, HalfAssumption DEF Low32
  <1> QED
    BY <1>1 DEF Bitmaps

\* The bits of an event fit the bitmap of a partition.
LEMMA EventBits ==
  ASSUME TypeOK', NEW n \in notified'
  PROVE  n.bits \in Bitmaps
BY WidthAssumption DEF TypeOK, Bitmaps

\* What an event changes in the SPMC: all of its bits are pending and recorded, or nothing
\* is (FfaNotificationSet).
LEMMA EventEffect ==
  ASSUME TypeOK', sri \in BOOLEAN, DispatchEvent
  PROVE  /\ UNCHANGED <<bitmapCreated, bound>>
         /\ \/ UNCHANGED <<pending, sri, raised>>
            \/ \E bits \in Bitmaps :
                 pending' = pending \cup bits /\ raised' = raised \cup bits /\ sri' = TRUE
  <1>1. CASE notified' = {}
    <2>1. UNCHANGED notifications
      BY <1>1 DEF DispatchEvent
    <2> QED
      BY <2>1 DEF notifications
  <1>2. CASE notified' # {}
    <2> DEFINE n == CHOOSE e \in notified' : TRUE
    <2>1. n \in notified' /\ n.bits \in Bitmaps
      BY <1>2, EventBits
    <2>2. PICK sent \in BOOLEAN, found \in BOOLEAN, refused \in BOOLEAN :
            LET c == FfaNotificationSet(SourceId(mPartitionId["sp"], SP_ID, found), n.dest,
                                        n.bits)
            IN /\ pending' = IF sent THEN pending \cup Whole(c.arg3, c.arg4) ELSE pending
               /\ sri' = (sri \/ sent)
               /\ raised' = IF sent THEN raised \cup n.bits ELSE raised
               /\ UNCHANGED <<bitmapCreated, bound>>
      BY <1>2 DEF DispatchEvent
    <2> HIDE DEF n
    <2>3. Whole(LowHalf(n.bits), HighHalf(n.bits)) = n.bits
      BY <2>1, HalvesMakeWhole DEF Bitmaps
    <2>4. pending' = IF sent THEN pending \cup n.bits ELSE pending
      BY <2>2, <2>3 DEF FfaNotificationSet
    <2>5. CASE sent
      BY <2>1, <2>2, <2>4, <2>5
    <2>6. CASE ~sent
      BY <2>2, <2>4, <2>6
    <2> QED
      BY <2>2, <2>5, <2>6
  <1> QED
    BY <1>1, <1>2

\* What the interrupt handler does with the pending bits: it fetches all of them, or the
\* call failed (FfaNotificationGet).
LEMMA HandlerEffect ==
  ASSUME ApIrqInterruptHandler, pending \in Bitmaps
  PROVE  /\ UNCHANGED <<bitmapCreated, bound, raised>>
         /\ \/ fetched' = fetched \cup pending /\ pending' = {} /\ faults' = faults
            \/ UNCHANGED <<fetched, pending>> /\ faults' = faults \cup {"get"}
  <1> DEFINE regs == [r \in 2 .. 7 |-> CASE r = 2 -> LowHalf(pending)
                                         [] r = 3 -> HighHalf(pending)
                                         [] OTHER -> {}]
  <1>1. PICK fails \in BOOLEAN :
          /\ Fault("get", fails)
          /\ fetched' = IF fails THEN fetched ELSE fetched \cup FfaNotificationGet("SP", regs)
          /\ pending' = IF fails THEN pending ELSE {}
    BY DEF ApIrqInterruptHandler
  <1>2. regs[2] = LowHalf(pending) /\ regs[3] = HighHalf(pending)
    OBVIOUS
  <1> HIDE DEF regs
  <1>3. FfaNotificationGet("SP", regs) = pending
    BY <1>2, HalvesMakeWhole DEF FfaNotificationGet, Bitmaps
  <1>4. UNCHANGED <<bitmapCreated, bound, raised>>
    BY DEF ApIrqInterruptHandler
  <1> QED
    BY <1>1, <1>3, <1>4 DEF Fault, disturbed

\* What the set-up case binds (FfaNotificationBind).
LEMMA SetupEffect ==
  ASSUME FfaMiscSetupNotifications
  PROVE  /\ UNCHANGED <<pending, sri, raised, fetched>>
         /\ \/ bound' = bound
            \/ bound' = bound \cup Whole(LowHalf({BIND_BIT}), HighHalf({BIND_BIT}))
  <1>1. PICK failing \in {"none", "lookup", "create", "bind"} :
          LET id == SourceId(mPartitionId["app"], APP_ID, failing # "lookup")
              c == FfaNotificationBind(id, SP_ID, {BIND_BIT})
          IN bound' = IF BindAccepted(c) /\ ~bitmapCreated /\ failing # "bind"
                      THEN bound \cup Whole(c.arg3, c.arg4) ELSE bound
    BY DEF FfaMiscSetupNotifications
  <1>2. UNCHANGED <<pending, sri, raised, fetched>>
    BY DEF FfaMiscSetupNotifications
  <1> QED
    BY <1>1, <1>2 DEF FfaNotificationBind

\* The steps that touch no bits.
LEMMA BitsUntouched ==
  ASSUME [AppNext]_appVars, ~DispatchEvent, ~ApIrqInterruptHandler, ~FfaMiscSetupNotifications
  PROVE  UNCHANGED <<bitmapCreated, bound, pending, sri, raised, fetched>>
  <1>1. CASE UNCHANGED notifications /\ UNCHANGED fetched
    BY <1>1 DEF notifications
  <1>2. CASE AppStep
    BY <1>1, <1>2 DEF AppStep, Skip, FfaMiscVerifyVersion, FfaMiscGetPartitionInfoRegs,
                      FfaMiscGetPartitionInfo, FfaMiscRegisterNotifications, SendRequest,
                      ReceiveResponse, StallEnds, FfaMiscTestFfaNsResInfoGet, ffaVars,
                      notifications
  <1>3. CASE ~AppStep
    <2>1. UNCHANGED fetched
      BY <1>3, AppUntouched DEF app
    <2>2. \/ /\ \/ SpInterrupt \/ FfaReturnFromInterrupt \/ FfaWaitNoMessage \/ FfaMessageWait
                \/ DispatchNotification \/ DispatchTestInvalid
                \/ DispatchOther \/ Serve \/ FfaMessageSendDirectResp
                \/ PeerInterrupt \/ PeerInterruptDone \/ PeerReceive \/ LegacyReceive
                \/ \E r \in PeerRequests : PeerSend(r[1], r[2])
                \/ \E fid \in RequestsV1, arg \in LegacyArgs : LegacySend(fid, arg)
             /\ UNCHANGED notifications
          \/ UNCHANGED appVars
      BY <1>3, Steps DEF SpInterrupt, FfaReturnFromInterrupt, FfaWaitNoMessage, FfaMessageWait,
                  DispatchNotification, DispatchTestInvalid, DispatchOther, Serve,
                  FfaMessageSendDirectResp, PeerInterrupt, PeerInterruptDone,
                  PeerReceive, LegacyReceive, PeerSend, LegacySend
    <2>3. UNCHANGED appVars => UNCHANGED notifications
      BY DEF appVars, ffaVars, notifications
    <2> QED
      BY <1>1, <2>1, <2>2, <2>3
  <1> QED
    BY <1>2, <1>3

\* The bits stay within the bitmaps.
LEMMA BitmapsStep == TypeOK' /\ FlagsOK /\ BitmapsOK /\ [AppNext]_appVars => BitmapsOK'
  <1> SUFFICES ASSUME TypeOK', FlagsOK, BitmapsOK, [AppNext]_appVars
               PROVE  BitmapsOK'
    OBVIOUS
  <1>0. /\ \A a, b \in Bitmaps : a \cup b \in Bitmaps
        /\ {} \in Bitmaps
    BY DEF Bitmaps
  <1>1. CASE DispatchEvent
    <2>1. fetched' = fetched
      BY <1>1, EventLeavesApp DEF app
    <2> QED
      BY <1>0, <1>1, <2>1, EventEffect, Zenon DEF BitmapsOK, FlagsOK
  <1>2. CASE ApIrqInterruptHandler
    BY <1>0, <1>2, HandlerEffect, Zenon DEF BitmapsOK
  <1>3. CASE FfaMiscSetupNotifications
    BY <1>0, <1>3, SetupEffect, WholeIsBitmap, Zenon DEF BitmapsOK
  <1>4. CASE ~DispatchEvent /\ ~ApIrqInterruptHandler /\ ~FfaMiscSetupNotifications
    BY <1>4, BitsUntouched, Zenon DEF BitmapsOK
  <1> QED
    BY <1>1, <1>2, <1>3, <1>4

\* The disturbances stay within their bound (Disturb).
LEMMA DisturbancesStep == DisturbancesOK /\ [AppNext]_appVars => DisturbancesOK'
  <1> SUFFICES ASSUME DisturbancesOK, [AppNext]_appVars
               PROVE  DisturbancesOK'
    OBVIOUS
  <1>1. ASSUME Disturb \/ UNCHANGED disturbances
        PROVE  DisturbancesOK'
    BY <1>1, BoundAssumption DEF Disturb, DisturbancesOK
  <1>2. CASE \/ SpInterrupt \/ FfaReturnFromInterrupt \/ FfaWaitNoMessage \/ FfaMessageWait
             \/ DispatchNotification \/ DispatchTestInvalid
             \/ DispatchOther \/ Serve \/ FfaMessageSendDirectResp
             \/ PeerInterrupt \/ PeerInterruptDone \/ PeerReceive \/ LegacyReceive
             \/ \E r \in PeerRequests : PeerSend(r[1], r[2])
             \/ \E fid \in RequestsV1, arg \in LegacyArgs : LegacySend(fid, arg)
             \/ UNCHANGED appVars
    <2>1. Disturb \/ UNCHANGED disturbances
      BY <1>2 DEF SpInterrupt, FfaReturnFromInterrupt, FfaWaitNoMessage, FfaMessageWait,
                  DispatchNotification, DispatchTestInvalid, DispatchOther, Serve,
                  FfaMessageSendDirectResp, PeerInterrupt, PeerInterruptDone,
                  PeerReceive, LegacyReceive, PeerSend, LegacySend, disturbed, appVars, ffaVars
    <2> QED
      BY <1>1, <2>1
  <1>3. CASE DispatchEvent
    <2>1. Disturb \/ UNCHANGED disturbances
      BY <1>3 DEF DispatchEvent, Fault, disturbed
    <2> QED
      BY <1>1, <2>1
  <1>4. CASE AppStep \/ ApIrqInterruptHandler
    <2>1. Disturb \/ UNCHANGED disturbances
      BY <1>4 DEF AppStep, Skip, FfaMiscVerifyVersion, FfaMiscGetPartitionInfoRegs,
                  FfaMiscGetPartitionInfo, FfaMiscSetupNotifications,
                  FfaMiscRegisterNotifications, SendRequest, ReceiveResponse, StallEnds,
                  FfaMiscTestFfaNsResInfoGet, ApIrqInterruptHandler, Fault, disturbed, ffaVars
    <2> QED
      BY <1>1, <2>1
  <1> QED
    BY <1>2, <1>3, <1>4, Steps

\* The suite is not empty.
LEMMA SuiteLength == Len(Suite) \in Nat \ {0}
BY DEF Suite

\* A verdict is recorded for the current case and the next one is due (Verdict).
LEMMA VerdictStep ==
  ASSUME SuiteOK, test \in Tests, NEW v \in {"passed", "failed", "skipped"}, Verdict(v)
  PROVE  SuiteOK'
  <1>1. test' = test + 1 /\ test \in 1 .. Len(Suite)
    BY DEF Verdict, Tests
  <1>2. test' \in 1 .. (Len(Suite) + 1)
    BY <1>1, SuiteLength
  <1>3. appPc' \in {"run", "done"}
    BY DEF Verdict
  <1>4. result' \in [Tests -> {"none", "passed", "failed", "skipped"}]
    BY DEF Verdict, SuiteOK
  <1> QED
    BY <1>2, <1>3, <1>4 DEF SuiteOK

\* Whatever a case finds, its verdict is one of two.
LEMMA PassedStep ==
  ASSUME SuiteOK, test \in Tests, NEW condition, Passed(condition)
  PROVE  SuiteOK'
BY VerdictStep, Zenon DEF Passed

\* The suite goes from case to case.
LEMMA SuiteStep == SuiteOK /\ [AppNext]_appVars => SuiteOK'
  <1> SUFFICES ASSUME SuiteOK, [AppNext]_appVars
               PROVE  SuiteOK'
    OBVIOUS
  <1>1. CASE UNCHANGED <<test, appPc, result>>
    BY <1>1 DEF SuiteOK
  <1>2. CASE UNCHANGED app \/ ApIrqInterruptHandler
    BY <1>1, <1>2 DEF app, ApIrqInterruptHandler
  <1>3. CASE Skip
    BY <1>3, VerdictStep DEF Skip
  <1>4. CASE FfaMiscVerifyVersion
    <2>1. test \in Tests /\ \E condition : Passed(condition)
      BY <1>4 DEF FfaMiscVerifyVersion, Due
    <2> QED
      BY <2>1, PassedStep
  <1>5. CASE FfaMiscGetPartitionInfoRegs
    <2>1. test \in Tests /\ \E condition : Passed(condition)
      BY <1>5 DEF FfaMiscGetPartitionInfoRegs, Due
    <2> QED
      BY <2>1, PassedStep
  <1>6. CASE FfaMiscGetPartitionInfo
    <2>1. test \in Tests /\ \E condition : Passed(condition)
      BY <1>6 DEF FfaMiscGetPartitionInfo, Due
    <2> QED
      BY <2>1, PassedStep
  <1>7. CASE FfaMiscSetupNotifications
    <2>1. test \in Tests /\ \E condition : Passed(condition)
      BY <1>7 DEF FfaMiscSetupNotifications, Due
    <2> QED
      BY <2>1, PassedStep
  <1>8. CASE FfaMiscRegisterNotifications
    <2>1. test \in Tests /\ \E condition : Passed(condition)
      BY <1>8 DEF FfaMiscRegisterNotifications, Due
    <2> QED
      BY <2>1, PassedStep
  <1>9. CASE FfaMiscTestFfaNsResInfoGet
    <2>1. test \in Tests /\ \E condition : Passed(condition)
      BY <1>9 DEF FfaMiscTestFfaNsResInfoGet, Due
    <2> QED
      BY <2>1, PassedStep
  <1>10. CASE StallEnds
    <2>1. test \in Tests /\ \E condition : Passed(condition)
      BY <1>10 DEF StallEnds, SuiteOK
    <2> QED
      BY <2>1, PassedStep
  <1>11. CASE SendRequest
    <2>1. test \in Tests
      BY <1>11 DEF SendRequest
    <2>2. \/ Verdict("failed")
          \/ appPc' = "sent" /\ UNCHANGED <<test, result>>
      BY <1>11 DEF SendRequest
    <2>3. CASE appPc' = "sent" /\ UNCHANGED <<test, result>>
      BY <2>1, <2>3 DEF SuiteOK
    <2> QED
      BY <2>1, <2>2, <2>3, VerdictStep
  <1>12. CASE ReceiveResponse
    <2>1. test \in Tests
      BY <1>12 DEF ReceiveResponse, SuiteOK
    <2>2. \/ \E condition : Passed(condition)
          \/ appPc' = "stall" /\ UNCHANGED <<test, result>>
      BY <1>12 DEF ReceiveResponse
    <2>3. CASE appPc' = "stall" /\ UNCHANGED <<test, result>>
      BY <2>1, <2>3 DEF SuiteOK
    <2> QED
      BY <2>1, <2>2, <2>3, PassedStep
  <1> QED
    BY <1>2, <1>3, <1>4, <1>5, <1>6, <1>7, <1>8, <1>9, <1>10, <1>11, <1>12, AppUntouched
       DEF AppStep

\* Flags are only set, reset or kept.
LEMMA FlagsStep == TypeOK' /\ FlagsOK /\ [AppNext]_appVars => FlagsOK'
  <1> SUFFICES ASSUME TypeOK', FlagsOK, [AppNext]_appVars
               PROVE  FlagsOK'
    OBVIOUS
  <1>1. bitmapCreated' \in BOOLEAN
    <2>1. CASE FfaMiscSetupNotifications
      BY <2>1, Zenon DEF FfaMiscSetupNotifications
    <2>2. CASE DispatchEvent
      BY <2>2, EventEffect, Zenon DEF FlagsOK
    <2>3. CASE ApIrqInterruptHandler
      BY <2>3, Zenon DEF ApIrqInterruptHandler, FlagsOK
    <2> QED
      BY <2>1, <2>2, <2>3, BitsUntouched, Zenon DEF FlagsOK
  <1>2. sri' \in BOOLEAN
    <2>1. CASE DispatchEvent
      BY <2>1, EventEffect, Zenon DEF FlagsOK
    <2>2. CASE ApIrqInterruptHandler
      BY <2>2, Zenon DEF ApIrqInterruptHandler
    <2>3. CASE FfaMiscSetupNotifications
      BY <2>3, Zenon DEF FfaMiscSetupNotifications, FlagsOK
    <2> QED
      BY <2>1, <2>2, <2>3, BitsUntouched, Zenon DEF FlagsOK
  <1>3. /\ mIsInterruptFired' \in BOOLEAN /\ handler' \in BOOLEAN /\ rxHeld' \in BOOLEAN
    <2>1. CASE UNCHANGED <<mIsInterruptFired, handler, rxHeld>>
      BY <2>1, Zenon DEF FlagsOK
    <2>2. CASE UNCHANGED app
      BY <2>1, <2>2 DEF app
    <2>3. CASE Skip \/ FfaMiscVerifyVersion \/ FfaMiscGetPartitionInfoRegs
               \/ FfaMiscSetupNotifications \/ ReceiveResponse \/ StallEnds
      BY <2>1, <2>3 DEF Skip, FfaMiscVerifyVersion, FfaMiscGetPartitionInfoRegs,
                        FfaMiscSetupNotifications, ReceiveResponse, StallEnds
    <2>4. CASE FfaMiscGetPartitionInfo
      BY <2>4, Zenon DEF FfaMiscGetPartitionInfo, FlagsOK
    <2>5. CASE FfaMiscTestFfaNsResInfoGet
      BY <2>5, Zenon DEF FfaMiscTestFfaNsResInfoGet, FlagsOK
    <2>6. CASE FfaMiscRegisterNotifications
      BY <2>6, Zenon DEF FfaMiscRegisterNotifications, FlagsOK
    <2>7. CASE SendRequest
      BY <2>7, Zenon DEF SendRequest, FlagsOK
    <2>8. CASE ApIrqInterruptHandler
      BY <2>8, Zenon DEF ApIrqInterruptHandler, FlagsOK
    <2> QED
      BY <2>2, <2>3, <2>4, <2>5, <2>6, <2>7, <2>8, AppUntouched DEF AppStep
  <1> QED
    BY <1>1, <1>2, <1>3 DEF FlagsOK

\* Only services are found.
LEMMA AvailableStep ==
  available \subseteq Services /\ [AppNext]_appVars => available' \subseteq Services
  <1> SUFFICES ASSUME available \subseteq Services, [AppNext]_appVars
               PROVE  available' \subseteq Services
    OBVIOUS
  <1>1. CASE UNCHANGED app \/ ApIrqInterruptHandler
    BY <1>1 DEF app, ApIrqInterruptHandler
  <1>2. CASE FfaMiscGetPartitionInfoRegs
    <2>1. \/ UNCHANGED available
          \/ available' = {s \in Services : FfaPartitionInfoGetRegs(deployed[s], 1) = "SUCCESS"}
      BY <1>2 DEF FfaMiscGetPartitionInfoRegs
    <2> QED
      BY <2>1
  <1>3. CASE Skip \/ FfaMiscVerifyVersion \/ FfaMiscGetPartitionInfo
             \/ FfaMiscSetupNotifications \/ FfaMiscRegisterNotifications \/ SendRequest
             \/ ReceiveResponse \/ StallEnds \/ FfaMiscTestFfaNsResInfoGet
    BY <1>3 DEF Skip, FfaMiscVerifyVersion, FfaMiscGetPartitionInfo,
                FfaMiscSetupNotifications, FfaMiscRegisterNotifications, SendRequest,
                ReceiveResponse, StallEnds, FfaMiscTestFfaNsResInfoGet
  <1> QED
    BY <1>1, <1>2, <1>3, AppUntouched DEF AppStep

\* The types of the composition, part by part, and the conservation of events.
AppInv ==
  /\ CountersOK /\ KnownIds /\ BitmapsOK /\ DisturbancesOK /\ SuiteOK /\ FlagsOK
  /\ available \subseteq Services
  /\ NotificationsConserved

\* The names of failed calls are never forgotten.
LEMMA FaultsGrow ==
  ASSUME [AppNext]_appVars
  PROVE  faults \subseteq faults'
  <1>1. CASE UNCHANGED faults
    BY <1>1
  <1>2. CASE \/ SpInterrupt \/ FfaReturnFromInterrupt \/ FfaWaitNoMessage \/ FfaMessageWait
             \/ DispatchNotification \/ DispatchTestInvalid
             \/ DispatchOther \/ Serve \/ FfaMessageSendDirectResp
             \/ PeerInterrupt \/ PeerInterruptDone \/ PeerReceive \/ LegacyReceive
             \/ \E fid \in RequestsV1, arg \in LegacyArgs : LegacySend(fid, arg)
             \/ UNCHANGED appVars
    BY <1>1, <1>2 DEF SpInterrupt, FfaReturnFromInterrupt, FfaWaitNoMessage, FfaMessageWait,
                DispatchNotification, DispatchTestInvalid, DispatchOther, Serve,
                FfaMessageSendDirectResp, PeerInterrupt, PeerInterruptDone,
                PeerReceive, LegacyReceive, LegacySend, disturbed, appVars, ffaVars
  <1>3. ASSUME NEW r \in PeerRequests, PeerSend(r[1], r[2])
        PROVE  faults \subseteq faults'
    BY <1>3 DEF PeerSend
  <1>4. CASE DispatchEvent
    BY <1>4 DEF DispatchEvent, Fault, disturbed
  <1>5. CASE AppStep \/ ApIrqInterruptHandler
    BY <1>5 DEF AppStep, Skip, FfaMiscVerifyVersion, FfaMiscGetPartitionInfoRegs,
                FfaMiscGetPartitionInfo, FfaMiscSetupNotifications,
                FfaMiscRegisterNotifications, SendRequest, ReceiveResponse, StallEnds,
                FfaMiscTestFfaNsResInfoGet, ApIrqInterruptHandler, Fault, disturbed, ffaVars
  <1> QED
    BY <1>2, <1>3, <1>4, <1>5, Steps

\* No step loses a bit.
LEMMA ConservedStep ==
  ASSUME TypeOK', FlagsOK, BitmapsOK, NotificationsConserved, [AppNext]_appVars
  PROVE  NotificationsConserved'
  <1>0. pending \in Bitmaps /\ sri \in BOOLEAN
    BY DEF BitmapsOK, FlagsOK
  <1>1. CASE DispatchEvent
    <2>1. fetched' = fetched /\ faults \subseteq faults'
      BY <1>1, EventLeavesApp, FaultsGrow DEF app
    <2>2. CASE UNCHANGED <<pending, sri, raised>>
      BY <2>1, <2>2 DEF NotificationsConserved
    <2>3. ASSUME NEW bits \in Bitmaps, pending' = pending \cup bits,
                 raised' = raised \cup bits, sri' = TRUE
          PROVE  NotificationsConserved'
      BY <2>1, <2>3 DEF NotificationsConserved
    <2> QED
      BY <1>0, <1>1, <2>2, <2>3, EventEffect
  <1>2. CASE ApIrqInterruptHandler
    <2>1. CASE fetched' = fetched \cup pending /\ pending' = {} /\ raised' = raised
      BY <2>1 DEF NotificationsConserved
    <2>2. CASE UNCHANGED <<fetched, pending, raised>> /\ "get" \in faults'
      BY <2>2 DEF NotificationsConserved
    <2> QED
      BY <1>0, <1>2, <2>1, <2>2, HandlerEffect
  <1>3. CASE UNCHANGED <<pending, sri, raised, fetched>>
    BY <1>3, FaultsGrow DEF NotificationsConserved
  <1> QED
    BY <1>1, <1>2, <1>3, BitsUntouched, SetupEffect

\* The invariant holds at the start and is kept.
LEMMA AppInvInit == AppInit => AppInv
  <1> SUFFICES ASSUME AppInit PROVE AppInv
    OBVIOUS
  <1>1. CountersOK /\ BitmapsOK /\ available \subseteq Services /\ NotificationsConserved
    BY DEF AppInit, FfaInit, CountersOK, BitmapsOK, Bitmaps, NotificationsConserved
  <1>2. KnownIds
    BY DEF AppInit, FfaInit, KnownIds
  <1>3. DisturbancesOK
    BY BoundAssumption DEF AppInit, FfaInit, DisturbancesOK
  <1>4. SuiteOK
    BY SuiteLength DEF AppInit, SuiteOK
  <1>5. FlagsOK
    BY Zenon DEF AppInit, FfaInit, FlagsOK
  <1> QED
    BY <1>1, <1>2, <1>3, <1>4, <1>5 DEF AppInv

\* Given the types of the notification service, every step keeps it.
LEMMA AppInvStep == TypeOK' /\ AppInv /\ [AppNext]_appVars => AppInv'
  <1> SUFFICES ASSUME TypeOK', AppInv, [AppNext]_appVars PROVE AppInv'
    OBVIOUS
  <1>1. CountersOK' /\ KnownIds' /\ DisturbancesOK' /\ SuiteOK'
    BY CountersStep, KnownIdsStep, DisturbancesStep, SuiteStep DEF AppInv
  <1>2. BitmapsOK' /\ FlagsOK' /\ available' \subseteq Services /\ NotificationsConserved'
    BY BitmapsStep, FlagsStep, AvailableStep, ConservedStep DEF AppInv
  <1> QED
    BY <1>1, <1>2 DEF AppInv

\* The types of the notification service come from its own module.
LEMMA AppInvariance == AppSpec => [](TypeOK /\ AppInv)
  <1>1. AppSpec => []TypeOK
    BY CompositionRunsService, TypeCorrect, PTL
  <1> QED
    BY <1>1, AppInvInit, AppInvStep, PTL DEF AppSpec

\* The partition, its clients and the application keep their types, for every set of
\* requests and systems; an image that links ArmFfaLibEx uses its own ID or none.
THEOREM CompositionTypeCorrect == AppSpec => []AppTypeOK
  <1>1. TypeOK /\ AppInv => AppTypeOK
    BY DEF AppInv, CountersOK, KnownIds, BitmapsOK, DisturbancesOK, SuiteOK, FlagsOK, AppTypeOK
  <1> QED
    BY <1>1, AppInvariance, PTL

\* No bit of an accepted event is lost on its way through the registers and the SPMC to
\* the application, and none is raised that was not asked for, whenever events, interrupts
\* and failing calls come.
THEOREM EventsConserved == AppSpec => []NotificationsConserved
  <1>1. AppInv => NotificationsConserved
    BY DEF AppInv
  <1> QED
    BY <1>1, AppInvariance, PTL

-----------------------------------------------------------------------------
(***************************************************************************)
(* The suite: what a passed one shows, and that a fresh one passes.  The   *)
(* tables hold what the cases so far left in them, whatever peers add and  *)
(* take away, and every expectation of the current case rests on that.     *)
(***************************************************************************)

\* The cases that change the tables, and the event.
NormalTest == 6
SecondaryTest == 7
UnregisterTest == 12
EventTest == 16

\* The mappings of the application, as <<slot, cookie, ID>>.
Row(e) == <<e[1], Info(e).cookie, Info(e).id>>
Rows == {Row(e) : e \in Mine}

\* The rows after the first n cases, s and t being the slots of the two services.
BatteryCookies(n) == IF n >= NormalTest THEN 0 .. 4 ELSE {}
ThermalCookies(n) ==
  IF n < SecondaryTest THEN {} ELSE IF n < UnregisterTest THEN 0 .. 2 ELSE {0, 2}
Expected(n, s, t) ==
  {<<s, c, c>> : c \in BatteryCookies(n)} \cup {<<t, c, c + 5>> : c \in ThermalCookies(n)}

\* Slot s is the service of a UUID of the suite; both are where a case has put them.
At(s, hi) == InUse[s] /\ SameUuid(SuiteUuid(hi), ServiceUuid[s])
Placed(n, s, t) ==
  /\ n >= NormalTest => At(s, BATTERY_HI)
  /\ n >= SecondaryTest => At(t, THERMAL_HI)

\* The tables after the first n cases have done what they are for.
TableAfter(n) == \E s, t \in Slots : Placed(n, s, t) /\ Rows = Expected(n, s, t)

\* The rows of the mappings the loop is past, and the tables while it works for a case.
DoneRows == {<<call.slot, call.maps[k].cookie, call.maps[k].id>> : k \in 1 .. (call.index - 1)}
TableDuring ==
  \E s, t \in Slots :
    /\ Placed(test - 1, s, t)
    /\ Rows = IF call.op = "REGISTER" THEN Expected(test - 1, s, t) \cup DoneRows
                                      ELSE Expected(test - 1, s, t) \ DoneRows

\* A request in progress is the one in the buffer.
CallIsRequest ==
  Busy => /\ spPc = "serving" /\ msg.fid = "REQ2" /\ msg.guid = NotificationGuid
          /\ call.op = (IF msg.arg[5][0] % 4 = REGISTER THEN "REGISTER" ELSE "UNREGISTER")
          /\ call.uuid = NotificationServiceExtractUuid(msg.arg[3], msg.arg[4])
          /\ call.source = msg.source
          /\ ValidCount(msg.arg[6][0] % 256) /\ call.maps = MappingsSent(msg.arg[6][0])

\* A request that is handled has a status.
ReplyGiven ==
  spPc = "serving" /\ ~Busy /\ msg.fid = "REQ2" /\ msg.guid \in {NotificationGuid, TestGuid} =>
    reply \in Statuses

\* The application's request is that of the current case, a peer's is one of its own.
AppOpen ==
  /\ client = "app" <=> appPc = "sent"
  /\ client = "app" =>
       /\ test \in Tests /\ Suite[test].name \notin LocalNames
       /\ request = DirectMsg("REQ2", APP_ID, SP_ID, Suite[test].guid, Suite[test].arg)
PeerOpen ==
  client = "peer" => \E r \in PeerRequests : request = DirectMsg("REQ2", PEER_ID, SP_ID, r[1], r[2])
LegacyOpen == client = "legacy" => request.fid \in RequestsV1

\* The status in the open answer, and the cases before this one.
Status == StatusOf(FfaUnpackDirectMessage(answer, NoMessage))
SoFar == \A u \in 1 .. (test - 1) : result[u] = "passed"

\* As long as the cases pass, the tables are those they leave: before a request is served,
\* in the middle of it, when its status is decided and when it is answered.
TableSound ==
  SoFar =>
    IF client # "app" THEN TableAfter(test - 1)
    ELSE IF answer # NoFrame THEN Status = Suite[test].expect => TableAfter(test)
    ELSE IF Busy THEN TableDuring
    ELSE IF spPc = "serving"
    THEN (request.guid = NotificationGuid => StatusCode(reply) = Suite[test].expect) =>
           TableAfter(test)
    ELSE TableAfter(test - 1)

\* Where the suite is.
Stage == (appPc = "stall" => test = EventTest) /\ (appPc = "done" => test = Len(Suite) + 1)

\* The event's bit is bound and was raised, and its interrupt was handled.
Signalled == bitmapCreated /\ BIND_BIT \in bound /\ BIND_BIT \in raised
Noticed == handler /\ ("get" \in faults \/ BIND_BIT \in fetched)

\* The SPMC has accepted the event, and the application does not know yet.
EventAccepted ==
  /\ client = "app" /\ test = EventTest
  /\ IF answer # NoFrame THEN Status = Suite[test].expect ELSE spPc = "serving" /\ reply = "SUCCESS"
SignalSound ==
  /\ bound \subseteq {BIND_BIT} /\ (sri => BIND_BIT \in pending)
  /\ mIsInterruptFired => Noticed
EventSound ==
  /\ EventAccepted \/ appPc = "stall" \/ result[EventTest] = "passed" => Signalled
  /\ result[EventTest] = "passed" => Noticed

\* The mappings of others share no cookie and no bit with the suite's, and every service
\* is one of the suite's two.
Harmless ==
  \A e \in Used : Info(e).source # APP_ID =>
    /\ Info(e).cookie \notin 0 .. 4
    /\ \A id \in 0 .. 7 : IdBits(Info(e).id) \cap IdBits(id) = {}
SuiteSlots == \A s \in Slots : InUse[s] => At(s, BATTERY_HI) \/ At(s, THERMAL_HI)

\* The current case gets the status it expects.
AsExpected ==
  client = "app" =>
    IF answer # NoFrame THEN Status = Suite[test].expect
    ELSE IF Busy THEN Suite[test].expect # 0 => call.index = 1
    ELSE spPc = "serving" /\ request.guid \in {NotificationGuid, TestGuid} =>
           StatusCode(reply) = Suite[test].expect

\* What the cases before this one prepared for it.
Prepared ==
  /\ test > 2 => available = Services
  /\ test <= Len(Suite) => ~rxHeld
  /\ bitmapCreated <=> test > 4
  /\ test > 4 => BIND_BIT \in bound
  /\ test > 5 => handler

\* A run on a system that meets the requirements, in which no call has failed.
Clean == MeetsRequirements /\ faults = {}
Fresh ==
  Clean =>
    /\ SoFar /\ Prepared /\ AsExpected
    /\ EventAccepted \/ appPc = "stall" => sri \/ mIsInterruptFired

-----------------------------------------------------------------------------
(***************************************************************************)
(* Where a request comes from, and what the service works on.              *)
(***************************************************************************)

\* An open request, and the work on it, are of one client.
Origin == CallIsRequest /\ ReplyGiven /\ AppOpen /\ PeerOpen /\ LegacyOpen

\* What the composition is known to keep.
Base == IInv /\ DoneSoFar /\ MsgInv /\ RequestCovered /\ AppInv

\* Base holds throughout: its parts are proved above.
LEMMA BaseInvariance == AppSpec => []Base
  <1>1. AppSpec => []IInv
    BY CompositionRunsService, Invariance, PTL
  <1>2. AppSpec => []DoneSoFar
    <2>1. Spec => []DoneSoFar
      <3>1. Init => DoneSoFar
        BY DEF Init, DoneSoFar, Busy, NoRequest
      <3> QED
        BY <3>1, Invariance, ProgressStep, PTL DEF Spec
    <2> QED
      BY <2>1, CompositionRunsService, PTL
  <1>3. AppSpec => []RequestCovered
    <2>1. AppInit => RequestCovered
      BY DEF AppInit, FfaInit, RequestCovered
    <2> QED
      BY <2>1, RequestCoveredStep, PTL DEF AppSpec
  <1> QED
    BY <1>1, <1>2, <1>3, MsgInvariance, AppInvariance, PTL DEF Base

\* Steps that leave the service, the buffer and the SPMC alone.
LEMMA OriginUnchanged ==
  ASSUME Origin, UNCHANGED <<call, reply, msg, client, request, test, appPc>>,
         spPc' = spPc \/ (spPc' # "serving" /\ spPc # "serving")
  PROVE  Origin'
  <1>1. CallIsRequest'
    BY DEF Origin, CallIsRequest, Busy, MappingsSent
  <1>2. ReplyGiven'
    BY DEF Origin, ReplyGiven, Busy
  <1>3. AppOpen' /\ PeerOpen' /\ LegacyOpen'
    BY DEF Origin, AppOpen, PeerOpen, LegacyOpen
  <1> QED
    BY <1>1, <1>2, <1>3 DEF Origin

\* A request that begins is refused for its count, or its first mapping is next.
LEMMA Begun ==
  ASSUME NEW op, NEW s, NEW uuid, NEW source, NEW count, NEW maps,
         BeginUpdate(op, s, uuid, source, count, maps)
  PROVE  \/ ~ValidCount(count % 256) /\ call' = NoRequest /\ reply' = "INVALID_PARAMETER"
         \/ /\ ValidCount(count % 256) /\ reply' = "none"
            /\ call'.op = op /\ call'.slot = s /\ call'.uuid = uuid /\ call'.source = source
            /\ call'.maps = maps /\ call'.index = 1
BY DEF BeginUpdate, Answer

\* A message for the notification service is refused, or its mappings are next.
LEMMA Handled ==
  ASSUME NEW arg5, NEW words, NEW source, NEW count, NEW maps,
         NotificationServiceHandle(arg5, words, source, count, maps)
  PROVE  /\ ~Busy /\ UNCHANGED tables /\ notified' = {}
         /\ \/ call' = NoRequest /\ reply' \in Statuses \ {"SUCCESS"}
            \/ /\ ValidCount(count % 256) /\ reply' = "none"
               /\ arg5 % 4 \in {2, 3}
               /\ call'.op = (IF arg5 % 4 = 2 THEN "REGISTER" ELSE "UNREGISTER")
               /\ call'.uuid = NotificationServiceExtractUuid(words[1], words[2])
               /\ call'.source = source /\ call'.maps = maps /\ call'.index = 1
  <1> DEFINE uuid == NotificationServiceExtractUuid(words[1], words[2])
  <1>1. ~Busy /\ UNCHANGED tables /\ notified' = {}
    BY DEF NotificationServiceHandle
  <1>2. \/ \E status \in Statuses \ {"SUCCESS"} : Answer(status)
        \/ arg5 % 4 = 2 /\ \E s : BeginUpdate("REGISTER", s, uuid, source, count, maps)
        \/ arg5 % 4 = 3 /\ \E s : BeginUpdate("UNREGISTER", s, uuid, source, count, maps)
    <2>1. CASE arg5 % 4 = 2
      <3>1. RegisterHandler(uuid, source, count, maps)
        BY <2>1 DEF NotificationServiceHandle
      <3>2. Answer("NO_MEM") \/ \E s : BeginUpdate("REGISTER", s, uuid, source, count, maps)
        BY <3>1, Zenon DEF RegisterHandler
      <3> QED
        BY <2>1, <3>2 DEF Statuses
    <2>2. CASE arg5 % 4 = 3
      <3>1. UnregisterHandler(uuid, source, count, maps)
        BY <2>2 DEF NotificationServiceHandle
      <3>2. \/ Answer("INVALID_PARAMETER")
            \/ \E s : BeginUpdate("UNREGISTER", s, uuid, source, count, maps)
        BY <3>1, Zenon DEF UnregisterHandler
      <3> QED
        BY <2>2, <3>2 DEF Statuses
    <2>3. CASE arg5 % 4 # 2 /\ arg5 % 4 # 3
      <3>1. Answer("NOT_SUPPORTED")
        BY <2>3 DEF NotificationServiceHandle
      <3> QED
        BY <3>1 DEF Statuses
    <2> QED
      BY <2>1, <2>2, <2>3
  <1> HIDE DEF uuid
  <1>3. ASSUME NEW status \in Statuses \ {"SUCCESS"}, Answer(status)
        PROVE  call' = NoRequest /\ reply' \in Statuses \ {"SUCCESS"}
    BY <1>3 DEF Answer
  <1>4. ASSUME arg5 % 4 = 2, NEW s, BeginUpdate("REGISTER", s, uuid, source, count, maps)
        PROVE  \/ call' = NoRequest /\ reply' \in Statuses \ {"SUCCESS"}
               \/ /\ ValidCount(count % 256) /\ reply' = "none" /\ call'.op = "REGISTER"
                  /\ call'.uuid = uuid /\ call'.source = source /\ call'.maps = maps
                  /\ call'.index = 1
    BY <1>4, Begun DEF Statuses
  <1>5. ASSUME arg5 % 4 = 3, NEW s, BeginUpdate("UNREGISTER", s, uuid, source, count, maps)
        PROVE  \/ call' = NoRequest /\ reply' \in Statuses \ {"SUCCESS"}
               \/ /\ ValidCount(count % 256) /\ reply' = "none" /\ call'.op = "UNREGISTER"
                  /\ call'.uuid = uuid /\ call'.source = source /\ call'.maps = maps
                  /\ call'.index = 1
    BY <1>5, Begun DEF Statuses
  <1>6. CASE arg5 % 4 = 2 /\ \E s : BeginUpdate("REGISTER", s, uuid, source, count, maps)
    BY <1>1, <1>4, <1>6 DEF uuid
  <1>7. CASE arg5 % 4 = 3 /\ \E s : BeginUpdate("UNREGISTER", s, uuid, source, count, maps)
    BY <1>1, <1>5, <1>7 DEF uuid
  <1> QED
    BY <1>1, <1>2, <1>3, <1>6, <1>7

\* Dispatching fixes what the service works on.
LEMMA OriginDispatch ==
  ASSUME Base, Origin,
         DispatchNotification \/ DispatchEvent \/ DispatchTestInvalid \/ DispatchOther,
         UNCHANGED app
  PROVE  Origin'
  <1>1. UNCHANGED <<msg, client, request, test, appPc>> /\ spPc' = "serving" /\ spPc = "dispatch"
    BY DEF DispatchNotification, DispatchEvent, DispatchTestInvalid, DispatchOther, spmc, app,
           Dispatched
  <1>2. AppOpen' /\ PeerOpen' /\ LegacyOpen'
    BY <1>1 DEF Origin, AppOpen, PeerOpen, LegacyOpen
  <1>3. ~Busy
    BY <1>1 DEF Origin, CallIsRequest
  <1>4. CallIsRequest' /\ ReplyGiven'
    <2>1. CASE DispatchNotification
      <3> DEFINE count == msg.arg[6][0]
                 words == <<msg.arg[3], msg.arg[4]>>
      <3>1. Dispatched(NotificationGuid)
        BY <2>1 DEF DispatchNotification
      <3>2. NotificationServiceHandle(msg.arg[5][0], words, msg.source, count,
                                      MappingsSent(count))
        BY <2>1 DEF DispatchNotification
      <3>3. words[1] = msg.arg[3] /\ words[2] = msg.arg[4]
        OBVIOUS
      <3> HIDE DEF words
      <3>4. CASE call' = NoRequest /\ reply' \in Statuses
        BY <3>4 DEF NoRequest, CallIsRequest, ReplyGiven, Busy
      <3>5. CASE ~(call' = NoRequest /\ reply' \in Statuses)
        <4>1. /\ call'.op = (IF msg.arg[5][0] % 4 = 2 THEN "REGISTER" ELSE "UNREGISTER")
              /\ call'.uuid = NotificationServiceExtractUuid(msg.arg[3], msg.arg[4])
              /\ call'.source = msg.source
              /\ ValidCount(count % 256) /\ call'.maps = MappingsSent(count)
          BY <3>2, <3>3, <3>5, Handled
        <4>2. Busy'
          BY <4>1 DEF Busy
        <4>3. msg' = msg /\ spPc' = "serving" /\ msg.fid = "REQ2" /\ msg.guid = NotificationGuid
          BY <1>1, <3>1 DEF Dispatched
        <4>4. CallIsRequest'
          BY <4>1, <4>3 DEF CallIsRequest, MappingsSent, REGISTER
        <4> QED
          BY <4>2, <4>4 DEF ReplyGiven
      <3> QED
        BY <3>4, <3>5
    <2>2. CASE DispatchEvent
      <3>1. call' = call /\ reply' \in Statuses
        BY <2>2 DEF DispatchEvent, TestNotificationHandler, Statuses
      <3> QED
        BY <1>3, <3>1, SMTT(30) DEF CallIsRequest, ReplyGiven, Busy
    <2>3. CASE DispatchTestInvalid
      <3>1. call' = call /\ reply' \in Statuses
        BY <2>3 DEF DispatchTestInvalid, TestServiceInvalid, Statuses
      <3> QED
        BY <1>3, <3>1, SMTT(30) DEF CallIsRequest, ReplyGiven, Busy
    <2>4. CASE DispatchOther
      <3>1. call' = call /\ ~(msg.fid = "REQ2" /\ msg.guid \in {NotificationGuid, TestGuid})
        BY <1>1, <2>4 DEF DispatchOther, Dispatched, service
      <3> QED
        BY <1>1, <1>3, <3>1, SMTT(30) DEF CallIsRequest, ReplyGiven, Busy
    <2> QED
      BY <2>1, <2>2, <2>3, <2>4
  <1> QED
    BY <1>2, <1>4 DEF Origin

\* The loop over the mappings goes on with its request until it is answered.
LEMMA LoopKeepsRequest ==
  ASSUME TypeOK, LoopStep
  PROVE  /\ Busy
         /\ \/ /\ call' = NoRequest /\ reply' \in Statuses
            \/ /\ call'.op = call.op /\ call'.slot = call.slot /\ call'.uuid = call.uuid
               /\ call'.source = call.source /\ call'.maps = call.maps
               /\ call'.index = call.index + 1
               /\ UNCHANGED reply
  <1>1. CASE UnregisterMapping
    BY <1>1, UnregisterEffect, StoredEffect DEF UnregisterMapping, InLoop
  <1>2. CASE RegisterMapping
    BY <1>2, RegisterEffect, StoredEffect DEF RegisterMapping, InLoop
  <1>3. CASE RefuseMapping
    BY <1>3 DEF RefuseMapping, InLoop, Answer, RegisterStatus, UnregisterStatus, Statuses
  <1>4. CASE UpdateDone
    BY <1>4 DEF UpdateDone, Answer, Statuses
  <1> QED
    BY <1>1, <1>2, <1>3, <1>4 DEF LoopStep

\* The loop keeps the request it works on.
LEMMA OriginServe ==
  ASSUME Base, Origin, Serve, UNCHANGED app
  PROVE  Origin'
  <1>1. TypeOK /\ LoopStep
    BY DEF Base, IInv, Serve
  <1>2. UNCHANGED <<spPc, msg, client, request, test, appPc>>
    BY DEF Serve, spmc, app
  <1>3. AppOpen' /\ PeerOpen' /\ LegacyOpen'
    BY <1>2 DEF Origin, AppOpen, PeerOpen, LegacyOpen
  <1>4. CASE call' = NoRequest /\ reply' \in Statuses
    BY <1>3, <1>4 DEF Origin, CallIsRequest, ReplyGiven, Busy, NoRequest
  <1>5. CASE ~(call' = NoRequest /\ reply' \in Statuses)
    <2>1. /\ call'.op = call.op /\ call'.uuid = call.uuid
          /\ call'.source = call.source /\ call'.maps = call.maps /\ Busy
      BY <1>1, <1>5, LoopKeepsRequest
    <2> QED
      BY <1>2, <1>3, <2>1 DEF Origin, CallIsRequest, ReplyGiven, Busy, MappingsSent
  <1> QED
    BY <1>4, <1>5

\* The steps of the application that send and receive nothing.
LocalStep ==
  \/ Skip \/ FfaMiscVerifyVersion \/ FfaMiscGetPartitionInfoRegs \/ FfaMiscGetPartitionInfo
  \/ FfaMiscSetupNotifications \/ FfaMiscRegisterNotifications \/ StallEnds
  \/ FfaMiscTestFfaNsResInfoGet

\* They end in a verdict and leave the partition alone.
LEMMA LocalEffect ==
  ASSUME LocalStep
  PROVE  /\ UNCHANGED <<service, spPc, msg, client, request, answer>>
         /\ appPc \in {"run", "stall"} /\ appPc' \in {"run", "done"}
         /\ \E v : Verdict(v)
  <1>1. UNCHANGED <<service, spPc, msg, client, request, answer>>
    BY DEF LocalStep, Skip, FfaMiscVerifyVersion, FfaMiscGetPartitionInfoRegs,
           FfaMiscGetPartitionInfo, FfaMiscSetupNotifications,
           FfaMiscRegisterNotifications, StallEnds, FfaMiscTestFfaNsResInfoGet, ffaVars, spmc
  <1>2. appPc \in {"run", "stall"}
    BY DEF LocalStep, Skip, FfaMiscVerifyVersion, FfaMiscGetPartitionInfoRegs,
           FfaMiscGetPartitionInfo, FfaMiscSetupNotifications,
           FfaMiscRegisterNotifications, StallEnds, FfaMiscTestFfaNsResInfoGet, Due
  <1>3. \E v : Verdict(v)
    BY DEF LocalStep, Skip, FfaMiscVerifyVersion, FfaMiscGetPartitionInfoRegs,
           FfaMiscGetPartitionInfo, FfaMiscSetupNotifications,
           FfaMiscRegisterNotifications, StallEnds, FfaMiscTestFfaNsResInfoGet, Passed
  <1>4. appPc' \in {"run", "done"}
    BY <1>3 DEF Verdict
  <1> QED
    BY <1>1, <1>2, <1>3, <1>4

\* A step that ends outside the handling of a request, or leaves it alone.
LEMMA WorkKept ==
  ASSUME Origin, UNCHANGED <<call, reply>>,
         \/ UNCHANGED <<msg, spPc>>
         \/ spPc' # "serving" /\ ~Busy
  PROVE  CallIsRequest' /\ ReplyGiven'
  <1>1. CASE UNCHANGED <<msg, spPc>>
    BY <1>1 DEF Origin, CallIsRequest, ReplyGiven, Busy, MappingsSent
  <1>2. CASE spPc' # "serving" /\ ~Busy
    BY <1>2 DEF Origin, CallIsRequest, ReplyGiven, Busy
  <1> QED
    BY <1>1, <1>2

\* The steps of the partition's main loop between requests.
LoopOutside ==
  \/ SpInterrupt \/ FfaReturnFromInterrupt \/ FfaWaitNoMessage \/ FfaMessageWait
  \/ FfaMessageSendDirectResp
DispatchStep == DispatchNotification \/ DispatchEvent \/ DispatchTestInvalid \/ DispatchOther
OtherSends ==
  \/ \E r \in PeerRequests : PeerSend(r[1], r[2])
  \/ \E fid \in RequestsV1, arg \in LegacyArgs : LegacySend(fid, arg)
OtherReceives == PeerReceive \/ LegacyReceive

\* Every step, by what it does to requests.
LEMMA StepKinds ==
  ASSUME [AppNext]_appVars
  PROVE  \/ UNCHANGED app /\ (LoopOutside \/ DispatchStep \/ Serve)
         \/ UNCHANGED app /\ (OtherSends \/ OtherReceives)
         \/ UNCHANGED app /\ (PeerInterrupt \/ PeerInterruptDone)
         \/ LocalStep \/ SendRequest \/ ReceiveResponse
         \/ ApIrqInterruptHandler \/ UNCHANGED appVars
BY DEF AppNext, AppStep, FfaNext, Progress, PartitionStep, ClientStep, LoopOutside, DispatchStep,
       OtherSends, OtherReceives, LocalStep

\* Another client sends: its request is open, or nothing is.
LEMMA OtherSendsEffect ==
  ASSUME OtherSends
  PROVE  /\ UNCHANGED <<service, spPc, msg, answer>>
         /\ \/ UNCHANGED <<client, request>>
            \/ /\ client = "none" /\ client' = "peer"
               /\ \E r \in PeerRequests :
                    request' = DirectMsg("REQ2", PEER_ID, SP_ID, r[1], r[2])
            \/ client = "none" /\ client' = "legacy" /\ request'.fid \in RequestsV1
  <1>1. ASSUME NEW r \in PeerRequests, PeerSend(r[1], r[2])
        PROVE  /\ UNCHANGED <<service, spPc, msg, answer>>
               /\ \/ UNCHANGED <<client, request>>
                  \/ /\ client = "none" /\ client' = "peer"
                     /\ request' = DirectMsg("REQ2", PEER_ID, SP_ID, r[1], r[2])
    BY <1>1 DEF PeerSend, Open, spmc
  <1>2. ASSUME NEW fid \in RequestsV1, NEW arg \in LegacyArgs, LegacySend(fid, arg)
        PROVE  /\ UNCHANGED <<service, spPc, msg, answer>>
               /\ client = "none" /\ client' = "legacy" /\ request'.fid \in RequestsV1
    BY <1>2 DEF LegacySend, Open, DirectMsg
  <1> QED
    BY <1>1, <1>2 DEF OtherSends

\* Requests come from their clients and are handled as they came.
LEMMA OriginStep ==
  ASSUME Base, Origin, [AppNext]_appVars
  PROVE  Origin'
  <1>0. spPc # "serving" => ~Busy
    BY DEF Origin, CallIsRequest
  <1>1. CASE LoopOutside /\ UNCHANGED app
    <2>1. /\ UNCHANGED <<call, reply, client, request>> /\ spPc' # "serving" /\ ~Busy
      BY <1>0, <1>1 DEF LoopOutside, SpInterrupt, FfaReturnFromInterrupt, FfaWaitNoMessage,
                        FfaMessageWait, FfaMessageSendDirectResp, service, spmc
    <2>2. UNCHANGED <<test, appPc>>
      BY <1>1 DEF app
    <2>3. CallIsRequest' /\ ReplyGiven'
      BY <2>1, WorkKept
    <2>4. AppOpen' /\ PeerOpen' /\ LegacyOpen'
      BY <2>1, <2>2 DEF Origin, AppOpen, PeerOpen, LegacyOpen
    <2> QED
      BY <2>3, <2>4 DEF Origin
  <1>2. CASE DispatchStep /\ UNCHANGED app
    BY <1>2, OriginDispatch DEF DispatchStep
  <1>3. CASE Serve /\ UNCHANGED app
    BY <1>3, OriginServe
  <1>4. CASE OtherSends /\ UNCHANGED app
    <2>1. UNCHANGED <<call, reply, msg, spPc, test, appPc>>
      BY <1>4, OtherSendsEffect DEF service, app
    <2>2. CallIsRequest' /\ ReplyGiven'
      BY <2>1, WorkKept
    <2>3. AppOpen' /\ PeerOpen' /\ LegacyOpen'
      BY <1>4, <2>1, OtherSendsEffect DEF Origin, AppOpen, PeerOpen, LegacyOpen
    <2> QED
      BY <2>2, <2>3 DEF Origin
  <1>5. CASE OtherReceives /\ UNCHANGED app
    <2>1. /\ UNCHANGED <<call, reply, msg, spPc, test, appPc>>
          /\ client \in {"peer", "legacy"} /\ client' = "none"
      BY <1>5 DEF OtherReceives, PeerReceive, LegacyReceive, Close, service, app
    <2>2. CallIsRequest' /\ ReplyGiven'
      BY <2>1, WorkKept
    <2>3. AppOpen' /\ PeerOpen' /\ LegacyOpen'
      BY <2>1 DEF Origin, AppOpen, PeerOpen, LegacyOpen
    <2> QED
      BY <2>2, <2>3 DEF Origin
  <1>6. CASE LocalStep
    <2>1. UNCHANGED <<call, reply, msg, spPc, client, request>>
      BY <1>6, LocalEffect DEF service
    <2>2. CallIsRequest' /\ ReplyGiven'
      BY <2>1, WorkKept
    <2>3. client # "app" /\ appPc' # "sent"
      BY <1>6, LocalEffect DEF Origin, AppOpen
    <2>4. AppOpen' /\ PeerOpen' /\ LegacyOpen'
      BY <2>1, <2>3 DEF Origin, AppOpen, PeerOpen, LegacyOpen
    <2> QED
      BY <2>2, <2>4 DEF Origin
  <1>7. CASE SendRequest
    <2>1. UNCHANGED <<call, reply, msg, spPc>> /\ appPc = "run" /\ client # "app"
      BY <1>7 DEF SendRequest, service, Origin, AppOpen
    <2>2. CallIsRequest' /\ ReplyGiven'
      BY <2>1, WorkKept
    <2>3. \/ UNCHANGED <<client, request>> /\ appPc' \in {"run", "done"}
          \/ /\ client' = "app" /\ appPc' = "sent" /\ test' = test
             /\ test \in Tests /\ Suite[test].name \notin LocalNames
             /\ request' = DirectMsg("REQ2", APP_ID, SP_ID, Suite[test].guid, Suite[test].arg)
      BY <1>7 DEF SendRequest, Open, Verdict, spmc
    <2>4. AppOpen' /\ PeerOpen' /\ LegacyOpen'
      BY <2>1, <2>3 DEF Origin, AppOpen, PeerOpen, LegacyOpen
    <2> QED
      BY <2>2, <2>4 DEF Origin
  <1>8. CASE ReceiveResponse
    <2>1. /\ UNCHANGED <<call, reply, msg, spPc>>
          /\ client' = "none" /\ appPc' \in {"run", "done", "stall"}
      BY <1>8 DEF ReceiveResponse, Close, Passed, Verdict, service
    <2>2. CallIsRequest' /\ ReplyGiven'
      BY <2>1, WorkKept
    <2>3. AppOpen' /\ PeerOpen' /\ LegacyOpen'
      BY <2>1 DEF AppOpen, PeerOpen, LegacyOpen
    <2> QED
      BY <2>2, <2>3 DEF Origin
  <1>9. CASE \/ (PeerInterrupt \/ PeerInterruptDone) /\ UNCHANGED app
             \/ ApIrqInterruptHandler \/ UNCHANGED appVars
    <2>1. UNCHANGED <<call, reply, msg, client, request, test, appPc, spPc>>
      BY <1>9 DEF PeerInterrupt, PeerInterruptDone, ApIrqInterruptHandler, appVars, ffaVars,
                  service, spmc, app
    <2> QED
      BY <2>1, OriginUnchanged
  <1> QED
    BY <1>1, <1>2, <1>3, <1>4, <1>5, <1>6, <1>7, <1>8, <1>9, StepKinds

\* So it is at any time.
LEMMA OriginInvariance == AppSpec => [](Base /\ Origin)
  <1>1. AppInit => Origin
    BY DEF AppInit, FfaInit, Init, NoRequest, Origin, CallIsRequest, ReplyGiven, Busy,
           AppOpen, PeerOpen, LegacyOpen
  <1> QED
    BY <1>1, BaseInvariance, OriginStep, PTL DEF AppSpec

-----------------------------------------------------------------------------
(***************************************************************************)
(* The rows of the application.                                            *)
(***************************************************************************)

\* The rows depend on the stored mappings only.
LEMMA RowsUnchanged ==
  ASSUME UNCHANGED ServiceInfo
  PROVE  Rows' = Rows
BY DEF Rows, Row, Mine, Used, Info

\* A register iteration adds a row when the request is the application's.
LEMMA RowsAfterRegister ==
  ASSUME TypeOK, RegisterMapping
  PROVE  Rows' = IF call.source = APP_ID
                 THEN Rows \cup {<<call.slot, Mapping.cookie, Mapping.id>>} ELSE Rows
  <1>1. PICK x \in Slots \X Indices :
          /\ x = <<call.slot, EmptyIndex(call.slot)>>
          /\ x \notin Used
          /\ Used' = Used \cup {x}
          /\ \A e \in Slots \X Indices : e # x => Info(e)' = Info(e)
          /\ Info(x)' = NewInfo
    BY UsedAfterRegister
  <1>2. /\ NewInfo.source = call.source /\ NewInfo.cookie = Mapping.cookie
        /\ NewInfo.id = Mapping.id /\ x[1] = call.slot
    BY <1>1 DEF NewInfo
  <1>3. Used \subseteq Slots \X Indices
    BY DEF Used
  <1>4. \A e \in Used : e # x /\ Info(e)' = Info(e)
    BY <1>1, <1>3
  <1>5. Rows = {Row(e) : e \in {f \in Used : Info(f).source = APP_ID}}
    BY DEF Rows, Mine
  <1>6. Rows' = {Row(e)' : e \in {f \in Used' : Info(f)'.source = APP_ID}}
    BY DEF Rows, Mine, Row, Used, Info
  <1>7. Row(x)' = <<call.slot, Mapping.cookie, Mapping.id>>
    BY <1>1, <1>2 DEF Row
  <1>8. \A e \in Used : Row(e)' = Row(e)
    BY <1>4 DEF Row
  <1>9. Info(x)'.source = call.source
    BY <1>1, <1>2
  <1> QED
    BY <1>1, <1>4, <1>5, <1>6, <1>7, <1>8, <1>9

\* An unregister iteration removes the row it names when the request is the application's,
\* and none otherwise: only the registrant's mapping is found.
LEMMA RowsAfterUnregister ==
  ASSUME TypeOK, LookupsUnambiguous, UnregisterMapping
  PROVE  Rows' = IF call.source = APP_ID
                 THEN Rows \ {<<call.slot, Mapping.cookie, Mapping.id>>} ELSE Rows
  <1>1. PICK x \in Slots \X Indices :
          /\ x = <<call.slot, FoundIndex>>
          /\ x \in Used /\ Info(x).id = Mapping.id
          /\ Used' = Used \ {x}
          /\ \A e \in Slots \X Indices : e # x => Info(e)' = Info(e)
          /\ Info(x)' = Cleared
    BY UsedAfterUnregister
  <1>2. /\ Info(x).source = call.source /\ Info(x).cookie = Mapping.cookie
        /\ x[1] = call.slot
    <2>1. x[1] = call.slot /\ x[2] = FoundIndex
      BY <1>1
    <2> QED
      BY <2>1, UnregisterEffect DEF Info
  <1>3. Used \subseteq Slots \X Indices
    BY DEF Used
  <1>4. \A e \in Used' : e \in Used /\ e # x /\ Info(e)' = Info(e)
    BY <1>1, <1>3
  <1>5. Rows = {Row(e) : e \in {f \in Used : Info(f).source = APP_ID}}
    BY DEF Rows, Mine
  <1>6. Rows' = {Row(e)' : e \in {f \in Used' : Info(f)'.source = APP_ID}}
    BY DEF Rows, Mine, Row, Used, Info
  <1>7. Row(x) = <<call.slot, Mapping.cookie, Mapping.id>>
    BY <1>1, <1>2 DEF Row
  <1>8. \A e \in Used' : Row(e)' = Row(e)
    BY <1>4 DEF Row
  <1>9. \A e \in Used : Row(e) = Row(x) => e = x
    BY <1>1 DEF LookupsUnambiguous, Row
  <1> QED
    BY <1>1, <1>2, <1>4, <1>5, <1>6, <1>7, <1>8, <1>9

\* The loop is past one mapping more.
LEMMA DoneRowsGrow ==
  ASSUME TypeOK, InLoop, call'.index = call.index + 1, call'.slot = call.slot,
         call'.maps = call.maps
  PROVE  DoneRows' = DoneRows \cup {<<call.slot, Mapping.cookie, Mapping.id>>}
  <1> DEFINE R(k) == <<call.slot, call.maps[k].cookie, call.maps[k].id>>
  <1>1. call.index \in Nat \ {0}
    BY SizeAssumption DEF TypeOK
  <1>2. 1 .. (call'.index - 1) = (1 .. (call.index - 1)) \cup {call.index}
    BY <1>1
  <1>3. DoneRows = {R(k) : k \in 1 .. (call.index - 1)}
    BY DEF DoneRows
  <1>4. DoneRows' = {R(k) : k \in 1 .. (call'.index - 1)}
    BY DEF DoneRows
  <1>5. R(call.index) = <<call.slot, Mapping.cookie, Mapping.id>>
    BY DEF Mapping
  <1> HIDE DEF R
  <1> QED
    BY <1>2, <1>3, <1>4, <1>5

\* At the first mapping none is done.
LEMMA NoDoneRows ==
  ASSUME call.index = 1
  PROVE  DoneRows = {}
BY DEF DoneRows

\* Services stay where they are.
LEMMA PlacedKept ==
  ASSUME NEW n, NEW s \in Slots, NEW t \in Slots,
         Placed(n, s, t),
         \A u \in Slots : InUse[u] => InUse'[u] /\ ServiceUuid'[u] = ServiceUuid[u]
  PROVE  Placed(n, s, t)'
  <1>1. ASSUME NEW u \in Slots, NEW hi, At(u, hi)
        PROVE  At(u, hi)'
    <2>1. InUse'[u] /\ SameUuid(SuiteUuid(hi), ServiceUuid'[u])
      BY <1>1 DEF At
    <2> QED
      BY <2>1 DEF At, SameUuid, SuiteUuid, NotificationServiceExtractUuid, WordOf
  <1> QED
    BY <1>1 DEF Placed

-----------------------------------------------------------------------------
(***************************************************************************)
(* The cases of the suite.                                                 *)
(***************************************************************************)

\* What a request of the notification service asks for: op on the mappings given, under
\* the UUID of the words given.
Asks(c, op, lo, hi, count, maps) ==
  /\ c.guid = NotificationGuid /\ c.needs = {"notification"}
  /\ c.arg[5][0] = op /\ c.arg[3] = WordOf(lo) /\ c.arg[4] = WordOf(hi)
  /\ c.arg[6][0] = count
  /\ \A k \in 1 .. Len(maps) :
       MappingOf(c.arg[6 + k]).cookie = maps[k][1] /\ MappingOf(c.arg[6 + k]).id = maps[k][2]

\* A mapping survives its register.
LEMMA MappingInRegister ==
  ASSUME NEW map
  PROVE  MappingOf(MapReg(map)).cookie = map[1] /\ MappingOf(MapReg(map)).id = map[2]
BY DEF MappingOf, MapReg

\* A case asks for what it was made of.
LEMMA CaseAsks ==
  ASSUME NEW name, NEW opcode, NEW lo, NEW hi, NEW count, NEW maps, NEW status,
         NEW n \in 0 .. 7, Len(maps) = n
  PROVE  /\ Asks(NotificationCase(name, opcode, lo, hi, count, maps, status),
                 opcode, lo, hi, count, maps)
         /\ NotificationCase(name, opcode, lo, hi, count, maps, status).expect
              = StatusCode(status)
  <1> DEFINE c == NotificationCase(name, opcode, lo, hi, count, maps, status)
  <1>1. c.guid = NotificationGuid /\ c.needs = {"notification"} /\ c.expect = StatusCode(status)
    BY DEF NotificationCase
  <1>2. c.arg[5] = Scalar(opcode) /\ c.arg[3] = WordOf(lo) /\ c.arg[4] = WordOf(hi)
        /\ c.arg[6] = Scalar(count)
    BY DEF NotificationCase, Args
  <1>3. ASSUME NEW k \in 1 .. n
        PROVE  c.arg[6 + k] = MapReg(maps[k])
    <2>1. 6 + k \in Args /\ 6 + k \in 7 .. (6 + n) /\ (6 + k) - 6 = k
      BY DEF Args
    <2> QED
      BY <2>1 DEF NotificationCase
  <1>4. c.arg[5][0] = opcode /\ c.arg[6][0] = count
    BY <1>2 DEF Scalar
  <1> HIDE DEF c
  <1>5. \A k \in 1 .. n :
          MappingOf(c.arg[6 + k]).cookie = maps[k][1] /\ MappingOf(c.arg[6 + k]).id = maps[k][2]
    BY <1>3, MappingInRegister
  <1>6. Asks(c, opcode, lo, hi, count, maps)
    BY <1>1, <1>2, <1>4, <1>5 DEF Asks
  <1> QED
    BY <1>1, <1>6 DEF c

\* The statuses of the verdicts.
LEMMA StatusCodes == StatusCode("SUCCESS") = 0 /\ StatusCode("INVALID_PARAMETER") = -2
BY DEF StatusCode

\* The mappings the cases send.
NormalMaps == <<Map(0, 0), Map(1, 1), Map(2, 2), Map(3, 3), Map(4, 4)>>
SecondaryMaps == <<Map(0, 5), Map(1, 6), Map(2, 7)>>

\* The suite in numbers: which cases are local, which service the others ask for what.
LEMMA SuiteNumbers ==
  /\ Len(Suite) = 19 /\ Tests = 1 .. 19
  /\ \A t \in 1 .. 19 : Suite[t].name \notin LocalNames <=> t \in 6 .. 18
  /\ \A t \in 1 .. 19 : Suite[t].name = "Event" <=> t = EventTest
  <1>1. Len(Suite) = 19 /\ Tests = 1 .. 19
    BY DEF Suite, Tests
  <1>2. /\ Suite[1].name = "Version" /\ Suite[2].name = "InfoRegs" /\ Suite[3].name = "Info"
        /\ Suite[4].name = "Setup" /\ Suite[5].name = "RegisterIrq" /\ Suite[19].name = "NsResInfo"
    BY DEF Suite, LocalCase
  <1>3. /\ Suite[6].name = "Normal" /\ Suite[7].name = "Secondary"
        /\ Suite[8].name = "DuplicateCookie" /\ Suite[9].name = "DuplicateId"
        /\ Suite[10].name = "CountMin" /\ Suite[11].name = "CountMax"
        /\ Suite[12].name = "Unregister" /\ Suite[13].name = "UnregisterCookie"
        /\ Suite[14].name = "UnregisterId" /\ Suite[15].name = "UnregisterUuid"
    BY DEF Suite, NotificationCase, FfaMiscTestInterPartitionNormal,
           FfaMiscTestInterPartitionSecondary, FfaMiscTestInterPartitionDuplicateCookie,
           FfaMiscTestInterPartitionInvalidDuplicateId,
           FfaMiscTestInterPartitionInvalidMappingCountMin,
           FfaMiscTestInterPartitionInvalidMappingCountMax,
           FfaMiscTestInterPartitionUnregisterNormal,
           FfaMiscTestInterPartitionUnregisterInvalidCookie,
           FfaMiscTestInterPartitionUnregisterInvalidId,
           FfaMiscTestInterPartitionUnregisterInvalidUuid
  <1>4. Suite[16].name = "Event" /\ Suite[17].name = "TpmVersion" /\ Suite[18].name = "TpmClose"
    BY DEF Suite, ServiceCase, FfaMiscTestNotificationEvent, FfaMiscTestTpmGetVersion,
           FfaMiscTestTpmCloseLocality
  <1>5. \A t \in 1 .. 19 : t = 1 \/ t = 2 \/ t = 3 \/ t = 4 \/ t = 5 \/ t = 19 \/ t \in 6 .. 18
    OBVIOUS
  <1>6. \A t \in 6 .. 18 : Suite[t].name \notin LocalNames
    BY <1>3, <1>4 DEF LocalNames
  <1>7. \A t \in 1 .. 19 : Suite[t].name \notin LocalNames <=> t \in 6 .. 18
    BY <1>2, <1>5, <1>6 DEF LocalNames
  <1>8. \A t \in 1 .. 19 : Suite[t].name = "Event" <=> t = EventTest
    BY <1>2, <1>3, <1>4 DEF EventTest
  <1> QED
    BY <1>1, <1>7, <1>8

\* What the ten requests of the notification service ask for and expect.
LEMMA SuiteAsks ==
  /\ Asks(Suite[6], REGISTER, UUID_LO, BATTERY_HI, 5, NormalMaps) /\ Suite[6].expect = 0
  /\ Asks(Suite[7], REGISTER, UUID_LO, THERMAL_HI, 3, SecondaryMaps) /\ Suite[7].expect = 0
  /\ Asks(Suite[8], REGISTER, UUID_LO, THERMAL_HI, 1, <<Map(2, 8)>>) /\ Suite[8].expect = -2
  /\ Asks(Suite[9], REGISTER, UUID_LO, THERMAL_HI, 1, <<Map(3, 7)>>) /\ Suite[9].expect = -2
  /\ Asks(Suite[10], REGISTER, UUID_LO, THERMAL_HI, 0, << >>) /\ Suite[10].expect = -2
  /\ Asks(Suite[11], REGISTER, UUID_LO, THERMAL_HI, 8, << >>) /\ Suite[11].expect = -2
  /\ Asks(Suite[12], UNREGISTER, UUID_LO, THERMAL_HI, 1, <<Map(1, 6)>>) /\ Suite[12].expect = 0
  /\ Asks(Suite[13], UNREGISTER, UUID_LO, THERMAL_HI, 1, <<Map(1, 6)>>) /\ Suite[13].expect = -2
  /\ Asks(Suite[14], UNREGISTER, UUID_LO, THERMAL_HI, 1, <<Map(0, 0)>>) /\ Suite[14].expect = -2
  /\ Asks(Suite[15], UNREGISTER, 0, 0, 0, << >>) /\ Suite[15].expect = -2
  <1>1. Asks(Suite[6], REGISTER, UUID_LO, BATTERY_HI, 5, NormalMaps) /\ Suite[6].expect = 0
    <2>1. Suite[6] = NotificationCase("Normal", REGISTER, UUID_LO, BATTERY_HI, 5, NormalMaps,
                                      "SUCCESS")
      BY DEF Suite, FfaMiscTestInterPartitionNormal, NormalMaps
    <2>2. Len(NormalMaps) = 5
      BY DEF NormalMaps
    <2> QED
      BY <2>1, <2>2, CaseAsks, StatusCodes
  <1>2. Asks(Suite[7], REGISTER, UUID_LO, THERMAL_HI, 3, SecondaryMaps) /\ Suite[7].expect = 0
    <2>1. Suite[7] = NotificationCase("Secondary", REGISTER, UUID_LO, THERMAL_HI, 3, SecondaryMaps,
                                      "SUCCESS")
      BY DEF Suite, FfaMiscTestInterPartitionSecondary, SecondaryMaps
    <2>2. Len(SecondaryMaps) = 3
      BY DEF SecondaryMaps
    <2> QED
      BY <2>1, <2>2, CaseAsks, StatusCodes
  <1>3. Asks(Suite[8], REGISTER, UUID_LO, THERMAL_HI, 1, <<Map(2, 8)>>) /\ Suite[8].expect = -2
    <2>1. Suite[8] =
            NotificationCase("DuplicateCookie", REGISTER, UUID_LO, THERMAL_HI, 1, <<Map(2, 8)>>,
                             "INVALID_PARAMETER")
      BY DEF Suite, FfaMiscTestInterPartitionDuplicateCookie
    <2>2. Len(<<Map(2, 8)>>) = 1
      BY DEF Map
    <2> QED
      BY <2>1, <2>2, CaseAsks, StatusCodes
  <1>4. Asks(Suite[9], REGISTER, UUID_LO, THERMAL_HI, 1, <<Map(3, 7)>>) /\ Suite[9].expect = -2
    <2>1. Suite[9] =
            NotificationCase("DuplicateId", REGISTER, UUID_LO, THERMAL_HI, 1, <<Map(3, 7)>>,
                             "INVALID_PARAMETER")
      BY DEF Suite, FfaMiscTestInterPartitionInvalidDuplicateId
    <2>2. Len(<<Map(3, 7)>>) = 1
      BY DEF Map
    <2> QED
      BY <2>1, <2>2, CaseAsks, StatusCodes
  <1>5. Asks(Suite[10], REGISTER, UUID_LO, THERMAL_HI, 0, << >>) /\ Suite[10].expect = -2
    <2>1. Suite[10] = NotificationCase("CountMin", REGISTER, UUID_LO, THERMAL_HI, 0, << >>,
                                       "INVALID_PARAMETER")
      BY DEF Suite, FfaMiscTestInterPartitionInvalidMappingCountMin
    <2>2. Len(<< >>) = 0
      BY DEF Map
    <2> QED
      BY <2>1, <2>2, CaseAsks, StatusCodes
  <1>6. Asks(Suite[11], REGISTER, UUID_LO, THERMAL_HI, 8, << >>) /\ Suite[11].expect = -2
    <2>1. Suite[11] = NotificationCase("CountMax", REGISTER, UUID_LO, THERMAL_HI, 8, << >>,
                                       "INVALID_PARAMETER")
      BY DEF Suite, FfaMiscTestInterPartitionInvalidMappingCountMax
    <2>2. Len(<< >>) = 0
      BY DEF Map
    <2> QED
      BY <2>1, <2>2, CaseAsks, StatusCodes
  <1>7. Asks(Suite[12], UNREGISTER, UUID_LO, THERMAL_HI, 1, <<Map(1, 6)>>) /\ Suite[12].expect = 0
    <2>1. Suite[12] =
            NotificationCase("Unregister", UNREGISTER, UUID_LO, THERMAL_HI, 1, <<Map(1, 6)>>,
                             "SUCCESS")
      BY DEF Suite, FfaMiscTestInterPartitionUnregisterNormal
    <2>2. Len(<<Map(1, 6)>>) = 1
      BY DEF Map
    <2> QED
      BY <2>1, <2>2, CaseAsks, StatusCodes
  <1>8. Asks(Suite[13], UNREGISTER, UUID_LO, THERMAL_HI, 1, <<Map(1, 6)>>) /\ Suite[13].expect = -2
    <2>1. Suite[13] =
            NotificationCase("UnregisterCookie", UNREGISTER, UUID_LO, THERMAL_HI, 1, <<Map(1, 6)>>,
                             "INVALID_PARAMETER")
      BY DEF Suite, FfaMiscTestInterPartitionUnregisterInvalidCookie
    <2>2. Len(<<Map(1, 6)>>) = 1
      BY DEF Map
    <2> QED
      BY <2>1, <2>2, CaseAsks, StatusCodes
  <1>9. Asks(Suite[14], UNREGISTER, UUID_LO, THERMAL_HI, 1, <<Map(0, 0)>>) /\ Suite[14].expect = -2
    <2>1. Suite[14] =
            NotificationCase("UnregisterId", UNREGISTER, UUID_LO, THERMAL_HI, 1, <<Map(0, 0)>>,
                             "INVALID_PARAMETER")
      BY DEF Suite, FfaMiscTestInterPartitionUnregisterInvalidId
    <2>2. Len(<<Map(0, 0)>>) = 1
      BY DEF Map
    <2> QED
      BY <2>1, <2>2, CaseAsks, StatusCodes
  <1>10. Asks(Suite[15], UNREGISTER, 0, 0, 0, << >>) /\ Suite[15].expect = -2
    <2>1. Suite[15] = NotificationCase("UnregisterUuid", UNREGISTER, 0, 0, 0, << >>,
                                       "INVALID_PARAMETER")
      BY DEF Suite, FfaMiscTestInterPartitionUnregisterInvalidUuid
    <2>2. Len(<< >>) = 0
      BY DEF Map
    <2> QED
      BY <2>1, <2>2, CaseAsks, StatusCodes
  <1> QED
    BY <1>1, <1>2, <1>3, <1>4, <1>5, <1>6, <1>7, <1>8, <1>9, <1>10

\* The arguments of a case of another service.
LEMMA ServiceCaseFields ==
  ASSUME NEW name, NEW srv, NEW guid, NEW args, NEW status, NEW n \in 1 .. 4, Len(args) = n
  PROVE  LET c == ServiceCase(name, srv, guid, args, status) IN
         /\ c.guid = guid /\ c.needs = {srv} /\ c.expect = status
         /\ \A a \in 0 .. (n - 1) : c.arg[a] = args[a + 1]
  <1> DEFINE c == ServiceCase(name, srv, guid, args, status)
  <1>1. c.guid = guid /\ c.needs = {srv} /\ c.expect = status
    BY DEF ServiceCase
  <1>2. ASSUME NEW a \in 0 .. (n - 1)
        PROVE  c.arg[a] = args[a + 1]
    <2>1. a \in Args /\ a < n
      BY DEF Args
    <2> QED
      BY <2>1 DEF ServiceCase
  <1> QED
    BY <1>1, <1>2

\* The event and the two requests of the TPM service.
LEMMA SuiteServices ==
  /\ /\ Suite[16].guid = TestGuid /\ Suite[16].needs = {"test"} /\ Suite[16].expect = 0
     /\ Suite[16].arg[0][0] = TEST_OPCODE_TEST_NOTIFICATION
     /\ Suite[16].arg[1] = WordOf(UUID_LO) /\ Suite[16].arg[2] = WordOf(BATTERY_HI)
     /\ Suite[16].arg[3][0] = 2
  /\ /\ Suite[17].guid = Tpm2Guid /\ Suite[17].needs = {"tpm2"}
     /\ Suite[17].expect = TPM2_FFA_SUCCESS_OK_RESULTS_RETURNED
     /\ Suite[17].arg[0][0] = TPM2_FFA_GET_INTERFACE_VERSION
  /\ /\ Suite[18].guid = Tpm2Guid /\ Suite[18].needs = {"tpm2"}
     /\ Suite[18].expect = TPM2_FFA_ERROR_DENIED
     /\ Suite[18].arg[0][0] = TPM2_FFA_MANAGE_LOCALITY
  <1>1. /\ Suite[16].guid = TestGuid /\ Suite[16].needs = {"test"} /\ Suite[16].expect = 0
        /\ Suite[16].arg[0][0] = TEST_OPCODE_TEST_NOTIFICATION
        /\ Suite[16].arg[1] = WordOf(UUID_LO) /\ Suite[16].arg[2] = WordOf(BATTERY_HI)
        /\ Suite[16].arg[3][0] = 2
    <2> DEFINE args == <<Scalar(TEST_OPCODE_TEST_NOTIFICATION), WordOf(UUID_LO),
                         WordOf(BATTERY_HI), Scalar(2)>>
    <2>1. Suite[16] = ServiceCase("Event", "test", TestGuid, args, StatusCode("SUCCESS"))
      BY DEF Suite, FfaMiscTestNotificationEvent
    <2>2. /\ Len(args) = 4 /\ args[1] = Scalar(TEST_OPCODE_TEST_NOTIFICATION)
          /\ args[2] = WordOf(UUID_LO) /\ args[3] = WordOf(BATTERY_HI) /\ args[4] = Scalar(2)
      OBVIOUS
    <2> HIDE DEF args
    <2>3. /\ Suite[16].guid = TestGuid /\ Suite[16].needs = {"test"}
          /\ Suite[16].expect = StatusCode("SUCCESS")
          /\ \A a \in 0 .. 3 : Suite[16].arg[a] = args[a + 1]
      BY <2>1, <2>2, ServiceCaseFields
    <2>4. /\ Suite[16].arg[0] = args[1] /\ Suite[16].arg[1] = args[2]
          /\ Suite[16].arg[2] = args[3] /\ Suite[16].arg[3] = args[4]
      BY <2>3
    <2> QED
      BY <2>2, <2>3, <2>4, StatusCodes DEF Scalar
  <1>2. /\ Suite[17].guid = Tpm2Guid /\ Suite[17].needs = {"tpm2"}
        /\ Suite[17].expect = TPM2_FFA_SUCCESS_OK_RESULTS_RETURNED
        /\ Suite[17].arg[0][0] = TPM2_FFA_GET_INTERFACE_VERSION
    <2> DEFINE args == <<Scalar(TPM2_FFA_GET_INTERFACE_VERSION)>>
    <2>1. Suite[17] = ServiceCase("TpmVersion", "tpm2", Tpm2Guid, args,
                                  TPM2_FFA_SUCCESS_OK_RESULTS_RETURNED)
      BY DEF Suite, FfaMiscTestTpmGetVersion
    <2>2. Len(args) = 1 /\ args[1] = Scalar(TPM2_FFA_GET_INTERFACE_VERSION)
      OBVIOUS
    <2> HIDE DEF args
    <2>3. /\ Suite[17].guid = Tpm2Guid /\ Suite[17].needs = {"tpm2"}
          /\ Suite[17].expect = TPM2_FFA_SUCCESS_OK_RESULTS_RETURNED
          /\ \A a \in 0 .. 0 : Suite[17].arg[a] = args[a + 1]
      BY <2>1, <2>2, ServiceCaseFields
    <2>4. Suite[17].arg[0] = args[1]
      BY <2>3
    <2> QED
      BY <2>2, <2>3, <2>4 DEF Scalar
  <1>3. /\ Suite[18].guid = Tpm2Guid /\ Suite[18].needs = {"tpm2"}
        /\ Suite[18].expect = TPM2_FFA_ERROR_DENIED
        /\ Suite[18].arg[0][0] = TPM2_FFA_MANAGE_LOCALITY
    <2> DEFINE args == <<Scalar(TPM2_FFA_MANAGE_LOCALITY), Scalar(TPM2_FFA_MANAGE_LOCALITY_CLOSE)>>
    <2>1. Suite[18] = ServiceCase("TpmClose", "tpm2", Tpm2Guid, args, TPM2_FFA_ERROR_DENIED)
      BY DEF Suite, FfaMiscTestTpmCloseLocality
    <2>2. Len(args) = 2 /\ args[1] = Scalar(TPM2_FFA_MANAGE_LOCALITY)
      OBVIOUS
    <2> HIDE DEF args
    <2>3. /\ Suite[18].guid = Tpm2Guid /\ Suite[18].needs = {"tpm2"}
          /\ Suite[18].expect = TPM2_FFA_ERROR_DENIED
          /\ \A a \in 0 .. 1 : Suite[18].arg[a] = args[a + 1]
      BY <2>1, <2>2, ServiceCaseFields
    <2>4. Suite[18].arg[0] = args[1]
      BY <2>3
    <2> QED
      BY <2>2, <2>3, <2>4 DEF Scalar
  <1> QED
    BY <1>1, <1>2, <1>3

\* The cases that expect success change the tables or raise the event.
LEMMA SuiteExpects ==
  /\ \A t \in 6 .. 15 : Suite[t].guid = NotificationGuid /\ Suite[t].needs = {"notification"}
  /\ \A t \in 16 .. 18 : Suite[t].guid \in {TestGuid, Tpm2Guid}
                         /\ Suite[t].needs # {"notification"}
  /\ \A t \in 6 .. 15 : Suite[t].expect = IF t \in {6, 7, 12} THEN 0 ELSE -2
  <1>1. \A t \in 6 .. 15 : t = 6 \/ t = 7 \/ t = 8 \/ t = 9 \/ t = 10 \/ t = 11 \/ t = 12
                           \/ t = 13 \/ t = 14 \/ t = 15
    OBVIOUS
  <1>2. \A t \in 16 .. 18 : t = 16 \/ t = 17 \/ t = 18
    OBVIOUS
  <1>3. ASSUME NEW t \in 6 .. 15
        PROVE  Suite[t].guid = NotificationGuid /\ Suite[t].needs = {"notification"}
    BY <1>1, SuiteAsks DEF Asks
  <1>4. ASSUME NEW t \in 6 .. 15
        PROVE  Suite[t].expect = IF t \in {6, 7, 12} THEN 0 ELSE -2
    BY <1>1, SuiteAsks
  <1>5. ASSUME NEW t \in 16 .. 18
        PROVE  Suite[t].guid \in {TestGuid, Tpm2Guid} /\ Suite[t].needs # {"notification"}
    BY <1>2, SuiteServices
  <1> QED
    BY <1>3, <1>4, <1>5

-----------------------------------------------------------------------------
(***************************************************************************)
(* The request in progress.                                                *)
(***************************************************************************)

\* The application's request as the partition has it: that of the current case.
LEMMA AppRequest ==
  ASSUME Base, Origin, client = "app"
  PROVE  /\ test \in 6 .. 18 /\ appPc = "sent"
         /\ request.fid = "REQ2" /\ request.source = APP_ID
         /\ request.guid = Suite[test].guid /\ request.arg = Suite[test].arg
         /\ spPc \in {"dispatch", "serving"} => msg = request /\ answer = NoFrame
  <1>1. /\ test \in Tests /\ Suite[test].name \notin LocalNames /\ appPc = "sent"
        /\ request = DirectMsg("REQ2", APP_ID, SP_ID, Suite[test].guid, Suite[test].arg)
    BY DEF Origin, AppOpen
  <1>2. test \in 6 .. 18
    BY <1>1, SuiteNumbers
  <1>3. /\ request.fid = "REQ2" /\ request.source = APP_ID
        /\ request.guid = Suite[test].guid /\ request.arg = Suite[test].arg
    BY <1>1 DEF DirectMsg
  <1>4. spPc \in {"dispatch", "serving"} => msg = request /\ answer = NoFrame
    BY <1>3 DEF Base, MsgInv, RequestIntact, AtWork
  <1> QED
    BY <1>1, <1>2, <1>3, <1>4

\* A request of another client that is handled is not the application's.
LEMMA OtherCall ==
  ASSUME Base, Origin, Busy, client # "app"
  PROVE  call.source # APP_ID
  <1>1. spPc = "serving" /\ msg.fid = "REQ2" /\ call.source = msg.source
    BY DEF Origin, CallIsRequest
  <1>2. client # "none" /\ (request.fid = "REQ2" => msg = request)
        /\ (request.fid # "REQ2" => msg.fid = request.fid)
    BY <1>1 DEF Base, MsgInv, AtWork, RequestIntact
  <1>3. client \in {"peer", "legacy"}
    BY <1>2 DEF Base, AppInv, CountersOK
  <1>4. client = "peer"
    BY <1>1, <1>2, <1>3 DEF Origin, LegacyOpen, RequestsV1
  <1>5. PICK r \in PeerRequests : request = DirectMsg("REQ2", PEER_ID, SP_ID, r[1], r[2])
    BY <1>4 DEF Origin, PeerOpen
  <1>6. request.source = PEER_ID
    BY <1>5 DEF DirectMsg
  <1> QED
    BY <1>1, <1>2, <1>6, EndpointAssumption

\* The application's request in progress.
LEMMA AppCall ==
  ASSUME Base, Origin, Busy, client = "app"
  PROVE  /\ spPc = "serving" /\ call.source = APP_ID /\ test \in 6 .. 15
         /\ request.guid = NotificationGuid /\ answer = NoFrame
  <1>1. /\ spPc = "serving" /\ msg.fid = "REQ2" /\ msg.guid = NotificationGuid
        /\ call.source = msg.source
    BY DEF Origin, CallIsRequest
  <1>2. /\ test \in 6 .. 18 /\ msg = request /\ request.source = APP_ID
        /\ request.guid = Suite[test].guid /\ answer = NoFrame
    BY <1>1, AppRequest
  <1>3. test \in 6 .. 15 \/ test \in 16 .. 18
    BY <1>2
  <1>4. test \notin 16 .. 18
    BY <1>1, <1>2, SuiteExpects, RequestAssumption
  <1> QED
    BY <1>1, <1>2, <1>3, <1>4

\* What is being handled is what the case asks for.
Handling(op, lo, hi, count, maps) ==
  /\ ValidCount(count) /\ Len(call.maps) = count
  /\ call.op = IF op = REGISTER THEN "REGISTER" ELSE "UNREGISTER"
  /\ call.uuid = NotificationServiceExtractUuid(WordOf(lo), WordOf(hi))
  /\ Len(maps) = count =>
       \A k \in 1 .. count :
         call.maps[k].cookie = maps[k][1] /\ call.maps[k].id = maps[k][2]

\* A request of the application in progress carries what its case asks for.
LEMMA AppCallAsks ==
  ASSUME Base, Origin, Busy, client = "app",
         NEW op \in {REGISTER, UNREGISTER}, NEW lo, NEW hi, NEW count \in 0 .. 8, NEW maps,
         Asks(Suite[test], op, lo, hi, count, maps)
  PROVE  Handling(op, lo, hi, count, maps)
  <1>1. /\ spPc = "serving"
        /\ call.op = (IF msg.arg[5][0] % 4 = REGISTER THEN "REGISTER" ELSE "UNREGISTER")
        /\ call.uuid = NotificationServiceExtractUuid(msg.arg[3], msg.arg[4])
        /\ ValidCount(msg.arg[6][0] % 256) /\ call.maps = MappingsSent(msg.arg[6][0])
    BY DEF Origin, CallIsRequest
  <1>2. msg.arg = Suite[test].arg
    BY <1>1, AppRequest
  <1>3. /\ msg.arg[5][0] = op /\ msg.arg[3] = WordOf(lo) /\ msg.arg[4] = WordOf(hi)
        /\ msg.arg[6][0] = count
        /\ \A k \in 1 .. Len(maps) :
             MappingOf(msg.arg[6 + k]).cookie = maps[k][1]
             /\ MappingOf(msg.arg[6 + k]).id = maps[k][2]
    BY <1>2 DEF Asks
  <1>4. op % 4 = op /\ count % 256 = count
    BY DEF REGISTER, UNREGISTER
  <1>5. ValidCount(count) /\ call.maps = [k \in 1 .. count |-> MappingOf(msg.arg[6 + k])]
    BY <1>1, <1>3, <1>4 DEF MappingsSent
  <1>6. Len(call.maps) = count
    BY <1>5
  <1>7. call.op = IF op = REGISTER THEN "REGISTER" ELSE "UNREGISTER"
    BY <1>1, <1>3, <1>4
  <1>8. Len(maps) = count =>
          \A k \in 1 .. count :
            call.maps[k].cookie = maps[k][1] /\ call.maps[k].id = maps[k][2]
    BY <1>3, <1>5
  <1> QED
    BY <1>1, <1>3, <1>5, <1>6, <1>7, <1>8 DEF Handling

-----------------------------------------------------------------------------
(***************************************************************************)
(* The tables case by case.                                                *)
(***************************************************************************)

\* A step keeps the application's rows and the services in use.
Kept ==
  /\ Rows' = Rows
  /\ \A u \in Slots : InUse[u] => InUse'[u] /\ ServiceUuid'[u] = ServiceUuid[u]

\* A step that leaves the tables alone keeps their rows and services.
LEMMA TablesKept ==
  ASSUME UNCHANGED tables
  PROVE  Kept
BY RowsUnchanged DEF Kept, tables

\* Then the tables are still those after n cases.
LEMMA TableAfterKept ==
  ASSUME NEW n, TableAfter(n), Kept
  PROVE  TableAfter(n)'
  <1>1. PICK s \in Slots, t \in Slots : Placed(n, s, t) /\ Rows = Expected(n, s, t)
    BY DEF TableAfter
  <1>2. Placed(n, s, t)'
    BY <1>1, PlacedKept DEF Kept
  <1>3. Rows' = Expected(n, s, t)
    BY <1>1 DEF Kept
  <1>4. Expected(n, s, t)' = Expected(n, s, t)
    BY DEF Expected, BatteryCookies, ThermalCookies
  <1>5. \E a, b \in Slots : Placed(n, a, b)' /\ Rows' = Expected(n, a, b)'
    BY <1>2, <1>3, <1>4
  <1> QED
    BY <1>5 DEF TableAfter

\* A case that is not one of three leaves the tables alone.
LEMMA TableAfterOther ==
  ASSUME NEW n \in 1 .. 19, n \notin {6, 7, 12}
  PROVE  TableAfter(n) <=> TableAfter(n - 1)
  <1>1. /\ n >= 6 <=> n - 1 >= 6
        /\ n >= 7 <=> n - 1 >= 7
        /\ n < 7 <=> n - 1 < 7
        /\ n < 12 <=> n - 1 < 12
    OBVIOUS
  <1>2. \A s, t \in Slots : Placed(n, s, t) <=> Placed(n - 1, s, t)
    BY <1>1 DEF Placed, NormalTest, SecondaryTest
  <1>3. BatteryCookies(n) = BatteryCookies(n - 1) /\ ThermalCookies(n) = ThermalCookies(n - 1)
    BY <1>1 DEF BatteryCookies, ThermalCookies, NormalTest, SecondaryTest, UnregisterTest
  <1>4. \A s, t \in Slots : Expected(n, s, t) = Expected(n - 1, s, t)
    BY <1>3 DEF Expected
  <1> QED
    BY <1>2, <1>4 DEF TableAfter

\* Before the first case there are no rows.
LEMMA TableAtStart ==
  ASSUME Init
  PROVE  TableAfter(0)
  <1>1. Rows = {}
    BY DEF Init, Rows, Mine, Used, Cleared
  <1>2. 0 \in Slots
    BY SizeAssumption DEF Slots
  <1>3. Placed(0, 0, 0) /\ Expected(0, 0, 0) = {}
    BY DEF Placed, Expected, BatteryCookies, ThermalCookies, NormalTest, SecondaryTest
  <1> QED
    BY <1>1, <1>2, <1>3 DEF TableAfter

\* The status a case gets is the service's, through the UINT8 of the response and the
\* INT8 of the test.
LEMMA ResponseStatus ==
  ASSUME Base, Origin, client = "app", FfaMessageSendDirectResp, UNCHANGED app,
         request.guid = NotificationGuid
  PROVE  Status' = StatusCode(reply)
  <1> DEFINE sent == DirectMsg(ResponseFid, msg.dest, msg.source, ZeroGuid, ResponseArgs)
  <1>1. /\ spPc = "serving" /\ ~Busy /\ answer' = FfaPackDirectMessage(sent)
    BY DEF FfaMessageSendDirectResp
  <1>2. /\ test \in 6 .. 18 /\ msg = request /\ msg.fid = "REQ2" /\ msg.guid = NotificationGuid
        /\ Suite[test].guid = NotificationGuid
    BY <1>1, AppRequest
  <1>3. Suite[test].needs = {"notification"}
    <2>1. test \in 6 .. 15 \/ test \in 16 .. 18
      BY <1>2
    <2> QED
      BY <1>2, <2>1, SuiteExpects, RequestAssumption
  <1>4. reply \in Statuses
    BY <1>1, <1>2 DEF Origin, ReplyGiven
  <1>5. ResponseArgs = NotificationResponse /\ ResponseFid = "RESP2"
    BY <1>2, RequestAssumption DEF ResponseArgs, ResponseFid
  <1>6. /\ NotificationResponse = [a \in Args |-> NotificationResponse[a]]
        /\ NotificationResponse[6][0] = StatusCode(reply) % 256
    BY DEF NotificationResponse, Args, Scalar
  <1>7. IsMessage(sent) /\ sent.fid \notin RequestsV1 \cup ResponsesV1
    BY <1>5, <1>6 DEF IsMessage, IsGuid, DirectMsg, ZeroGuid, RequestsV1, ResponsesV1
  <1>8. FfaUnpackDirectMessage(FfaPackDirectMessage(sent), NoMessage) = sent
    BY <1>7, MessageRoundTrip
  <1>9. sent.arg = NotificationResponse
    BY <1>5 DEF DirectMsg
  <1>10. Int8(StatusCode(reply) % 256) = StatusCode(reply)
    <2>1. StatusCode(reply) \in {0, -1, -2, -3}
      BY <1>4 DEF StatusCode, Statuses
    <2> HIDE DEF StatusCode
    <2> QED
      BY <2>1 DEF Int8
  <1>11. test' = test
    BY DEF app
  <1>12. Status' = Int8(FfaUnpackDirectMessage(answer', NoMessage).arg[6][0])
    BY <1>3, <1>11 DEF Status, StatusOf
  <1> QED
    BY <1>1, <1>6, <1>8, <1>9, <1>10, <1>12

\* What a step leaves of it when it touches neither the tables nor the request.
LEMMA TableSoundKept ==
  ASSUME TableSound, UNCHANGED <<tables, call, reply, client, answer, request, test, result>>,
         spPc' = "serving" <=> spPc = "serving"
  PROVE  TableSound'
  <1>1. SoFar' <=> SoFar
    BY DEF SoFar
  <1>2. (TableAfter(test)' <=> TableAfter(test)) /\ (TableAfter(test - 1)' <=> TableAfter(test - 1))
    BY DEF TableAfter, Placed, At, Expected, Rows, Row, Mine, Used, Info, tables
  <1>3. TableDuring' <=> TableDuring
    BY DEF TableDuring, DoneRows, Placed, At, Expected, Rows, Row, Mine, Used, Info, tables
  <1>4. (Busy' <=> Busy) /\ Status' = Status
    BY DEF Busy, Status, StatusOf
  <1> QED
    BY <1>1, <1>2, <1>3, <1>4 DEF TableSound

\* Between two cases.
LEMMA TableSoundOutside ==
  ASSUME SoFar' => TableAfter(test - 1)', client' # "app"
  PROVE  TableSound'
BY DEF TableSound

\* A mapping of the application is registered or unregistered.
LEMMA TableDuringStep ==
  ASSUME Base, Origin, client = "app", TableDuring, UNCHANGED test,
         RegisterMapping \/ UnregisterMapping
  PROVE  TableDuring'
  <1>0. TypeOK /\ LookupsUnambiguous
    BY DEF Base, IInv, TableInv
  <1>1. InLoop /\ Busy
    BY DEF RegisterMapping, UnregisterMapping, InLoop
  <1>2. call.source = APP_ID
    BY <1>1, AppCall
  <1>3. /\ call'.op = call.op /\ call'.slot = call.slot /\ call'.maps = call.maps
        /\ call'.index = call.index + 1 /\ UNCHANGED <<InUse, ServiceUuid>>
    <2>1. CASE RegisterMapping
      BY <1>0, <1>1, <2>1, RegisterEffect, StoredEffect
    <2>2. CASE UnregisterMapping
      BY <1>0, <1>1, <2>2, UnregisterEffect, StoredEffect
    <2> QED
      BY <2>1, <2>2
  <1> DEFINE row == <<call.slot, Mapping.cookie, Mapping.id>>
  <1>4. DoneRows' = DoneRows \cup {row}
    BY <1>0, <1>1, <1>3, DoneRowsGrow
  <1>5. Rows' = IF call.op = "REGISTER" THEN Rows \cup {row} ELSE Rows \ {row}
    <2>1. CASE RegisterMapping
      BY <1>0, <1>2, <2>1, RowsAfterRegister DEF RegisterMapping
    <2>2. CASE UnregisterMapping
      BY <1>0, <1>2, <2>2, RowsAfterUnregister DEF UnregisterMapping
    <2> QED
      BY <2>1, <2>2
  <1>6. PICK n : n = test - 1
    OBVIOUS
  <1>7. PICK s \in Slots, t \in Slots :
          /\ Placed(n, s, t)
          /\ Rows = IF call.op = "REGISTER" THEN Expected(n, s, t) \cup DoneRows
                                            ELSE Expected(n, s, t) \ DoneRows
    BY <1>6 DEF TableDuring
  <1>8. Placed(n, s, t)'
    BY <1>3, <1>7, PlacedKept
  <1>9. Rows' = IF call.op = "REGISTER" THEN Expected(n, s, t) \cup DoneRows'
                                        ELSE Expected(n, s, t) \ DoneRows'
    BY <1>4, <1>5, <1>7
  <1>10. Expected(n, s, t)' = Expected(n, s, t) /\ (test - 1)' = n
    BY <1>6 DEF Expected, BatteryCookies, ThermalCookies
  <1>11. Placed(test - 1, s, t)' /\ Expected(test - 1, s, t)' = Expected(n, s, t)
    BY <1>8, <1>10 DEF Placed, At, Expected
  <1> QED
    BY <1>3, <1>9, <1>11 DEF TableDuring

\* The rows of the requests that succeed.
LEMMA DoneRowsNormal ==
  ASSUME call.index = 6,
         \A k \in 1 .. 5 : call.maps[k].cookie = NormalMaps[k][1]
                           /\ call.maps[k].id = NormalMaps[k][2]
  PROVE  DoneRows = {<<call.slot, c, c>> : c \in 0 .. 4}
  <1>1. \A k \in 1 .. 5 : call.maps[k].cookie = k - 1 /\ call.maps[k].id = k - 1
    <2>1. /\ NormalMaps[1] = <<0, 0>> /\ NormalMaps[2] = <<1, 1>> /\ NormalMaps[3] = <<2, 2>>
          /\ NormalMaps[4] = <<3, 3>> /\ NormalMaps[5] = <<4, 4>>
      BY DEF NormalMaps, Map
    <2>2. \A k \in 1 .. 5 : k = 1 \/ k = 2 \/ k = 3 \/ k = 4 \/ k = 5
      OBVIOUS
    <2>3. \A k \in 1 .. 5 : NormalMaps[k][1] = k - 1 /\ NormalMaps[k][2] = k - 1
      BY <2>1, <2>2
    <2> QED
      BY <2>3
  <1>2. DoneRows = {<<call.slot, k - 1, k - 1>> : k \in 1 .. 5}
    BY <1>1 DEF DoneRows
  <1>3. \A k \in 1 .. 5 : k - 1 \in 0 .. 4
    OBVIOUS
  <1>4. \A c \in 0 .. 4 : c + 1 \in 1 .. 5 /\ (c + 1) - 1 = c
    OBVIOUS
  <1> QED
    BY <1>2, <1>3, <1>4

\* The rows of the second case, all three registered.
LEMMA DoneRowsSecondary ==
  ASSUME call.index = 4,
         \A k \in 1 .. 3 : call.maps[k].cookie = SecondaryMaps[k][1]
                           /\ call.maps[k].id = SecondaryMaps[k][2]
  PROVE  DoneRows = {<<call.slot, c, c + 5>> : c \in 0 .. 2}
  <1>1. \A k \in 1 .. 3 : call.maps[k].cookie = k - 1 /\ call.maps[k].id = (k - 1) + 5
    <2>1. /\ SecondaryMaps[1] = <<0, 5>> /\ SecondaryMaps[2] = <<1, 6>>
          /\ SecondaryMaps[3] = <<2, 7>>
      BY DEF SecondaryMaps, Map
    <2>2. \A k \in 1 .. 3 : k = 1 \/ k = 2 \/ k = 3
      OBVIOUS
    <2>3. \A k \in 1 .. 3 : SecondaryMaps[k][1] = k - 1 /\ SecondaryMaps[k][2] = (k - 1) + 5
      BY <2>1, <2>2
    <2> QED
      BY <2>3
  <1>2. DoneRows = {<<call.slot, k - 1, (k - 1) + 5>> : k \in 1 .. 3}
    BY <1>1 DEF DoneRows
  <1>3. \A k \in 1 .. 3 : k - 1 \in 0 .. 2
    OBVIOUS
  <1>4. \A c \in 0 .. 2 : c + 1 \in 1 .. 3 /\ (c + 1) - 1 = c
    OBVIOUS
  <1> QED
    BY <1>2, <1>3, <1>4

\* The row of the case that unregisters.
LEMMA DoneRowsUnregister ==
  ASSUME call.index = 2, call.maps[1].cookie = 1, call.maps[1].id = 6
  PROVE  DoneRows = {<<call.slot, 1, 6>>}
BY DEF DoneRows

\* What they make of the rows.
LEMMA ExpectedNext ==
  ASSUME NEW s \in Slots, NEW t \in Slots
  PROVE  /\ Expected(6, s, t) = {<<s, c, c>> : c \in 0 .. 4}
         /\ Expected(5, s, t) = {}
         /\ Expected(7, s, t) = Expected(6, s, t) \cup {<<t, c, c + 5>> : c \in 0 .. 2}
         /\ Expected(12, s, t) = Expected(11, s, t) \ {<<t, 1, 6>>}
  <1>1. /\ BatteryCookies(5) = {} /\ ThermalCookies(5) = {}
        /\ BatteryCookies(6) = 0 .. 4 /\ ThermalCookies(6) = {}
        /\ BatteryCookies(7) = 0 .. 4 /\ ThermalCookies(7) = 0 .. 2
        /\ BatteryCookies(11) = 0 .. 4 /\ ThermalCookies(11) = 0 .. 2
        /\ BatteryCookies(12) = 0 .. 4 /\ ThermalCookies(12) = {0, 2}
    BY DEF BatteryCookies, ThermalCookies, NormalTest, SecondaryTest, UnregisterTest
  <1>2. Expected(6, s, t) = {<<s, c, c>> : c \in 0 .. 4} /\ Expected(5, s, t) = {}
    BY <1>1 DEF Expected
  <1>3. Expected(7, s, t) = Expected(6, s, t) \cup {<<t, c, c + 5>> : c \in 0 .. 2}
    BY <1>1 DEF Expected
  <1>4. Expected(12, s, t) = Expected(11, s, t) \ {<<t, 1, 6>>}
    <2>1. \A c \in 0 .. 4 : <<s, c, c>> # <<t, 1, 6>>
      OBVIOUS
    <2>2. \A c \in 0 .. 2 : <<t, c, c + 5>> = <<t, 1, 6>> <=> c = 1
      OBVIOUS
    <2>3. \A c : c \in {0, 2} <=> c \in 0 .. 2 /\ c # 1
      OBVIOUS
    <2>4. {<<t, c, c + 5>> : c \in {0, 2}} = {<<t, c, c + 5>> : c \in 0 .. 2} \ {<<t, 1, 6>>}
      BY <2>2, <2>3
    <2>5. {<<s, c, c>> : c \in 0 .. 4} \ {<<t, 1, 6>>} = {<<s, c, c>> : c \in 0 .. 4}
      BY <2>1
    <2> QED
      BY <1>1, <2>4, <2>5 DEF Expected
  <1> QED
    BY <1>2, <1>3, <1>4

\* A request that succeeds leaves a service in use under its UUID.
LEMMA UpdateDoneEffect ==
  ASSUME Base, UpdateDone
  PROVE  /\ Kept /\ reply' = "SUCCESS" /\ call' = NoRequest /\ Busy
         /\ call.index = Len(call.maps) + 1 /\ call.slot \in Slots
         /\ InUse'[call.slot] /\ SameUuid(call.uuid, ServiceUuid'[call.slot])
         /\ call.op = "UNREGISTER" => InUse[call.slot]
  <1>1. /\ Busy /\ ~InLoop /\ reply' = "SUCCESS" /\ call' = NoRequest /\ UNCHANGED ServiceInfo
    BY DEF UpdateDone, Answer
  <1>2. /\ InUse \in [Slots -> BOOLEAN] /\ ServiceUuid \in [Slots -> Uuids]
        /\ call.slot \in Slots /\ call.maps \in Seq(Mappings)
        /\ call.index \in 1 .. (MAPPING_MAX + 1)
        /\ call.index <= Len(call.maps) + 1 /\ call.op \in {"REGISTER", "UNREGISTER", "none"}
    BY DEF Base, IInv, TypeOK
  <1>3. call.index = Len(call.maps) + 1
    <2>1. Len(call.maps) \in Nat /\ call.index \in Int
      BY <1>2, SizeAssumption
    <2>2. ~(call.index <= Len(call.maps))
      BY <1>1 DEF InLoop
    <2> QED
      BY <1>2, <2>1, <2>2
  <1>4. /\ call.op = "UNREGISTER" => InUse[call.slot]
        /\ InUse[call.slot] => SameUuid(call.uuid, ServiceUuid[call.slot])
    BY <1>1 DEF Base, IInv, RequestPlaced, DoneSoFar
  <1>5. CASE call.op = "REGISTER" /\ ~InUse[call.slot]
    <2>1. /\ ServiceUuid' = [ServiceUuid EXCEPT ![call.slot] = call.uuid]
          /\ InUse' = [InUse EXCEPT ![call.slot] = TRUE]
      BY <1>5 DEF UpdateDone
    <2>2. InUse'[call.slot] /\ ServiceUuid'[call.slot] = call.uuid
      BY <1>2, <2>1
    <2>3. \A u \in Slots : InUse[u] => InUse'[u] /\ ServiceUuid'[u] = ServiceUuid[u]
      BY <1>2, <1>5, <2>1
    <2>4. Kept
      BY <1>1, <2>3, RowsUnchanged DEF Kept
    <2> QED
      BY <1>1, <1>2, <1>3, <1>4, <2>2, <2>4 DEF SameUuid
  <1>6. CASE ~(call.op = "REGISTER" /\ ~InUse[call.slot])
    <2>1. UNCHANGED <<ServiceUuid, InUse>>
      BY <1>6 DEF UpdateDone
    <2>2. Kept
      BY <1>1, <2>1, RowsUnchanged DEF Kept
    <2>3. InUse[call.slot]
      BY <1>1, <1>2, <1>4, <1>6 DEF Busy
    <2> QED
      BY <1>1, <1>2, <1>3, <1>4, <2>1, <2>2, <2>3
  <1> QED
    BY <1>5, <1>6

\* The three cases that change the tables do as they say.
LEMMA DoneTable ==
  ASSUME Base, Origin, client = "app", TableDuring, UpdateDone, NEW n \in {6, 7, 12}, test = n
  PROVE  TableAfter(n)'
  <1>0. /\ Kept /\ Busy /\ call.index = Len(call.maps) + 1 /\ call.slot \in Slots
        /\ InUse'[call.slot] /\ SameUuid(call.uuid, ServiceUuid'[call.slot])
        /\ call.op = "UNREGISTER" => InUse[call.slot]
    BY UpdateDoneEffect
  <1>1. PICK s \in Slots, t \in Slots :
          /\ Placed(n - 1, s, t)
          /\ Rows = IF call.op = "REGISTER" THEN Expected(n - 1, s, t) \cup DoneRows
                                            ELSE Expected(n - 1, s, t) \ DoneRows
    BY DEF TableDuring
  <1>2. \A hi : \A u \in Slots : At(u, hi) => At(u, hi)'
    <2> SUFFICES ASSUME NEW hi, NEW u \in Slots, At(u, hi) PROVE At(u, hi)'
      OBVIOUS
    <2>1. InUse'[u] /\ ServiceUuid'[u] = ServiceUuid[u]
      BY <1>0 DEF Kept, At
    <2> QED
      BY <2>1 DEF At, SameUuid, SuiteUuid, NotificationServiceExtractUuid, WordOf
  <1>d. PICK d \in Slots : d = call.slot
    BY <1>0
  <1>3. ASSUME NEW hi, call.uuid = SuiteUuid(hi)
        PROVE  At(d, hi)'
    <2>1. InUse'[d] /\ SameUuid(SuiteUuid(hi), ServiceUuid'[d])
      BY <1>0, <1>3, <1>d
    <2> QED
      BY <2>1 DEF At, SameUuid, SuiteUuid, NotificationServiceExtractUuid, WordOf
  <1>4. \A a, b \in Slots : Expected(n, a, b)' = Expected(n, a, b)
    BY DEF Expected, BatteryCookies, ThermalCookies
  <1>5. SUFFICES \E a, b \in Slots : Placed(n, a, b)' /\ Rows' = Expected(n, a, b)
    BY <1>4 DEF TableAfter
  <1>6. Rows' = Rows
    BY <1>0 DEF Kept
  <1>7. CASE n = 6
    <2>1. Asks(Suite[test], REGISTER, UUID_LO, BATTERY_HI, 5, NormalMaps) /\ Len(NormalMaps) = 5
      BY <1>7, SuiteAsks DEF NormalMaps
    <2>2. /\ Len(call.maps) = 5 /\ call.op = "REGISTER" /\ call.uuid = SuiteUuid(BATTERY_HI)
          /\ \A k \in 1 .. 5 : call.maps[k].cookie = NormalMaps[k][1]
                               /\ call.maps[k].id = NormalMaps[k][2]
      <3>1. Handling(REGISTER, UUID_LO, BATTERY_HI, 5, NormalMaps)
        BY <1>0, <2>1, AppCallAsks
      <3> QED
        BY <2>1, <3>1 DEF Handling, SuiteUuid
    <2>3. Rows' = Expected(6, d, t)
      BY <1>0, <1>1, <1>d, <1>6, <1>7, <2>2, DoneRowsNormal, ExpectedNext
    <2>4. Placed(6, d, t)'
      BY <1>3, <2>2 DEF Placed, NormalTest, SecondaryTest
    <2> QED
      BY <1>7, <2>3, <2>4
  <1>8. CASE n = 7
    <2>1. /\ Asks(Suite[test], REGISTER, UUID_LO, THERMAL_HI, 3, SecondaryMaps)
          /\ Len(SecondaryMaps) = 3
      BY <1>8, SuiteAsks DEF SecondaryMaps
    <2>2. /\ Len(call.maps) = 3 /\ call.op = "REGISTER" /\ call.uuid = SuiteUuid(THERMAL_HI)
          /\ \A k \in 1 .. 3 : call.maps[k].cookie = SecondaryMaps[k][1]
                               /\ call.maps[k].id = SecondaryMaps[k][2]
      <3>1. Handling(REGISTER, UUID_LO, THERMAL_HI, 3, SecondaryMaps)
        BY <1>0, <2>1, AppCallAsks
      <3> QED
        BY <2>1, <3>1 DEF Handling, SuiteUuid
    <2>3. DoneRows = {<<call.slot, c, c + 5>> : c \in 0 .. 2}
      BY <1>0, <2>2, DoneRowsSecondary
    <2>4. Expected(6, s, d) = Expected(6, s, t)
      <3>1. Expected(6, s, d) = {<<s, c, c>> : c \in 0 .. 4}
        BY ExpectedNext
      <3>2. Expected(6, s, t) = {<<s, c, c>> : c \in 0 .. 4}
        BY ExpectedNext
      <3> QED
        BY <3>1, <3>2
    <2>5. Rows' = Expected(7, s, d)
      BY <1>1, <1>d, <1>6, <1>8, <2>2, <2>3, <2>4, ExpectedNext
    <2>6. Placed(7, s, d)'
      BY <1>1, <1>2, <1>3, <1>8, <2>2 DEF Placed, NormalTest, SecondaryTest
    <2> QED
      BY <1>8, <2>5, <2>6
  <1>9. CASE n = 12
    <2>1. Asks(Suite[test], UNREGISTER, UUID_LO, THERMAL_HI, 1, <<Map(1, 6)>>)
      BY <1>9, SuiteAsks
    <2>2. /\ Len(call.maps) = 1 /\ call.op = "UNREGISTER" /\ call.uuid = SuiteUuid(THERMAL_HI)
          /\ \A k \in 1 .. 1 : call.maps[k].cookie = <<Map(1, 6)>>[k][1]
                               /\ call.maps[k].id = <<Map(1, 6)>>[k][2]
      <3>1. Len(<<Map(1, 6)>>) = 1 /\ UNREGISTER # REGISTER
        BY DEF UNREGISTER, REGISTER
      <3>2. Handling(UNREGISTER, UUID_LO, THERMAL_HI, 1, <<Map(1, 6)>>)
        BY <1>0, <2>1, AppCallAsks
      <3> QED
        BY <3>1, <3>2 DEF Handling, SuiteUuid
    <2>3. call.maps[1].cookie = 1 /\ call.maps[1].id = 6
      BY <2>2 DEF Map
    <2>4. DoneRows = {<<call.slot, 1, 6>>}
      BY <1>0, <2>2, <2>3, DoneRowsUnregister
    <2>5. At(s, BATTERY_HI) /\ At(t, THERMAL_HI)
      BY <1>1, <1>9 DEF Placed, NormalTest, SecondaryTest
    <2>6. call.slot = t
      <3>1. InUse[t] /\ SameUuid(call.uuid, ServiceUuid[t])
        BY <2>2, <2>5 DEF At
      <3>2. InUse[call.slot] /\ SameUuid(call.uuid, ServiceUuid[call.slot])
        BY <1>0, <2>2 DEF Base, DoneSoFar
      <3>3. SameUuid(ServiceUuid[t], ServiceUuid[call.slot])
        BY <3>1, <3>2 DEF SameUuid
      <3> QED
        BY <1>0, <3>1, <3>2, <3>3 DEF Base, IInv, TableInv, LookupsUnambiguous
    <2>7. Rows' = Expected(12, s, t)
      BY <1>1, <1>6, <1>9, <2>2, <2>4, <2>6, ExpectedNext
    <2>8. Placed(12, s, t)'
      BY <1>2, <2>5 DEF Placed
    <2> QED
      BY <1>9, <2>7, <2>8
  <1> QED
    BY <1>7, <1>8, <1>9

\* A table for a number is one for the case of that number.
LEMMA TableAtTest ==
  ASSUME NEW n, TableAfter(n)'
  PROVE  (test' = n => TableAfter(test)') /\ (test' - 1 = n => TableAfter(test - 1)')
BY DEF TableAfter, Placed, Expected, BatteryCookies, ThermalCookies, At

\* Single mappings that are refused, and counts that are, leave nothing behind.
LEMMA NothingDone ==
  ASSUME Base, Origin, client = "app", InLoop, test \notin {6, 7, 12}
  PROVE  DoneRows = {}
  <1>1. Busy /\ call.index <= Len(call.maps)
    BY DEF InLoop
  <1>2. test \in 6 .. 15
    BY <1>1, AppCall
  <1>3. test = 8 \/ test = 9 \/ test = 10 \/ test = 11 \/ test = 13 \/ test = 14 \/ test = 15
    BY <1>2
  <1>4. ~ValidCount(0) /\ ~ValidCount(8)
    BY WidthAssumption, SizeAssumption DEF ValidCount, MAPPING_MIN
  <1>5. ASSUME NEW op \in {REGISTER, UNREGISTER}, NEW lo, NEW hi, NEW maps,
               NEW count \in {0, 1, 8}, Asks(Suite[test], op, lo, hi, count, maps)
        PROVE  Len(call.maps) = 1
    <2>1. Handling(op, lo, hi, count, maps)
      BY <1>1, <1>5, AppCallAsks
    <2> QED
      BY <1>4, <2>1 DEF Handling
  <1>6. Len(call.maps) = 1
    BY <1>3, <1>5, SuiteAsks
  <1>7. call.index = 1
    BY <1>1, <1>6, SizeAssumption DEF Base, IInv, TypeOK
  <1> QED
    BY <1>7, NoDoneRows

\* The service goes on with a request.
LEMMA TableSoundServe ==
  ASSUME Base, Origin, TableSound, Serve, UNCHANGED app
  PROVE  TableSound'
  <1>0. /\ TypeOK /\ LookupsUnambiguous /\ LoopStep /\ spPc = "serving"
        /\ UNCHANGED <<spPc, client, request, answer, test, result>>
    BY DEF Base, IInv, TableInv, Serve, spmc, app
  <1>1. SoFar' <=> SoFar
    BY <1>0 DEF SoFar
  <1>2. Busy
    BY <1>0, LoopKeepsRequest
  <1>n. PICK n : n = test
    OBVIOUS
  <1>m. PICK m : m = test - 1
    OBVIOUS
  <1>3. CASE client # "app"
    <2>1. call.source # APP_ID
      BY <1>2, <1>3, OtherCall
    <2>2. Kept
      <3>1. CASE RegisterMapping
        <4>1. Rows' = Rows
          BY <1>0, <2>1, <3>1, RowsAfterRegister
        <4>2. UNCHANGED <<InUse, ServiceUuid>>
          BY <1>0, <3>1, RegisterEffect, StoredEffect DEF RegisterMapping
        <4> QED
          BY <4>1, <4>2 DEF Kept
      <3>2. CASE UnregisterMapping
        <4>1. Rows' = Rows
          BY <1>0, <2>1, <3>2, RowsAfterUnregister
        <4>2. UNCHANGED <<InUse, ServiceUuid>>
          BY <1>0, <3>2, UnregisterEffect, StoredEffect DEF UnregisterMapping
        <4> QED
          BY <4>1, <4>2 DEF Kept
      <3>3. CASE RefuseMapping
        BY <3>3, TablesKept DEF RefuseMapping
      <3>4. CASE UpdateDone
        BY <3>4, UpdateDoneEffect
      <3> QED
        BY <1>0, <3>1, <3>2, <3>3, <3>4 DEF LoopStep
    <2>3. SoFar => TableAfter(m)
      BY <1>3, <1>m DEF TableSound
    <2>4. SoFar => TableAfter(test - 1)'
      BY <1>0, <1>m, <2>2, <2>3, TableAfterKept, TableAtTest
    <2> QED
      BY <1>0, <1>1, <1>3, <2>4, TableSoundOutside
  <1>4. CASE client = "app"
    <2>0. answer = NoFrame /\ request.guid = NotificationGuid /\ test \in 6 .. 15
      BY <1>2, <1>4, AppCall
    <2>1. SUFFICES ASSUME SoFar
                   PROVE  IF Busy' THEN TableDuring'
                          ELSE StatusCode(reply)' = Suite[test].expect => TableAfter(test)'
      BY <1>0, <1>1, <1>4, <2>0 DEF TableSound
    <2>2. TableDuring
      BY <1>2, <1>4, <2>0, <2>1 DEF TableSound
    <2>3. CASE RegisterMapping \/ UnregisterMapping
      <3>1. TableDuring'
        BY <1>0, <1>4, <2>2, <2>3, TableDuringStep
      <3>2. Busy'
        <4>1. call'.op = call.op
          <5>1. CASE RegisterMapping
            BY <1>0, <5>1, RegisterEffect, StoredEffect DEF RegisterMapping
          <5>2. CASE UnregisterMapping
            BY <1>0, <5>2, UnregisterEffect, StoredEffect DEF UnregisterMapping
          <5> QED
            BY <2>3, <5>1, <5>2
        <4> QED
          BY <1>2, <4>1 DEF Busy
      <3> QED
        BY <3>1, <3>2
    <2>4. CASE RefuseMapping
      <3>1. /\ InLoop /\ UNCHANGED tables /\ call' = NoRequest
            /\ reply' \in Statuses \ {"SUCCESS"}
        BY <2>4 DEF RefuseMapping, Answer, RegisterStatus, UnregisterStatus, Statuses
      <3>2. ~Busy' /\ StatusCode(reply') # 0
        BY <3>1 DEF Busy, NoRequest, StatusCode, Statuses
      <3>3. CASE test \in {6, 7, 12}
        BY <2>0, <3>2, <3>3, SuiteExpects
      <3>4. CASE test \notin {6, 7, 12}
        <4>1. DoneRows = {}
          BY <1>4, <3>1, <3>4, NothingDone
        <4>2. TableAfter(m)
          BY <1>m, <2>2, <4>1 DEF TableDuring, TableAfter
        <4>3. TableAfter(n)
          BY <1>n, <1>m, <2>0, <3>4, <4>2, TableAfterOther
        <4> QED
          BY <1>0, <1>n, <3>1, <3>2, <4>3, TablesKept, TableAfterKept, TableAtTest
      <3> QED
        BY <3>3, <3>4
    <2>5. CASE UpdateDone
      <3>1. reply' = "SUCCESS" /\ ~Busy'
        BY <2>5 DEF UpdateDone, Answer, Busy, NoRequest
      <3>2. CASE test \in {6, 7, 12}
        BY <1>0, <1>4, <1>n, <2>2, <2>5, <3>1, <3>2, DoneTable, TableAtTest
      <3>3. CASE test \notin {6, 7, 12}
        BY <1>0, <2>0, <3>1, <3>3, SuiteExpects, StatusCodes
      <3> QED
        BY <3>2, <3>3
    <2> QED
      BY <1>0, <2>3, <2>4, <2>5 DEF LoopStep
  <1> QED
    BY <1>3, <1>4

\* A request is dispatched.
LEMMA TableSoundDispatch ==
  ASSUME Base, Origin, TableSound, DispatchStep, UNCHANGED app
  PROVE  TableSound'
  <1>0. /\ spPc = "dispatch" /\ spPc' = "serving"
        /\ UNCHANGED <<msg, client, request, answer, test, result>>
    BY SMTT(30) DEF DispatchStep, DispatchNotification, DispatchEvent, DispatchTestInvalid,
           DispatchOther, Dispatched, spmc, app
  <1>1. UNCHANGED tables
    BY DEF DispatchStep, DispatchNotification, DispatchEvent, DispatchTestInvalid,
           DispatchOther, NotificationServiceHandle, TestNotificationHandler,
           TestServiceInvalid, service
  <1>2. ~Busy /\ (SoFar' <=> SoFar)
    BY <1>0 DEF Origin, CallIsRequest, SoFar
  <1>n. PICK n : n = test
    OBVIOUS
  <1>m. PICK m : m = test - 1
    OBVIOUS
  <1>3. answer = NoFrame
    BY <1>0 DEF Base, MsgInv, AtWork
  <1>4. SoFar => TableAfter(m)
    BY <1>0, <1>2, <1>3, <1>m DEF TableSound
  <1>5. SoFar => TableAfter(m)'
    BY <1>1, <1>4, TablesKept, TableAfterKept
  <1>6. CASE client # "app"
    <2>1. SoFar => TableAfter(test - 1)'
      BY <1>0, <1>m, <1>5, TableAtTest
    <2> QED
      BY <1>0, <1>2, <1>6, <2>1, TableSoundOutside
  <1>7. CASE client = "app"
    <2>0. msg = request /\ test \in 6 .. 18 /\ request.guid = Suite[test].guid
          /\ request.fid = "REQ2"
      BY <1>0, <1>7, AppRequest
    <2>1. SUFFICES ASSUME SoFar
                   PROVE  IF Busy' THEN TableDuring'
                          ELSE (request.guid = NotificationGuid =>
                                  StatusCode(reply)' = Suite[test].expect) =>
                               TableAfter(test)'
      BY <1>0, <1>2, <1>3, <1>7 DEF TableSound
    <2>2. CASE test \in 6 .. 15
      <3>1. request.guid = NotificationGuid /\ DispatchNotification
        <4>1. msg.guid = NotificationGuid /\ msg.fid = "REQ2"
          BY <2>0, <2>2, SuiteExpects
        <4> QED
          BY <1>0, <2>0, <4>1, RequestAssumption
             DEF DispatchStep, DispatchEvent, DispatchTestInvalid, DispatchOther, Dispatched
      <3>2. NotificationServiceHandle(msg.arg[5][0], <<msg.arg[3], msg.arg[4]>>, msg.source,
                                      msg.arg[6][0], MappingsSent(msg.arg[6][0]))
        BY <3>1 DEF DispatchNotification
      <3>3. \/ call' = NoRequest /\ reply' \in Statuses \ {"SUCCESS"}
            \/ call'.index = 1 /\ call'.op \in {"REGISTER", "UNREGISTER"}
        BY <3>2, Handled
      <3>4. CASE call' = NoRequest /\ reply' \in Statuses \ {"SUCCESS"}
        <4>1. ~Busy' /\ StatusCode(reply') # 0
          BY <3>4 DEF Busy, NoRequest, StatusCode, Statuses
        <4>2. CASE test \in {6, 7, 12}
          BY <2>2, <3>1, <4>1, <4>2, SuiteExpects
        <4>3. CASE test \notin {6, 7, 12}
          <5>1. TableAfter(n)
            BY <1>n, <1>m, <1>4, <2>1, <2>2, <4>3, TableAfterOther
          <5> QED
            BY <1>0, <1>1, <1>n, <4>1, <5>1, TablesKept, TableAfterKept, TableAtTest
        <4> QED
          BY <4>2, <4>3
      <3>5. CASE call'.index = 1 /\ call'.op \in {"REGISTER", "UNREGISTER"}
        <4>1. DoneRows' = {}
          BY <3>5 DEF DoneRows
        <4>2. PICK s \in Slots, t \in Slots : Placed(m, s, t)' /\ Rows' = Expected(m, s, t)'
          BY <1>5, <2>1 DEF TableAfter
        <4>3. Placed(test - 1, s, t)' /\ Rows' = Expected(test - 1, s, t)'
          BY <1>0, <1>m, <4>2
             DEF Placed, Expected, BatteryCookies, ThermalCookies, At
        <4>4. TableDuring'
          BY <4>1, <4>3 DEF TableDuring
        <4>5. Busy'
          BY <3>5 DEF Busy
        <4> QED
          BY <4>4, <4>5
      <3> QED
        BY <3>3, <3>4, <3>5
    <2>3. CASE test \in 16 .. 18
      <3>1. request.guid # NotificationGuid
        BY <2>0, <2>3, SuiteExpects, RequestAssumption
      <3>2. ~Busy'
        <4>1. ~Dispatched(NotificationGuid)
          BY <2>0, <3>1, SMTT(30) DEF Dispatched
        <4>2. UNCHANGED call
          BY <4>1 DEF DispatchStep, DispatchNotification, DispatchEvent, DispatchTestInvalid,
                      DispatchOther, TestNotificationHandler, TestServiceInvalid, service
        <4> QED
          BY <1>2, <4>2 DEF Busy
      <3>3. TableAfter(n)
        BY <1>n, <1>m, <1>4, <2>1, <2>3, TableAfterOther
      <3> QED
        BY <1>0, <1>1, <1>n, <3>2, <3>3, TablesKept, TableAfterKept, TableAtTest
    <2> QED
      BY <2>0, <2>2, <2>3
  <1> QED
    BY <1>6, <1>7

\* The response goes out.
LEMMA TableSoundRespond ==
  ASSUME Base, Origin, TableSound, FfaMessageSendDirectResp, UNCHANGED app
  PROVE  TableSound'
  <1>0. /\ spPc = "serving" /\ spPc' = "waiting" /\ ~Busy /\ answer' # NoFrame
        /\ UNCHANGED <<tables, call, reply, client, request, test, result>>
    <2>1. answer'.fid # "none"
      BY DEF FfaMessageSendDirectResp, FfaPackDirectMessage, DirectMsg, ResponseFid
    <2>2. answer' # NoFrame
      BY <2>1 DEF NoFrame
    <2> QED
      BY <2>2 DEF FfaMessageSendDirectResp, service, app
  <1>1. SoFar' <=> SoFar
    BY <1>0 DEF SoFar
  <1>2. answer = NoFrame
    BY <1>0 DEF Base, MsgInv, AtWork
  <1>n. PICK n : n = test
    OBVIOUS
  <1>m. PICK m : m = test - 1
    OBVIOUS
  <1>3. CASE client # "app"
    <2>1. SoFar => TableAfter(m)
      BY <1>3, <1>m DEF TableSound
    <2>2. SoFar => TableAfter(test - 1)'
      BY <1>0, <1>m, <2>1, TablesKept, TableAfterKept, TableAtTest
    <2> QED
      BY <1>0, <1>1, <1>3, <2>2, TableSoundOutside
  <1>4. CASE client = "app"
    <2>1. SUFFICES ASSUME SoFar, Status' = Suite[test].expect
                   PROVE  TableAfter(test)'
      BY <1>0, <1>1, <1>4 DEF TableSound
    <2>2. request.guid = NotificationGuid => StatusCode(reply) = Suite[test].expect
      BY <1>4, <2>1, ResponseStatus
    <2>3. TableAfter(n)
      BY <1>0, <1>2, <1>4, <1>n, <2>1, <2>2 DEF TableSound
    <2> QED
      BY <1>0, <1>n, <2>3, TablesKept, TableAfterKept, TableAtTest
  <1> QED
    BY <1>3, <1>4

-----------------------------------------------------------------------------
(***************************************************************************)
(* From case to case.                                                      *)
(***************************************************************************)

\* A local case is one of the first five, the last, or the end of the event's.
LEMMA LocalPlace ==
  ASSUME Base, Stage, LocalStep
  PROVE  /\ test \in Tests
         /\ \/ Skip \/ (StallEnds /\ test = EventTest)
            \/ test \in 1 .. 5 \/ test = 19
  <1>1. CASE Skip
    BY <1>1 DEF Skip
  <1>2. CASE StallEnds
    <2>1. test = EventTest
      BY <1>2 DEF StallEnds, Stage
    <2> QED
      BY <1>2, <2>1, SuiteNumbers DEF EventTest
  <1>3. ASSUME NEW name \in LocalNames, Due(name)
        PROVE  test \in Tests /\ (test \in 1 .. 5 \/ test = 19)
    <2>1. test \in 1 .. 19 /\ test \notin 6 .. 18
      BY <1>3, SuiteNumbers DEF Due
    <2> QED
      BY <2>1, SuiteNumbers
  <1>4. CASE ~Skip /\ ~StallEnds
    <2>1. \E name \in LocalNames : Due(name)
      BY <1>4 DEF LocalStep, FfaMiscVerifyVersion, FfaMiscGetPartitionInfoRegs,
                  FfaMiscGetPartitionInfo, FfaMiscSetupNotifications,
                  FfaMiscRegisterNotifications, FfaMiscTestFfaNsResInfoGet, LocalNames
    <2> QED
      BY <1>3, <2>1
  <1> QED
    BY <1>1, <1>2, <1>4

\* The suite is done after its last case, and stalls in the event's.
LEMMA StageStep ==
  ASSUME Base, Origin, Stage, [AppNext]_appVars
  PROVE  Stage'
  <1>1. CASE UNCHANGED <<test, appPc>>
    BY <1>1 DEF Stage
  <1>2. ASSUME NEW v, Verdict(v), test \in Tests
        PROVE  Stage'
    BY <1>2, SuiteNumbers DEF Verdict, Stage
  <1>3. CASE LocalStep
    BY <1>2, <1>3, LocalPlace, LocalEffect
  <1>4. CASE SendRequest
    <2>1. test \in Tests
      BY <1>4 DEF SendRequest
    <2>2. Verdict("failed") \/ appPc' = "sent"
      BY <1>4 DEF SendRequest
    <2> QED
      BY <1>2, <2>1, <2>2 DEF Stage
  <1>5. CASE ReceiveResponse
    <2>1. test \in Tests
      BY <1>5 DEF ReceiveResponse, Base, AppInv, SuiteOK
    <2>2. \/ Suite[test].name = "Event" /\ appPc' = "stall" /\ UNCHANGED test
          \/ \E v : Verdict(v)
      BY <1>5 DEF ReceiveResponse, Passed
    <2>3. CASE Suite[test].name = "Event" /\ appPc' = "stall" /\ UNCHANGED test
      BY <2>1, <2>3, SuiteNumbers DEF Stage
    <2> QED
      BY <1>2, <2>1, <2>2, <2>3
  <1>6. CASE UNCHANGED app \/ ApIrqInterruptHandler \/ UNCHANGED appVars
    BY <1>1, <1>6 DEF app, ApIrqInterruptHandler, appVars
  <1> QED
    BY <1>3, <1>4, <1>5, <1>6, StepKinds

\* All cases passed when the ones before did and this one does.
LEMMA VerdictSoFar ==
  ASSUME Base, test \in Tests, NEW v, Verdict(v), SoFar'
  PROVE  /\ SoFar /\ v = "passed" /\ result'[test] = "passed"
         /\ test \in 1 .. 19 /\ test' = test + 1
  <1>1. test \in 1 .. 19 /\ test' = test + 1
    BY SuiteNumbers DEF Verdict
  <1>2. \A u \in 1 .. test : result'[u] = "passed"
    BY <1>1 DEF SoFar
  <1>3. DOMAIN result = 1 .. 19
    BY SuiteNumbers DEF Base, AppInv, SuiteOK
  <1>4. \A u \in 1 .. 19 : result'[u] = IF u = test THEN v ELSE result[u]
    BY <1>1, <1>3 DEF Verdict
  <1>5. result'[test] = "passed" /\ v = "passed"
    BY <1>1, <1>2, <1>4
  <1>6. \A u \in 1 .. (test - 1) : result[u] = "passed"
    <2>1. ASSUME NEW u \in 1 .. (test - 1)
          PROVE  u \in 1 .. test /\ u \in 1 .. 19 /\ u # test
      BY <1>1
    <2> QED
      BY <1>2, <1>4, <2>1
  <1> QED
    BY <1>1, <1>5, <1>6 DEF SoFar

\* A case that is over left the tables as they should be after it.
LEMMA TableSoundVerdict ==
  ASSUME Base, test \in Tests, NEW v, Verdict(v), UNCHANGED tables, client' # "app",
         SoFar /\ v = "passed" => TableAfter(test)
  PROVE  TableSound'
  <1>n. PICK n : n = test
    OBVIOUS
  <1>1. ASSUME SoFar'
        PROVE  TableAfter(test - 1)'
    <2>1. SoFar /\ v = "passed" /\ test \in 1 .. 19 /\ test' = test + 1
      BY <1>1, VerdictSoFar
    <2>2. TableAfter(n)
      BY <1>n, <2>1
    <2>3. TableAfter(n)' /\ test' - 1 = n
      BY <1>n, <2>1, <2>2, TablesKept, TableAfterKept
    <2> QED
      BY <2>3, TableAtTest
  <1> QED
    BY <1>1, TableSoundOutside

\* A local case leaves the tables alone.
LEMMA TableSoundLocal ==
  ASSUME Base, Origin, Stage, TableSound, LocalStep
  PROVE  TableSound'
  <1>1. /\ client # "app" /\ client' # "app" /\ UNCHANGED tables
        /\ test \in Tests /\ test \in 1 .. 19
    BY LocalEffect, LocalPlace, SuiteNumbers DEF service, Origin, AppOpen
  <1>n. PICK n : n = test
    OBVIOUS
  <1>2. PICK v : Verdict(v)
    BY LocalEffect
  <1>3. CASE Skip
    <2>1. Verdict("skipped")
      BY <1>3 DEF Skip
    <2> QED
      BY <1>1, <2>1, TableSoundVerdict
  <1>4. CASE ~Skip
    <2>1. n \notin {6, 7, 12} /\ n \in 1 .. 19
      BY <1>n, <1>1, <1>4, LocalPlace DEF EventTest
    <2>2. SoFar => TableAfter(n - 1)
      BY <1>n, <1>1 DEF TableSound
    <2>3. SoFar => TableAfter(test)
      BY <1>n, <2>1, <2>2, TableAfterOther
    <2> QED
      BY <1>1, <1>2, <2>3, TableSoundVerdict
  <1> QED
    BY <1>3, <1>4

\* A request is sent, or the case fails.
LEMMA TableSoundSend ==
  ASSUME Base, Origin, TableSound, SendRequest
  PROVE  TableSound'
  <1>1. /\ UNCHANGED <<tables, call, reply, spPc>> /\ test \in Tests /\ appPc = "run"
        /\ client # "app"
    BY DEF SendRequest, service, Origin, AppOpen
  <1>2. CASE Verdict("failed") /\ UNCHANGED spmc
    BY <1>1, <1>2, TableSoundVerdict DEF spmc
  <1>3. CASE /\ client = "none" /\ client' = "app" /\ UNCHANGED <<answer, test, result>>
    <2>1. answer = NoFrame /\ spPc \notin {"dispatch", "serving"}
      BY <1>3 DEF Base, MsgInv, AtWork, AnswerFitsRequest
    <2>2. ~Busy
      BY <2>1 DEF Origin, CallIsRequest
    <2>m. PICK m : m = test - 1
      OBVIOUS
    <2>3. SoFar' => TableAfter(m)
      BY <1>1, <1>3, <2>m DEF TableSound, SoFar
    <2>4. SoFar' => TableAfter(test - 1)'
      BY <1>1, <1>3, <2>m, <2>3, TablesKept, TableAfterKept, TableAtTest
    <2>5. ~Busy' /\ answer' = NoFrame /\ spPc' # "serving"
      BY <1>1, <1>3, <2>1, <2>2 DEF Busy
    <2> QED
      BY <1>3, <2>4, <2>5 DEF TableSound
  <1> QED
    BY <1>2, <1>3 DEF SendRequest, Open

\* A response is received.
LEMMA TableSoundReceive ==
  ASSUME Base, Origin, TableSound, ReceiveResponse
  PROVE  TableSound'
  <1>1. /\ UNCHANGED tables /\ client = "app" /\ answer # NoFrame /\ client' = "none"
    BY DEF ReceiveResponse, Close, service
  <1>2. test \in 6 .. 18 /\ test \in Tests
    BY <1>1, AppRequest, SuiteNumbers
  <1>3. SoFar /\ Status = Suite[test].expect => TableAfter(test)
    BY <1>1 DEF TableSound
  <1>4. CASE Suite[test].name = "Event" /\ Status = Suite[test].expect /\ UNCHANGED <<test, result>>
    <2>1. test = 16
      BY <1>2, <1>4, SuiteNumbers DEF EventTest
    <2>2. SoFar => TableAfter(16)
      BY <1>3, <1>4, <2>1
    <2>3. SoFar => TableAfter(15)
      <3>1. TableAfter(16) <=> TableAfter(16 - 1)
        BY TableAfterOther
      <3> QED
        BY <2>2, <3>1
    <2>4. SoFar => TableAfter(15)'
      BY <1>1, <2>3, TablesKept, TableAfterKept
    <2>5. SoFar' => TableAfter(test - 1)'
      BY <1>4, <2>1, <2>4, TableAtTest DEF SoFar
    <2> QED
      BY <1>1, <2>5, TableSoundOutside
  <1>5. CASE Passed(Status = Suite[test].expect)
    <2>1. PICK v : Verdict(v) /\ (v = "passed" => Status = Suite[test].expect)
      BY <1>5 DEF Passed
    <2> QED
      BY <1>1, <1>2, <1>3, <2>1, TableSoundVerdict
  <1> QED
    BY <1>4, <1>5 DEF ReceiveResponse, Status

\* The rows of the application are those of the cases that passed, after every step.
LEMMA TableSoundStep ==
  ASSUME Base, Origin, Stage, TableSound, [AppNext]_appVars
  PROVE  TableSound'
  <1>1. CASE LoopOutside /\ UNCHANGED app
    <2>1. CASE FfaMessageSendDirectResp
      BY <1>1, <2>1, TableSoundRespond
    <2>2. CASE ~FfaMessageSendDirectResp
      <3>1. /\ UNCHANGED <<tables, call, reply, client, answer, request, test, result>>
            /\ spPc # "serving" /\ spPc' # "serving"
        BY <1>1, <2>2 DEF LoopOutside, SpInterrupt, FfaReturnFromInterrupt, FfaWaitNoMessage,
                          FfaMessageWait, service, spmc, app
      <3> QED
        BY <3>1, TableSoundKept
    <2> QED
      BY <2>1, <2>2
  <1>2. CASE DispatchStep /\ UNCHANGED app
    BY <1>2, TableSoundDispatch
  <1>3. CASE Serve /\ UNCHANGED app
    BY <1>3, TableSoundServe
  <1>4. CASE (OtherSends \/ OtherReceives) /\ UNCHANGED app
    <2>1. UNCHANGED <<tables, call, reply, spPc, test, result>>
      BY <1>4, OtherSendsEffect DEF OtherReceives, PeerReceive, LegacyReceive, service, app
    <2>2. \/ client # "app" /\ client' # "app"
          \/ UNCHANGED <<client, request, answer>>
      BY <1>4, OtherSendsEffect DEF OtherReceives, PeerReceive, LegacyReceive, Close
    <2>3. CASE client # "app" /\ client' # "app"
      <3>m. PICK m : m = test - 1
        OBVIOUS
      <3>1. SoFar' => TableAfter(m)
        BY <2>1, <2>3, <3>m DEF TableSound, SoFar
      <3>2. SoFar' => TableAfter(test - 1)'
        BY <2>1, <3>m, <3>1, TablesKept, TableAfterKept, TableAtTest
      <3> QED
        BY <2>3, <3>2, TableSoundOutside
    <2> QED
      BY <2>1, <2>2, <2>3, TableSoundKept
  <1>5. CASE \/ (PeerInterrupt \/ PeerInterruptDone) /\ UNCHANGED app
             \/ ApIrqInterruptHandler \/ UNCHANGED appVars
    <2>1. UNCHANGED <<tables, call, reply, client, answer, request, test, result, spPc>>
      BY <1>5 DEF PeerInterrupt, PeerInterruptDone, ApIrqInterruptHandler, appVars, ffaVars,
                  service, spmc, app
    <2> QED
      BY <2>1, TableSoundKept
  <1> QED
    BY <1>1, <1>2, <1>3, <1>4, <1>5, TableSoundLocal, TableSoundSend, TableSoundReceive, StepKinds

\* At any time.
LEMMA TableSoundInvariance == AppSpec => [](Base /\ Origin /\ Stage /\ TableSound)
  <1>1. AppInit => Stage /\ TableSound
    <2> SUFFICES ASSUME AppInit PROVE Stage /\ TableSound
      OBVIOUS
    <2>1. Stage /\ client # "app" /\ test = 1
      BY DEF AppInit, FfaInit, Stage
    <2>2. TableAfter(0)
      BY TableAtStart DEF AppInit, FfaInit
    <2>3. TableAfter(test - 1)
      BY <2>1, <2>2
    <2> QED
      BY <2>1, <2>3 DEF TableSound
  <1> QED
    BY <1>1, OriginInvariance, StageStep, TableSoundStep, PTL DEF AppSpec

-----------------------------------------------------------------------------
(***************************************************************************)
(* The event.                                                              *)
(***************************************************************************)

\* The event as the test service hears of it: its words and cookie are covered.
LEMMA EventCovered ==
  ASSUME Base, DispatchEvent
  PROVE  <<msg.arg[1], msg.arg[2]>> \in UuidWords /\ msg.arg[3][0] \in Cookies
  <1>1. /\ spPc = "dispatch" /\ msg.fid = "REQ2" /\ msg.guid = TestGuid
        /\ msg.arg[0][0] = TEST_OPCODE_TEST_NOTIFICATION
    BY DEF DispatchEvent, Dispatched
  <1>2. client # "none" /\ msg = request
    BY <1>1 DEF Base, MsgInv, AtWork, RequestIntact
  <1>3. Covered(msg.guid, msg.arg)
    BY <1>1, <1>2 DEF Base, RequestCovered
  <1> QED
    BY <1>1, <1>3 DEF Covered

\* A notification that is sent has a bit.
LEMMA EventHasBit ==
  ASSUME Base, DispatchEvent, NEW n \in notified'
  PROVE  n.bits # {}
  <1> DEFINE words == <<msg.arg[1], msg.arg[2]>>
             cookie == msg.arg[3][0]
  <1>1. TypeOK /\ words \in UuidWords /\ cookie \in Cookies
    BY EventCovered DEF Base, IInv
  <1>2. PICK sent \in BOOLEAN : TestNotificationHandler(words, cookie, sent)
    BY DEF DispatchEvent
  <1> HIDE DEF words, cookie
  <1>3. PICK s \in Slots, i \in Indices : n.bits = IdBits(ServiceInfo[s][i].id)
    BY <1>1, <1>2, NotifyEffect
  <1>4. ServiceInfo[s][i].id \in Nat
    BY <1>1, InfoType DEF TypeOK
  <1> QED
    BY <1>3, <1>4, BitsType

\* With one bit bound, an event raises that bit or is answered with an error.
LEMMA EventRaisesBound ==
  ASSUME Base, TypeOK', DispatchEvent, bound \subseteq {BIND_BIT}
  PROVE  \/ reply' = "INVALID_PARAMETER" /\ UNCHANGED notifications
         \/ /\ reply' = "SUCCESS" /\ bitmapCreated /\ BIND_BIT \in bound
            /\ pending' = pending \cup {BIND_BIT} /\ raised' = raised \cup {BIND_BIT}
            /\ sri' = TRUE /\ UNCHANGED <<bitmapCreated, bound>>
  <1>0. sri \in BOOLEAN
    BY DEF Base, AppInv, FlagsOK
  <1>1. CASE notified' = {}
    <2>1. reply' = "INVALID_PARAMETER"
      BY <1>1 DEF DispatchEvent, TestNotificationHandler
    <2> QED
      BY <1>1, <2>1 DEF DispatchEvent
  <1>2. CASE notified' # {}
    <2> DEFINE n == CHOOSE e \in notified' : TRUE
    <2>1. n \in notified' /\ n.bits \in Bitmaps /\ n.bits # {}
      BY <1>2, EventBits, EventHasBit
    <2>2. PICK sent \in BOOLEAN, found \in BOOLEAN, refused \in BOOLEAN :
            /\ TestNotificationHandler(<<msg.arg[1], msg.arg[2]>>, msg.arg[3][0], sent)
            /\ LET c == FfaNotificationSet(SourceId(mPartitionId["sp"], SP_ID, found), n.dest,
                                           n.bits)
               IN /\ sent <=> SetAccepted(c) /\ ~refused
                  /\ pending' = IF sent THEN pending \cup Whole(c.arg3, c.arg4) ELSE pending
                  /\ sri' = (sri \/ sent)
                  /\ raised' = IF sent THEN raised \cup n.bits ELSE raised
                  /\ UNCHANGED <<bitmapCreated, bound>>
      BY <1>2 DEF DispatchEvent
    <2>3. reply' = IF sent THEN "SUCCESS" ELSE "INVALID_PARAMETER"
      BY <1>2, <2>2 DEF TestNotificationHandler
    <2> HIDE DEF n
    <2>4. Whole(LowHalf(n.bits), HighHalf(n.bits)) = n.bits
      BY <2>1, HalvesMakeWhole DEF Bitmaps
    <2>5. /\ pending' = IF sent THEN pending \cup n.bits ELSE pending
          /\ sent => bitmapCreated /\ n.bits \subseteq bound
      BY <2>2, <2>4 DEF FfaNotificationSet, SetAccepted
    <2>6. CASE sent
      <3>1. n.bits = {BIND_BIT} /\ BIND_BIT \in bound
        BY <2>1, <2>5, <2>6
      <3> QED
        BY <2>2, <2>3, <2>5, <2>6, <3>1
    <2>7. CASE ~sent
      BY <1>0, <2>2, <2>3, <2>5, <2>7 DEF notifications
    <2> QED
      BY <2>6, <2>7
  <1> QED
    BY <1>1, <1>2

\* What was bound, raised, fetched and registered stays so.
LEMMA SignalsGrow ==
  ASSUME Base, TypeOK', [AppNext]_appVars
  PROVE  /\ bitmapCreated => bitmapCreated'
         /\ bound \subseteq bound' /\ raised \subseteq raised' /\ fetched \subseteq fetched'
  <1>0. sri \in BOOLEAN /\ pending \in Bitmaps
    BY DEF Base, AppInv, FlagsOK, BitmapsOK
  <1>1. CASE DispatchEvent
    <2>1. fetched' = fetched
      BY <1>1, EventLeavesApp DEF app
    <2>2. UNCHANGED <<bitmapCreated, bound>>
      BY <1>0, <1>1, EventEffect
    <2>3. CASE UNCHANGED <<pending, sri, raised>>
      BY <2>1, <2>2, <2>3
    <2>4. ASSUME NEW bits \in Bitmaps, raised' = raised \cup bits
          PROVE  raised \subseteq raised'
      BY <2>4
    <2>5. raised \subseteq raised'
      BY <1>0, <1>1, <2>3, <2>4, EventEffect
    <2> QED
      BY <2>1, <2>2, <2>5
  <1>2. CASE ApIrqInterruptHandler
    BY <1>0, <1>2, HandlerEffect
  <1>3. CASE FfaMiscSetupNotifications
    <2>1. bitmapCreated => bitmapCreated'
      BY <1>3, Zenon DEF FfaMiscSetupNotifications
    <2> QED
      BY <1>3, <2>1, SetupEffect
  <1>4. CASE ~DispatchEvent /\ ~ApIrqInterruptHandler /\ ~FfaMiscSetupNotifications
    BY <1>4, BitsUntouched
  <1> QED
    BY <1>1, <1>2, <1>3, <1>4

\* A handler stays registered.
LEMMA HandlerStays ==
  ASSUME [AppNext]_appVars
  PROVE  handler => handler'
  <1>1. CASE UNCHANGED app \/ ApIrqInterruptHandler
    BY <1>1 DEF app, ApIrqInterruptHandler
  <1>2. CASE FfaMiscRegisterNotifications
    BY <1>2, Zenon DEF FfaMiscRegisterNotifications
  <1>3. CASE AppStep /\ ~FfaMiscRegisterNotifications
    BY <1>3 DEF AppStep, Skip, FfaMiscVerifyVersion, FfaMiscGetPartitionInfoRegs,
                FfaMiscGetPartitionInfo, FfaMiscSetupNotifications, SendRequest,
                ReceiveResponse, StallEnds, FfaMiscTestFfaNsResInfoGet
  <1> QED
    BY <1>1, <1>2, <1>3, AppUntouched

\* So what was signalled and noticed stays so.
LEMMA SignalledStays ==
  ASSUME Base, TypeOK', [AppNext]_appVars
  PROVE  (Signalled => Signalled') /\ (Noticed => Noticed')
BY SignalsGrow, HandlerStays, FaultsGrow DEF Signalled, Noticed

\* The status a case of the test or TPM service gets is the first word of the response.
LEMMA ServiceStatus ==
  ASSUME Base, Origin, client = "app", FfaMessageSendDirectResp, UNCHANGED app,
         test \in 16 .. 18
  PROVE  Status' = IF test = 16 THEN StatusCode(reply)
                   ELSE TpmStatus(Suite[test].arg[0][0], APP_ID)
  <1> DEFINE sent == DirectMsg(ResponseFid, msg.dest, msg.source, ZeroGuid, ResponseArgs)
             first == IF test = 16 THEN StatusCode(reply)
                      ELSE TpmStatus(Suite[test].arg[0][0], APP_ID)
  <1>1. /\ spPc = "serving" /\ answer' = FfaPackDirectMessage(sent)
    BY DEF FfaMessageSendDirectResp
  <1>2. /\ msg = request /\ msg.fid = "REQ2" /\ msg.guid = Suite[test].guid
        /\ msg.arg = Suite[test].arg /\ msg.source = APP_ID
    BY <1>1, AppRequest
  <1>3. /\ Suite[test].needs # {"notification"}
        /\ Suite[test].guid = IF test = 16 THEN TestGuid ELSE Tpm2Guid
    <2>1. test = 16 \/ test = 17 \/ test = 18
      OBVIOUS
    <2> QED
      BY <2>1, SuiteServices
  <1>4. ResponseFid = "RESP2" /\ ResponseArgs = [ZeroArgs EXCEPT ![0] = Scalar(first)]
    BY <1>2, <1>3, RequestAssumption DEF ResponseArgs, ResponseFid
  <1> HIDE DEF first
  <1>5. /\ ResponseArgs = [a \in Args |-> ResponseArgs[a]]
        /\ ResponseArgs[0][0] = first
    <2>1. ResponseArgs = [a \in Args |-> IF a = 0 THEN Scalar(first) ELSE ZeroReg]
      BY <1>4 DEF ZeroArgs
    <2>2. 0 \in Args
      BY DEF Args
    <2>3. ResponseArgs[0] = Scalar(first)
      BY <2>1, <2>2
    <2>4. Scalar(first)[0] = first
      BY DEF Scalar
    <2>5. ResponseArgs = [a \in Args |-> ResponseArgs[a]]
      BY <2>1
    <2> QED
      BY <2>3, <2>4, <2>5
  <1>6. IsMessage(sent) /\ sent.fid \notin RequestsV1 \cup ResponsesV1
    BY <1>4, <1>5 DEF IsMessage, IsGuid, DirectMsg, ZeroGuid, RequestsV1, ResponsesV1
  <1>7. FfaUnpackDirectMessage(FfaPackDirectMessage(sent), NoMessage) = sent
    BY <1>6, MessageRoundTrip
  <1>8. sent.arg = ResponseArgs
    BY DEF DirectMsg
  <1>9. Status' = FfaUnpackDirectMessage(answer', NoMessage).arg[0][0]
    <2>1. test' = test
      BY DEF app
    <2> QED
      BY <1>3, <2>1 DEF Status, StatusOf
  <1> QED
    BY <1>1, <1>5, <1>7, <1>8, <1>9 DEF first

\* Only the handler sets the flag (ApIrqInterruptHandler).
LEMMA FiredByHandler ==
  ASSUME [AppNext]_appVars, ~ApIrqInterruptHandler
  PROVE  mIsInterruptFired' => mIsInterruptFired
  <1>1. CASE UNCHANGED app
    BY <1>1 DEF app
  <1>2. CASE SendRequest
    BY <1>2, Zenon DEF SendRequest
  <1>3. CASE AppStep /\ ~SendRequest
    BY <1>3 DEF AppStep, Skip, FfaMiscVerifyVersion, FfaMiscGetPartitionInfoRegs,
                FfaMiscGetPartitionInfo, FfaMiscSetupNotifications,
                FfaMiscRegisterNotifications, ReceiveResponse, StallEnds,
                FfaMiscTestFfaNsResInfoGet
  <1> QED
    BY <1>1, <1>2, <1>3, AppUntouched

\* The interrupt is pending only for the bit that is bound, and the handler that runs then
\* has fetched it.
LEMMA SignalSoundStep ==
  ASSUME Base, TypeOK', SignalSound, [AppNext]_appVars
  PROVE  SignalSound'
  <1>0. pending \in Bitmaps
    BY DEF Base, AppInv, BitmapsOK
  <1>1. CASE DispatchEvent
    <2>1. UNCHANGED <<mIsInterruptFired, handler>>
      BY <1>1, EventLeavesApp DEF app
    <2>2. mIsInterruptFired' => Noticed'
      BY <2>1, SignalledStays DEF SignalSound
    <2>3. bound' = bound /\ (UNCHANGED <<pending, sri>> \/ BIND_BIT \in pending')
      <3>1. bound \subseteq {BIND_BIT}
        BY DEF SignalSound
      <3> QED
        BY <1>1, <3>1, EventRaisesBound DEF notifications
    <2> QED
      BY <2>2, <2>3 DEF SignalSound
  <1>2. CASE ApIrqInterruptHandler
    <2>1. sri /\ handler /\ sri' = FALSE /\ handler' = handler
      BY <1>2 DEF ApIrqInterruptHandler
    <2>2. BIND_BIT \in pending
      BY <2>1 DEF SignalSound
    <2>3. bound' = bound /\ ("get" \in faults' \/ BIND_BIT \in fetched')
      BY <1>0, <1>2, <2>2, HandlerEffect
    <2> QED
      BY <2>1, <2>3 DEF SignalSound, Noticed
  <1>3. CASE FfaMiscSetupNotifications
    <2>1. Whole(LowHalf({BIND_BIT}), HighHalf({BIND_BIT})) \subseteq {BIND_BIT}
      BY DEF Whole, LowHalf, HighHalf
    <2>2. bound' \subseteq {BIND_BIT} /\ UNCHANGED <<pending, sri>>
      BY <1>3, <2>1, SetupEffect DEF SignalSound
    <2>3. UNCHANGED mIsInterruptFired
      BY <1>3 DEF FfaMiscSetupNotifications
    <2> QED
      BY <2>2, <2>3, SignalledStays DEF SignalSound
  <1>4. CASE ~DispatchEvent /\ ~ApIrqInterruptHandler /\ ~FfaMiscSetupNotifications
    <2>1. UNCHANGED <<bound, pending, sri>>
      BY <1>4, BitsUntouched
    <2>2. mIsInterruptFired' => Noticed'
      BY <1>4, FiredByHandler, SignalledStays DEF SignalSound
    <2> QED
      BY <2>1, <2>2 DEF SignalSound
  <1> QED
    BY <1>1, <1>2, <1>3, <1>4

\* An event is accepted when the test service is called, and stays so until the response
\* is received.
LEMMA EventAcceptedBefore ==
  ASSUME Base, Origin, [AppNext]_appVars, EventAccepted'
  PROVE  EventAccepted \/ (client = "app" /\ DispatchStep /\ UNCHANGED app)
  <1>1. CASE LoopOutside /\ UNCHANGED app
    <2>0. client = "app" /\ test = EventTest /\ UNCHANGED <<reply, client, test>>
      BY <1>1 DEF EventAccepted, LoopOutside, SpInterrupt, FfaReturnFromInterrupt,
                  FfaWaitNoMessage, FfaMessageWait, FfaMessageSendDirectResp, service, spmc, app
    <2>1. CASE FfaMessageSendDirectResp
      <3>1. spPc = "serving" /\ spPc' = "waiting" /\ answer = NoFrame
        BY <2>1 DEF FfaMessageSendDirectResp, Base, MsgInv, AtWork
      <3>2. Status' = 0
        <4>1. Suite[16].expect = 0
          BY SuiteServices
        <4>2. Status' = Suite[16].expect
          BY <2>0, <3>1 DEF EventAccepted, EventTest
        <4> QED
          BY <4>1, <4>2
      <3>3. StatusCode(reply) = 0
        BY <1>1, <2>0, <2>1, <3>2, ServiceStatus DEF EventTest
      <3>4. reply \in Statuses
        <4>1. msg = request /\ msg.fid = "REQ2" /\ msg.guid = Suite[test].guid
          BY <2>0, <3>1, AppRequest
        <4>2. msg.guid = TestGuid /\ ~Busy
          BY <2>0, <2>1, <4>1, SuiteServices DEF EventTest, FfaMessageSendDirectResp
        <4> QED
          BY <3>1, <4>1, <4>2 DEF Origin, ReplyGiven
      <3>5. reply = "SUCCESS"
        BY <3>3, <3>4 DEF StatusCode, Statuses
      <3> QED
        BY <2>0, <3>1, <3>5 DEF EventAccepted
    <2>2. CASE ~FfaMessageSendDirectResp
      <3>1. spPc' # "serving" /\ UNCHANGED answer
        BY <1>1, <2>2 DEF LoopOutside, SpInterrupt, FfaReturnFromInterrupt, FfaWaitNoMessage,
                          FfaMessageWait, spmc
      <3>2. UNCHANGED Status
        BY <2>0, <3>1 DEF Status, StatusOf
      <3> QED
        BY <2>0, <3>1, <3>2 DEF EventAccepted
    <2> QED
      BY <2>1, <2>2
  <1>2. CASE DispatchStep /\ UNCHANGED app
    <2>1. client = "app"
      BY <1>2 DEF EventAccepted, DispatchStep, DispatchNotification, DispatchEvent,
                  DispatchTestInvalid, DispatchOther, Dispatched, spmc, app
    <2> QED
      BY <1>2, <2>1
  <1>3. CASE Serve /\ UNCHANGED app
    <2>1. Busy /\ client = "app" /\ test = EventTest
      BY <1>3, LoopKeepsRequest DEF EventAccepted, Serve, spmc, app, Base, IInv
    <2> QED
      BY <2>1, AppCall DEF EventTest
  <1>4. CASE (OtherSends \/ OtherReceives) /\ UNCHANGED app
    <2>1. UNCHANGED <<reply, spPc, test, answer, client>>
      BY <1>4, OtherSendsEffect DEF OtherReceives, PeerReceive, LegacyReceive, Close, service, app,
                                    EventAccepted
    <2>2. UNCHANGED Status
      BY <2>1 DEF Status, StatusOf
    <2> QED
      BY <2>1, <2>2 DEF EventAccepted
  <1>5. CASE LocalStep
    BY <1>5, LocalEffect DEF Origin, AppOpen, EventAccepted
  <1>6. CASE SendRequest
    <2>1. appPc = "run" /\ client # "app" /\ UNCHANGED spPc
      BY <1>6 DEF SendRequest, Origin, AppOpen
    <2>2. client = "none" /\ UNCHANGED answer
      BY <1>6, <2>1 DEF SendRequest, Open, spmc, EventAccepted
    <2>3. answer = NoFrame /\ spPc # "serving"
      BY <2>2 DEF Base, MsgInv, AtWork, AnswerFitsRequest
    <2> QED
      BY <2>1, <2>2, <2>3 DEF EventAccepted
  <1>7. CASE ReceiveResponse
    BY <1>7 DEF ReceiveResponse, Close, EventAccepted
  <1>8. CASE \/ (PeerInterrupt \/ PeerInterruptDone) /\ UNCHANGED app
             \/ ApIrqInterruptHandler \/ UNCHANGED appVars
    <2>1. UNCHANGED <<reply, client, answer, test, spPc>>
      BY <1>8 DEF PeerInterrupt, PeerInterruptDone, ApIrqInterruptHandler, appVars, ffaVars,
                  service, spmc, app
    <2>2. UNCHANGED Status
      BY <2>1 DEF Status, StatusOf
    <2> QED
      BY <2>1, <2>2 DEF EventAccepted
  <1> QED
    BY <1>1, <1>2, <1>3, <1>4, <1>5, <1>6, <1>7, <1>8, StepKinds

\* An event that is accepted is signalled.
LEMMA EventAcceptedStep ==
  ASSUME Base, Origin, TypeOK', SignalSound, EventAccepted => Signalled, [AppNext]_appVars,
         EventAccepted'
  PROVE  Signalled'
  <1>1. CASE EventAccepted
    BY <1>1, SignalledStays
  <1>2. CASE DispatchStep /\ UNCHANGED app
    <2>0. /\ spPc = "dispatch" /\ client = "app" /\ test = EventTest
          /\ UNCHANGED <<msg, client, request, answer, test>>
      BY <1>2 DEF EventAccepted, DispatchStep, DispatchNotification, DispatchEvent,
                  DispatchTestInvalid, DispatchOther, Dispatched, spmc, app
    <2>1. answer' = NoFrame /\ reply' = "SUCCESS"
      BY <2>0 DEF EventAccepted, Base, MsgInv, AtWork
    <2>2. msg = request /\ msg.fid = "REQ2" /\ msg.guid = TestGuid
          /\ msg.arg[0][0] = TEST_OPCODE_TEST_NOTIFICATION
      BY <2>0, AppRequest, SuiteServices DEF EventTest
    <2>3. DispatchEvent
      BY <1>2, <2>0, <2>2, RequestAssumption
         DEF DispatchStep, DispatchNotification, DispatchTestInvalid, DispatchOther, Dispatched
    <2> QED
      BY <2>1, <2>3, EventRaisesBound DEF SignalSound, Signalled
  <1> QED
    BY <1>1, <1>2, EventAcceptedBefore

\* The event's case passes, or is about to, only when its bit was raised and noticed.
LEMMA EventSoundStep ==
  ASSUME Base, Origin, Stage, TypeOK', SignalSound, EventSound, [AppNext]_appVars
  PROVE  EventSound'
  <1>1. EventAccepted' => Signalled'
    BY EventAcceptedStep DEF EventSound
  <1>2. (Signalled => Signalled') /\ (Noticed => Noticed')
    BY SignalledStays
  <1>3. DOMAIN result = 1 .. 19
    BY SuiteNumbers DEF Base, AppInv, SuiteOK
  <1>4. CASE UNCHANGED <<result, appPc>>
    BY <1>1, <1>2, <1>4 DEF EventSound
  <1>5. ASSUME NEW v, Verdict(v), test \in Tests,
               test = EventTest /\ v = "passed" => Signalled /\ Noticed
        PROVE  EventSound'
    <2>1. appPc' # "stall"
      BY <1>5 DEF Verdict
    <2>2. result'[EventTest] = IF test = EventTest THEN v ELSE result[EventTest]
      BY <1>3, <1>5 DEF Verdict, EventTest
    <2> QED
      BY <1>1, <1>2, <1>5, <2>1, <2>2 DEF EventSound
  <1>6. CASE LocalStep
    <2>1. CASE Skip
      <3>1. Verdict("skipped") /\ test \in Tests
        BY <2>1 DEF Skip
      <3> QED
        BY <1>5, <3>1
    <2>2. CASE StallEnds
      <3>1. PICK v : Verdict(v) /\ (v = "passed" => mIsInterruptFired) /\ appPc = "stall"
        BY <2>2 DEF StallEnds, Passed
      <3> QED
        BY <1>5, <1>6, <3>1, LocalPlace DEF EventSound, SignalSound
    <2>3. CASE ~Skip /\ ~StallEnds
      <3>1. PICK v : Verdict(v)
        BY <1>6, LocalEffect
      <3>2. test \in Tests /\ test # EventTest
        BY <1>6, <2>3, LocalPlace DEF EventTest
      <3> QED
        BY <1>5, <3>1, <3>2
    <2> QED
      BY <2>1, <2>2, <2>3
  <1>7. CASE SendRequest
    <2>1. CASE Verdict("failed") /\ test \in Tests
      BY <1>5, <2>1
    <2>2. CASE appPc' = "sent" /\ UNCHANGED result
      BY <1>1, <1>2, <2>2 DEF EventSound
    <2> QED
      BY <1>7, <2>1, <2>2 DEF SendRequest
  <1>8. CASE ReceiveResponse
    <2>0. client = "app" /\ answer # NoFrame /\ test \in Tests
      BY <1>8 DEF ReceiveResponse, Close, Base, AppInv, SuiteOK
    <2>1. CASE /\ Suite[test].name = "Event" /\ Status = Suite[test].expect
               /\ UNCHANGED <<test, result>>
      <3>1. test = EventTest
        BY <2>0, <2>1, SuiteNumbers
      <3>2. EventAccepted
        BY <2>0, <2>1, <3>1 DEF EventAccepted
      <3> QED
        BY <1>2, <2>1, <3>2 DEF EventSound
    <2>2. CASE /\ ~(Suite[test].name = "Event" /\ Status = Suite[test].expect)
               /\ Passed(Status = Suite[test].expect)
      <3>1. PICK v : Verdict(v) /\ (v = "passed" => Status = Suite[test].expect)
        BY <2>2 DEF Passed
      <3>2. test = EventTest => v # "passed"
        BY <2>0, <2>2, <3>1, SuiteNumbers DEF EventTest
      <3> QED
        BY <1>5, <2>0, <3>1, <3>2
    <2> QED
      BY <1>8, <2>1, <2>2 DEF ReceiveResponse, Status
  <1>9. CASE UNCHANGED app \/ ApIrqInterruptHandler \/ UNCHANGED appVars
    BY <1>4, <1>9 DEF app, ApIrqInterruptHandler, appVars
  <1> QED
    BY <1>6, <1>7, <1>8, <1>9, StepKinds

\* What holds at any time of the suite.
Sound == Base /\ Origin /\ Stage /\ TableSound /\ SignalSound /\ EventSound

\* Sound holds throughout.
LEMMA SoundInvariance == AppSpec => []Sound
  <1>1. AppInit => SignalSound /\ EventSound
    <2> SUFFICES ASSUME AppInit PROVE SignalSound /\ EventSound
      OBVIOUS
    <2>1. SignalSound /\ client # "app" /\ appPc # "stall"
      BY DEF AppInit, FfaInit, SignalSound
    <2>2. result[EventTest] # "passed"
      BY SuiteNumbers DEF AppInit, EventTest
    <2> QED
      BY <2>1, <2>2 DEF EventSound, EventAccepted
  <1>2. Base /\ Base' /\ Origin /\ Stage /\ SignalSound /\ EventSound /\ [AppNext]_appVars
          => SignalSound' /\ EventSound'
    <2>1. Base' => TypeOK'
      BY DEF Base, IInv
    <2> QED
      BY <2>1, SignalSoundStep, EventSoundStep
  <1> QED
    BY <1>1, <1>2, TableSoundInvariance, PTL DEF AppSpec, Sound

\* The first byte of a suite UUID.
LEMMA SuiteUuidByte ==
  ASSUME NEW hi
  PROVE  SuiteUuid(hi)[0] = hi
  <1>1. 0 \in 0 .. (2 * WORD_BYTES - 1) /\ 0 < WORD_BYTES
        /\ WORD_BYTES - 1 - 0 \in 0 .. (WORD_BYTES - 1)
    BY ByteAssumption
  <1> QED
    BY <1>1 DEF SuiteUuid, NotificationServiceExtractUuid, WordOf

\* The rows after the last case, by UUID.
LEMMA RegisteredAtEnd ==
  ASSUME Base, TableAfter(19)
  PROVE  Registered = {<<BATTERY_HI, c, c>> : c \in 0 .. 4}
                        \cup {<<THERMAL_HI, 0, 5>>, <<THERMAL_HI, 2, 7>>}
  <1>1. PICK s \in Slots, t \in Slots : Placed(19, s, t) /\ Rows = Expected(19, s, t)
    BY DEF TableAfter
  <1>2. At(s, BATTERY_HI) /\ At(t, THERMAL_HI)
    BY <1>1 DEF Placed, NormalTest, SecondaryTest
  <1>3. ServiceUuid[s][0] = BATTERY_HI /\ ServiceUuid[t][0] = THERMAL_HI
    <2>1. 0 \in 0 .. (WORD_BYTES - 1)
      BY ByteAssumption
    <2> QED
      BY <1>2, <2>1, SuiteUuidByte DEF At, SameUuid
  <1> DEFINE Known(r) == <<ServiceUuid[r[1]][0], r[2], r[3]>>
  <1>4. Rows = {<<s, c, c>> : c \in 0 .. 4} \cup {<<t, c, c + 5>> : c \in {0, 2}}
    BY <1>1 DEF Expected, BatteryCookies, ThermalCookies, NormalTest, SecondaryTest,
                UnregisterTest
  <1>5. Registered = {Known(r) : r \in Rows}
    <2>1. \A e \in Mine : Known(Row(e)) = <<ServiceUuid[e[1]][0], Info(e).cookie, Info(e).id>>
      BY DEF Row
    <2> HIDE DEF Known
    <2> QED
      BY <2>1 DEF Registered, Rows
  <1>6. \A c \in 0 .. 4 : Known(<<s, c, c>>) = <<BATTERY_HI, c, c>>
    BY <1>3
  <1>7. /\ Known(<<t, 0, 0 + 5>>) = <<THERMAL_HI, 0, 5>>
        /\ Known(<<t, 2, 2 + 5>>) = <<THERMAL_HI, 2, 7>>
    BY <1>3
  <1> HIDE DEF Known
  <1>8. Rows = {<<s, c, c>> : c \in 0 .. 4} \cup {<<t, 0, 0 + 5>>, <<t, 2, 2 + 5>>}
    BY <1>4
  <1>9. {Known(r) : r \in Rows} = {Known(<<s, c, c>>) : c \in 0 .. 4}
          \cup {Known(<<t, 0, 0 + 5>>), Known(<<t, 2, 2 + 5>>)}
    BY <1>8
  <1> QED
    BY <1>5, <1>6, <1>7, <1>9

\* A suite that passed has seen the whole path work, for every set of peer requests, table
\* sizes and systems, whichever calls failed on the way: no dropped status and no other
\* client makes it pass without the mappings stored and the event delivered.
THEOREM PassMeansSound == AppSpec => []AllPassedSound
  <1>1. ASSUME Sound, AllPassed
        PROVE  /\ Registered = {<<BATTERY_HI, c, c>> : c \in 0 .. 4}
                                 \cup {<<THERMAL_HI, 0, 5>>, <<THERMAL_HI, 2, 7>>}
               /\ Signalled /\ Noticed
    <2>1. test = 20 /\ client # "app"
      BY <1>1, SuiteNumbers DEF Sound, AllPassed, Stage, Origin, AppOpen
    <2>2. SoFar /\ result[EventTest] = "passed"
      BY <1>1, <2>1, SuiteNumbers DEF SoFar, AllPassed, EventTest
    <2>3. TableAfter(19)
      <3>1. TableAfter(test - 1)
        BY <1>1, <2>1, <2>2 DEF Sound, TableSound
      <3>2. test - 1 = 19
        BY <2>1
      <3> QED
        BY <3>1, <3>2
    <2> QED
      BY <1>1, <2>2, <2>3, RegisteredAtEnd DEF Sound, EventSound
  <1>2. Sound => AllPassedSound
    BY <1>1 DEF AllPassedSound, Signalled, Noticed
  <1> QED
    BY <1>2, SoundInvariance, PTL

-----------------------------------------------------------------------------
(***************************************************************************)
(* A run in which no call fails.                                           *)
(***************************************************************************)

\* The mappings of the first two requests, in numbers.
LEMMA MapNumbers ==
  /\ Len(NormalMaps) = 5 /\ Len(SecondaryMaps) = 3
  /\ \A k \in 1 .. 5 : NormalMaps[k][1] = k - 1 /\ NormalMaps[k][2] = k - 1
  /\ \A k \in 1 .. 3 : SecondaryMaps[k][1] = k - 1 /\ SecondaryMaps[k][2] = k + 4
  <1>1. /\ Len(NormalMaps) = 5
        /\ NormalMaps[1] = <<0, 0>> /\ NormalMaps[2] = <<1, 1>> /\ NormalMaps[3] = <<2, 2>>
        /\ NormalMaps[4] = <<3, 3>> /\ NormalMaps[5] = <<4, 4>>
    BY DEF NormalMaps, Map
  <1>2. /\ Len(SecondaryMaps) = 3
        /\ SecondaryMaps[1] = <<0, 5>> /\ SecondaryMaps[2] = <<1, 6>> /\ SecondaryMaps[3] = <<2, 7>>
    BY DEF SecondaryMaps, Map
  <1>3. \A k \in 1 .. 5 : k = 1 \/ k = 2 \/ k = 3 \/ k = 4 \/ k = 5
    OBVIOUS
  <1>4. \A k \in 1 .. 3 : k = 1 \/ k = 2 \/ k = 3
    OBVIOUS
  <1>5. \A k \in 1 .. 5 : NormalMaps[k][1] = k - 1 /\ NormalMaps[k][2] = k - 1
    BY <1>1, <1>3
  <1>6. \A k \in 1 .. 3 : SecondaryMaps[k][1] = k - 1 /\ SecondaryMaps[k][2] = k + 4
    BY <1>2, <1>4
  <1> QED
    BY <1>1, <1>2, <1>5, <1>6

\* A request for one mapping that is in progress.
LEMMA SingleWork ==
  ASSUME NEW op, NEW hi, NEW cookie, NEW id, Handling(op, UUID_LO, hi, 1, <<Map(cookie, id)>>)
  PROVE  /\ Len(call.maps) = 1 /\ call.uuid = SuiteUuid(hi)
         /\ call.op = IF op = REGISTER THEN "REGISTER" ELSE "UNREGISTER"
         /\ call.maps[1].cookie = cookie /\ call.maps[1].id = id
  <1>1. /\ Len(<<Map(cookie, id)>>) = 1
        /\ <<Map(cookie, id)>>[1][1] = cookie /\ <<Map(cookie, id)>>[1][2] = id
    BY DEF Map
  <1>2. \A k \in 1 .. 1 : call.maps[k].cookie = <<Map(cookie, id)>>[k][1]
                          /\ call.maps[k].id = <<Map(cookie, id)>>[k][2]
    BY <1>1 DEF Handling
  <1>3. call.maps[1].cookie = cookie /\ call.maps[1].id = id
    BY <1>1, <1>2
  <1> QED
    BY <1>3 DEF Handling, SuiteUuid

\* What the application's request in progress is about.
LEMMA AppWork ==
  ASSUME Base, Origin, Busy, client = "app"
  PROVE  /\ test \in {6, 7, 8, 9, 12, 13, 14}
         /\ call.op = IF test < 12 THEN "REGISTER" ELSE "UNREGISTER"
         /\ call.uuid = IF test = 6 THEN SuiteUuid(BATTERY_HI) ELSE SuiteUuid(THERMAL_HI)
         /\ Len(call.maps) = IF test = 6 THEN 5 ELSE IF test = 7 THEN 3 ELSE 1
         /\ test = 6 =>
              \A k \in 1 .. 5 : call.maps[k].cookie = k - 1 /\ call.maps[k].id = k - 1
         /\ test = 7 =>
              \A k \in 1 .. 3 : call.maps[k].cookie = k - 1 /\ call.maps[k].id = k + 4
         /\ test = 8 => call.maps[1].cookie = 2
         /\ test = 9 => call.maps[1].id = 7
         /\ test \in {12, 13} => call.maps[1].cookie = 1 /\ call.maps[1].id = 6
         /\ test = 14 => call.maps[1].cookie = 0 /\ call.maps[1].id = 0
  <1>0. test \in 6 .. 15 /\ REGISTER # UNREGISTER
    BY AppCall DEF REGISTER, UNREGISTER
  <1>1. ~ValidCount(0) /\ ~ValidCount(8)
    BY WidthAssumption, SizeAssumption DEF ValidCount, MAPPING_MIN
  <1>2. test \notin {10, 11, 15}
    <2>1. ASSUME NEW op \in {REGISTER, UNREGISTER}, NEW lo, NEW hi, NEW count \in {0, 8},
                 Asks(Suite[test], op, lo, hi, count, << >>)
          PROVE  FALSE
      <3>1. Handling(op, lo, hi, count, << >>)
        BY <2>1, AppCallAsks
      <3> QED
        BY <1>1, <3>1 DEF Handling
    <2> QED
      BY <2>1, SuiteAsks
  <1>3. CASE test = 6
    <2>a. Asks(Suite[test], REGISTER, UUID_LO, BATTERY_HI, 5, NormalMaps)
      BY <1>3, SuiteAsks
    <2>1. Handling(REGISTER, UUID_LO, BATTERY_HI, 5, NormalMaps)
      BY <2>a, AppCallAsks
    <2>2. \A k \in 1 .. 5 : call.maps[k].cookie = k - 1 /\ call.maps[k].id = k - 1
      BY <2>1, MapNumbers DEF Handling
    <2> QED
      BY <1>3, <2>1, <2>2 DEF Handling, SuiteUuid
  <1>4. CASE test = 7
    <2>a. Asks(Suite[test], REGISTER, UUID_LO, THERMAL_HI, 3, SecondaryMaps)
      BY <1>4, SuiteAsks
    <2>1. Handling(REGISTER, UUID_LO, THERMAL_HI, 3, SecondaryMaps)
      BY <2>a, AppCallAsks
    <2>2. \A k \in 1 .. 3 : call.maps[k].cookie = k - 1 /\ call.maps[k].id = k + 4
      BY <2>1, MapNumbers DEF Handling
    <2> QED
      BY <1>4, <2>1, <2>2 DEF Handling, SuiteUuid
  <1>5. CASE test = 8
    <2>a. Asks(Suite[test], REGISTER, UUID_LO, THERMAL_HI, 1, <<Map(2, 8)>>)
      BY <1>5, SuiteAsks
    <2>1. Handling(REGISTER, UUID_LO, THERMAL_HI, 1, <<Map(2, 8)>>)
      BY <2>a, AppCallAsks
    <2> QED
      BY <1>5, <2>1, SingleWork
  <1>6. CASE test = 9
    <2>a. Asks(Suite[test], REGISTER, UUID_LO, THERMAL_HI, 1, <<Map(3, 7)>>)
      BY <1>6, SuiteAsks
    <2>1. Handling(REGISTER, UUID_LO, THERMAL_HI, 1, <<Map(3, 7)>>)
      BY <2>a, AppCallAsks
    <2> QED
      BY <1>6, <2>1, SingleWork
  <1>7. CASE test = 12 \/ test = 13
    <2>a. Asks(Suite[test], UNREGISTER, UUID_LO, THERMAL_HI, 1, <<Map(1, 6)>>)
      BY <1>7, SuiteAsks
    <2>1. Handling(UNREGISTER, UUID_LO, THERMAL_HI, 1, <<Map(1, 6)>>)
      BY <2>a, AppCallAsks
    <2>2. call.op = "UNREGISTER"
      BY <1>0, <2>1 DEF Handling
    <2>3. /\ Len(call.maps) = 1 /\ call.uuid = SuiteUuid(THERMAL_HI)
          /\ call.maps[1].cookie = 1 /\ call.maps[1].id = 6
      BY <2>1, SingleWork
    <2> QED
      BY <1>7, <2>2, <2>3
  <1>8. CASE test = 14
    <2>a. Asks(Suite[test], UNREGISTER, UUID_LO, THERMAL_HI, 1, <<Map(0, 0)>>)
      BY <1>8, SuiteAsks
    <2>1. Handling(UNREGISTER, UUID_LO, THERMAL_HI, 1, <<Map(0, 0)>>)
      BY <2>a, AppCallAsks
    <2>2. call.op = "UNREGISTER"
      BY <1>0, <2>1 DEF Handling
    <2> QED
      BY <1>8, <2>1, <2>2, SingleWork
  <1> QED
    BY <1>0, <1>2, <1>3, <1>4, <1>5, <1>6, <1>7, <1>8

\* A mapping that is out of the suite's way.
Clear(m) ==
  m.cookie \notin 0 .. 4 /\ \A id \in 0 .. 7 : IdBits(m.id) \cap IdBits(id) = {}

\* A peer's registration that is in progress is out of the suite's way.
LEMMA OtherCallClear ==
  ASSUME PeersKeepClear, Base, Origin, Busy, client # "app", call.op = "REGISTER"
  PROVE  /\ \E hi \in {BATTERY_HI, THERMAL_HI} : SameUuid(call.uuid, SuiteUuid(hi))
         /\ \A k \in 1 .. Len(call.maps) : Clear(call.maps[k])
  <1>1. /\ spPc = "serving" /\ msg.fid = "REQ2" /\ msg.guid = NotificationGuid
        /\ call.op = (IF msg.arg[5][0] % 4 = REGISTER THEN "REGISTER" ELSE "UNREGISTER")
        /\ call.uuid = NotificationServiceExtractUuid(msg.arg[3], msg.arg[4])
        /\ ValidCount(msg.arg[6][0] % 256) /\ call.maps = MappingsSent(msg.arg[6][0])
    BY DEF Origin, CallIsRequest
  <1>2. client # "none" /\ (request.fid = "REQ2" => msg = request)
        /\ (request.fid # "REQ2" => msg.fid = request.fid)
    BY <1>1 DEF Base, MsgInv, AtWork, RequestIntact
  <1>3. client \in {"peer", "legacy"}
    BY <1>2 DEF Base, AppInv, CountersOK
  <1>4. client = "peer"
    BY <1>1, <1>2, <1>3 DEF Origin, LegacyOpen, RequestsV1
  <1>5. PICK r \in PeerRequests : request = DirectMsg("REQ2", PEER_ID, SP_ID, r[1], r[2])
    BY <1>4 DEF Origin, PeerOpen
  <1>6. msg.guid = r[1] /\ msg.arg = r[2]
    BY <1>1, <1>2, <1>5 DEF DirectMsg
  <1>7. msg.arg[5][0] % 4 = REGISTER
    BY <1>1
  <1> DEFINE count == msg.arg[6][0] % 256
  <1>8. /\ \E hi \in {BATTERY_HI, THERMAL_HI} : SameUuid(call.uuid, SuiteUuid(hi))
        /\ \A k \in 1 .. count : Clear(MappingOf(msg.arg[6 + k]))
    <2>1. KeepsClear(msg.guid, msg.arg)
      BY <1>6 DEF PeersKeepClear
    <2> QED
      BY <1>1, <1>7, <2>1 DEF KeepsClear, Clear
  <1>9. count \in Nat /\ call.maps = [k \in 1 .. count |-> MappingOf(msg.arg[6 + k])]
    BY <1>1, SizeAssumption DEF MappingsSent, ValidCount, MAPPING_MIN
  <1> HIDE DEF count
  <1>10. Len(call.maps) = count
    BY <1>9
  <1> QED
    BY <1>8, <1>9, <1>10

\* Only the handling of a request changes the tables.
LEMMA TablesOutside ==
  ASSUME [AppNext]_appVars, ~Serve
  PROVE  UNCHANGED tables
  <1>1. CASE LoopOutside
    BY <1>1, SMTT(30) DEF LoopOutside, SpInterrupt, FfaReturnFromInterrupt, FfaWaitNoMessage,
                FfaMessageWait, FfaMessageSendDirectResp, service
  <1>2. CASE DispatchStep
    BY <1>2 DEF DispatchStep, DispatchNotification, DispatchEvent, DispatchTestInvalid,
                DispatchOther, NotificationServiceHandle, TestNotificationHandler,
                TestServiceInvalid, service
  <1>3. CASE OtherSends \/ LocalStep
    BY <1>3, OtherSendsEffect, LocalEffect DEF service
  <1>4. CASE OtherReceives \/ PeerInterrupt \/ PeerInterruptDone \/ SendRequest
             \/ ReceiveResponse \/ ApIrqInterruptHandler \/ UNCHANGED appVars
    BY <1>4 DEF OtherReceives, PeerReceive, LegacyReceive, PeerInterrupt, PeerInterruptDone,
                SendRequest, ReceiveResponse, ApIrqInterruptHandler, appVars, ffaVars, service
  <1> QED
    BY <1>1, <1>2, <1>3, <1>4, StepKinds

\* What others registered stays out of the suite's way.
LEMMA HarmlessStep ==
  ASSUME PeersKeepClear, Base, Origin, Harmless, [AppNext]_appVars
  PROVE  Harmless'
  <1>0. TypeOK
    BY DEF Base, IInv
  <1>1. CASE UNCHANGED ServiceInfo
    BY <1>1 DEF Harmless, Used, Info
  <1>2. CASE Serve
    <2>1. CASE RegisterMapping
      <3>1. PICK x \in Slots \X Indices :
              /\ Used' = Used \cup {x}
              /\ x \notin Used
              /\ \A e \in Slots \X Indices : e # x => Info(e)' = Info(e)
              /\ Info(x)' = NewInfo
        BY <1>0, <2>1, UsedAfterRegister
      <3>2. InLoop /\ Busy /\ call.op = "REGISTER" /\ call.index \in 1 .. Len(call.maps)
        <4>1. InLoop /\ Busy /\ call.op = "REGISTER" /\ call.index <= Len(call.maps)
          BY <2>1 DEF RegisterMapping, InLoop
        <4>2. call.index \in 1 .. (MAPPING_MAX + 1) /\ Len(call.maps) \in Nat
          BY <1>0 DEF TypeOK
        <4> QED
          BY <4>1, <4>2, SizeAssumption
      <3>3. call.source # APP_ID => Clear(Mapping)
        BY <3>2, AppCall, OtherCallClear DEF Mapping
      <3>4. /\ NewInfo.source = call.source /\ NewInfo.cookie = Mapping.cookie
            /\ NewInfo.id = Mapping.id
        BY DEF NewInfo
      <3>5. \A e \in Used : e # x /\ e \in Slots \X Indices
        BY <3>1 DEF Used
      <3>6. ASSUME NEW e \in Used', Info(e)'.source # APP_ID
            PROVE  Clear(Info(e)')
        <4>1. CASE e = x
          BY <3>1, <3>3, <3>4, <3>6, <4>1 DEF Clear
        <4>2. CASE e # x
          <5>1. e \in Used /\ Info(e)' = Info(e)
            BY <3>1, <3>5, <3>6, <4>2
          <5> QED
            BY <3>6, <5>1 DEF Harmless, Clear
        <4> QED
          BY <4>1, <4>2
      <3> QED
        BY <3>6 DEF Harmless, Clear
    <2>2. CASE UnregisterMapping
      <3>1. PICK x \in Slots \X Indices :
              /\ Used' = Used \ {x}
              /\ \A e \in Slots \X Indices : e # x => Info(e)' = Info(e)
        BY <1>0, <2>2, UsedAfterUnregister
      <3>2. \A e \in Used' : e \in Used /\ Info(e)' = Info(e)
        BY <3>1 DEF Used
      <3> QED
        BY <3>2 DEF Harmless
    <2>3. CASE RefuseMapping \/ UpdateDone
      BY <1>1, <2>3 DEF RefuseMapping, UpdateDone, tables
    <2> QED
      BY <1>2, <2>1, <2>2, <2>3 DEF Serve, LoopStep
  <1> QED
    BY <1>1, <1>2, TablesOutside DEF tables

\* The services in use are the suite's two.
LEMMA SuiteSlotsStep ==
  ASSUME PeersKeepClear, Base, Origin, SuiteSlots, [AppNext]_appVars
  PROVE  SuiteSlots'
  <1>0. TypeOK
    BY DEF Base, IInv
  <1>1. CASE UNCHANGED <<InUse, ServiceUuid>>
    BY <1>1 DEF SuiteSlots, At
  <1>2. CASE Serve
    <2>1. CASE RegisterMapping
      BY <1>0, <1>1, <2>1, RegisterEffect, StoredEffect DEF RegisterMapping
    <2>2. CASE UnregisterMapping
      BY <1>0, <1>1, <2>2, UnregisterEffect, StoredEffect DEF UnregisterMapping
    <2>3. CASE RefuseMapping
      BY <1>1, <2>3 DEF RefuseMapping, tables
    <2>4. CASE UpdateDone /\ call.op = "REGISTER" /\ ~InUse[call.slot]
      <3>1. /\ ServiceUuid' = [ServiceUuid EXCEPT ![call.slot] = call.uuid]
            /\ InUse' = [InUse EXCEPT ![call.slot] = TRUE] /\ Busy
        BY <2>4 DEF UpdateDone
      <3>2. \E hi \in {BATTERY_HI, THERMAL_HI} : SameUuid(SuiteUuid(hi), call.uuid)
        <4>1. CASE client = "app"
          <5>1. PICK hi \in {BATTERY_HI, THERMAL_HI} : call.uuid = SuiteUuid(hi)
            BY <3>1, <4>1, AppWork
          <5> QED
            BY <5>1 DEF SameUuid
        <4>2. CASE client # "app"
          BY <2>4, <3>1, <4>2, OtherCallClear DEF SameUuid
        <4> QED
          BY <4>1, <4>2
      <3>3. ASSUME NEW u \in Slots, InUse'[u]
            PROVE  \E hi \in {BATTERY_HI, THERMAL_HI} :
                     InUse'[u] /\ SameUuid(SuiteUuid(hi), ServiceUuid'[u])
        <4>0. InUse \in [Slots -> BOOLEAN] /\ ServiceUuid \in [Slots -> Uuids]
          BY <1>0 DEF TypeOK
        <4>1. CASE u = call.slot
          BY <3>1, <3>2, <3>3, <4>0, <4>1
        <4>2. CASE u # call.slot
          <5>1. InUse[u] /\ ServiceUuid'[u] = ServiceUuid[u]
            BY <3>1, <3>3, <4>0, <4>2
          <5> QED
            BY <3>3, <5>1 DEF SuiteSlots, At
        <4> QED
          BY <4>1, <4>2
      <3> QED
        BY <3>3 DEF SuiteSlots, At
    <2>5. CASE UpdateDone /\ ~(call.op = "REGISTER" /\ ~InUse[call.slot])
      BY <1>1, <2>5 DEF UpdateDone
    <2> QED
      BY <1>2, <2>1, <2>2, <2>3, <2>4, <2>5 DEF Serve, LoopStep
  <1> QED
    BY <1>1, <1>2, TablesOutside DEF tables

\* The IDs of the suite have a bit each.
LEMMA SuiteIdBits ==
  ASSUME SuiteFits
  PROVE  /\ \A i, j \in 0 .. 7 : i # j => IdBits(i) \cap IdBits(j) = {}
         /\ \A i \in 0 .. 7 : IdBits(i) # {}
         /\ IdBits(2) = {2}
  <1>1. INT_BITS \in Nat /\ INT_BITS >= 8
    BY SizeAssumption DEF SuiteFits
  <1>2. \A i \in 0 .. 7 : i % INT_BITS = i
    BY <1>1
  <1>3. ASSUME NEW i \in 0 .. 7
        PROVE  IdBits(i) = IF i = INT_BITS - 1 THEN i .. (2 * INT_BITS - 1) ELSE {i}
    BY <1>2 DEF IdBits
  <1>4. ASSUME NEW i \in 0 .. 7, NEW j \in 0 .. 7, i < j
        PROVE  IdBits(i) \cap IdBits(j) = {}
    <2>1. IdBits(i) = {i}
      BY <1>1, <1>3, <1>4
    <2>2. i \notin IdBits(j)
      BY <1>1, <1>3, <1>4
    <2> QED
      BY <2>1, <2>2
  <1>5. ASSUME NEW i \in 0 .. 7, NEW j \in 0 .. 7, i # j
        PROVE  IdBits(i) \cap IdBits(j) = {}
    <2>1. i < j \/ j < i
      BY <1>5
    <2> QED
      BY <1>4, <2>1
  <1>6. ASSUME NEW i \in 0 .. 7
        PROVE  i \in IdBits(i)
    BY <1>1, <1>3
  <1>7. IdBits(2) = {2}
    BY <1>1, <1>3
  <1> QED
    BY <1>5, <1>6, <1>7

\* The rows are the application's mappings.
LEMMA RowsAreMine ==
  /\ \A e \in Used : Info(e).source = APP_ID => <<e[1], Info(e).cookie, Info(e).id>> \in Rows
  /\ \A r \in Rows : \E e \in Used :
       Info(e).source = APP_ID /\ e[1] = r[1] /\ Info(e).cookie = r[2] /\ Info(e).id = r[3]
BY DEF Rows, Row, Mine

\* A service of the suite answers to one of its two UUIDs.
LEMMA AtByte ==
  ASSUME NEW s, NEW hi, At(s, hi)
  PROVE  InUse[s] /\ ServiceUuid[s][0] = hi
  <1>1. 0 \in 0 .. (WORD_BYTES - 1)
    BY ByteAssumption
  <1> QED
    BY <1>1, SuiteUuidByte DEF At, SameUuid

\* A request in progress works on the service of its UUID, and on no other.
LEMMA WorkSlot ==
  ASSUME Base, Busy, NEW hi, call.uuid = SuiteUuid(hi), NEW t \in Slots
  PROVE  /\ At(t, hi) => call.slot = t
         /\ \A other : other # hi /\ At(t, other) => call.slot # t
  <1>0. call.slot \in Slots
    BY DEF Base, IInv, TypeOK
  <1>1. InUse[call.slot] => At(call.slot, hi)
    BY DEF Base, DoneSoFar, At
  <1>2. ASSUME At(t, hi)
        PROVE  call.slot = t
    <2>1. InUse[t] /\ SameUuid(call.uuid, ServiceUuid[t])
      BY <1>2 DEF At
    <2>2. InUse[call.slot]
      BY <2>1 DEF Base, IInv, RequestPlaced
    <2>3. SameUuid(ServiceUuid[t], ServiceUuid[call.slot])
      BY <1>1, <2>1, <2>2 DEF At, SameUuid
    <2> QED
      BY <1>0, <2>1, <2>2, <2>3 DEF Base, IInv, TableInv, LookupsUnambiguous
  <1>3. ASSUME NEW other, other # hi, At(t, other), call.slot = t
        PROVE  FALSE
    BY <1>1, <1>3, AtByte
  <1> QED
    BY <1>2, <1>3

\* A mapping is registered when no row has its cookie in the service, or its ID.
LEMMA RegisterAccepted ==
  ASSUME SuiteFits, IInv, Harmless, InLoop, Mapping.cookie \in 0 .. 4, Mapping.id \in 0 .. 7,
         \A r \in Rows : /\ r[3] \in 0 .. 7 /\ r[3] # Mapping.id
                         /\ r[1] = call.slot => r[2] # Mapping.cookie
  PROVE  RegisterStatus = "SUCCESS"
  <1>0. TypeOK /\ IdsExclusive /\ call.slot \in Slots
    BY DEF IInv, TableInv, TypeOK
  <1>1. ASSUME NEW j \in Indices, ServiceInfo[call.slot][j].inUse,
               ServiceInfo[call.slot][j].cookie = Mapping.cookie
        PROVE  FALSE
    <2>1. PICK e \in Slots \X Indices : e = <<call.slot, j>>
      BY <1>0
    <2>2. e \in Used /\ e[1] = call.slot /\ Info(e).cookie = Mapping.cookie
      BY <1>1, <2>1 DEF Used, Info
    <2>3. CASE Info(e).source = APP_ID
      BY <2>2, <2>3, RowsAreMine
    <2>4. CASE Info(e).source # APP_ID
      BY <2>2, <2>4 DEF Harmless
    <2> QED
      BY <2>3, <2>4
  <1>2. FoundIndex = NOTIFICATION_NOT_FOUND
    BY <1>1, CookieFinds DEF FoundIndex
  <1>3. ASSUME NEW e \in Used
        PROVE  IdBits(Info(e).id) \cap IdBits(Mapping.id) = {}
    <2>1. CASE Info(e).source = APP_ID
      <3>1. Info(e).id \in 0 .. 7 /\ Info(e).id # Mapping.id
        BY <2>1, RowsAreMine
      <3> QED
        BY <3>1, SuiteIdBits
    <2>2. CASE Info(e).source # APP_ID
      BY <2>2 DEF Harmless
    <2> QED
      BY <2>1, <2>2
  <1>4. GlobalBitmask \cap IdBits(Mapping.id) = {}
    BY <1>0, <1>3 DEF IdsExclusive
  <1>5. RegisterStatus \in {"NO_MEM", "SUCCESS"}
    BY <1>2, <1>4 DEF RegisterStatus
  <1> QED
    BY <1>5, MappingTableNeverFull

\* The entry a request finds by its cookie.
LEMMA FoundEntry ==
  ASSUME IInv, InLoop, FoundIndex # NOTIFICATION_NOT_FOUND
  PROVE  \E e \in Used :
           /\ e = <<call.slot, FoundIndex>> /\ e[1] = call.slot
           /\ Info(e) = ServiceInfo[call.slot][FoundIndex]
           /\ Info(e).cookie = Mapping.cookie
  <1>1. FoundIndex \in Indices /\ ServiceInfo[call.slot][FoundIndex].inUse
        /\ ServiceInfo[call.slot][FoundIndex].cookie = Mapping.cookie
    BY CookieFinds DEF FoundIndex
  <1>2. call.slot \in Slots
    BY DEF IInv, TypeOK
  <1>3. PICK e \in Slots \X Indices : e = <<call.slot, FoundIndex>>
    BY <1>1, <1>2
  <1> QED
    BY <1>1, <1>3 DEF Used, Info

\* A mapping of the application is unregistered when it has a row, and only then.
LEMMA UnregisterDecision ==
  ASSUME IInv, InLoop, call.source = APP_ID
  PROVE  UnregisterStatus = IF <<call.slot, Mapping.cookie, Mapping.id>> \in Rows
                            THEN "SUCCESS" ELSE "INVALID_PARAMETER"
  <1>0. call.slot \in Slots
    BY DEF IInv, TypeOK
  <1>1. CASE <<call.slot, Mapping.cookie, Mapping.id>> \in Rows
    <2>1. PICK e \in Used : /\ Info(e).source = APP_ID /\ e[1] = call.slot
                            /\ Info(e).cookie = Mapping.cookie /\ Info(e).id = Mapping.id
      BY <1>1, RowsAreMine
    <2>2. e \in Slots \X Indices /\ ServiceInfo[call.slot][e[2]].inUse
          /\ ServiceInfo[call.slot][e[2]].cookie = Mapping.cookie
      BY <2>1 DEF Used, Info
    <2>3. FoundIndex # NOTIFICATION_NOT_FOUND
      BY <2>2, CookieFinds DEF FoundIndex
    <2>4. PICK f \in Used : /\ f[1] = call.slot /\ Info(f).cookie = Mapping.cookie
                            /\ Info(f) = ServiceInfo[call.slot][FoundIndex]
      BY <2>3, FoundEntry
    <2>5. f = e
      BY <2>1, <2>4 DEF IInv, TableInv, LookupsUnambiguous
    <2> QED
      BY <1>1, <2>1, <2>3, <2>4, <2>5 DEF UnregisterStatus
  <1>2. CASE <<call.slot, Mapping.cookie, Mapping.id>> \notin Rows
    <2>1. CASE FoundIndex = NOTIFICATION_NOT_FOUND
      BY <1>2, <2>1 DEF UnregisterStatus
    <2>2. CASE FoundIndex # NOTIFICATION_NOT_FOUND
      <3>1. PICK f \in Used : /\ f[1] = call.slot /\ Info(f).cookie = Mapping.cookie
                              /\ Info(f) = ServiceInfo[call.slot][FoundIndex]
        BY <2>2, FoundEntry
      <3>2. Info(f).id # Mapping.id \/ Info(f).source # APP_ID
        BY <1>2, <3>1, RowsAreMine
      <3> QED
        BY <1>2, <2>2, <3>1, <3>2 DEF UnregisterStatus
    <2> QED
      BY <2>1, <2>2
  <1> QED
    BY <1>1, <1>2

\* What the loop decides on the mapping it is at.
LoopStatus == IF call.op = "REGISTER" THEN RegisterStatus ELSE UnregisterStatus

\* The mappings of the cases that expect success are accepted.
LEMMA MappingAccepted ==
  ASSUME SuiteFits, Base, Origin, client = "app", TableDuring, InLoop, Harmless,
         test \in {6, 7, 12}
  PROVE  LoopStatus = "SUCCESS"
  <1>0. Busy /\ IInv /\ call.source = APP_ID /\ BATTERY_HI # THERMAL_HI
    BY AppCall DEF InLoop, Base, SuiteFits
  <1>1. call.index \in 1 .. Len(call.maps)
    <2>1. call.index \in 1 .. (MAPPING_MAX + 1) /\ Len(call.maps) \in Nat
      BY DEF Base, IInv, TypeOK
    <2> QED
      BY <2>1, SizeAssumption DEF InLoop
  <1>2. PICK s \in Slots, t \in Slots :
          /\ Placed(test - 1, s, t)
          /\ Rows = IF call.op = "REGISTER" THEN Expected(test - 1, s, t) \cup DoneRows
                                            ELSE Expected(test - 1, s, t) \ DoneRows
    BY DEF TableDuring
  <1>3. CASE test = 6
    <2>0. /\ call.op = "REGISTER" /\ Len(call.maps) = 5
          /\ \A k \in 1 .. 5 : call.maps[k].cookie = k - 1 /\ call.maps[k].id = k - 1
      BY <1>0, <1>3, AppWork
    <2>1. /\ call.op = "REGISTER" /\ call.index \in 1 .. 5
          /\ \A k \in 1 .. 5 : call.maps[k].cookie = k - 1 /\ call.maps[k].id = k - 1
      BY <2>0, <1>1
    <2>2. Rows = DoneRows
      BY <1>2, <1>3, <2>1, ExpectedNext
    <2>3. Mapping.cookie = call.index - 1 /\ Mapping.id = call.index - 1
      BY <2>1 DEF Mapping
    <2>4. ASSUME NEW r \in Rows
          PROVE  r[3] \in 0 .. 7 /\ r[3] # Mapping.id /\ r[2] # Mapping.cookie
      <3>1. PICK k \in 1 .. (call.index - 1) :
              r = <<call.slot, call.maps[k].cookie, call.maps[k].id>>
        BY <2>2 DEF DoneRows
      <3>2. k \in 1 .. 5 /\ k # call.index
        BY <2>1
      <3>3. r[2] = k - 1 /\ r[3] = k - 1
        BY <2>1, <3>1, <3>2
      <3> QED
        BY <2>1, <2>3, <3>2, <3>3
    <2>5. RegisterStatus = "SUCCESS"
      BY <1>0, <2>1, <2>3, <2>4, RegisterAccepted
    <2> QED
      BY <2>1, <2>5 DEF LoopStatus
  <1>4. CASE test = 7
    <2>0. /\ call.op = "REGISTER" /\ Len(call.maps) = 3 /\ call.uuid = SuiteUuid(THERMAL_HI)
          /\ \A k \in 1 .. 3 : call.maps[k].cookie = k - 1 /\ call.maps[k].id = k + 4
      BY <1>0, <1>4, AppWork
    <2>1. /\ call.op = "REGISTER" /\ call.index \in 1 .. 3 /\ call.uuid = SuiteUuid(THERMAL_HI)
          /\ \A k \in 1 .. 3 : call.maps[k].cookie = k - 1 /\ call.maps[k].id = k + 4
      BY <2>0, <1>1
    <2>2. Rows = {<<s, c, c>> : c \in 0 .. 4} \cup DoneRows
      BY <1>2, <1>4, <2>1, ExpectedNext
    <2>3. Mapping.cookie = call.index - 1 /\ Mapping.id = call.index + 4
      BY <2>1 DEF Mapping
    <2>4. At(s, BATTERY_HI)
      BY <1>2, <1>4 DEF Placed, NormalTest
    <2>5. call.slot # s
      BY <1>0, <2>1, <2>4, WorkSlot
    <2>6. ASSUME NEW r \in Rows
          PROVE  /\ r[3] \in 0 .. 7 /\ r[3] # Mapping.id
                 /\ r[1] = call.slot => r[2] # Mapping.cookie
      <3>1. CASE r \in DoneRows
        <4>1. PICK k \in 1 .. (call.index - 1) :
                r = <<call.slot, call.maps[k].cookie, call.maps[k].id>>
          BY <3>1 DEF DoneRows
        <4>2. k \in 1 .. 3 /\ k # call.index
          BY <2>1
        <4>3. r[2] = k - 1 /\ r[3] = k + 4
          BY <2>1, <4>1, <4>2
        <4> QED
          BY <2>1, <2>3, <4>2, <4>3
      <3>2. CASE r \notin DoneRows
        <4>1. PICK c \in 0 .. 4 : r = <<s, c, c>>
          BY <2>2, <3>2
        <4> QED
          BY <2>1, <2>3, <2>5, <4>1
      <3> QED
        BY <3>1, <3>2
    <2>7. Mapping.cookie \in 0 .. 4 /\ Mapping.id \in 0 .. 7
      BY <2>1, <2>3
    <2>8. RegisterStatus = "SUCCESS"
      BY <1>0, <2>6, <2>7, RegisterAccepted
    <2> QED
      BY <2>1, <2>8 DEF LoopStatus
  <1>5. CASE test = 12
    <2>1. /\ call.op = "UNREGISTER" /\ call.index = 1 /\ call.uuid = SuiteUuid(THERMAL_HI)
          /\ Mapping.cookie = 1 /\ Mapping.id = 6
      <3>1. /\ call.op = "UNREGISTER" /\ Len(call.maps) = 1 /\ call.uuid = SuiteUuid(THERMAL_HI)
            /\ call.maps[1].cookie = 1 /\ call.maps[1].id = 6
        BY <1>0, <1>5, AppWork
      <3>2. call.index = 1
        BY <1>1, <3>1
      <3> QED
        BY <3>1, <3>2 DEF Mapping
    <2>2. At(t, THERMAL_HI)
      BY <1>2, <1>5 DEF Placed, SecondaryTest
    <2>3. call.slot = t
      BY <1>0, <2>1, <2>2, WorkSlot
    <2>4. <<t, 1, 6>> \in Rows
      <3>1. <<t, 1, 1 + 5>> \in Expected(11, s, t)
        BY DEF Expected, ThermalCookies, SecondaryTest, UnregisterTest
      <3>2. Rows = Expected(11, s, t)
        BY <1>2, <1>5, <2>1, NoDoneRows
      <3> QED
        BY <3>1, <3>2
    <2> QED
      BY <1>0, <2>1, <2>3, <2>4, UnregisterDecision DEF LoopStatus
  <1> QED
    BY <1>3, <1>4, <1>5

\* The mappings of the cases that expect an error are refused for what they are.
LEMMA MappingRefused ==
  ASSUME SuiteFits, Base, Origin, client = "app", TableDuring, InLoop,
         test \notin {6, 7, 12}
  PROVE  LoopStatus = "INVALID_PARAMETER"
  <1>0. Busy /\ IInv /\ call.source = APP_ID /\ BATTERY_HI # THERMAL_HI
    BY AppCall DEF InLoop, Base, SuiteFits
  <1>1. /\ test \in {8, 9, 13, 14} /\ call.uuid = SuiteUuid(THERMAL_HI) /\ call.index = 1
        /\ call.op = IF test < 12 THEN "REGISTER" ELSE "UNREGISTER"
    <2>1. /\ test \in {8, 9, 13, 14} /\ call.uuid = SuiteUuid(THERMAL_HI) /\ Len(call.maps) = 1
          /\ call.op = IF test < 12 THEN "REGISTER" ELSE "UNREGISTER"
      BY <1>0, AppWork
    <2>2. call.index = 1
      BY <2>1, SizeAssumption DEF InLoop, Base, IInv, TypeOK
    <2> QED
      BY <2>1, <2>2
  <1>2. DoneRows = {} /\ Mapping = call.maps[1]
    BY <1>1, NoDoneRows DEF Mapping
  <1>3. PICK s \in Slots, t \in Slots : Placed(test - 1, s, t) /\ Rows = Expected(test - 1, s, t)
    BY <1>2 DEF TableDuring
  <1>4. At(s, BATTERY_HI) /\ At(t, THERMAL_HI)
    BY <1>1, <1>3 DEF Placed, NormalTest, SecondaryTest
  <1>5. call.slot = t /\ call.slot # s
    BY <1>0, <1>1, <1>4, WorkSlot
  <1>6. CASE test \in {8, 9}
    <2>1. <<t, 2, 2 + 5>> \in Rows
      BY <1>3, <1>6 DEF Expected, ThermalCookies, SecondaryTest, UnregisterTest
    <2>2. PICK e \in Used : e[1] = t /\ Info(e).cookie = 2 /\ Info(e).id = 7
      BY <2>1, RowsAreMine
    <2>3. CASE test = 8
      <3>1. Mapping.cookie = 2
        BY <1>0, <1>2, <2>3, AppWork
      <3>2. e \in Slots \X Indices /\ ServiceInfo[t][e[2]].inUse /\ ServiceInfo[t][e[2]].cookie = 2
        BY <2>2 DEF Used, Info
      <3>3. FoundIndex # NOTIFICATION_NOT_FOUND
        BY <1>5, <3>1, <3>2, CookieFinds DEF FoundIndex
      <3> QED
        BY <1>1, <2>3, <3>3 DEF LoopStatus, RegisterStatus
    <2>4. CASE test = 9
      <3>1. Mapping.id = 7
        BY <1>0, <1>2, <2>4, AppWork
      <3>2. IdBits(7) \subseteq GlobalBitmask /\ IdBits(7) # {}
        BY <2>2, SuiteIdBits DEF IInv, TableInv, IdsExclusive, Base
      <3>3. RegisterStatus = "INVALID_PARAMETER"
        BY <3>1, <3>2 DEF RegisterStatus
      <3> QED
        BY <1>1, <2>4, <3>3 DEF LoopStatus
    <2> QED
      BY <1>6, <2>3, <2>4
  <1>7. CASE test \in {13, 14}
    <2>1. /\ Mapping.cookie = (IF test = 13 THEN 1 ELSE 0)
          /\ Mapping.id = (IF test = 13 THEN 6 ELSE 0)
      BY <1>0, <1>2, <1>7, AppWork
    <2>2. Rows = {<<s, c, c>> : c \in 0 .. 4} \cup {<<t, c, c + 5>> : c \in {0, 2}}
      BY <1>3, <1>7 DEF Expected, BatteryCookies, ThermalCookies, NormalTest, SecondaryTest,
                        UnregisterTest
    <2>3. <<call.slot, Mapping.cookie, Mapping.id>> \notin Rows
      <3>1. \A c \in 0 .. 4 : <<s, c, c>> # <<call.slot, Mapping.cookie, Mapping.id>>
        BY <1>5
      <3>2. \A c \in {0, 2} : <<t, c, c + 5>> # <<call.slot, Mapping.cookie, Mapping.id>>
        BY <1>7, <2>1
      <3> QED
        BY <2>2, <3>1, <3>2
    <2> QED
      BY <1>0, <1>1, <1>7, <2>3, UnregisterDecision DEF LoopStatus
  <1> QED
    BY <1>1, <1>6, <1>7

\* A run that has no failure after a step had none before.
LEMMA CleanBefore ==
  ASSUME [AppNext]_appVars, Clean'
  PROVE  Clean /\ UNCHANGED faults
  <1>1. faults = {} /\ UNCHANGED faults
    BY FaultsGrow DEF Clean
  <1>2. UNCHANGED <<deployed, version>>
    <2>1. CASE AppStep
      BY <2>1 DEF AppStep, Skip, FfaMiscVerifyVersion, FfaMiscGetPartitionInfoRegs,
                  FfaMiscGetPartitionInfo, FfaMiscSetupNotifications,
                  FfaMiscRegisterNotifications, SendRequest, ReceiveResponse, StallEnds,
                  FfaMiscTestFfaNsResInfoGet
    <2>2. CASE ApIrqInterruptHandler
      BY <2>2 DEF ApIrqInterruptHandler
    <2>3. CASE UNCHANGED app
      BY <2>3 DEF app
    <2> QED
      BY <2>1, <2>2, <2>3, AppUntouched
  <1> QED
    BY <1>1, <1>2 DEF Clean, MeetsRequirements

\* A call that left no failure behind did not fail.
LEMMA NoFault ==
  ASSUME NEW f, NEW fails \in BOOLEAN, Fault(f, fails), faults' = {}
  PROVE  ~fails
BY DEF Fault

\* The response carries the status the case expects.
LEMMA RespondExpected ==
  ASSUME SuiteFits, Base, Origin, AsExpected, client = "app", FfaMessageSendDirectResp,
         UNCHANGED app
  PROVE  Status' = Suite[test].expect
  <1>1. /\ test \in 6 .. 18 /\ request.guid = Suite[test].guid
        /\ answer = NoFrame /\ spPc = "serving" /\ ~Busy
    BY AppRequest DEF FfaMessageSendDirectResp
  <1>2. CASE test \in 6 .. 15
    <2>1. request.guid = NotificationGuid
      BY <1>1, <1>2, SuiteExpects
    <2>2. StatusCode(reply) = Suite[test].expect
      BY <1>1, <2>1 DEF AsExpected
    <2> QED
      BY <2>1, <2>2, ResponseStatus
  <1>3. CASE test = 16
    <2>1. request.guid = TestGuid
      BY <1>1, <1>3, SuiteServices
    <2>2. StatusCode(reply) = Suite[test].expect
      BY <1>1, <2>1 DEF AsExpected
    <2> QED
      BY <1>3, <2>2, ServiceStatus
  <1>4. CASE test = 17
    <2>1. Status' = TpmStatus(Suite[17].arg[0][0], APP_ID)
      BY <1>4, ServiceStatus
    <2>2. TPM2_FFA_MANAGE_LOCALITY # TPM2_FFA_GET_INTERFACE_VERSION
      BY DEF TPM2_FFA_MANAGE_LOCALITY, TPM2_FFA_GET_INTERFACE_VERSION
    <2>3. TpmStatus(TPM2_FFA_GET_INTERFACE_VERSION, APP_ID)
            = TPM2_FFA_SUCCESS_OK_RESULTS_RETURNED
      BY <2>2 DEF TpmStatus
    <2> QED
      BY <1>4, <2>1, <2>3, SuiteServices
  <1>5. CASE test = 18
    <2>1. Status' = TpmStatus(Suite[18].arg[0][0], APP_ID)
      BY <1>5, ServiceStatus
    <2>2. TPM2_FFA_MANAGE_LOCALITY # TPM2_FFA_GET_INTERFACE_VERSION
      BY DEF TPM2_FFA_MANAGE_LOCALITY, TPM2_FFA_GET_INTERFACE_VERSION
    <2>3. TpmStatus(TPM2_FFA_MANAGE_LOCALITY, APP_ID) = TPM2_FFA_ERROR_DENIED
      BY <2>2 DEF TpmStatus, SuiteFits
    <2> QED
      BY <1>5, <2>1, <2>3, SuiteServices
  <1> QED
    BY <1>1, <1>2, <1>3, <1>4, <1>5

\* The loop does with the application's mappings what the case expects.
LEMMA ServeExpected ==
  ASSUME SuiteFits, Base, Origin, TableSound, Harmless, SoFar, AsExpected, client = "app",
         Serve, UNCHANGED app
  PROVE  AsExpected'
  <1>0. /\ TypeOK /\ LoopStep /\ UNCHANGED <<spPc, client, request, answer, test>>
    BY DEF Base, IInv, Serve, spmc, app
  <1>1. Busy
    BY <1>0, LoopKeepsRequest
  <1>2. test \in 6 .. 15 /\ answer = NoFrame
    BY <1>1, AppCall
  <1>3. TableDuring
    BY <1>1, <1>2 DEF TableSound
  <1>4. Suite[test].expect = IF test \in {6, 7, 12} THEN 0 ELSE -2
    BY <1>2, SuiteExpects
  <1>5. CASE RegisterMapping \/ UnregisterMapping
    <2>1. InLoop /\ LoopStatus = "SUCCESS"
      BY <1>5 DEF RegisterMapping, UnregisterMapping, LoopStatus
    <2>2. test \in {6, 7, 12}
      BY <1>3, <2>1, MappingRefused
    <2>3. call'.op = call.op
      BY <1>0, <1>5, RegisterEffect, UnregisterEffect, StoredEffect, LoopKeepsRequest
         DEF RegisterMapping, UnregisterMapping, Stored
    <2>4. Busy'
      BY <1>1, <2>3 DEF Busy
    <2> QED
      BY <1>0, <1>2, <1>4, <2>2, <2>4 DEF AsExpected
  <1>6. CASE RefuseMapping
    <2>1. InLoop /\ LoopStatus # "SUCCESS" /\ reply' = LoopStatus /\ call' = NoRequest
      BY <1>6 DEF RefuseMapping, LoopStatus, Answer
    <2>2. test \notin {6, 7, 12}
      BY <1>3, <2>1, MappingAccepted
    <2>3. reply' = "INVALID_PARAMETER"
      BY <1>3, <2>1, <2>2, MappingRefused
    <2>4. ~Busy' /\ StatusCode(reply') = -2
      BY <2>1, <2>3, StatusCodes DEF Busy, NoRequest
    <2> QED
      BY <1>0, <1>2, <1>4, <2>2, <2>4 DEF AsExpected
  <1>7. CASE UpdateDone
    <2>1. reply' = "SUCCESS" /\ call' = NoRequest /\ call.index = Len(call.maps) + 1
      BY <1>7, UpdateDoneEffect
    <2>2. ~InLoop /\ Len(call.maps) >= 1
      BY <1>1, <1>7, AppWork DEF UpdateDone
    <2>3. call.index # 1
      BY <1>1, <2>2 DEF InLoop
    <2>5. Suite[test].expect # 0 => call.index = 1
      BY <1>1, <1>2 DEF AsExpected
    <2>4. ~Busy' /\ StatusCode(reply') = 0
      BY <2>1, StatusCodes DEF Busy, NoRequest
    <2> QED
      BY <1>0, <1>2, <2>3, <2>4, <2>5 DEF AsExpected
  <1> QED
    BY <1>0, <1>5, <1>6, <1>7 DEF LoopStep

\* A UUID of the suite has a slot: a service that answers to it, or a free one, because no
\* service is registered under any other UUID.
LEMMA RoomForSuite ==
  ASSUME SuiteFits, IInv, SuiteSlots, NEW hi \in {BATTERY_HI, THERMAL_HI}
  PROVE  \/ LocateService(SuiteUuid(hi), FALSE) # NOTIFICATION_NOT_FOUND
         \/ LocateService(SuiteUuid(hi), TRUE) # NOTIFICATION_NOT_FOUND
  <1>1. SUFFICES ASSUME \A s \in Slots : ~At(s, hi), \A s \in Slots : InUse[s]
                 PROVE  FALSE
    <2>1. ASSUME LocateService(SuiteUuid(hi), FALSE) = NOTIFICATION_NOT_FOUND
          PROVE  \A s \in Slots : ~At(s, hi)
      BY <2>1, LocateFinds DEF At
    <2>2. ASSUME LocateService(SuiteUuid(hi), TRUE) = NOTIFICATION_NOT_FOUND
          PROVE  \A s \in Slots : InUse[s]
      BY <2>2, LocateFinds
    <2> QED
      BY <2>1, <2>2
  <1>2. PICK other \in {BATTERY_HI, THERMAL_HI} :
          \A s \in Slots : InUse[s] => At(s, hi) \/ At(s, other)
    BY DEF SuiteSlots
  <1>3. 0 \in Slots /\ 1 \in Slots
    BY SizeAssumption DEF SuiteFits, Slots
  <1>4. At(0, other) /\ At(1, other)
    BY <1>1, <1>2, <1>3
  <1>5. SameUuid(ServiceUuid[0], ServiceUuid[1]) /\ InUse[0] /\ InUse[1]
    BY <1>4 DEF At, SameUuid
  <1> QED
    BY <1>3, <1>5 DEF IInv, TableInv, LookupsUnambiguous

\* What becomes of the application's request when the service is called with it.
LEMMA DispatchAsks ==
  ASSUME Base, Origin, client = "app", DispatchNotification,
         NEW op \in {REGISTER, UNREGISTER}, NEW lo, NEW hi, NEW count \in 0 .. 8, NEW maps,
         Asks(Suite[test], op, lo, hi, count, maps)
  PROVE  LET uuid == NotificationServiceExtractUuid(WordOf(lo), WordOf(hi)) IN
         /\ op = REGISTER => RegisterHandler(uuid, APP_ID, count, MappingsSent(count))
         /\ op = UNREGISTER => UnregisterHandler(uuid, APP_ID, count, MappingsSent(count))
  <1>1. /\ msg = request /\ request.source = APP_ID /\ request.arg = Suite[test].arg
    BY AppRequest DEF DispatchNotification, Dispatched
  <1>2. /\ msg.arg[5][0] = op /\ msg.arg[3] = WordOf(lo) /\ msg.arg[4] = WordOf(hi)
        /\ msg.arg[6][0] = count /\ msg.source = APP_ID
    BY <1>1 DEF Asks
  <1>3. NotificationServiceHandle(op, <<WordOf(lo), WordOf(hi)>>, APP_ID, count,
                                  MappingsSent(count))
    BY <1>2 DEF DispatchNotification
  <1>4. REGISTER % 4 = 2 /\ UNREGISTER % 4 = 3
    BY DEF REGISTER, UNREGISTER
  <1>5. <<WordOf(lo), WordOf(hi)>>[1] = WordOf(lo) /\ <<WordOf(lo), WordOf(hi)>>[2] = WordOf(hi)
    OBVIOUS
  <1>6. CASE op = REGISTER
    BY <1>3, <1>4, <1>5, <1>6 DEF NotificationServiceHandle, REGISTER, UNREGISTER
  <1>7. CASE op = UNREGISTER
    BY <1>3, <1>4, <1>5, <1>7 DEF NotificationServiceHandle, REGISTER, UNREGISTER
  <1> QED
    BY <1>6, <1>7 DEF REGISTER, UNREGISTER

\* A request of the suite gets as far as its mappings, or is refused for their number.
Entered(count) ==
  IF ValidCount(count) THEN Busy' /\ call'.index = 1
                       ELSE ~Busy' /\ reply' = "INVALID_PARAMETER"

\* Entering UpdateServiceInfo decides on the count alone.
LEMMA BegunEntered ==
  ASSUME NEW op \in {"REGISTER", "UNREGISTER"}, NEW s, NEW uuid, NEW source,
         NEW count \in 0 .. 8, NEW maps, BeginUpdate(op, s, uuid, source, count, maps)
  PROVE  Entered(count)
  <1>1. count % 256 = count
    OBVIOUS
  <1>2. \/ ~ValidCount(count) /\ call' = NoRequest /\ reply' = "INVALID_PARAMETER"
        \/ ValidCount(count) /\ call'.op = op /\ call'.index = 1
    BY <1>1, Begun
  <1>3. NoRequest.op = "none"
    BY DEF NoRequest
  <1> QED
    BY <1>2, <1>3 DEF Entered, Busy

\* A registration under a UUID of the suite always finds a slot.
LEMMA RegisterEntered ==
  ASSUME SuiteFits, IInv, SuiteSlots, NEW hi \in {BATTERY_HI, THERMAL_HI},
         NEW source, NEW count \in 0 .. 8, NEW maps,
         RegisterHandler(SuiteUuid(hi), source, count, maps)
  PROVE  Entered(count)
  <1>1. PICK s : BeginUpdate("REGISTER", s, SuiteUuid(hi), source, count, maps)
    BY RoomForSuite DEF RegisterHandler
  <1> QED
    BY <1>1, BegunEntered

\* A service that is found is unregistered from; of one that is not found nothing is.
LEMMA UnregisterEntered ==
  ASSUME NEW uuid, NEW source, NEW count \in 0 .. 8, NEW maps,
         UnregisterHandler(uuid, source, count, maps)
  PROVE  \/ Entered(count)
         \/ /\ \A t \in Slots : ~(InUse[t] /\ SameUuid(uuid, ServiceUuid[t]))
            /\ ~Busy' /\ reply' = "INVALID_PARAMETER"
  <1>1. CASE LocateService(uuid, FALSE) = NOTIFICATION_NOT_FOUND
    <2>1. \A t \in Slots : ~(InUse[t] /\ SameUuid(uuid, ServiceUuid[t]))
      BY <1>1, LocateFinds
    <2> QED
      BY <1>1, <2>1 DEF UnregisterHandler, Answer, NoRequest, Busy
  <1>2. CASE LocateService(uuid, FALSE) # NOTIFICATION_NOT_FOUND
    <2>1. PICK s : BeginUpdate("UNREGISTER", s, uuid, source, count, maps)
      BY <1>2 DEF UnregisterHandler
    <2> QED
      BY <2>1, BegunEntered
  <1> QED
    BY <1>1, <1>2

\* The requests of the suite get as far as the case expects.
LEMMA CasesEntered ==
  ASSUME SuiteFits, Base, Origin, SuiteSlots, client = "app", DispatchNotification,
         TableAfter(test - 1), test \in 6 .. 15
  PROVE  IF test \in {6, 7, 8, 9, 12, 13, 14} THEN Busy' /\ call'.index = 1
                                             ELSE ~Busy' /\ reply' = "INVALID_PARAMETER"
  <1>0. IInv /\ REGISTER # UNREGISTER
    BY DEF Base, REGISTER, UNREGISTER
  <1>1. /\ ValidCount(5) /\ ValidCount(3) /\ ValidCount(1)
        /\ ~ValidCount(0) /\ ~ValidCount(8)
    BY SizeAssumption, WidthAssumption DEF ValidCount, MAPPING_MIN, SuiteFits
  <1>2. ASSUME NEW hi \in {BATTERY_HI, THERMAL_HI}, NEW count \in 0 .. 8, NEW maps,
               Asks(Suite[test], REGISTER, UUID_LO, hi, count, maps)
        PROVE  Entered(count)
    <2>1. RegisterHandler(SuiteUuid(hi), APP_ID, count, MappingsSent(count))
      BY <1>2, DispatchAsks DEF SuiteUuid
    <2> QED
      BY <1>0, <2>1, RegisterEntered
  <1>3. ASSUME test \in {12, 13, 14}, NEW maps,
               Asks(Suite[test], UNREGISTER, UUID_LO, THERMAL_HI, 1, maps)
        PROVE  Entered(1)
    <2>1. UnregisterHandler(SuiteUuid(THERMAL_HI), APP_ID, 1, MappingsSent(1))
      BY <1>3, DispatchAsks DEF SuiteUuid
    <2>2. PICK t \in Slots : At(t, THERMAL_HI)
      <3>1. PICK s \in Slots, t \in Slots : Placed(test - 1, s, t)
        BY DEF TableAfter
      <3>2. At(t, THERMAL_HI)
        BY <1>3, <3>1 DEF Placed, SecondaryTest
      <3> QED
        BY <3>2
    <2> QED
      BY <2>1, <2>2, UnregisterEntered DEF At
  <1>4. CASE test = 6
    <2>1. Asks(Suite[test], REGISTER, UUID_LO, BATTERY_HI, 5, NormalMaps)
      BY <1>4, SuiteAsks
    <2>2. Entered(5)
      BY <1>2, <2>1
    <2> QED
      BY <1>1, <1>4, <2>2 DEF Entered
  <1>5. CASE test = 7
    <2>1. Asks(Suite[test], REGISTER, UUID_LO, THERMAL_HI, 3, SecondaryMaps)
      BY <1>5, SuiteAsks
    <2>2. Entered(3)
      BY <1>2, <2>1
    <2> QED
      BY <1>1, <1>5, <2>2 DEF Entered
  <1>6. CASE test \in {8, 9}
    <2>1. PICK maps : Asks(Suite[test], REGISTER, UUID_LO, THERMAL_HI, 1, maps)
      BY <1>6, SuiteAsks
    <2>2. Entered(1)
      BY <1>2, <2>1
    <2> QED
      BY <1>1, <1>6, <2>2 DEF Entered
  <1>7. CASE test \in {10, 11}
    <2>1. PICK count \in {0, 8} : Asks(Suite[test], REGISTER, UUID_LO, THERMAL_HI, count, << >>)
      BY <1>7, SuiteAsks
    <2>2. Entered(count)
      BY <1>2, <2>1
    <2> QED
      BY <1>1, <1>7, <2>2 DEF Entered
  <1>8. CASE test \in {12, 13, 14}
    <2>1. PICK maps : Asks(Suite[test], UNREGISTER, UUID_LO, THERMAL_HI, 1, maps)
      BY <1>8, SuiteAsks
    <2>2. Entered(1)
      BY <1>3, <1>8, <2>1
    <2> QED
      BY <1>1, <1>8, <2>2 DEF Entered
  <1>9. CASE test = 15
    <2>1. Asks(Suite[test], UNREGISTER, 0, 0, 0, << >>)
      BY <1>9, SuiteAsks
    <2>2. UnregisterHandler(NotificationServiceExtractUuid(WordOf(0), WordOf(0)), APP_ID, 0,
                            MappingsSent(0))
      BY <2>1, DispatchAsks
    <2>3. Entered(0) \/ (~Busy' /\ reply' = "INVALID_PARAMETER")
      BY <2>2, UnregisterEntered
    <2> QED
      BY <1>1, <1>9, <2>3 DEF Entered
  <1> QED
    BY <1>4, <1>5, <1>6, <1>7, <1>8, <1>9

\* The entry the event case asks for is the application's own.
LEMMA EventEntry ==
  ASSUME SuiteFits, Base, TableAfter(15)
  PROVE  LET s == LocateService(SuiteUuid(BATTERY_HI), FALSE)
             i == EntryToNotify(2, s)
         IN /\ s # NOTIFICATION_NOT_FOUND /\ i # NOTIFICATION_NOT_FOUND
            /\ ServiceInfo[s][i].source = APP_ID /\ ServiceInfo[s][i].id = 2
  <1>1. PICK a \in Slots, t \in Slots : Placed(15, a, t) /\ Rows = Expected(15, a, t)
    BY DEF TableAfter
  <1>2. At(a, BATTERY_HI)
    BY <1>1 DEF Placed, NormalTest
  <1>3. <<a, 2, 2>> \in Rows
    BY <1>1 DEF Expected, BatteryCookies, NormalTest
  <1>4. PICK e \in Used : /\ Info(e).source = APP_ID /\ e[1] = a
                          /\ Info(e).cookie = 2 /\ Info(e).id = 2
    BY <1>3, RowsAreMine
  <1> DEFINE s == LocateService(SuiteUuid(BATTERY_HI), FALSE)
             S == {i \in Indices : ServiceInfo[s][i].cookie = 2}
  <1>5. s = a
    <2>1. s # NOTIFICATION_NOT_FOUND
      BY <1>2, LocateFinds DEF At
    <2>2. s \in Slots /\ InUse[s] /\ SameUuid(SuiteUuid(BATTERY_HI), ServiceUuid[s])
      BY <2>1, LocateFinds
    <2>3. SameUuid(ServiceUuid[s], ServiceUuid[a]) /\ InUse[a]
      BY <1>2, <2>2 DEF At, SameUuid
    <2> QED
      BY <2>2, <2>3 DEF Base, IInv, TableInv, LookupsUnambiguous
  <1> HIDE DEF s
  <1>6. e[2] \in S
    BY <1>4, <1>5 DEF Used, Info
  <1>7. First(S) \in S /\ First(S) # NOTIFICATION_NOT_FOUND
    <2>1. Indices \subseteq Nat
      BY SizeAssumption DEF Indices
    <2>2. S \in SUBSET Nat
      BY <2>1
    <2> QED
      BY <1>6, <2>2, FirstFinds
  <1>8. PICK i \in Indices : i = First(S) /\ ServiceInfo[a][i].cookie = 2
    BY <1>5, <1>7
  <1>9. ServiceInfo[a][i].inUse
    <2>1. Cleared.cookie # 2
      BY DEF Cleared
    <2> QED
      BY <1>8, <2>1 DEF Base, IInv, TableInv, FreeIsCleared
  <1>10. PICK f \in Slots \X Indices : f = <<a, i>>
    OBVIOUS
  <1>11. f \in Used /\ f[1] = a /\ Info(f) = ServiceInfo[a][i]
    BY <1>9, <1>10 DEF Used, Info
  <1>12. f = e
    BY <1>4, <1>8, <1>11 DEF Base, IInv, TableInv, LookupsUnambiguous
  <1>13. EntryToNotify(2, s) = i
    BY <1>8 DEF EntryToNotify
  <1>14. s # NOTIFICATION_NOT_FOUND /\ i # NOTIFICATION_NOT_FOUND
    <2>1. NOTIFICATION_NOT_FOUND \notin Slots \cup Indices
      BY SizeAssumption DEF Slots, Indices, NOTIFICATION_NOT_FOUND
    <2> QED
      BY <1>5, <2>1
  <1> QED
    BY <1>4, <1>5, <1>11, <1>12, <1>13, <1>14 DEF s

\* The event of the suite is found in the service and accepted by the SPMC.
LEMMA EventOfSuite ==
  ASSUME SuiteFits, Base, Origin, TableAfter(15), client = "app", test = EventTest,
         bitmapCreated, BIND_BIT \in bound, DispatchEvent, faults' = {}
  PROVE  reply' = "SUCCESS" /\ sri'
  <1>0. /\ msg.arg[1] = WordOf(UUID_LO) /\ msg.arg[2] = WordOf(BATTERY_HI)
        /\ msg.arg[3][0] = 2
    <2>1. msg = request /\ request.arg = Suite[16].arg
      BY AppRequest DEF DispatchEvent, Dispatched, EventTest
    <2> QED
      BY <2>1, SuiteServices
  <1>1. ASSUME NEW sent \in BOOLEAN,
               TestNotificationHandler(<<msg.arg[1], msg.arg[2]>>, msg.arg[3][0], sent)
        PROVE  /\ \E v : notified' = {[cookie |-> 2, dest |-> APP_ID, perVcpu |-> v,
                                      bits |-> IdBits(2)]}
               /\ reply' = IF sent THEN "SUCCESS" ELSE "INVALID_PARAMETER"
    <2> DEFINE words == <<WordOf(UUID_LO), WordOf(BATTERY_HI)>>
               s == LocateService(SuiteUuid(BATTERY_HI), FALSE)
               i == EntryToNotify(2, s)
    <2>1. TestNotificationHandler(words, 2, sent)
      BY <1>0, <1>1
    <2>2. NotificationServiceExtractUuid(words[1], words[2]) = SuiteUuid(BATTERY_HI)
      BY DEF SuiteUuid
    <2>3. /\ s # NOTIFICATION_NOT_FOUND /\ i # NOTIFICATION_NOT_FOUND
          /\ ServiceInfo[s][i].source = APP_ID /\ ServiceInfo[s][i].id = 2
      BY EventEntry
    <2> HIDE DEF words
    <2>4. /\ notified' = {[cookie |-> 2, dest |-> ServiceInfo[s][i].source,
                           perVcpu |-> ServiceInfo[s][i].perVcpu,
                           bits |-> IdBits(ServiceInfo[s][i].id)]}
          /\ reply' = IF sent THEN "SUCCESS" ELSE "INVALID_PARAMETER"
      BY <2>1, <2>2, <2>3 DEF TestNotificationHandler
    <2> QED
      BY <2>3, <2>4
  <1>2. PICK v : notified' = {[cookie |-> 2, dest |-> APP_ID, perVcpu |-> v, bits |-> IdBits(2)]}
    BY <1>1 DEF DispatchEvent
  <1> DEFINE n == CHOOSE e \in notified' : TRUE
  <1>3. n.dest = APP_ID /\ n.bits = {2} /\ notified' # {}
    <2>1. notified' # {}
      BY <1>2
    <2>2. n \in notified'
      BY <2>1
    <2> HIDE DEF n
    <2>3. n = [cookie |-> 2, dest |-> APP_ID, perVcpu |-> v, bits |-> IdBits(2)]
      BY <1>2, <2>2
    <2> QED
      BY <2>1, <2>3, SuiteIdBits
  <1>11. PICK sent \in BOOLEAN, found \in BOOLEAN, refused \in BOOLEAN :
           /\ TestNotificationHandler(<<msg.arg[1], msg.arg[2]>>, msg.arg[3][0], sent)
           /\ refused \/ ~found => faults' = faults \cup {"set"}
           /\ LET c == FfaNotificationSet(SourceId(mPartitionId["sp"], SP_ID, found), n.dest,
                                          n.bits)
              IN sent <=> SetAccepted(c) /\ ~refused
           /\ sri' = (sri \/ sent)
    BY <1>3 DEF DispatchEvent, Fault
  <1> DEFINE c == FfaNotificationSet(SourceId(mPartitionId["sp"], SP_ID, found), n.dest, n.bits)
  <1>4. /\ (refused \/ ~found => faults' = faults \cup {"set"})
        /\ (sent <=> SetAccepted(c) /\ ~refused)
        /\ sri' = (sri \/ sent)
    BY <1>11
  <1> HIDE DEF n
  <1>5. found /\ ~refused
    BY <1>4
  <1>6. SourceId(mPartitionId["sp"], SP_ID, found) = SP_ID
    BY <1>5, OwnIds DEF SourceId, Base, AppInv, KnownIds, Images
  <1>7. Whole(LowHalf({2}), HighHalf({2})) = {2}
    <2>1. {2} \subseteq 0 .. (2 * UINT32_BITS - 1)
      BY WidthAssumption, SizeAssumption DEF SuiteFits
    <2> QED
      BY <2>1, HalvesMakeWhole
  <1>8. c = [arg1 |-> <<SP_ID, APP_ID>>, arg3 |-> LowHalf({2}), arg4 |-> HighHalf({2})]
    BY <1>3, <1>6 DEF FfaNotificationSet
  <1> HIDE DEF c
  <1>9. SetAccepted(c)
    BY <1>7, <1>8 DEF SetAccepted, BIND_BIT
  <1>10. sent
    BY <1>4, <1>5, <1>9
  <1> QED
    BY <1>1, <1>4, <1>10, <1>11

\* Which service a request of the suite goes to.
LEMMA DispatchOfCase ==
  ASSUME Base, Origin, client = "app", DispatchStep
  PROVE  \/ test \in 6 .. 15 /\ DispatchNotification
         \/ test = EventTest /\ DispatchEvent
         \/ test \in {17, 18} /\ request.guid \notin {NotificationGuid, TestGuid}
  <1>0. spPc = "dispatch"
    BY DEF DispatchStep, DispatchNotification, DispatchEvent, DispatchTestInvalid,
           DispatchOther, Dispatched
  <1>1. /\ msg = request /\ test \in 6 .. 18 /\ request.guid = Suite[test].guid
        /\ request.fid = "REQ2" /\ request.arg = Suite[test].arg
    BY <1>0, AppRequest
  <1>2. CASE test \in 6 .. 15
    <2>1. msg.guid = NotificationGuid /\ msg.fid = "REQ2"
      BY <1>1, <1>2, SuiteExpects
    <2> QED
      BY <1>0, <1>2, <2>1, RequestAssumption
         DEF DispatchStep, DispatchEvent, DispatchTestInvalid, DispatchOther, Dispatched
  <1>3. CASE test = 16
    <2>1. /\ msg.guid = TestGuid /\ msg.fid = "REQ2"
          /\ msg.arg[0][0] = TEST_OPCODE_TEST_NOTIFICATION
      BY <1>1, <1>3, SuiteServices
    <2> QED
      BY <1>0, <1>3, <2>1, RequestAssumption
         DEF DispatchStep, DispatchNotification, DispatchTestInvalid, DispatchOther, Dispatched,
             EventTest
  <1>4. CASE test \in {17, 18}
    BY <1>1, <1>4, SuiteServices, RequestAssumption
  <1> QED
    BY <1>1, <1>2, <1>3, <1>4

\* A request of the suite is taken as the case expects, and an event raises its interrupt.
LEMMA DispatchExpected ==
  ASSUME SuiteFits, Base, Origin, TableSound, SuiteSlots, SoFar, Prepared, client = "app",
         DispatchStep, UNCHANGED app, faults' = {}
  PROVE  AsExpected' /\ (EventAccepted' => sri')
  <1>0. /\ spPc = "dispatch" /\ spPc' = "serving"
        /\ UNCHANGED <<client, request, answer, test>>
    BY DEF DispatchStep, DispatchNotification, DispatchEvent, DispatchTestInvalid,
           DispatchOther, Dispatched, spmc, app
  <1>1. ~Busy /\ answer = NoFrame /\ test \in 6 .. 18
    BY <1>0, AppRequest DEF Origin, CallIsRequest
  <1>2. TableAfter(test - 1)
    BY <1>0, <1>1 DEF TableSound
  <1>3. CASE test \in 6 .. 15 /\ DispatchNotification
    <2>0. ~EventAccepted'
      BY <1>0, <1>3 DEF EventAccepted, EventTest
    <2>1. CASE test \in {6, 7, 8, 9, 12, 13, 14}
      <3>1. Busy' /\ call'.index = 1
        BY <1>2, <1>3, <2>1, CasesEntered
      <3> QED
        BY <1>0, <1>1, <2>0, <3>1 DEF AsExpected
    <2>2. CASE test \notin {6, 7, 8, 9, 12, 13, 14}
      <3>1. ~Busy' /\ reply' = "INVALID_PARAMETER"
        BY <1>2, <1>3, <2>2, CasesEntered
      <3>2. StatusCode(reply') = Suite[test].expect
        <4>1. Suite[test].expect = -2
          BY <1>3, <2>2, SuiteExpects
        <4> QED
          BY <3>1, <4>1, StatusCodes
      <3> QED
        BY <1>0, <1>1, <2>0, <3>1, <3>2 DEF AsExpected
    <2> QED
      BY <2>1, <2>2
  <1>4. CASE test = EventTest /\ DispatchEvent
    <2>0. TableAfter(15)
      BY <1>2, <1>4 DEF EventTest
    <2>1. bitmapCreated /\ BIND_BIT \in bound
      BY <1>4 DEF Prepared, EventTest
    <2>2. reply' = "SUCCESS" /\ sri'
      BY <1>4, <2>0, <2>1, EventOfSuite, SMTT(30)
    <2>3. ~Busy'
      BY <1>1, <1>4 DEF DispatchEvent, TestNotificationHandler, Busy
    <2>4. StatusCode(reply') = Suite[test].expect
      <3>1. Suite[test].expect = 0
        BY <1>4, SuiteServices DEF EventTest
      <3> QED
        BY <2>2, <3>1, StatusCodes
    <2> QED
      BY <1>0, <1>1, <2>2, <2>3, <2>4 DEF AsExpected
  <1>5. CASE test \in {17, 18} /\ request.guid \notin {NotificationGuid, TestGuid}
    <2>1. ~EventAccepted'
      BY <1>0, <1>5 DEF EventAccepted, EventTest
    <2>2. ~Busy'
      <3>1. DispatchOther
        <4>1. msg = request /\ request.guid = Suite[test].guid
          BY <1>0, AppRequest
        <4> QED
          BY <1>5, <4>1 DEF DispatchStep, DispatchNotification, DispatchEvent,
                            DispatchTestInvalid, Dispatched
      <3> QED
        BY <1>1, <3>1 DEF DispatchOther, service, Busy
    <2> QED
      BY <1>0, <1>1, <1>5, <2>1, <2>2 DEF AsExpected
  <1> QED
    BY <1>3, <1>4, <1>5, DispatchOfCase

\* The cases that send no request, and what the cases need.
LEMMA LocalCases ==
  /\ \A t \in 1 .. 19 : Suite[t].name = "Version" => t = 1
  /\ \A t \in 1 .. 19 : Suite[t].name = "InfoRegs" => t = 2
  /\ \A t \in 1 .. 19 : Suite[t].name = "Info" => t = 3
  /\ \A t \in 1 .. 19 : Suite[t].name = "Setup" => t = 4
  /\ \A t \in 1 .. 19 : Suite[t].name = "RegisterIrq" => t = 5
  /\ \A t \in 1 .. 19 : Suite[t].name = "NsResInfo" => t = 19
  /\ Suite[1].needs = {} /\ Suite[2].needs = {}
  /\ \A t \in 1 .. 19 : Suite[t].needs \subseteq Services
  <1>1. /\ Suite[1].name = "Version" /\ Suite[2].name = "InfoRegs" /\ Suite[3].name = "Info"
        /\ Suite[4].name = "Setup" /\ Suite[5].name = "RegisterIrq" /\ Suite[19].name = "NsResInfo"
    BY DEF Suite, LocalCase
  <1>2. /\ Suite[1].needs = {} /\ Suite[2].needs = {} /\ Suite[3].needs = {}
        /\ Suite[4].needs = {"test"} /\ Suite[5].needs = {} /\ Suite[19].needs = {}
    BY DEF Suite, LocalCase
  <1>3. \A t \in 6 .. 18 : /\ Suite[t].name # "Version" /\ Suite[t].name # "InfoRegs"
                           /\ Suite[t].name # "Info" /\ Suite[t].name # "Setup"
                           /\ Suite[t].name # "RegisterIrq" /\ Suite[t].name # "NsResInfo"
    <2>1. \A t \in 6 .. 18 : t \in 1 .. 19
      OBVIOUS
    <2>2. \A t \in 6 .. 18 : Suite[t].name \notin LocalNames
      BY <2>1, SuiteNumbers
    <2> QED
      BY <2>2 DEF LocalNames
  <1>4. \A t \in 6 .. 18 : Suite[t].needs \subseteq Services
    <2>1. \A t \in 6 .. 18 : t \in 6 .. 15 \/ t = 16 \/ t = 17 \/ t = 18
      OBVIOUS
    <2> QED
      BY <2>1, SuiteExpects, SuiteServices DEF Services
  <1>5. \A t \in 1 .. 19 : t = 1 \/ t = 2 \/ t = 3 \/ t = 4 \/ t = 5 \/ t = 19 \/ t \in 6 .. 18
    OBVIOUS
  <1>6. \A t \in 1 .. 19 : Suite[t].needs \subseteq Services
    BY <1>2, <1>4, <1>5 DEF Services
  <1>7. \A t \in 1 .. 19 : /\ Suite[t].name = "Version" => t = 1
                           /\ Suite[t].name = "InfoRegs" => t = 2
                           /\ Suite[t].name = "Info" => t = 3
    BY <1>1, <1>3, <1>5
  <1>8. \A t \in 1 .. 19 : /\ Suite[t].name = "Setup" => t = 4
                           /\ Suite[t].name = "RegisterIrq" => t = 5
                           /\ Suite[t].name = "NsResInfo" => t = 19
    BY <1>1, <1>3, <1>5
  <1> QED
    BY <1>2, <1>6, <1>7, <1>8

\* A case that passes leaves a suite that has passed so far.
LEMMA PassedOn ==
  ASSUME Base, SoFar, test \in Tests, Verdict("passed")
  PROVE  SoFar' /\ test \in 1 .. 19 /\ test' = test + 1 /\ appPc' # "stall"
  <1>1. test \in 1 .. 19 /\ test' = test + 1
    BY SuiteNumbers DEF Verdict
  <1>2. DOMAIN result = 1 .. 19
    BY SuiteNumbers DEF Base, AppInv, SuiteOK
  <1>3. \A u \in 1 .. 19 : result'[u] = IF u = test THEN "passed" ELSE result[u]
    BY <1>1, <1>2 DEF Verdict
  <1>4. ASSUME NEW u \in 1 .. (test' - 1)
        PROVE  result'[u] = "passed"
    <2>1. u \in 1 .. 19 /\ (u = test \/ u \in 1 .. (test - 1))
      BY <1>1
    <2> QED
      BY <1>3, <2>1 DEF SoFar
  <1>5. SoFar'
    BY <1>4 DEF SoFar
  <1> QED
    BY <1>1, <1>5 DEF Verdict

\* What a case has to leave behind for the next one.
LEMMA PreparedNext ==
  ASSUME Base, Prepared, test \in 1 .. 19, test' = test + 1,
         IF test = 2 THEN available' = Services ELSE UNCHANGED available,
         test # 19 => ~rxHeld',
         IF test = 4 THEN bitmapCreated' = TRUE /\ BIND_BIT \in bound'
                     ELSE UNCHANGED <<bitmapCreated, bound>>,
         IF test = 5 THEN handler' = TRUE ELSE UNCHANGED handler
  PROVE  Prepared'
  <1>1. (test > 2)' => available' = Services
    <2>1. CASE test = 2
      BY <2>1
    <2>2. CASE test # 2
      BY <2>2 DEF Prepared
    <2> QED
      BY <2>1, <2>2
  <1>2. (test <= Len(Suite))' => ~rxHeld'
    <2>1. test' <= Len(Suite) => test # 19
      BY SuiteNumbers
    <2> QED
      BY <2>1
  <1>3. bitmapCreated' <=> (test > 4)'
    <2>1. CASE test = 4
      BY <2>1
    <2>2. CASE test # 4
      <3>1. test > 4 <=> test' > 4
        BY <2>2
      <3> QED
        BY <2>2, <3>1 DEF Prepared
    <2> QED
      BY <2>1, <2>2
  <1>4. (test > 4)' => BIND_BIT \in bound'
    <2>1. CASE test = 4
      BY <2>1
    <2>2. CASE test # 4
      <3>1. test > 4 <=> test' > 4
        BY <2>2
      <3> QED
        BY <2>2, <3>1 DEF Prepared
    <2> QED
      BY <2>1, <2>2
  <1>5. (test > 5)' => handler'
    <2>1. CASE test = 5
      BY <2>1
    <2>2. CASE test # 5
      <3>1. test > 5 <=> test' > 5
        BY <2>2
      <3> QED
        BY <2>2, <3>1 DEF Prepared
    <2> QED
      BY <2>1, <2>2
  <1> QED
    BY <1>1, <1>2, <1>3, <1>4, <1>5 DEF Prepared

\* A case that is due on a system that meets the requirements is not skipped.
LEMMA NoSkip ==
  ASSUME Prepared, test \in 1 .. 19
  PROVE  Suite[test].needs \subseteq available
  <1>1. CASE test \in {1, 2}
    BY <1>1, LocalCases
  <1>2. CASE test \notin {1, 2}
    BY <1>2, LocalCases, SMTT(30) DEF Prepared
  <1> QED
    BY <1>1, <1>2

\* The cases before the first request pass and leave what the later ones need.
LEMMA EarlyPasses ==
  ASSUME Base, SoFar, Prepared, Clean',
         Clean, FfaMiscVerifyVersion \/ FfaMiscGetPartitionInfoRegs \/ FfaMiscGetPartitionInfo
  PROVE  SoFar' /\ Prepared' /\ appPc' # "stall"
  <1>0. faults' = {} /\ MeetsRequirements /\ Tests = 1 .. 19
    BY SuiteNumbers DEF Clean
  <1>1. CASE FfaMiscVerifyVersion
    <2>1. test = 1 /\ test \in Tests
      BY <1>0, <1>1, LocalCases DEF FfaMiscVerifyVersion, Due
    <2>2. PICK fails \in BOOLEAN :
            /\ Fault("version", fails)
            /\ Passed(/\ ~fails
                      /\ version[1] >= ARM_FFA_MAJOR_VERSION
                      /\ version[2] >= ARM_FFA_MINOR_VERSION)
      BY <1>1 DEF FfaMiscVerifyVersion
    <2>3. ~fails
      BY <1>0, <2>2, NoFault
    <2>4. Verdict("passed")
      BY <1>0, <2>2, <2>3 DEF Passed, MeetsRequirements
    <2>5. SoFar' /\ test' = test + 1 /\ appPc' # "stall"
      BY <2>1, <2>4, PassedOn
    <2>6. UNCHANGED <<available, rxHeld, bitmapCreated, bound, handler>>
      BY <1>1 DEF FfaMiscVerifyVersion, notifications
    <2>7. ~rxHeld
      BY <2>1, SuiteNumbers DEF Prepared
    <2> QED
      BY <2>1, <2>5, <2>6, <2>7, PreparedNext
  <1>2. CASE FfaMiscGetPartitionInfoRegs
    <2>1. test = 2 /\ test \in Tests
      BY <1>0, <1>2, LocalCases DEF FfaMiscGetPartitionInfoRegs, Due
    <2> DEFINE found == {s \in Services : FfaPartitionInfoGetRegs(deployed[s], 1) = "SUCCESS"}
    <2>2. found = Services
      <3>1. FfaPartitionInfoGetRegs(1, 1) = "SUCCESS"
        BY DEF FfaPartitionInfoGetRegs
      <3> QED
        BY <1>0, <3>1 DEF MeetsRequirements
    <2>3. /\ available' = IF "mm" \in found THEN found ELSE available
          /\ Passed("mm" \in found)
      BY <1>2 DEF FfaMiscGetPartitionInfoRegs
    <2> HIDE DEF found
    <2>4. available' = Services /\ Verdict("passed")
      BY <2>2, <2>3 DEF Services, Passed
    <2>5. SoFar' /\ test' = test + 1 /\ appPc' # "stall"
      BY <2>1, <2>4, PassedOn
    <2>6. UNCHANGED <<rxHeld, bitmapCreated, bound, handler>>
      BY <1>2 DEF FfaMiscGetPartitionInfoRegs, ffaVars
    <2>7. ~rxHeld
      BY <2>1, SuiteNumbers DEF Prepared
    <2> QED
      BY <2>1, <2>4, <2>5, <2>6, <2>7, PreparedNext
  <1>3. CASE FfaMiscGetPartitionInfo
    <2>1. test = 3 /\ test \in Tests
      BY <1>0, <1>3, LocalCases DEF FfaMiscGetPartitionInfo, Due
    <2>7. ~rxHeld
      BY <2>1, SuiteNumbers DEF Prepared
    <2>2. PICK failing \in {"none", "get", "release"} :
            /\ Fault("info", failing # "none")
            /\ Passed(~rxHeld /\ failing = "none")
            /\ rxHeld' = (rxHeld \/ failing = "release")
      BY <1>3 DEF FfaMiscGetPartitionInfo
    <2>3. failing = "none"
      BY <1>0, <2>2, NoFault
    <2>4. Verdict("passed") /\ ~rxHeld'
      BY <2>2, <2>3, <2>7 DEF Passed
    <2>5. SoFar' /\ test' = test + 1 /\ appPc' # "stall"
      BY <2>1, <2>4, PassedOn
    <2>6. UNCHANGED <<available, bitmapCreated, bound, handler>>
      BY <1>3 DEF FfaMiscGetPartitionInfo, notifications
    <2> QED
      BY <2>1, <2>4, <2>5, <2>6, PreparedNext
  <1> QED
    BY <1>1, <1>2, <1>3

\* The bitmap is created, its bit bound and the handler registered.
LEMMA SetupPasses ==
  ASSUME SuiteFits, Base, SoFar, Prepared, Clean',
         FfaMiscSetupNotifications \/ FfaMiscRegisterNotifications
  PROVE  SoFar' /\ Prepared' /\ appPc' # "stall"
  <1>0. faults' = {} /\ Tests = 1 .. 19
    BY SuiteNumbers DEF Clean
  <1>1. CASE FfaMiscSetupNotifications
    <2>1. test = 4 /\ test \in Tests
      BY <1>0, <1>1, LocalCases DEF FfaMiscSetupNotifications, Due
    <2>2. ~rxHeld /\ ~bitmapCreated
      BY <2>1, SuiteNumbers DEF Prepared
    <2>3. PICK failing \in {"none", "lookup", "create", "bind"} :
            LET id == SourceId(mPartitionId["app"], APP_ID, failing # "lookup")
                c == FfaNotificationBind(id, SP_ID, {BIND_BIT})
            IN /\ Fault(failing, failing # "none")
               /\ bitmapCreated' = (bitmapCreated \/ (id = APP_ID /\ failing # "create"))
               /\ Passed(bitmapCreated' /\ ~bitmapCreated)
               /\ bound' = IF BindAccepted(c) /\ ~bitmapCreated /\ failing # "bind"
                           THEN bound \cup Whole(c.arg3, c.arg4) ELSE bound
      BY <1>1 DEF FfaMiscSetupNotifications
    <2>4. failing = "none"
      BY <1>0, <2>3, NoFault
    <2>5. SourceId(mPartitionId["app"], APP_ID, failing # "lookup") = APP_ID
      BY <2>4, OwnIds DEF SourceId, Base, AppInv, KnownIds, Images
    <2>6. bitmapCreated' = TRUE
      BY <2>2, <2>3, <2>4, <2>5
    <2>7. Verdict("passed")
      BY <2>2, <2>3, <2>6 DEF Passed
    <2>8. BIND_BIT \in bound'
      <3>1. BindAccepted(FfaNotificationBind(APP_ID, SP_ID, {BIND_BIT}))
        BY <2>6 DEF BindAccepted, FfaNotificationBind
      <3>2. bound' = bound \cup Whole(LowHalf({BIND_BIT}), HighHalf({BIND_BIT}))
        BY <2>2, <2>3, <2>4, <2>5, <3>1 DEF FfaNotificationBind
      <3>3. {BIND_BIT} \subseteq 0 .. (2 * UINT32_BITS - 1)
        BY WidthAssumption, SizeAssumption DEF SuiteFits, BIND_BIT
      <3> QED
        BY <3>2, <3>3, HalvesMakeWhole
    <2>9. SoFar' /\ test' = test + 1 /\ appPc' # "stall"
      BY <2>1, <2>7, PassedOn
    <2>10. UNCHANGED <<available, rxHeld, handler>>
      BY <1>1 DEF FfaMiscSetupNotifications
    <2> QED
      BY <2>1, <2>2, <2>6, <2>8, <2>9, <2>10, PreparedNext
  <1>2. CASE FfaMiscRegisterNotifications
    <2>1. test = 5 /\ test \in Tests
      BY <1>0, <1>2, LocalCases DEF FfaMiscRegisterNotifications, Due
    <2>2. ~rxHeld
      BY <2>1, SuiteNumbers DEF Prepared
    <2>3. PICK failing \in {"none", "features", "locate", "register"} :
            /\ Fault(failing, failing # "none")
            /\ handler' = (handler \/ failing = "none")
            /\ Passed(failing \in {"none", "locate"})
      BY <1>2 DEF FfaMiscRegisterNotifications
    <2>4. failing = "none"
      BY <1>0, <2>3, NoFault
    <2>5. handler' = TRUE /\ Verdict("passed")
      BY <2>3, <2>4 DEF Passed
    <2>6. SoFar' /\ test' = test + 1 /\ appPc' # "stall"
      BY <2>1, <2>5, PassedOn
    <2>7. UNCHANGED <<available, rxHeld, bitmapCreated, bound>>
      BY <1>2 DEF FfaMiscRegisterNotifications, notifications
    <2> QED
      BY <2>1, <2>2, <2>5, <2>6, <2>7, PreparedNext
  <1> QED
    BY <1>1, <1>2

\* The event case passes when the interrupt came in time, the last one always.
LEMMA LatePasses ==
  ASSUME Base, Stage, SoFar, Prepared, Clean',
         appPc = "stall" => sri \/ mIsInterruptFired,
         StallEnds \/ FfaMiscTestFfaNsResInfoGet
  PROVE  SoFar' /\ Prepared' /\ appPc' # "stall"
  <1>0. faults' = {} /\ Tests = 1 .. 19
    BY SuiteNumbers DEF Clean
  <1>1. CASE StallEnds
    <2>1. test = 16 /\ test \in Tests
      BY <1>0, <1>1 DEF StallEnds, Stage, EventTest
    <2>2. ~rxHeld
      BY <2>1, SuiteNumbers DEF Prepared
    <2>3. mIsInterruptFired
      BY <1>0, <1>1 DEF StallEnds
    <2>4. Verdict("passed")
      BY <1>1, <2>3 DEF StallEnds, Passed
    <2>5. SoFar' /\ test' = test + 1 /\ appPc' # "stall"
      BY <2>1, <2>4, PassedOn
    <2>6. UNCHANGED <<available, rxHeld, bitmapCreated, bound, handler>>
      BY <1>1 DEF StallEnds, notifications
    <2> QED
      BY <2>1, <2>2, <2>5, <2>6, PreparedNext
  <1>2. CASE FfaMiscTestFfaNsResInfoGet
    <2>1. test = 19 /\ test \in Tests
      BY <1>0, <1>2, LocalCases DEF FfaMiscTestFfaNsResInfoGet, Due
    <2>2. ~rxHeld
      BY <2>1, SuiteNumbers DEF Prepared
    <2>3. PICK failing \in {"none", "unsupported", "get", "buffers"} :
            /\ Fault("nsres", failing \in {"get", "buffers"})
            /\ Passed(failing = "unsupported" \/ (failing = "none" /\ ~rxHeld))
      BY <1>2 DEF FfaMiscTestFfaNsResInfoGet
    <2>4. failing \notin {"get", "buffers"}
      BY <1>0, <2>3, NoFault
    <2>5. Verdict("passed")
      BY <2>2, <2>3, <2>4 DEF Passed
    <2>6. SoFar' /\ test' = test + 1 /\ appPc' # "stall"
      BY <2>1, <2>5, PassedOn
    <2>7. UNCHANGED <<available, bitmapCreated, bound, handler>>
      BY <1>2 DEF FfaMiscTestFfaNsResInfoGet, notifications
    <2> QED
      BY <2>1, <2>6, <2>7, PreparedNext
  <1> QED
    BY <1>1, <1>2

\* The local cases pass.
LEMMA LocalPasses ==
  ASSUME SuiteFits, Base, Stage, SoFar, Prepared, Clean, Clean',
         appPc = "stall" => sri \/ mIsInterruptFired, LocalStep
  PROVE  SoFar' /\ Prepared' /\ appPc' # "stall"
  <1>1. ~Skip
    BY NoSkip, SuiteNumbers DEF Skip
  <1> QED
    BY <1>1, EarlyPasses, SetupPasses, LatePasses DEF LocalStep

\* An interrupt stays pending until it is noticed, and is forgotten when the event is asked
\* for again.
LEMMA InterruptKept ==
  ASSUME Base, TypeOK', [AppNext]_appVars, ~SendRequest, sri \/ mIsInterruptFired
  PROVE  sri' \/ mIsInterruptFired'
  <1>0. sri \in BOOLEAN /\ mIsInterruptFired \in BOOLEAN
    BY DEF Base, AppInv, FlagsOK
  <1>1. CASE ApIrqInterruptHandler
    BY <1>1 DEF ApIrqInterruptHandler
  <1>2. CASE ~ApIrqInterruptHandler
    <2>1. UNCHANGED mIsInterruptFired
      <3>1. CASE UNCHANGED app
        BY <3>1 DEF app
      <3>2. CASE AppStep
        BY <3>2 DEF AppStep, Skip, FfaMiscVerifyVersion, FfaMiscGetPartitionInfoRegs,
                    FfaMiscGetPartitionInfo, FfaMiscSetupNotifications,
                    FfaMiscRegisterNotifications, ReceiveResponse, StallEnds,
                    FfaMiscTestFfaNsResInfoGet
      <3> QED
        BY <1>2, <3>1, <3>2, AppUntouched
    <2>2. CASE DispatchEvent
      <3>1. UNCHANGED sri \/ sri' = TRUE
        BY <1>0, <2>2, EventEffect
      <3> QED
        BY <2>1, <3>1
    <2>3. CASE FfaMiscSetupNotifications
      <3>1. UNCHANGED sri
        BY <2>3, SetupEffect
      <3> QED
        BY <2>1, <3>1
    <2>4. CASE ~DispatchEvent /\ ~FfaMiscSetupNotifications
      <3>1. UNCHANGED sri
        BY <1>2, <2>4, BitsUntouched
      <3> QED
        BY <2>1, <3>1
    <2> QED
      BY <2>2, <2>3, <2>4
  <1> QED
    BY <1>1, <1>2

\* The expectations of the current case are met so far, whatever other clients do.
LEMMA ExpectedOutside ==
  ASSUME Base, Origin, AsExpected, client' = "app" => client = "app",
         UNCHANGED <<call, reply, request, answer, test>>,
         spPc' = "serving" <=> spPc = "serving"
  PROVE  AsExpected'
  <1>1. UNCHANGED Status /\ (Busy' <=> Busy)
    BY DEF Status, StatusOf, Busy
  <1> QED
    BY <1>1 DEF AsExpected

\* Every step keeps to what the current case expects.
LEMMA AsExpectedStep ==
  ASSUME SuiteFits, Base, Origin, TableSound, Harmless, SuiteSlots, SoFar, Prepared,
         AsExpected, [AppNext]_appVars, faults' = {}
  PROVE  AsExpected'
  <1>1. CASE LoopOutside /\ UNCHANGED app
    <2>1. CASE FfaMessageSendDirectResp
      <3>1. spPc' = "waiting" /\ UNCHANGED <<client, test, call>> /\ ~Busy
        BY <1>1, <2>1 DEF FfaMessageSendDirectResp, app, service
      <3>2. CASE client = "app"
        <4>1. Status' = Suite[test].expect
          BY <1>1, <2>1, <3>2, RespondExpected
        <4>2. ~Busy'
          BY <3>1 DEF Busy
        <4> QED
          BY <3>1, <4>1, <4>2 DEF AsExpected
      <3>3. CASE client # "app"
        BY <3>1, <3>3 DEF AsExpected
      <3> QED
        BY <3>2, <3>3
    <2>2. CASE ~FfaMessageSendDirectResp
      <3>1. /\ UNCHANGED <<call, reply, client, request, answer, test>>
            /\ spPc # "serving" /\ spPc' # "serving"
        BY <1>1, <2>2 DEF LoopOutside, SpInterrupt, FfaReturnFromInterrupt, FfaWaitNoMessage,
                          FfaMessageWait, service, spmc, app
      <3> QED
        BY <3>1, ExpectedOutside
    <2> QED
      BY <2>1, <2>2
  <1>2. CASE DispatchStep /\ UNCHANGED app
    <2>1. UNCHANGED client
      BY <1>2 DEF DispatchStep, DispatchNotification, DispatchEvent, DispatchTestInvalid,
                  DispatchOther, spmc
    <2>2. CASE client = "app"
      BY <1>2, <2>2, DispatchExpected
    <2>3. CASE client # "app"
      BY <2>1, <2>3 DEF AsExpected
    <2> QED
      BY <2>2, <2>3
  <1>3. CASE Serve /\ UNCHANGED app
    <2>1. UNCHANGED client
      BY <1>3 DEF Serve, spmc
    <2>2. CASE client = "app"
      BY <1>3, <2>2, ServeExpected
    <2>3. CASE client # "app"
      BY <2>1, <2>3 DEF AsExpected
    <2> QED
      BY <2>2, <2>3
  <1>4. CASE (OtherSends \/ OtherReceives) /\ UNCHANGED app
    <2>1. \/ client' # "app"
          \/ UNCHANGED <<call, reply, client, request, answer, test, spPc>>
      BY <1>4, OtherSendsEffect DEF OtherReceives, PeerReceive, LegacyReceive, Close, service, app
    <2> QED
      BY <2>1, ExpectedOutside DEF AsExpected
  <1>5. CASE LocalStep
    <2>1. client' # "app"
      BY <1>5, LocalEffect DEF Origin, AppOpen
    <2> QED
      BY <2>1 DEF AsExpected
  <1>6. CASE SendRequest
    <2>1. appPc = "run" /\ client # "app" /\ UNCHANGED <<spPc, call>>
      BY <1>6 DEF SendRequest, Origin, AppOpen, service
    <2>2. CASE client' # "app"
      BY <2>2 DEF AsExpected
    <2>3. CASE client' = "app"
      <3>1. client = "none" /\ UNCHANGED answer
        BY <1>6, <2>1, <2>3 DEF SendRequest, Open, spmc
      <3>2. answer = NoFrame /\ spPc # "serving"
        BY <3>1 DEF Base, MsgInv, AtWork, AnswerFitsRequest
      <3>3. ~Busy
        BY <3>2 DEF Origin, CallIsRequest
      <3>4. ~Busy' /\ answer' = NoFrame /\ spPc' # "serving"
        BY <2>1, <3>1, <3>2, <3>3 DEF Busy
      <3> QED
        BY <3>4 DEF AsExpected
    <2> QED
      BY <2>2, <2>3
  <1>7. CASE ReceiveResponse
    BY <1>7 DEF ReceiveResponse, Close, AsExpected
  <1>8. CASE \/ (PeerInterrupt \/ PeerInterruptDone) /\ UNCHANGED app
             \/ ApIrqInterruptHandler \/ UNCHANGED appVars
    <2>1. UNCHANGED <<call, reply, client, request, answer, test, spPc>>
      BY <1>8 DEF PeerInterrupt, PeerInterruptDone, ApIrqInterruptHandler, appVars, ffaVars,
                  service, spmc, app
    <2> QED
      BY <2>1, ExpectedOutside
  <1> QED
    BY <1>1, <1>2, <1>3, <1>4, <1>5, <1>6, <1>7, <1>8, StepKinds

\* The suite has passed so far, and its preparations stand.
LEMMA SuitePassesOn ==
  ASSUME SuiteFits, Sound, TypeOK', [AppNext]_appVars, SoFar, Prepared, AsExpected,
         appPc = "stall" => sri \/ mIsInterruptFired, Clean, Clean'
  PROVE  SoFar' /\ Prepared'
  <1>0. Base /\ Origin /\ Stage /\ sri \in BOOLEAN /\ pending \in Bitmaps
    BY DEF Sound, Base, AppInv, FlagsOK, BitmapsOK
  <1>1. ASSUME UNCHANGED <<test, result, available, rxHeld, handler, bitmapCreated, bound>>
        PROVE  SoFar' /\ Prepared'
    BY <1>1 DEF SoFar, Prepared
  <1>2. CASE LocalStep
    BY <1>0, <1>2, LocalPasses
  <1>3. CASE ReceiveResponse
    <2>0. /\ client = "app" /\ answer # NoFrame
          /\ UNCHANGED <<available, rxHeld, handler, bitmapCreated, bound>>
      BY <1>3 DEF ReceiveResponse, Close, notifications
    <2>1. Status = Suite[test].expect /\ test \in 6 .. 18
      BY <1>0, <2>0, AppRequest DEF AsExpected
    <2>2. CASE UNCHANGED <<test, result>>
      BY <1>1, <2>0, <2>2
    <2>3. CASE Passed(Status = Suite[test].expect)
      <3>1. Verdict("passed")
        BY <2>1, <2>3 DEF Passed
      <3>2. test \in Tests /\ test # 2 /\ test # 4 /\ test # 5 /\ test # 19
        BY <2>1, SuiteNumbers
      <3>3. SoFar' /\ test \in 1 .. 19 /\ test' = test + 1
        BY <1>0, <3>1, <3>2, PassedOn
      <3>4. ~rxHeld'
        BY <2>0, <3>3, SuiteNumbers DEF Prepared
      <3> QED
        BY <1>0, <2>0, <3>2, <3>3, <3>4, PreparedNext
    <2> QED
      BY <1>3, <2>2, <2>3 DEF ReceiveResponse, Status
  <1>4. CASE SendRequest
    <2>1. PICK fails \in BOOLEAN : /\ Fault("send", fails)
                                   /\ ~fails => UNCHANGED <<test, result>>
      BY <1>4 DEF SendRequest
    <2>2. ~fails
      BY <2>1, NoFault DEF Clean
    <2>3. UNCHANGED <<available, rxHeld, handler, bitmapCreated, bound>>
      BY <1>4 DEF SendRequest, notifications
    <2> QED
      BY <1>1, <2>1, <2>2, <2>3
  <1>5. CASE ApIrqInterruptHandler
    <2>1. UNCHANGED <<bitmapCreated, bound>>
      BY <1>0, <1>5, HandlerEffect
    <2>2. UNCHANGED <<test, result, available, rxHeld, handler>>
      BY <1>5 DEF ApIrqInterruptHandler
    <2> QED
      BY <1>1, <2>1, <2>2
  <1>6. CASE UNCHANGED app
    <2>0. UNCHANGED <<test, result, available, rxHeld, handler>>
      BY <1>6 DEF app
    <2>1. CASE DispatchEvent
      <3>1. UNCHANGED <<bitmapCreated, bound>>
        BY <1>0, <2>1, EventEffect
      <3> QED
        BY <1>1, <2>0, <3>1
    <2>2. CASE FfaMiscSetupNotifications
      BY <1>2, <2>2 DEF LocalStep
    <2>3. CASE ~DispatchEvent /\ ~FfaMiscSetupNotifications /\ ~ApIrqInterruptHandler
      <3>1. UNCHANGED <<bitmapCreated, bound>>
        BY <2>3, BitsUntouched
      <3> QED
        BY <1>1, <2>0, <3>1
    <2> QED
      BY <1>5, <2>1, <2>2, <2>3
  <1>7. CASE UNCHANGED appVars
    BY <1>6, <1>7 DEF appVars
  <1> QED
    BY <1>2, <1>3, <1>4, <1>5, <1>6, <1>7, StepKinds

\* The interrupt of an accepted event is on its way or was noticed.
LEMMA InTimeStep ==
  ASSUME SuiteFits, Sound, TypeOK', SuiteSlots, SoFar, Prepared, faults' = {},
         EventAccepted \/ appPc = "stall" => sri \/ mIsInterruptFired, [AppNext]_appVars,
         EventAccepted' \/ appPc' = "stall"
  PROVE  sri' \/ mIsInterruptFired'
  <1>0. Base /\ Origin /\ Stage /\ TableSound
    BY DEF Sound
  <1>1. CASE EventAccepted \/ appPc = "stall"
    <2>1. ~SendRequest
      BY <1>0, <1>1 DEF SendRequest, EventAccepted, Origin, AppOpen
    <2> QED
      BY <1>0, <1>1, <2>1, InterruptKept
  <1>2. CASE EventAccepted' /\ ~EventAccepted
    <2>1. client = "app" /\ DispatchStep /\ UNCHANGED app
      BY <1>0, <1>2, EventAcceptedBefore
    <2> QED
      BY <1>0, <1>2, <2>1, DispatchExpected
  <1>3. CASE appPc' = "stall" /\ appPc # "stall"
    <2>1. ReceiveResponse
      <3>1. CASE LocalStep
        BY <1>3, <3>1, LocalEffect
      <3>2. CASE SendRequest
        BY <1>3, <3>2 DEF SendRequest, Verdict
      <3>3. CASE ApIrqInterruptHandler
        BY <1>3, <3>3 DEF ApIrqInterruptHandler
      <3>4. CASE UNCHANGED app \/ UNCHANGED appVars
        BY <1>3, <3>4 DEF app, appVars
      <3> QED
        BY <3>1, <3>2, <3>3, <3>4, StepKinds
    <2>2. /\ client = "app" /\ answer # NoFrame
          /\ Suite[test].name = "Event" /\ Status = Suite[test].expect
      BY <1>3, <2>1 DEF ReceiveResponse, Close, Passed, Verdict, Status
    <2>3. test = EventTest
      <3>1. test \in 1 .. 19
        BY <1>0, <2>2, AppRequest
      <3> QED
        BY <2>2, <3>1, SuiteNumbers
    <2> QED
      BY <1>1, <2>2, <2>3 DEF EventAccepted
  <1> QED
    BY <1>1, <1>2, <1>3

\* Without a failing call the suite passes case by case.
LEMMA FreshStep ==
  ASSUME SuiteFits, PeersKeepClear, Sound, TypeOK', Harmless, SuiteSlots, Fresh,
         [AppNext]_appVars
  PROVE  Fresh'
  <1>1. SUFFICES ASSUME Clean'
                 PROVE  /\ SoFar' /\ Prepared' /\ AsExpected'
                        /\ (EventAccepted \/ appPc = "stall")' => (sri \/ mIsInterruptFired)'
    BY DEF Fresh, Clean
  <1>2. Clean /\ faults' = {}
    BY <1>1, CleanBefore DEF Clean
  <1>3. /\ SoFar /\ Prepared /\ AsExpected
        /\ EventAccepted \/ appPc = "stall" => sri \/ mIsInterruptFired
    BY <1>2 DEF Fresh, Clean
  <1>7. appPc = "stall" => sri \/ mIsInterruptFired
    BY <1>3
  <1>4. SoFar' /\ Prepared'
    BY <1>1, <1>2, <1>3, <1>7, SuitePassesOn
  <1>5. AsExpected'
    BY <1>2, <1>3, AsExpectedStep DEF Sound
  <1>6. (EventAccepted \/ appPc = "stall")' => (sri \/ mIsInterruptFired)'
    BY <1>2, <1>3, InTimeStep
  <1> QED
    BY <1>4, <1>5, <1>6

\* Nothing has happened yet.
LEMMA FreshInit ==
  ASSUME AppInit
  PROVE  Harmless /\ SuiteSlots /\ Fresh
  <1>1. Used = {} /\ \A s \in Slots : ~InUse[s]
    BY DEF AppInit, FfaInit, Init, Used, Cleared
  <1>2. Harmless /\ SuiteSlots
    BY <1>1 DEF Harmless, SuiteSlots
  <1>3. client # "app" /\ appPc = "run" /\ test = 1
    BY DEF AppInit, FfaInit
  <1>4. SoFar /\ AsExpected /\ ~EventAccepted
    BY <1>3 DEF SoFar, AsExpected, EventAccepted
  <1>5. Prepared
    BY <1>3 DEF AppInit, FfaInit, Prepared
  <1> QED
    BY <1>2, <1>3, <1>4, <1>5 DEF Fresh

\* A suite that met no failure and is done has passed every case, on every system that
\* meets its requirements and has room for it, whatever the other clients send that keep
\* clear of it, and however their requests and the interrupts interleave
\* (FfaPartitionTestAppEntry).
THEOREM FreshRunsPass ==
  SuiteFits /\ PeersKeepClear /\ AppSpec => []FreshRunPasses
  <1>1. SuiteFits /\ PeersKeepClear /\ AppInit => Harmless /\ SuiteSlots /\ Fresh
    BY FreshInit
  <1>2. SuiteFits /\ PeersKeepClear /\ Sound /\ Sound' /\ Harmless /\ SuiteSlots /\ Fresh
          /\ [AppNext]_appVars => Harmless' /\ SuiteSlots' /\ Fresh'
    <2>1. Sound => Base /\ Origin
      BY DEF Sound
    <2>2. Sound' => TypeOK'
      BY DEF Sound, Base, IInv
    <2> QED
      BY <2>1, <2>2, FreshStep, HarmlessStep, SuiteSlotsStep
  <1>3. Sound /\ Fresh => FreshRunPasses
    <2> SUFFICES ASSUME Sound, Fresh, appPc = "done", MeetsRequirements, faults = {}
                 PROVE  AllPassed
      BY DEF FreshRunPasses
    <2>1. test = 20
      BY SuiteNumbers DEF Sound, Stage
    <2>2. \A u \in 1 .. (test - 1) : result[u] = "passed"
      BY DEF Fresh, SoFar, Clean
    <2> QED
      BY <2>1, <2>2, SuiteNumbers DEF AllPassed
  <1>4. (SuiteFits => [](SuiteFits)) /\ (PeersKeepClear => []PeersKeepClear)
    OBVIOUS
  <1> QED
    BY <1>1, <1>2, <1>3, <1>4, SoundInvariance, PTL DEF AppSpec
=============================================================================
