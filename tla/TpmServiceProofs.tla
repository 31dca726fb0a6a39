------------------------- MODULE TpmServiceProofs -------------------------
(***************************************************************************)
(* Proofs about TpmService, for any number of localities, any commands and *)
(* any kind of device.                                                     *)
(***************************************************************************)
EXTENDS TpmService, TLAPS

-----------------------------------------------------------------------------
(***************************************************************************)
(* Typing facts about the operators.                                       *)
(***************************************************************************)

\* A zeroed buffer, a command and a response are buffers (InitInternalCrb,
\* TpmSstStart).
LEMMA BufferTypes ==
  /\ Zeroed \in Buffer
  /\ \A c \in Commands : Command(c) \in Buffer
  /\ \A b \in Buffer : ResponseTo(b) \in Buffer
  <1>1. Zeroed \in Buffer
    BY DEF Zeroed, Buffer
  <1>2. ASSUME NEW c \in Commands PROVE Command(c) \in Buffer
    BY DEF Command, Buffer
  <1>3. ASSUME NEW b \in Buffer PROVE ResponseTo(b) \in Buffer
    BY DEF ResponseTo, Buffer
  <1> QED
    BY <1>1, <1>2, <1>3

\* What the device's record holds, as SstTypeOK types it.
Device == [phase : Phases, loc : Locality \cup {NO_ACTIVE_LOCALITY},
           pend : SUBSET (Ops \X Locality), expect : BOOLEAN, data : Buffer]

\* A register write keeps the device's type.
LEMMA WrittenType ==
  ASSUME NEW d \in Device, NEW op \in Ops, NEW l \in Locality
  PROVE  Written(d, op, l) \in Device
BY DEF Written, Device

\* The stages a call goes through are stages.
LEMMA StageTypes ==
  /\ \A op \in Ops : FirstStage(op) \in Stages
  /\ \A s \in Stages : NextStage(s) \in Stages
BY DEF FirstStage, NextStage, Stages, Ops, CommandOps, LocalityOps

\* StartHandler forwards only requests the device knows, for a valid locality.
LEMMA DecisionType ==
  ASSUME NEW func, NEW l \in Nat, StartDecision(func, l) # "refuse"
  PROVE  StartDecision(func, l) \in Ops /\ l \in Locality
BY LocalityAssumption, SMTT(30)
   DEF StartDecision, HandleCommand, HandleLocalityRequest, Ops, CommandOps, LocalityOps,
       Locality

\* Cleaning keeps the type of the CRBs.
LEMMA CleanType ==
  ASSUME NEW crbs \in [Locality -> InternalCrb],
         NEW active \in Locality \cup {NO_ACTIVE_LOCALITY}, NEW state
  PROVE  CleanInternalCrb(crbs, active, state) \in [Locality -> InternalCrb]
BY DEF CleanInternalCrb, InternalCrb

\* The low byte of a message argument is a natural number.
LEMMA TruncatedType ==
  ASSUME NEW arg \in LocalityArgs
  PROVE  Truncated(arg) \in Nat
BY ArgAssumption DEF Truncated

-----------------------------------------------------------------------------
(***************************************************************************)
(* Type correctness.                                                       *)
(***************************************************************************)

\* The initial state is well typed (TpmServiceInit).
LEMMA InitType == Init => TypeOK
  <1> SUFFICES ASSUME Init PROVE TypeOK
    OBVIOUS
  <1>1. SstTypeOK
    BY BufferTypes, LocalityAssumption, KindAssumption, PollAssumption
       DEF Init, TpmSstInit, SstTypeOK, NoCall, Locality, NO_ACTIVE_LOCALITY, Phases, Stages
  <1>2. crb \in [Locality -> InternalCrb]
    BY BufferTypes DEF Init, InitInternalCrb, InternalCrb
  <1> QED
    BY <1>1, <1>2 DEF Init, TypeOK, TpmStates, Statuses

\* The device keeps its type (TpmStep).
LEMMA DeviceType ==
  ASSUME TypeOK, TpmStep, UNCHANGED svcVars
  PROVE  TypeOK'
  <1>0. tpm \in Device
    BY DEF TypeOK, SstTypeOK, Device
  <1>1. CASE TpmActsOnCommand
    <2>1. PICK op \in CommandOps, l \in Locality :
            LET d == [tpm EXCEPT !.pend = @ \ {<<op, l>>}]
            IN  tpm' = IF tpm.loc # l \/ (op = "start" /\ ~Executes)
                       THEN d
                       ELSE [d EXCEPT !.phase = PhaseAfter(op),
                                      !.data = IF op = "start" THEN ResponseTo(@)
                                               ELSE Zeroed]
      BY <1>1 DEF TpmActsOnCommand
    <2>2. PhaseAfter(op) \in Phases
      BY DEF PhaseAfter, Phases
    <2>3. (IF op = "start" THEN ResponseTo(tpm.data) ELSE Zeroed) \in Buffer
      BY <1>0, BufferTypes DEF Device
    <2>4. tpm' \in Device
      BY <1>0, <2>1, <2>2, <2>3 DEF Device
    <2> QED
      BY <1>1, <2>4 DEF TpmActsOnCommand, Device, TypeOK, SstTypeOK, svcVars
  <1>2. CASE TpmSettles
    BY <1>2 DEF TpmSettles, TypeOK, SstTypeOK, svcVars, Phases
  <1>3. CASE TpmActsOnLocality
    <2>1. PICK l \in Locality :
            \/ tpm' = [tpm EXCEPT !.loc = l, !.pend = @ \ {<<"request", l>>}]
            \/ tpm' = [tpm EXCEPT !.loc = IF @ = l THEN NO_ACTIVE_LOCALITY ELSE @,
                                  !.pend = @ \ {<<"relinquish", l>>}]
      BY <1>3 DEF TpmActsOnLocality
    <2>2. tpm' \in Device
      BY <1>0, <2>1 DEF Device
    <2> QED
      BY <1>3, <2>2 DEF TpmActsOnLocality, Device, TypeOK, SstTypeOK, svcVars
  <1> QED
    BY <1>1, <1>2, <1>3 DEF TpmStep

\* Entering a TpmSst call keeps the library's type.
LEMMA BeginType ==
  ASSUME SstTypeOK, NEW op \in Ops, NEW l \in Locality, NEW b \in Buffer,
         TpmSstBegin(op, l, b)
  PROVE  SstTypeOK'
  <1>1. tpm \in Device /\ [tpm EXCEPT !.data = b] \in Device
    BY DEF SstTypeOK, Device
  <1>2. tpm' \in Device
    BY <1>1, WrittenType DEF TpmSstBegin
  <1>3. sst' \in [op : Ops \cup {"none"}, loc : Locality, stage : Stages,
                  delay : 0 .. PollLimit, data : Buffer]
    BY BufferTypes, StageTypes, PollAssumption DEF TpmSstBegin
  <1> QED
    BY <1>2, <1>3 DEF TpmSstBegin, SstTypeOK, Device

\* Going on in a TpmSst call keeps the library's type.
LEMMA LoopType ==
  ASSUME SstTypeOK, SstNextLoop \/ SstYield \/ SstBurstFails
  PROVE  SstTypeOK'
  <1>0. tpm \in Device
    BY DEF SstTypeOK, Device
  <1>1. CASE SstNextLoop
    <2>1. [tpm EXCEPT !.data = sst.data, !.expect = FALSE, !.phase = "ready"] \in Device
      BY <1>0 DEF SstTypeOK, Device, Phases
    <2>2. Written(tpm, "start", sst.loc) \in Device
      BY <1>0, WrittenType DEF SstTypeOK, Ops, CommandOps
    <2>3. tpm' \in Device
      BY <1>0, <1>1, <2>1, <2>2 DEF SstNextLoop
    <2>4. NextStage(sst.stage) \in Stages /\ 0 \in 0 .. PollLimit
      BY StageTypes, PollAssumption DEF SstTypeOK
    <2>5. sst' \in [op : Ops \cup {"none"}, loc : Locality, stage : Stages,
                    delay : 0 .. PollLimit, data : Buffer]
      BY <1>1, <2>4 DEF SstNextLoop, SstTypeOK
    <2> QED
      BY <1>1, <2>3, <2>5 DEF SstNextLoop, SstTypeOK, Device
  <1>2. CASE SstYield
    BY <1>2, PollAssumption DEF SstYield, SstTypeOK
  <1>3. CASE SstBurstFails
    <2>1. PICK expect \in BOOLEAN, data \in {tpm.data, sst.data} :
            tpm' = [tpm EXCEPT !.expect = expect, !.data = data]
      BY <1>3 DEF SstBurstFails
    <2>2. tpm' \in Device
      BY <1>0, <2>1 DEF SstTypeOK, Device
    <2>3. "expect" \in Stages /\ 0 \in 0 .. PollLimit
      BY PollAssumption DEF Stages
    <2>4. sst' \in [op : Ops \cup {"none"}, loc : Locality, stage : Stages,
                    delay : 0 .. PollLimit, data : Buffer]
      BY <1>3, <2>3 DEF SstBurstFails, SstTypeOK
    <2>5. giveUps \in Nat /\ giveUps' = giveUps + 1
      BY <1>3 DEF SstBurstFails, SstTypeOK
    <2>6. UNCHANGED <<mIsCrbInterface, mIsIdleBypassSupported>>
      BY <1>3 DEF SstBurstFails
    <2> QED
      BY <2>2, <2>4, <2>5, <2>6 DEF SstTypeOK, Device
  <1> QED
    BY <1>1, <1>2, <1>3

\* Returning from a TpmSst call keeps the library's type.
LEMMA ReturnType ==
  ASSUME SstTypeOK, NEW success, TpmSstReturns(success)
  PROVE  SstTypeOK'
BY BufferTypes, LocalityAssumption, PollAssumption
   DEF TpmSstReturns, SstTypeOK, NoCall, Stages, Locality

\* The CRB a successful call leaves is a CRB.
LEMMA CrbAfterType ==
  ASSUME TypeOK, NEW op \in Ops, NEW l \in Locality
  PROVE  CrbAfter(op, l) \in InternalCrb
  <1>1. crb[l] \in InternalCrb /\ tpm.data \in Buffer
    BY DEF TypeOK, SstTypeOK
  <1>2. InitInternalCrb \in InternalCrb
    BY BufferTypes DEF InitInternalCrb, InternalCrb
  <1>3. ASSUME NEW b \in Buffer
        PROVE  [crb[l] EXCEPT !.buffer = b] \in InternalCrb
    BY <1>1 DEF InternalCrb
  <1> QED
    BY <1>1, <1>2, <1>3, BufferTypes DEF CrbAfter, CopyResponseData

\* Every step of the service keeps the types.
LEMMA NextType == TypeOK /\ [Next]_vars => TypeOK'
  <1> SUFFICES ASSUME TypeOK, [Next]_vars
               PROVE  TypeOK'
    OBVIOUS
  <1>1. ASSUME NEW l \in Locality, NEW bit \in Ops, ClientSetsBit(l, bit)
        PROVE  TypeOK'
    <2>1. crb' \in [Locality -> InternalCrb]
      BY <1>1 DEF ClientSetsBit, TypeOK, InternalCrb
    <2> QED
      BY <1>1, <2>1 DEF ClientSetsBit, TypeOK, SstTypeOK, sstVars
  <1>2. ASSUME NEW l \in Locality, NEW c \in Commands, ClientFillsBuffer(l, c)
        PROVE  TypeOK'
    <2>1. crb' \in [Locality -> InternalCrb]
      BY <1>2, BufferTypes DEF ClientFillsBuffer, TypeOK, InternalCrb
    <2> QED
      BY <1>2, <2>1 DEF ClientFillsBuffer, TypeOK, SstTypeOK, sstVars
  <1>3. ASSUME NEW func, NEW arg \in LocalityArgs, StartRefused(func, arg)
        PROVE  TypeOK'
    <2>1. crb' \in [Locality -> InternalCrb]
      BY <1>3, CleanType DEF StartRefused, TypeOK
    <2> QED
      BY <1>3, <2>1 DEF StartRefused, TypeOK, SstTypeOK, sstVars, Statuses
  <1>4. ASSUME NEW func, NEW arg \in LocalityArgs, StartForwarded(func, arg)
        PROVE  TypeOK'
    <2> DEFINE l == Truncated(arg)
    <2>1. StartDecision(func, l) \in Ops /\ l \in Locality
      BY <1>4, DecisionType, TruncatedType DEF StartForwarded
    <2>2. crb[l].buffer \in Buffer
      BY <2>1 DEF TypeOK, InternalCrb
    <2>3. SstTypeOK'
      BY <1>4, <2>1, <2>2, BeginType DEF StartForwarded, TypeOK
    <2> QED
      BY <1>4, <2>3 DEF StartForwarded, TypeOK, Statuses
  <1>5. CASE (SstNextLoop \/ SstYield \/ SstBurstFails) /\ UNCHANGED svcVars
    BY <1>5, LoopType DEF TypeOK, svcVars
  <1>6. CASE StartSucceeds
    <2>1. SstTypeOK'
      BY <1>6, ReturnType DEF StartSucceeds, TypeOK
    <2>2. sst.op \in Ops /\ sst.loc \in Locality
      BY <1>6 DEF StartSucceeds, TpmSstReturns, Calling, TypeOK, SstTypeOK
    <2>3. /\ StateAfter(sst.op) \in TpmStates
          /\ ActiveAfter(sst.op) \in Locality \cup {NO_ACTIVE_LOCALITY}
      BY <2>2 DEF StateAfter, ActiveAfter, TypeOK, TpmStates
    <2>4. [crb EXCEPT ![sst.loc] = CrbAfter(sst.op, sst.loc)] \in [Locality -> InternalCrb]
      BY <2>2, CrbAfterType DEF TypeOK
    <2>5. crb' \in [Locality -> InternalCrb]
      BY <1>6, <2>3, <2>4, CleanType DEF StartSucceeds
    <2> QED
      BY <1>6, <2>1, <2>3, <2>5 DEF StartSucceeds, TypeOK, Statuses
  <1>7. CASE StartFails
    <2>1. SstTypeOK'
      BY <1>7, ReturnType DEF StartFails, TypeOK
    <2>2. crb' \in [Locality -> InternalCrb]
      BY <1>7, CleanType DEF StartFails, TypeOK
    <2> QED
      BY <1>7, <2>1, <2>2 DEF StartFails, TypeOK, Statuses
  <1>8. ASSUME NEW source, NEW operation, NEW arg \in LocalityArgs,
               ManageLocalityHandler(source, operation, arg)
        PROVE  TypeOK'
    BY <1>8 DEF ManageLocalityHandler, TypeOK, SstTypeOK, sstVars, Statuses
  <1>9. ASSUME NEW opcode, AnswerOnly(opcode)
        PROVE  TypeOK'
    BY <1>9 DEF AnswerOnly, TypeOK, SstTypeOK, sstVars, Statuses
  <1>10. CASE TpmStep /\ UNCHANGED svcVars
    BY <1>10, DeviceType
  <1>11. CASE UNCHANGED vars
    BY <1>11 DEF vars, svcVars, sstVars, TypeOK, SstTypeOK
  <1> QED
    BY <1>1, <1>2, <1>3, <1>4, <1>5, <1>6, <1>7, <1>8, <1>9, <1>10, <1>11
       DEF Next, ClientStep, TpmServiceHandle, StartMessages, OtherMessages, StartHandler,
           HandlerStep

\* The service's globals, its CRBs, the call in progress and the device stay within
\* their types in every reachable state.
THEOREM TypeCorrect == Spec => []TypeOK
  <1>1. Init => TypeOK
    BY InitType
  <1>2. TypeOK /\ [Next]_vars => TypeOK'
    BY NextType
  <1> QED
    BY <1>1, <1>2, PTL DEF Spec

-----------------------------------------------------------------------------
(***************************************************************************)
(* The inductive invariant: the types, what a call in progress may assume, *)
(* and what the CRBs show.                                                 *)
(***************************************************************************)
IInv == TypeOK /\ CallJustified /\ ShownStateAgrees /\ ResponseOnlyWhileComplete

\* A step of the TpmSst call in progress, or of the device, that does not return
\* keeps the request and its locality.
LEMMA CallGoesOn ==
  ASSUME SstTypeOK, SstNextLoop \/ SstYield \/ SstBurstFails \/ TpmStep
  PROVE  /\ sst'.op = sst.op /\ sst'.loc = sst.loc
         /\ UNCHANGED mIsIdleBypassSupported
  <1>1. CASE SstNextLoop
    BY <1>1 DEF SstNextLoop, SstTypeOK
  <1>2. CASE SstYield
    BY <1>2 DEF SstYield, SstTypeOK
  <1>3. CASE SstBurstFails
    BY <1>3 DEF SstBurstFails, SstTypeOK
  <1>4. CASE TpmStep
    BY <1>4 DEF TpmStep, TpmActsOnCommand, TpmSettles, TpmActsOnLocality
  <1> QED
    BY <1>1, <1>2, <1>3, <1>4

\* The checks of StartHandler, HandleCommand and HandleLocalityRequest establish
\* what a call assumes.
LEMMA CallJustifiedStep == IInv /\ [Next]_vars => CallJustified'
  <1> SUFFICES ASSUME IInv, [Next]_vars
               PROVE  CallJustified'
    OBVIOUS
  <1>0. TypeOK /\ CallJustified
    BY DEF IInv
  <1>1. CASE UNCHANGED <<sstVars, mCurrentState, mActiveLocality>>
    BY <1>0, <1>1 DEF CallJustified, Calling, sstVars
  <1>2. ASSUME NEW func, NEW arg \in LocalityArgs, StartForwarded(func, arg)
        PROVE  CallJustified'
    <2> DEFINE l == Truncated(arg)
    <2>1. l \in Locality /\ StartDecision(func, l) \in Ops
      BY <1>2, DecisionType, TruncatedType DEF StartForwarded
    <2>2. sst'.op = StartDecision(func, l) /\ sst'.loc = l
      BY <1>2 DEF StartForwarded, TpmSstBegin
    <2>3. UNCHANGED <<mCurrentState, mActiveLocality, mIsIdleBypassSupported>>
      BY <1>2 DEF StartForwarded, TpmSstBegin
    <2>4. \/ StartDecision(func, l) = HandleCommand /\ l = mActiveLocality
          \/ StartDecision(func, l) = HandleLocalityRequest(l)
      BY <1>2, <2>1 DEF StartForwarded, StartDecision
    <2>5. mCurrentState \in TpmStates
      BY <1>0 DEF TypeOK
    <2>6. HandleCommand \in {"cmdReady", "goIdle", "start", "refuse"}
      BY <2>5 DEF HandleCommand, TpmStates
    <2>7. /\ mCurrentState = "IDLE" => HandleCommand \in {"cmdReady", "refuse"}
          /\ mCurrentState = "COMPLETE" /\ ~mIsIdleBypassSupported
               => HandleCommand \in {"goIdle", "refuse"}
      BY DEF HandleCommand
    <2>8. /\ HandleLocalityRequest(l) \in {"request", "relinquish", "refuse"}
          /\ HandleLocalityRequest(l) = "relinquish" => l = mActiveLocality
          /\ HandleLocalityRequest(l) = "request"
               => mActiveLocality \in {NO_ACTIVE_LOCALITY, l}
      BY DEF HandleLocalityRequest
    <2> QED
      BY <2>1, <2>2, <2>3, <2>4, <2>6, <2>7, <2>8 DEF CallJustified, CommandOps, Ops, LocalityOps
  <1>3. CASE (SstNextLoop \/ SstYield \/ SstBurstFails) /\ UNCHANGED svcVars
    BY <1>0, <1>3, CallGoesOn DEF TypeOK, CallJustified, Calling, svcVars
  <1>4. CASE StartSucceeds \/ StartFails
    <2>1. sst' = NoCall
      BY <1>4 DEF StartSucceeds, StartFails, TpmSstReturns
    <2>2. sst'.op = "none"
      BY <2>1 DEF NoCall
    <2> QED
      BY <2>2 DEF CallJustified, Calling
  <1>5. CASE TpmStep /\ UNCHANGED svcVars
    BY <1>0, <1>5, CallGoesOn DEF TypeOK, CallJustified, Calling, svcVars
  <1>6. ASSUME NEW l \in Locality, NEW bit \in Ops, ClientSetsBit(l, bit)
        PROVE  CallJustified'
    BY <1>1, <1>6 DEF ClientSetsBit
  <1>7. ASSUME NEW l \in Locality, NEW c \in Commands, ClientFillsBuffer(l, c)
        PROVE  CallJustified'
    BY <1>1, <1>7 DEF ClientFillsBuffer
  <1>8. ASSUME NEW func, NEW arg \in LocalityArgs, StartRefused(func, arg)
        PROVE  CallJustified'
    BY <1>1, <1>8 DEF StartRefused
  <1>9. ASSUME NEW source, NEW operation, NEW arg \in LocalityArgs,
               ManageLocalityHandler(source, operation, arg)
        PROVE  CallJustified'
    BY <1>1, <1>9 DEF ManageLocalityHandler
  <1>10. ASSUME NEW opcode, AnswerOnly(opcode)
         PROVE  CallJustified'
    BY <1>1, <1>10 DEF AnswerOnly
  <1>11. CASE UNCHANGED vars
    BY <1>1, <1>11 DEF vars, svcVars, sstVars
  <1> QED
    BY <1>2, <1>3, <1>4, <1>5, <1>6, <1>7, <1>8, <1>9, <1>10, <1>11
       DEF Next, ClientStep, TpmServiceHandle, StartMessages, OtherMessages, StartHandler,
           HandlerStep

\* A step that changes no CRB, nor the state nor the active locality, keeps what the
\* CRBs show.
LEMMA ShownUnchanged ==
  ASSUME IInv, UNCHANGED <<mCurrentState, mActiveLocality, crb>>
  PROVE  ShownStateAgrees' /\ ResponseOnlyWhileComplete'
BY DEF IInv, ShownStateAgrees, ResponseOnlyWhileComplete

\* Cleaning the active CRB without a change of state keeps what the CRBs show.
LEMMA ShownCleaned ==
  ASSUME IInv, UNCHANGED <<mCurrentState, mActiveLocality>>,
         crb' = CleanInternalCrb(crb, mActiveLocality, mCurrentState)
  PROVE  ShownStateAgrees' /\ ResponseOnlyWhileComplete'
  <1>1. /\ crb \in [Locality -> InternalCrb]
        /\ mActiveLocality \in Locality \cup {NO_ACTIVE_LOCALITY}
    BY DEF IInv, TypeOK
  <1>2. CASE mActiveLocality = NO_ACTIVE_LOCALITY
    BY <1>2, ShownUnchanged DEF CleanInternalCrb
  <1>3. CASE mActiveLocality \in Locality
    <2>1. mActiveLocality # NO_ACTIVE_LOCALITY
      BY <1>3, LocalityAssumption DEF Locality, NO_ACTIVE_LOCALITY
    <2>2. ASSUME NEW l \in Locality
          PROVE  crb'[l] = IF l = mActiveLocality
                           THEN [bits |-> {}, granted |-> TRUE,
                                 idle |-> (mCurrentState = "IDLE"),
                                 buffer |-> crb[l].buffer]
                           ELSE crb[l]
      BY <1>1, <1>3, <2>1 DEF CleanInternalCrb
    <2>3. ASSUME NEW l \in Locality
          PROVE  /\ crb'[l].granted = (l = mActiveLocality)
                 /\ crb'[l].idle = (l = mActiveLocality => mCurrentState = "IDLE")
                 /\ crb'[l].buffer = crb[l].buffer
      <3>1. CASE l = mActiveLocality
        <4>1. crb'[l] = [bits |-> {}, granted |-> TRUE, idle |-> (mCurrentState = "IDLE"),
                         buffer |-> crb[l].buffer]
          BY <2>2, <3>1
        <4>2. /\ crb'[l].granted = TRUE
              /\ crb'[l].idle = (mCurrentState = "IDLE")
              /\ crb'[l].buffer = crb[l].buffer
          BY ONLY <4>1
        <4> QED
          BY ONLY <3>1, <4>2, Zenon
      <3>2. CASE l # mActiveLocality
        <4>1. crb'[l] = crb[l]
          BY <2>2, <3>2
        <4> QED
          BY <4>1 DEF IInv, ShownStateAgrees
      <3> QED
        BY <3>1, <3>2
    <2>4. ShownStateAgrees'
      BY <2>3 DEF ShownStateAgrees
    <2>5. ResponseOnlyWhileComplete'
      BY <2>3 DEF IInv, ResponseOnlyWhileComplete
    <2> QED
      BY <2>4, <2>5
  <1> QED
    BY <1>1, <1>2, <1>3

\* A client that writes its CRB changes neither what it shows nor the responses.
LEMMA ShownClient ==
  ASSUME IInv, NEW l \in Locality, NEW bit \in Ops, NEW c \in Commands,
         ClientSetsBit(l, bit) \/ ClientFillsBuffer(l, c)
  PROVE  ShownStateAgrees' /\ ResponseOnlyWhileComplete'
  <1>1. crb \in [Locality -> InternalCrb]
    BY DEF IInv, TypeOK
  <1>2. ASSUME NEW m \in Locality
        PROVE  /\ crb'[m].granted = crb[m].granted /\ crb'[m].idle = crb[m].idle
               /\ crb'[m].buffer = crb[m].buffer \/ crb'[m].buffer.kind = "cmd"
    BY <1>1 DEF ClientSetsBit, ClientFillsBuffer, InternalCrb, Command
  <1>3. UNCHANGED <<mCurrentState, mActiveLocality>>
    BY DEF ClientSetsBit, ClientFillsBuffer
  <1> QED
    BY <1>2, <1>3 DEF IInv, ShownStateAgrees, ResponseOnlyWhileComplete

\* A call that succeeds leaves the CRBs showing the new state and locality.
LEMMA ShownSuccess ==
  ASSUME IInv, StartSucceeds
  PROVE  ShownStateAgrees' /\ ResponseOnlyWhileComplete'
  <1> DEFINE op == sst.op
             l == sst.loc
             crbs == [crb EXCEPT ![l] = CrbAfter(op, l)]
  <1>1. /\ crb \in [Locality -> InternalCrb]
        /\ mActiveLocality \in Locality \cup {NO_ACTIVE_LOCALITY}
        /\ mCurrentState \in TpmStates
        /\ op \in Ops /\ l \in Locality /\ op # "none" /\ l # NO_ACTIVE_LOCALITY
        /\ NO_ACTIVE_LOCALITY \notin Locality
    BY LocalityAssumption
       DEF IInv, TypeOK, SstTypeOK, StartSucceeds, TpmSstReturns, Calling, Locality,
           NO_ACTIVE_LOCALITY
  <1>2. CallJustified /\ Calling
    BY DEF IInv, StartSucceeds, TpmSstReturns
  <1>3. ASSUME NEW m \in Locality
        PROVE  crbs[m] = IF m = l THEN CrbAfter(op, l) ELSE crb[m]
    BY <1>1
  <1>4. CASE op = "relinquish"
    <2>1. l = mActiveLocality
      BY <1>2, <1>4 DEF CallJustified
    <2>2. mActiveLocality' = NO_ACTIVE_LOCALITY /\ mCurrentState' = mCurrentState
      BY <1>4 DEF StartSucceeds, StateAfter, ActiveAfter
    <2>3. crb' = crbs
      BY <1>4, <2>2 DEF StartSucceeds, CleanInternalCrb
    <2>4. CrbAfter(op, l) = InitInternalCrb
      BY <1>4 DEF CrbAfter, LocalityOps
    <2>5. ASSUME NEW m \in Locality
          PROVE  /\ crb'[m].granted = FALSE
                 /\ crb'[m].idle = TRUE
                 /\ crb'[m].buffer.kind # "rsp"
      <3>1. CASE m = l
        <4>1. crb'[m] = InitInternalCrb
          BY <1>3, <2>3, <2>4, <3>1
        <4> QED
          BY <4>1 DEF InitInternalCrb, Zeroed
      <3>2. CASE m # l
        <4>1. crb'[m] = crb[m]
          BY <1>3, <2>3, <3>2
        <4> QED
          BY <2>1, <3>2, <4>1 DEF IInv, ShownStateAgrees, ResponseOnlyWhileComplete
      <3> QED
        BY <3>1, <3>2
    <2>6. ShownStateAgrees'
      BY <1>1, <2>2, <2>5 DEF ShownStateAgrees
    <2>7. ResponseOnlyWhileComplete'
      BY <2>5 DEF ResponseOnlyWhileComplete
    <2> QED
      BY <2>6, <2>7
  <1>5. CASE op # "relinquish"
    <2>1. mActiveLocality' = l /\ mActiveLocality \in {NO_ACTIVE_LOCALITY, l}
      BY <1>1, <1>2, <1>5
         DEF CallJustified, StartSucceeds, ActiveAfter, Ops, CommandOps, LocalityOps
    <2>2. ActiveAfter(op) = l /\ mCurrentState' = StateAfter(op)
      BY <2>1 DEF StartSucceeds
    <2>3. ASSUME NEW m \in Locality
          PROVE  crb'[m] = IF m = l
                           THEN [bits |-> {}, granted |-> TRUE,
                                 idle |-> (mCurrentState' = "IDLE"),
                                 buffer |-> CrbAfter(op, l).buffer]
                           ELSE crb[m]
      BY <1>1, <1>3, <2>2 DEF StartSucceeds, CleanInternalCrb
    <2>4. ASSUME NEW m \in Locality
          PROVE  /\ crb'[m].granted = (m = l)
                 /\ crb'[m].idle = (m = l => mCurrentState' = "IDLE")
                 /\ crb'[m].buffer = IF m = l THEN CrbAfter(op, l).buffer ELSE crb[m].buffer
                 /\ m # l => crb[m].buffer.kind # "rsp"
      <3>1. CASE m = l
        <4>1. crb'[m] = [bits |-> {}, granted |-> TRUE, idle |-> (mCurrentState' = "IDLE"),
                         buffer |-> CrbAfter(op, l).buffer]
          BY <2>3, <3>1
        <4>2. /\ crb'[m].granted = TRUE
              /\ crb'[m].idle = (mCurrentState' = "IDLE")
              /\ crb'[m].buffer = CrbAfter(op, l).buffer
          BY ONLY <4>1
        <4> QED
          BY ONLY <3>1, <4>2, Zenon
      <3>2. CASE m # l
        <4>1. crb'[m] = crb[m] /\ m # mActiveLocality
          BY <1>1, <2>1, <2>3, <3>2
        <4> QED
          BY <3>2, <4>1 DEF IInv, ShownStateAgrees, ResponseOnlyWhileComplete
      <3> QED
        BY <3>1, <3>2
    <2>5. CrbAfter(op, l).buffer.kind = "rsp" => mCurrentState' = "COMPLETE"
      <3>1. CASE op = "request"
        BY <3>1 DEF CrbAfter, LocalityOps, InitInternalCrb, Zeroed
      <3>2. CASE op = "start"
        BY <2>2, <3>2 DEF StateAfter
      <3>3. CASE op \in {"cmdReady", "goIdle"}
        <4>1. crb[l] \in InternalCrb
          BY <1>1
        <4>2. CrbAfter(op, l) = IF mCurrentState = "COMPLETE"
                                THEN [crb[l] EXCEPT !.buffer = Zeroed] ELSE crb[l]
          BY <3>3 DEF CrbAfter, LocalityOps
        <4>3. CrbAfter(op, l).buffer.kind # "rsp"
          BY <1>1, <4>1, <4>2 DEF InternalCrb, Zeroed, IInv, ResponseOnlyWhileComplete
        <4> QED
          BY <4>3
      <3> QED
        BY <1>1, <1>5, <3>1, <3>2, <3>3 DEF Ops, CommandOps, LocalityOps
    <2>6. ShownStateAgrees'
      BY <2>1, <2>4 DEF ShownStateAgrees
    <2>7. ResponseOnlyWhileComplete'
      BY <2>1, <2>4, <2>5 DEF ResponseOnlyWhileComplete
    <2> QED
      BY <2>6, <2>7
  <1> QED
    BY <1>4, <1>5

\* Every step keeps the inductive invariant.
LEMMA IInvStep == IInv /\ [Next]_vars => IInv'
  <1> SUFFICES ASSUME IInv, [Next]_vars
               PROVE  IInv'
    OBVIOUS
  <1>1. TypeOK' /\ CallJustified'
    BY NextType, CallJustifiedStep DEF IInv
  <1>2. ASSUME NEW l \in Locality, NEW bit \in Ops, ClientSetsBit(l, bit)
        PROVE  ShownStateAgrees' /\ ResponseOnlyWhileComplete'
    <2>1. crb \in [Locality -> InternalCrb]
      BY DEF IInv, TypeOK
    <2>2. ASSUME NEW m \in Locality
          PROVE  /\ crb'[m].granted = crb[m].granted /\ crb'[m].idle = crb[m].idle
                 /\ crb'[m].buffer = crb[m].buffer
      BY <1>2, <2>1 DEF ClientSetsBit, InternalCrb
    <2> QED
      BY <1>2, <2>2 DEF ClientSetsBit, IInv, ShownStateAgrees, ResponseOnlyWhileComplete
  <1>3. ASSUME NEW l \in Locality, NEW c \in Commands, ClientFillsBuffer(l, c)
        PROVE  ShownStateAgrees' /\ ResponseOnlyWhileComplete'
    <2>1. "start" \in Ops
      BY DEF Ops, CommandOps
    <2> QED
      BY <1>3, <2>1, ShownClient
  <1>4. ASSUME NEW func, NEW arg \in LocalityArgs, StartRefused(func, arg)
        PROVE  ShownStateAgrees' /\ ResponseOnlyWhileComplete'
    BY <1>4, ShownCleaned DEF StartRefused
  <1>5. ASSUME NEW func, NEW arg \in LocalityArgs, StartForwarded(func, arg)
        PROVE  ShownStateAgrees' /\ ResponseOnlyWhileComplete'
    BY <1>5, ShownUnchanged DEF StartForwarded
  <1>6. ASSUME UNCHANGED svcVars
        PROVE  ShownStateAgrees' /\ ResponseOnlyWhileComplete'
    BY <1>6, ShownUnchanged DEF svcVars
  <1>7. ASSUME StartSucceeds
        PROVE  ShownStateAgrees' /\ ResponseOnlyWhileComplete'
    BY <1>7, ShownSuccess
  <1>8. ASSUME StartFails
        PROVE  ShownStateAgrees' /\ ResponseOnlyWhileComplete'
    BY <1>8, ShownCleaned DEF StartFails
  <1>9. ASSUME NEW source, NEW operation, NEW arg \in LocalityArgs,
               ManageLocalityHandler(source, operation, arg)
        PROVE  ShownStateAgrees' /\ ResponseOnlyWhileComplete'
    BY <1>9, ShownUnchanged DEF ManageLocalityHandler
  <1>10. ASSUME NEW opcode, AnswerOnly(opcode)
         PROVE  ShownStateAgrees' /\ ResponseOnlyWhileComplete'
    BY <1>10, ShownUnchanged DEF AnswerOnly
  <1>11. ASSUME UNCHANGED vars
         PROVE  ShownStateAgrees' /\ ResponseOnlyWhileComplete'
    BY <1>6, <1>11 DEF vars
  <1>12. ShownStateAgrees' /\ ResponseOnlyWhileComplete'
    BY <1>2, <1>3, <1>4, <1>5, <1>6, <1>7, <1>8, <1>9, <1>10, <1>11
       DEF Next, ClientStep, TpmServiceHandle, StartMessages, OtherMessages, StartHandler,
           HandlerStep
  <1> QED
    BY <1>1, <1>12 DEF IInv

\* TpmServiceInit establishes it.
LEMMA IInvInit == Init => IInv
  <1> SUFFICES ASSUME Init PROVE IInv
    OBVIOUS
  <1>1. TypeOK
    BY InitType
  <1>2. CallJustified
    BY DEF Init, TpmSstInit, NoCall, CallJustified, Calling
  <1>3. NO_ACTIVE_LOCALITY \notin Locality
    BY LocalityAssumption DEF Locality, NO_ACTIVE_LOCALITY
  <1>4. ASSUME NEW l \in Locality
        PROVE  /\ crb[l].granted = FALSE /\ crb[l].idle = TRUE
               /\ crb[l].buffer.kind = "zero" /\ l # mActiveLocality
    BY <1>3 DEF Init, InitInternalCrb, Zeroed
  <1> QED
    BY <1>1, <1>2, <1>4 DEF IInv, ShownStateAgrees, ResponseOnlyWhileComplete

\* The inductive invariant holds throughout.
LEMMA Invariance == Spec => []IInv
  BY IInvInit, IInvStep, PTL DEF Spec

\* For every number of localities: the CRB a client reads shows the locality and the
\* idle state the service acts on (HandleLocalityRequest, CleanInternalCrb).
THEOREM ShownStateCorrect == Spec => []ShownStateAgrees
  <1>1. IInv => ShownStateAgrees
    BY DEF IInv
  <1> QED
    BY Invariance, <1>1, PTL

\* For every number of localities: a response is readable only at the active locality
\* and only while COMPLETE (the SetMem of HandleCommand, InitInternalCrb).
THEOREM ResponseConfined == Spec => []ResponseOnlyWhileComplete
  <1>1. IInv => ResponseOnlyWhileComplete
    BY DEF IInv
  <1> QED
    BY Invariance, <1>1, PTL

-----------------------------------------------------------------------------
(***************************************************************************)
(* The refinement.                                                         *)
(***************************************************************************)

\* The only step that moves the abstract machine is the successful return of a call.
LEMMA OnlySuccessMoves ==
  ASSUME IInv, [Next]_vars
  PROVE  \/ UNCHANGED <<mCurrentState, mActiveLocality, mIsIdleBypassSupported>>
         \/ StartSucceeds
  <1>0. SstTypeOK
    BY DEF IInv, TypeOK
  <1>1. ASSUME ClientStep
        PROVE  UNCHANGED <<mCurrentState, mActiveLocality, mIsIdleBypassSupported>>
    BY <1>1 DEF ClientStep, ClientSetsBit, ClientFillsBuffer, sstVars
  <1>2. ASSUME StartMessages
        PROVE  UNCHANGED <<mCurrentState, mActiveLocality, mIsIdleBypassSupported>>
    BY <1>2 DEF StartMessages, StartHandler, StartRefused, StartForwarded, TpmSstBegin,
                sstVars
  <1>3. ASSUME OtherMessages
        PROVE  UNCHANGED <<mCurrentState, mActiveLocality, mIsIdleBypassSupported>>
    BY <1>3 DEF OtherMessages, ManageLocalityHandler, AnswerOnly, sstVars
  <1>4. ASSUME (SstNextLoop \/ SstYield \/ SstBurstFails \/ TpmStep) /\ UNCHANGED svcVars
        PROVE  UNCHANGED <<mCurrentState, mActiveLocality, mIsIdleBypassSupported>>
    BY <1>0, <1>4, CallGoesOn DEF svcVars
  <1>5. ASSUME StartFails
        PROVE  UNCHANGED <<mCurrentState, mActiveLocality, mIsIdleBypassSupported>>
    BY <1>5 DEF StartFails, TpmSstReturns
  <1>6. ASSUME UNCHANGED vars
        PROVE  UNCHANGED <<mCurrentState, mActiveLocality, mIsIdleBypassSupported>>
    BY <1>6 DEF vars, svcVars, sstVars
  <1> QED
    BY <1>1, <1>2, <1>3, <1>4, <1>5, <1>6 DEF Next, TpmServiceHandle, HandlerStep

\* That return is a step of the abstract machine: a move, or an answer without one.
LEMMA SuccessIsMachineStep ==
  ASSUME IInv, StartSucceeds
  PROVE  [Machine!Next]_(Machine!vars)
  <1>1. /\ CallJustified /\ Calling
        /\ mCurrentState \in TpmStates
        /\ mActiveLocality \in Locality \cup {NO_ACTIVE_LOCALITY}
        /\ sst.op \in Ops /\ sst.loc \in Locality
    BY DEF IInv, TypeOK, SstTypeOK, StartSucceeds, TpmSstReturns, Calling
  <1>2. /\ mCurrentState' = StateAfter(sst.op)
        /\ mActiveLocality' = ActiveAfter(sst.op)
        /\ mIsIdleBypassSupported' = mIsIdleBypassSupported
        /\ response' = "OK" /\ "OK" \in Statuses
    BY DEF StartSucceeds, TpmSstReturns, Statuses
  <1>3. CASE sst.op = "request"
    <2>1. mCurrentState' = mCurrentState /\ mActiveLocality' = sst.loc
      BY <1>2, <1>3 DEF StateAfter, ActiveAfter
    <2>2. mActiveLocality \in {NO_ACTIVE_LOCALITY, sst.loc}
      BY <1>1, <1>3 DEF CallJustified
    <2> QED
      BY <1>1, <1>2, <2>1, <2>2 DEF Machine!Next, Machine!Acquire, Machine!Answer
  <1>4. CASE sst.op = "relinquish"
    <2>1. mCurrentState' = mCurrentState /\ mActiveLocality' = NO_ACTIVE_LOCALITY
      BY <1>2, <1>4 DEF StateAfter, ActiveAfter
    <2>2. mActiveLocality \in Locality
      BY <1>1, <1>4 DEF CallJustified
    <2> QED
      BY <1>2, <2>1, <2>2 DEF Machine!Next, Machine!Relinquish
  <1>5. CASE sst.op \in CommandOps
    <2>1. /\ mActiveLocality' = mActiveLocality
          /\ mActiveLocality \in Locality
          /\ mCurrentState' = CASE sst.op = "cmdReady" -> "READY"
                                [] sst.op = "goIdle" -> "IDLE"
                                [] OTHER -> "COMPLETE"
      BY <1>1, <1>2, <1>5 DEF CallJustified, StateAfter, ActiveAfter, CommandOps
    <2>2. /\ mCurrentState = "IDLE" => sst.op = "cmdReady"
          /\ mCurrentState = "COMPLETE" => sst.op = "goIdle" \/ mIsIdleBypassSupported
      BY <1>1, <1>5 DEF CallJustified
    <2>3. \/ mCurrentState' = mCurrentState
          \/ <<mCurrentState, mCurrentState'>> \in
               {<<"IDLE", "READY">>, <<"READY", "IDLE">>, <<"READY", "COMPLETE">>,
                <<"COMPLETE", "IDLE">>}
          \/ mIsIdleBypassSupported /\ mCurrentState = "COMPLETE" /\ mCurrentState' = "READY"
      BY <1>1, <1>5, <2>1, <2>2 DEF CommandOps, TpmStates
    <2> QED
      BY <1>2, <2>1, <2>3 DEF Machine!Next, Machine!Move, Machine!Edges, Machine!Answer
  <1> QED
    BY <1>1, <1>3, <1>4, <1>5 DEF Ops, LocalityOps

\* The service, with its polls, give-ups and clients that write the shared CRBs at any
\* time, implements the machine that the Start ABI promises.
THEOREM Refinement == Spec => ImplementsMachine
  <1>1. Init => Machine!Init
    <2>1. Init => TypeOK
      BY InitType
    <2> QED
      BY <2>1 DEF Init, Machine!Init, TypeOK, SstTypeOK
  <1>2. IInv /\ [Next]_vars => [Machine!Next]_(Machine!vars)
    <2> SUFFICES ASSUME IInv, [Next]_vars
                 PROVE  [Machine!Next]_(Machine!vars)
      OBVIOUS
    <2>1. ASSUME UNCHANGED <<mCurrentState, mActiveLocality, mIsIdleBypassSupported>>
          PROVE  [Machine!Next]_(Machine!vars)
      <3>1. response' \in Statuses
        BY NextType DEF IInv, TypeOK
      <3> QED
        BY <2>1, <3>1 DEF Machine!Next, Machine!Answer
    <2> QED
      BY <2>1, OnlySuccessMoves, SuccessIsMachineStep
  <1> QED
    BY <1>1, <1>2, Invariance, PTL DEF Spec, ImplementsMachine, Machine!Spec

-----------------------------------------------------------------------------
(***************************************************************************)
(* Closed localities.                                                      *)
(***************************************************************************)

\* A request to the device is in progress only for an open locality.
CallIsOpen == Calling => mLocalityStates[sst.loc] = "OPEN"

\* StartHandler refuses a closed locality, and TF-A's message waits for the call to end.
LEMMA CallIsOpenStep == TypeOK /\ CallIsOpen /\ [Next]_vars => CallIsOpen'
  <1> SUFFICES ASSUME TypeOK, CallIsOpen, [Next]_vars
               PROVE  CallIsOpen'
    OBVIOUS
  <1>0. SstTypeOK
    BY DEF TypeOK
  <1>1. CASE ClientStep
    BY <1>1 DEF ClientStep, ClientSetsBit, ClientFillsBuffer, sstVars, CallIsOpen, Calling
  <1>2. CASE OtherMessages
    BY <1>2 DEF OtherMessages, ManageLocalityHandler, AnswerOnly, sstVars, CallIsOpen, Calling
  <1>3. ASSUME NEW func, NEW arg \in LocalityArgs, StartRefused(func, arg)
        PROVE  CallIsOpen'
    BY <1>3 DEF StartRefused, sstVars, CallIsOpen, Calling
  <1>4. ASSUME NEW func, NEW arg \in LocalityArgs, StartForwarded(func, arg)
        PROVE  CallIsOpen'
    <2>1. /\ sst'.loc = Truncated(arg) /\ UNCHANGED mLocalityStates
          /\ StartDecision(func, Truncated(arg)) # "refuse"
      BY <1>4 DEF StartForwarded, TpmSstBegin
    <2>2. Truncated(arg) \in Locality
      BY <1>4, DecisionType, TruncatedType DEF StartForwarded
    <2>3. mLocalityStates[Truncated(arg)] # "CLOSED"
      BY <2>1 DEF StartDecision
    <2>4. mLocalityStates[Truncated(arg)] \in {"OPEN", "CLOSED"}
      BY <2>2 DEF TypeOK
    <2> QED
      BY <2>1, <2>3, <2>4 DEF CallIsOpen
  <1>5. CASE (SstNextLoop \/ SstYield \/ SstBurstFails \/ TpmStep) /\ UNCHANGED svcVars
    BY <1>0, <1>5, CallGoesOn DEF CallIsOpen, Calling, svcVars
  <1>6. CASE StartSucceeds \/ StartFails
    <2>1. sst' = NoCall
      BY <1>6 DEF StartSucceeds, StartFails, TpmSstReturns
    <2>2. sst'.op = "none"
      BY <2>1 DEF NoCall
    <2> QED
      BY <2>2 DEF CallIsOpen, Calling
  <1>7. CASE UNCHANGED vars
    BY <1>7 DEF vars, svcVars, sstVars, CallIsOpen, Calling
  <1> QED
    BY <1>1, <1>2, <1>3, <1>4, <1>5, <1>6, <1>7
       DEF Next, TpmServiceHandle, StartMessages, StartHandler, HandlerStep

\* While the active locality is closed no call is in progress: it would be a call of that
\* locality.
LEMMA ClosedIdle ==
  ASSUME IInv, CallIsOpen, mActiveLocality # NO_ACTIVE_LOCALITY,
         mLocalityStates[mActiveLocality] = "CLOSED"
  PROVE  ~Calling
  <1> SUFFICES ASSUME Calling PROVE FALSE
    OBVIOUS
  <1>1. sst.op \in Ops /\ sst.loc # mActiveLocality
    BY DEF IInv, TypeOK, SstTypeOK, Calling, CallIsOpen
  <1>2. CallJustified
    BY DEF IInv
  <1> QED
    BY <1>1, <1>2 DEF CallJustified, Ops, CommandOps, LocalityOps

\* No message of any client gets the service out of that state.
THEOREM ClosedLocalityStandsStill == Spec => ClosedLocalityFrozen
  <1> DEFINE A == /\ mActiveLocality # NO_ACTIVE_LOCALITY
                    /\ mLocalityStates[mActiveLocality] = "CLOSED"
                    => UNCHANGED <<mCurrentState, mActiveLocality>> /\ ~Calling /\ ~Calling'
  <1>1. Init => CallIsOpen
    BY DEF Init, TpmSstInit, NoCall, CallIsOpen, Calling
  <1>2. IInv /\ CallIsOpen /\ [Next]_vars => CallIsOpen' /\ [A]_vars
    <2> SUFFICES ASSUME IInv, CallIsOpen, [Next]_vars
                 PROVE  CallIsOpen' /\ A
      OBVIOUS
    <2>1. CallIsOpen'
      BY CallIsOpenStep DEF IInv
    <2>2. ASSUME mActiveLocality # NO_ACTIVE_LOCALITY,
                 mLocalityStates[mActiveLocality] = "CLOSED"
          PROVE  UNCHANGED <<mCurrentState, mActiveLocality>> /\ ~Calling /\ ~Calling'
      <3>1. ~Calling
        BY <2>2, ClosedIdle
      <3>2. UNCHANGED <<mCurrentState, mActiveLocality>>
        BY <3>1, OnlySuccessMoves DEF StartSucceeds, TpmSstReturns
      <3>3. ASSUME NEW func, NEW arg \in LocalityArgs, StartForwarded(func, arg)
            PROVE  FALSE
        <4> DEFINE l == Truncated(arg)
        <4>1. l \in Nat /\ StartDecision(func, l) # "refuse"
          BY <3>3, TruncatedType DEF StartForwarded
        <4>2. l # mActiveLocality
          BY <2>2, <4>1 DEF StartDecision
        <4>3. HandleLocalityRequest(l) = "refuse"
          BY <2>2, <4>2 DEF HandleLocalityRequest
        <4> QED
          BY <4>1, <4>2, <4>3 DEF StartDecision
      <3>4. ~Calling'
        <4>1. CASE UNCHANGED sst
          BY <3>1, <4>1 DEF Calling
        <4>2. CASE HandlerStep
          BY <3>1, <4>2 DEF HandlerStep, SstNextLoop, SstYield, SstBurstFails, StartSucceeds,
                            StartFails, TpmSstReturns
        <4>3. CASE ClientStep \/ OtherMessages \/ UNCHANGED vars
          BY <4>1, <4>3 DEF ClientStep, ClientSetsBit, ClientFillsBuffer, OtherMessages,
                            ManageLocalityHandler, AnswerOnly, vars, sstVars
        <4>4. CASE StartMessages
          BY <3>3, <4>1, <4>4 DEF StartMessages, StartHandler, StartRefused, sstVars
        <4>5. CASE TpmStep /\ UNCHANGED svcVars
          BY <3>1, <4>5, CallGoesOn DEF IInv, TypeOK, Calling
        <4> QED
          BY <4>2, <4>3, <4>4, <4>5 DEF Next, TpmServiceHandle
      <3> QED
        BY <3>1, <3>2, <3>4
    <2> QED
      BY <2>1, <2>2
  <1> QED
    BY <1>1, <1>2, Invariance, PTL DEF Spec, ClosedLocalityFrozen

-----------------------------------------------------------------------------
(***************************************************************************)
(* The device and the service.  As long as no poll loop has given up, the  *)
(* device's phase, locality and buffer are determined by the call in       *)
(* progress and by whether the device has acted on its register write.     *)
(***************************************************************************)

\* The device has not acted on the write of the call in progress.
Pending == <<sst.op, sst.loc>> \in tpm.pend

\* The phase the device is in when the service is in its current state.
PhaseAgrees ==
  tpm.phase \in CASE mCurrentState = "IDLE" -> IF mIsCrbInterface THEN {"idle"}
                                               ELSE {"idle", "ready"}
                  [] mCurrentState = "READY" -> {"ready"}
                  [] OTHER -> {"complete"}

\* The device has executed the command of the call in progress.
Executed == tpm.phase = "complete" /\ tpm.data = ResponseTo(sst.data)

\* TpmSstLocalityRequest and TpmSstLocalityRelinquish.
LocalityUnderWay ==
  /\ PhaseAgrees
  /\ \/ /\ sst.op = "request" /\ sst.stage = "grant"
        /\ tpm.loc = IF Pending THEN NO_ACTIVE_LOCALITY ELSE sst.loc
     \/ /\ sst.op = "relinquish" /\ sst.stage = "release"
        /\ tpm.loc = IF Pending THEN sst.loc ELSE NO_ACTIVE_LOCALITY

\* TpmSstCmdReady and TpmSstGoIdle on a CRB device.
CrbChangeUnderWay ==
  /\ tpm.loc = sst.loc
  /\ sst.stage \in {"accept", "settle"}
  /\ IF Pending THEN PhaseAgrees /\ sst.stage = "accept"
     ELSE tpm.phase \in IF sst.op = "cmdReady" THEN {"toReady", "ready"}
                                               ELSE {"toIdle", "idle"}

\* The same on a FIFO device, which becomes ready at once and only ever ready.
FifoChangeUnderWay ==
  /\ tpm.loc = sst.loc
  /\ sst.stage = "ready"
  /\ tpm.phase \in {"idle", "ready", "complete"}
  /\ Pending <=> tpm.phase # "ready"

\* TpmSstStart: a CRB device has the command and the go bit from the beginning, a FIFO
\* device gets them loop by loop.
StartUnderWay ==
  /\ tpm.loc = sst.loc
  /\ \/ sst.stage = "burst" /\ ~Pending /\ ~mIsCrbInterface
     \/ /\ sst.stage = "expect" /\ ~Pending /\ ~mIsCrbInterface
        /\ tpm.phase = "ready" /\ tpm.data = sst.data
     \/ /\ sst.stage = "exec" /\ Pending
        /\ tpm.data = sst.data
        /\ IF mIsCrbInterface THEN Executes ELSE tpm.phase = "ready"
     \/ sst.stage = "exec" /\ ~Pending /\ Executed
     \/ sst.stage = "drain" /\ ~Pending /\ Executed /\ ~mIsCrbInterface

\* Where the device is in the course of a call.
UnderWay ==
  /\ tpm.pend \subseteq {<<sst.op, sst.loc>>}
  /\ sst.op \in LocalityOps => LocalityUnderWay
  /\ sst.op \in {"cmdReady", "goIdle"} /\ mIsCrbInterface => CrbChangeUnderWay
  /\ sst.op \in {"cmdReady", "goIdle"} /\ ~mIsCrbInterface => FifoChangeUnderWay
  /\ sst.op = "start" => StartUnderWay

\* Where the device is between two calls.
AtRest == tpm.pend = {} /\ tpm.loc = mActiveLocality /\ PhaseAgrees

\* The device follows the service.
DeviceFollows == giveUps = 0 => IF Calling THEN UnderWay ELSE AtRest

\* What the invariant says of the types, in the words the steps below use.
LEMMA CallTypes ==
  ASSUME SstTypeOK
  PROVE  /\ tpm \in Device
         /\ sst.op \in Ops \cup {"none"} /\ sst.loc \in Locality
         /\ sst.loc # NO_ACTIVE_LOCALITY
         /\ mIsCrbInterface \in BOOLEAN
BY LocalityAssumption DEF SstTypeOK, Device, Locality, NO_ACTIVE_LOCALITY

\* A step that leaves the library alone, the state and the active locality too, keeps
\* the device where it is.
LEMMA FollowsUnchanged ==
  ASSUME DeviceFollows, UNCHANGED <<sstVars, mCurrentState, mActiveLocality>>
  PROVE  DeviceFollows'
  <1>1. UNCHANGED <<tpm, sst, giveUps, mIsCrbInterface, mIsIdleBypassSupported,
                    mCurrentState, mActiveLocality>>
    BY DEF sstVars
  <1>2. UNCHANGED <<Pending, PhaseAgrees, Executed, Executes>>
    BY <1>1 DEF Pending, PhaseAgrees, Executed, Executes
  <1>3. UNCHANGED <<LocalityUnderWay, CrbChangeUnderWay, FifoChangeUnderWay, StartUnderWay>>
    BY <1>1, <1>2, Zenon DEF LocalityUnderWay, CrbChangeUnderWay, FifoChangeUnderWay,
                             StartUnderWay
  <1>4. UNCHANGED <<UnderWay, AtRest, Calling>>
    BY <1>1, <1>2, <1>3, Zenon DEF UnderWay, AtRest, Calling
  <1> QED
    BY <1>1, <1>4 DEF DeviceFollows

\* What a register write leaves pending.
LEMMA WrittenFields ==
  ASSUME NEW d \in Device, NEW op \in Ops, NEW l \in Locality
  PROVE  /\ Written(d, op, l).phase = d.phase
         /\ Written(d, op, l).loc = d.loc
         /\ Written(d, op, l).data = d.data
         /\ Written(d, op, l).pend = IF NothingToDo(op, l) THEN d.pend
                                     ELSE d.pend \cup {<<op, l>>}
BY DEF Written, Device

\* A call that begins finds the device at rest (TpmSstBegin).
LEMMA FollowsBegin ==
  ASSUME IInv, AtRest, NEW func, NEW arg \in LocalityArgs, StartForwarded(func, arg),
         CallJustified'
  PROVE  UnderWay'
  <1> DEFINE l == Truncated(arg)
             op == StartDecision(func, l)
  <1>1. op \in Ops /\ l \in Locality
    BY DecisionType, TruncatedType DEF StartForwarded
  <1>2. /\ SstTypeOK /\ crb[l].buffer \in Buffer /\ mCurrentState \in TpmStates
        /\ tpm \in Device
    BY <1>1, CallTypes DEF IInv, TypeOK, InternalCrb
  <1>3. /\ sst'.op = op /\ sst'.loc = l /\ sst'.stage = FirstStage(op)
        /\ sst'.data = IF op = "start" THEN crb[l].buffer ELSE Zeroed
        /\ UNCHANGED <<mCurrentState, mActiveLocality, mIsCrbInterface,
                       mIsIdleBypassSupported>>
    BY DEF StartForwarded, TpmSstBegin
  <1>4. tpm' = IF op # "start" THEN Written(tpm, op, l)
               ELSE IF mIsCrbInterface
                    THEN Written([tpm EXCEPT !.data = crb[l].buffer], op, l)
                    ELSE tpm
    BY DEF StartForwarded, TpmSstBegin
  <1> HIDE DEF l, op
  <1>5. tpm.pend = {} /\ tpm.loc = mActiveLocality /\ PhaseAgrees
    BY DEF AtRest
  <1>6. /\ op \in CommandOps \cup {"relinquish"} => l = mActiveLocality
        /\ op = "request" => mActiveLocality \in {NO_ACTIVE_LOCALITY, l}
        /\ op \in CommandOps /\ mCurrentState = "IDLE" => op = "cmdReady"
        /\ op \in CommandOps /\ mCurrentState = "COMPLETE"
             => op = "goIdle" \/ mIsIdleBypassSupported
    <2>1. Calling'
      BY <1>1, <1>3 DEF Calling, Ops, CommandOps, LocalityOps
    <2> QED
      BY <1>3, <2>1 DEF CallJustified
  <1> DEFINE d == [tpm EXCEPT !.data = crb[l].buffer]
  <1>a. /\ d \in Device /\ d.phase = tpm.phase /\ d.loc = tpm.loc /\ d.pend = tpm.pend
        /\ d.data = crb[l].buffer
    BY <1>2 DEF Device
  <1>b. \/ op # "start" /\ tpm' = Written(tpm, op, l)
        \/ op = "start" /\ mIsCrbInterface /\ tpm' = Written(d, op, l)
        \/ op = "start" /\ ~mIsCrbInterface /\ tpm' = tpm
    BY <1>4
  <1> HIDE DEF d
  <1>c. /\ Written(tpm, op, l).phase = tpm.phase /\ Written(tpm, op, l).loc = tpm.loc
        /\ Written(tpm, op, l).pend = IF NothingToDo(op, l) THEN {} ELSE {<<op, l>>}
    BY <1>1, <1>2, <1>5, WrittenFields, Zenon
  <1>d. /\ Written(d, op, l).phase = tpm.phase /\ Written(d, op, l).loc = tpm.loc
        /\ Written(d, op, l).pend = IF NothingToDo(op, l) THEN {} ELSE {<<op, l>>}
        /\ Written(d, op, l).data = crb[l].buffer
    <2>1. /\ Written(d, op, l).phase = d.phase /\ Written(d, op, l).loc = d.loc
          /\ Written(d, op, l).pend = IF NothingToDo(op, l) THEN d.pend
                                      ELSE d.pend \cup {<<op, l>>}
          /\ Written(d, op, l).data = d.data
      BY <1>1, <1>a, WrittenFields, Zenon
    <2> QED
      BY <1>5, <1>a, <2>1
  <1>7. tpm'.phase = tpm.phase /\ tpm'.loc = tpm.loc
    BY <1>b, <1>c, <1>d
  <1>8. PhaseAgrees'
    BY <1>3, <1>5, <1>7 DEF PhaseAgrees
  <1>9. ASSUME op # "start" \/ mIsCrbInterface
        PROVE  /\ tpm'.pend = IF NothingToDo(op, l) THEN {} ELSE {<<op, l>>}
               /\ op = "start" => tpm'.data = sst'.data
    BY <1>3, <1>9, <1>b, <1>c, <1>d
  <1>10. l # NO_ACTIVE_LOCALITY
    BY <1>1, LocalityAssumption DEF Locality, NO_ACTIVE_LOCALITY
  <1>11. CASE op \in LocalityOps
    <2>1. /\ tpm'.pend = IF NothingToDo(op, l) THEN {} ELSE {<<op, l>>}
          /\ Pending' <=> ~NothingToDo(op, l)
      BY <1>3, <1>9, <1>11 DEF Pending, LocalityOps
    <2>2. LocalityUnderWay'
      BY <1>3, <1>5, <1>6, <1>7, <1>8, <1>10, <1>11, <2>1
         DEF LocalityUnderWay, LocalityOps, NothingToDo, FirstStage, CommandOps
    <2>3. tpm'.pend \subseteq {<<op, l>>}
      BY <2>1
    <2> QED
      BY <1>3, <1>11, <2>2, <2>3 DEF UnderWay, LocalityOps
  <1>12. CASE op \in {"cmdReady", "goIdle"} /\ mIsCrbInterface
    <2>1. tpm'.pend = {<<op, l>>} /\ Pending'
      BY <1>3, <1>9, <1>12 DEF Pending, NothingToDo
    <2>2. CrbChangeUnderWay'
      BY <1>3, <1>5, <1>6, <1>7, <1>8, <1>12, <2>1
         DEF CrbChangeUnderWay, FirstStage, CommandOps
    <2> QED
      BY <1>3, <1>12, <2>1, <2>2 DEF UnderWay, LocalityOps
  <1>13. CASE op \in {"cmdReady", "goIdle"} /\ ~mIsCrbInterface
    <2>1. /\ tpm'.pend = IF tpm.phase = "ready" THEN {} ELSE {<<op, l>>}
          /\ Pending' <=> tpm.phase # "ready"
      BY <1>3, <1>9, <1>13 DEF Pending, NothingToDo
    <2>a. tpm.phase \in {"idle", "ready", "complete"}
      BY <1>5, <1>13 DEF PhaseAgrees
    <2>2. FifoChangeUnderWay'
      BY <1>3, <1>5, <1>6, <1>7, <1>13, <2>1, <2>a
         DEF FifoChangeUnderWay, FirstStage, CommandOps
    <2>3. tpm'.pend \subseteq {<<op, l>>}
      BY <2>1
    <2> QED
      BY <1>3, <1>13, <2>2, <2>3 DEF UnderWay, LocalityOps
  <1>14. CASE op = "start" /\ mIsCrbInterface
    <2>1. tpm'.pend = {<<op, l>>} /\ Pending' /\ tpm'.data = sst'.data
      BY <1>3, <1>9, <1>14 DEF Pending, NothingToDo
    <2>2. mCurrentState # "IDLE" /\ (mCurrentState = "COMPLETE" => mIsIdleBypassSupported)
      BY <1>6, <1>14 DEF CommandOps
    <2>3. Executes'
      BY <1>2, <1>3, <1>5, <1>7, <2>2 DEF Executes, PhaseAgrees, TpmStates
    <2>4. StartUnderWay'
      BY <1>3, <1>5, <1>6, <1>7, <1>14, <2>1, <2>3
         DEF StartUnderWay, FirstStage, CommandOps
    <2> QED
      BY <1>3, <1>14, <2>1, <2>4 DEF UnderWay, LocalityOps
  <1>15. CASE op = "start" /\ ~mIsCrbInterface
    <2>1. tpm'.pend = {} /\ ~Pending'
      BY <1>4, <1>5, <1>15 DEF Pending
    <2>2. StartUnderWay'
      BY <1>3, <1>5, <1>6, <1>7, <1>15, <2>1 DEF StartUnderWay, FirstStage, CommandOps
    <2>3. tpm'.pend \subseteq {<<op, l>>}
      BY <2>1
    <2> QED
      BY <1>3, <1>15, <2>2, <2>3 DEF UnderWay, LocalityOps
  <1>16. mIsCrbInterface \in BOOLEAN
    BY <1>2, CallTypes
  <1> QED
    BY <1>1, <1>11, <1>12, <1>13, <1>14, <1>15, <1>16 DEF Ops, CommandOps, LocalityOps

\* A yield changes only the time counted (ArmFfaLibYield).
LEMMA FollowsYield ==
  ASSUME SstTypeOK, UnderWay, SstYield, UNCHANGED svcVars
  PROVE  UnderWay'
  <1>1. /\ sst'.op = sst.op /\ sst'.loc = sst.loc /\ sst'.stage = sst.stage
        /\ sst'.data = sst.data
        /\ UNCHANGED <<tpm, mIsCrbInterface, mIsIdleBypassSupported, mCurrentState>>
    BY DEF SstYield, SstTypeOK, svcVars
  <1>2. UNCHANGED <<Pending, PhaseAgrees, Executed, Executes>>
    BY <1>1 DEF Pending, PhaseAgrees, Executed, Executes, ResponseTo
  <1>3. UNCHANGED <<LocalityUnderWay, CrbChangeUnderWay, FifoChangeUnderWay, StartUnderWay>>
    BY <1>1, <1>2, Zenon DEF LocalityUnderWay, CrbChangeUnderWay, FifoChangeUnderWay,
                             StartUnderWay
  <1> QED
    BY <1>1, <1>3, Zenon DEF UnderWay

\* A loop that found its bits leads to the next loop of the same call (CopyCommandData,
\* StartCommand).
LEMMA FollowsLoop ==
  ASSUME SstTypeOK, UnderWay, SstNextLoop, UNCHANGED svcVars
  PROVE  UnderWay'
  <1>1. /\ sst'.op = sst.op /\ sst'.loc = sst.loc /\ sst'.stage = NextStage(sst.stage)
        /\ sst'.data = sst.data
        /\ UNCHANGED <<mIsCrbInterface, mIsIdleBypassSupported, mCurrentState>>
    BY DEF SstNextLoop, SstTypeOK, svcVars
  <1>2. /\ tpm \in Device /\ sst.op \in Ops /\ sst.loc \in Locality
        /\ mIsCrbInterface \in BOOLEAN
    BY CallTypes DEF SstNextLoop, Calling
  <1>3. NextStage(sst.stage) # "none" /\ PollFinds(TRUE)
    BY DEF SstNextLoop
  <1>4. sst.op \notin LocalityOps
    BY <1>3 DEF UnderWay, LocalityUnderWay, NextStage
  <1>5. ASSUME sst.op \in {"cmdReady", "goIdle"}
        PROVE  UnderWay'
    <2>1. mIsCrbInterface /\ CrbChangeUnderWay
      BY <1>2, <1>3, <1>5 DEF UnderWay, FifoChangeUnderWay, NextStage
    <2>2. sst.stage = "accept"
      BY <1>3, <2>1 DEF CrbChangeUnderWay, NextStage
    <2>3. sst'.stage = "settle" /\ tpm' = tpm
      BY <1>1, <2>2 DEF SstNextLoop, NextStage
    <2>4. ~Pending /\ ~Pending'
      BY <1>1, <1>3, <2>2, <2>3 DEF PollFinds, BurstStage, WaitRegisterBits, Pending
    <2>5. CrbChangeUnderWay'
      BY <1>1, <2>1, <2>3, <2>4 DEF CrbChangeUnderWay
    <2> QED
      BY <1>1, <1>5, <2>1, <2>3, <2>5 DEF UnderWay, LocalityOps
  <1>6. ASSUME sst.op = "start"
        PROVE  UnderWay'
    <2>1. StartUnderWay
      BY <1>6 DEF UnderWay
    <2>2. CASE sst.stage = "burst"
      <3>1. /\ tpm' = [tpm EXCEPT !.data = sst.data, !.expect = FALSE, !.phase = "ready"]
            /\ sst'.stage = "expect" /\ ~mIsCrbInterface /\ ~Pending /\ tpm.loc = sst.loc
        BY <1>1, <2>1, <2>2 DEF SstNextLoop, NextStage, StartUnderWay
      <3>2. /\ tpm'.data = sst.data /\ tpm'.phase = "ready" /\ tpm'.pend = tpm.pend
            /\ tpm'.loc = tpm.loc
        BY <1>2, <3>1 DEF Device
      <3>3. ~Pending'
        BY <1>1, <3>1, <3>2 DEF Pending
      <3>4. StartUnderWay'
        BY <1>1, <3>1, <3>2, <3>3 DEF StartUnderWay
      <3> QED
        BY <1>1, <1>6, <3>2, <3>4 DEF UnderWay, LocalityOps
    <2>3. CASE sst.stage = "expect"
      <3>1. /\ tpm' = Written(tpm, "start", sst.loc)
            /\ sst'.stage = "exec" /\ ~mIsCrbInterface /\ ~Pending /\ tpm.loc = sst.loc
            /\ tpm.phase = "ready" /\ tpm.data = sst.data
        BY <1>1, <2>1, <2>3 DEF SstNextLoop, NextStage, StartUnderWay
      <3>2. "start" \in Ops /\ ~NothingToDo("start", sst.loc)
        BY DEF Ops, CommandOps, NothingToDo
      <3>3. /\ tpm'.data = sst.data /\ tpm'.phase = "ready" /\ tpm'.loc = tpm.loc
            /\ tpm'.pend = tpm.pend \cup {<<"start", sst.loc>>}
        BY <1>2, <3>1, <3>2, WrittenFields, Zenon
      <3>4. Pending' /\ tpm'.pend \subseteq {<<sst.op, sst.loc>>}
        BY <1>1, <1>6, <3>3 DEF Pending, UnderWay
      <3>5. StartUnderWay'
        BY <1>1, <3>1, <3>3, <3>4 DEF StartUnderWay
      <3> QED
        BY <1>1, <1>6, <3>4, <3>5 DEF UnderWay, LocalityOps
    <2>4. CASE sst.stage = "exec"
      <3>1. sst'.stage = "drain" /\ ~mIsCrbInterface /\ tpm' = tpm /\ tpm.loc = sst.loc
        BY <1>1, <1>3, <2>1, <2>4 DEF SstNextLoop, NextStage, StartUnderWay
      <3>2. tpm.phase = "complete"
        BY <1>3, <2>4, <3>1 DEF PollFinds, BurstStage, WaitRegisterBits
      <3>3. ~Pending /\ Executed
        BY <2>1, <2>4, <3>1, <3>2 DEF StartUnderWay
      <3>4. ~Pending' /\ Executed'
        BY <1>1, <3>1, <3>3 DEF Pending, Executed, ResponseTo
      <3>5. StartUnderWay'
        BY <1>1, <3>1, <3>4 DEF StartUnderWay
      <3> QED
        BY <1>1, <1>6, <3>1, <3>5 DEF UnderWay, LocalityOps
    <2>5. sst.stage # "drain"
      BY <1>3 DEF NextStage
    <2> QED
      BY <2>1, <2>2, <2>3, <2>4, <2>5 DEF StartUnderWay
  <1> QED
    BY <1>2, <1>4, <1>5, <1>6 DEF Ops, CommandOps

\* A device at rest has nothing to do.
LEMMA RestingDevice ==
  ASSUME SstTypeOK, AtRest, mCurrentState \in TpmStates
  PROVE  ~TpmStep
  <1>1. tpm.pend = {} /\ tpm.phase \notin {"toReady", "toIdle"}
    BY DEF AtRest, PhaseAgrees
  <1> QED
    BY <1>1 DEF TpmStep, TpmActsOnCommand, TpmSettles, TpmActsOnLocality

\* The device acts on the write of the call in progress: a change of state or a command.
LEMMA FollowsCommandWrite ==
  ASSUME SstTypeOK, mCurrentState \in TpmStates, UnderWay, Calling, TpmActsOnCommand,
         UNCHANGED svcVars
  PROVE  UnderWay'
  <1>1. UNCHANGED <<sst, mIsCrbInterface, mIsIdleBypassSupported, mCurrentState>>
    BY DEF TpmActsOnCommand, svcVars
  <1>2. tpm \in Device /\ sst.op \in Ops /\ sst.loc \in Locality /\ mIsCrbInterface \in BOOLEAN
    BY CallTypes DEF Calling
  <1> DEFINE d == [tpm EXCEPT !.pend = @ \ {<<sst.op, sst.loc>>}]
             e == [d EXCEPT !.phase = PhaseAfter(sst.op),
                            !.data = IF sst.op = "start" THEN ResponseTo(@) ELSE Zeroed]
  <1>3. PICK op \in CommandOps, l \in Locality :
          /\ <<op, l>> \in tpm.pend
          /\ LET f == [tpm EXCEPT !.pend = @ \ {<<op, l>>}]
             IN  tpm' = IF tpm.loc # l \/ (op = "start" /\ ~Executes)
                        THEN f
                        ELSE [f EXCEPT !.phase = PhaseAfter(op),
                                       !.data = IF op = "start" THEN ResponseTo(@)
                                                ELSE Zeroed]
    BY DEF TpmActsOnCommand
  <1>4. op = sst.op /\ l = sst.loc /\ Pending /\ tpm.pend \subseteq {<<sst.op, sst.loc>>}
    BY <1>3 DEF UnderWay, Pending
  <1>5. sst.op \in CommandOps /\ tpm.loc = sst.loc
    BY <1>2, <1>3, <1>4 DEF UnderWay, CrbChangeUnderWay, FifoChangeUnderWay, StartUnderWay,
                            CommandOps
  <1>6. sst.op = "start" => Executes
    BY <1>4 DEF UnderWay, StartUnderWay, Executes
  <1>7. tpm' = e
    BY <1>3, <1>4, <1>5, <1>6
  <1>8. /\ tpm'.phase = PhaseAfter(sst.op) /\ tpm'.loc = sst.loc
        /\ tpm'.data = IF sst.op = "start" THEN ResponseTo(tpm.data) ELSE Zeroed
        /\ tpm'.pend = tpm.pend \ {<<sst.op, sst.loc>>}
    BY <1>2, <1>5, <1>7 DEF Device
  <1>9. ~Pending' /\ tpm'.pend \subseteq {<<sst.op, sst.loc>>}
    BY <1>1, <1>4, <1>8 DEF Pending
  <1>10. CASE sst.op \in {"cmdReady", "goIdle"} /\ mIsCrbInterface
    <2>1. CrbChangeUnderWay /\ PhaseAgrees
      BY <1>4, <1>10 DEF UnderWay, CrbChangeUnderWay
    <2>2. tpm.phase \in {"idle", "ready", "complete"}
      BY <1>10, <2>1 DEF PhaseAgrees
    <2>3. tpm'.phase \in IF sst.op = "cmdReady" THEN {"toReady", "ready"} ELSE {"toIdle", "idle"}
      BY <1>8, <1>10, <2>2 DEF PhaseAfter
    <2>4. CrbChangeUnderWay'
      BY <1>1, <1>8, <1>9, <2>1, <2>3 DEF CrbChangeUnderWay
    <2> QED
      BY <1>1, <1>9, <1>10, <2>4 DEF UnderWay, LocalityOps
  <1>11. CASE sst.op \in {"cmdReady", "goIdle"} /\ ~mIsCrbInterface
    <2>1. tpm'.phase = "ready"
      BY <1>8, <1>11 DEF PhaseAfter
    <2>2. FifoChangeUnderWay'
      BY <1>1, <1>8, <1>9, <1>11, <2>1 DEF UnderWay, FifoChangeUnderWay
    <2> QED
      BY <1>1, <1>9, <1>11, <2>2 DEF UnderWay, LocalityOps
  <1>12. CASE sst.op = "start"
    <2>1. sst.stage = "exec" /\ tpm.data = sst.data
      BY <1>4, <1>12 DEF UnderWay, StartUnderWay
    <2>2. Executed'
      BY <1>1, <1>8, <1>12, <2>1 DEF Executed, PhaseAfter, ResponseTo
    <2>3. StartUnderWay'
      BY <1>1, <1>8, <1>9, <2>1, <2>2 DEF StartUnderWay
    <2> QED
      BY <1>1, <1>9, <1>12, <2>3 DEF UnderWay, LocalityOps
  <1> QED
    BY <1>2, <1>5, <1>10, <1>11, <1>12 DEF CommandOps

\* The device grants or takes back the locality of the call in progress.
LEMMA FollowsLocalityWrite ==
  ASSUME SstTypeOK, UnderWay, Calling, TpmActsOnLocality, UNCHANGED svcVars
  PROVE  UnderWay'
  <1>1. UNCHANGED <<sst, mIsCrbInterface, mIsIdleBypassSupported, mCurrentState>>
    BY DEF TpmActsOnLocality, svcVars
  <1>2. tpm \in Device /\ sst.loc # NO_ACTIVE_LOCALITY
    BY CallTypes
  <1>3. PICK l \in Locality :
          \/ /\ <<"request", l>> \in tpm.pend
             /\ tpm' = [tpm EXCEPT !.loc = l, !.pend = @ \ {<<"request", l>>}]
          \/ /\ <<"relinquish", l>> \in tpm.pend
             /\ tpm' = [tpm EXCEPT !.loc = IF @ = l THEN NO_ACTIVE_LOCALITY ELSE @,
                                   !.pend = @ \ {<<"relinquish", l>>}]
    BY DEF TpmActsOnLocality
  <1>4. l = sst.loc /\ sst.op \in LocalityOps /\ Pending
    BY <1>3 DEF UnderWay, Pending, LocalityOps
  <1>5. LocalityUnderWay
    BY <1>4 DEF UnderWay
  <1>6. \/ /\ sst.op = "request"
           /\ tpm' = [tpm EXCEPT !.loc = l, !.pend = @ \ {<<"request", l>>}]
        \/ /\ sst.op = "relinquish"
           /\ tpm' = [tpm EXCEPT !.loc = IF @ = l THEN NO_ACTIVE_LOCALITY ELSE @,
                                 !.pend = @ \ {<<"relinquish", l>>}]
    BY <1>3 DEF UnderWay
  <1>7. /\ tpm'.phase = tpm.phase
        /\ tpm'.pend = tpm.pend \ {<<sst.op, sst.loc>>}
        /\ sst.op = "request" => tpm'.loc = sst.loc
        /\ sst.op = "relinquish" => tpm'.loc = IF tpm.loc = sst.loc THEN NO_ACTIVE_LOCALITY
                                               ELSE tpm.loc
    BY <1>2, <1>4, <1>6 DEF Device
  <1>8. ~Pending' /\ tpm'.pend \subseteq {<<sst.op, sst.loc>>}
    BY <1>1, <1>7 DEF Pending, UnderWay
  <1>9. PhaseAgrees'
    BY <1>1, <1>5, <1>7 DEF LocalityUnderWay, PhaseAgrees
  <1>10. LocalityUnderWay'
    BY <1>1, <1>4, <1>5, <1>7, <1>8, <1>9 DEF LocalityUnderWay
  <1> QED
    BY <1>1, <1>4, <1>8, <1>10 DEF UnderWay, LocalityOps

\* The device's idle status follows (TpmSettles).
LEMMA FollowsSettling ==
  ASSUME SstTypeOK, mCurrentState \in TpmStates, UnderWay, Calling, TpmSettles,
         UNCHANGED svcVars
  PROVE  UnderWay'
  <1>1. UNCHANGED <<sst, mIsCrbInterface, mIsIdleBypassSupported, mCurrentState>>
    BY DEF TpmSettles, svcVars
  <1>2. tpm \in Device /\ sst.op \in Ops /\ mIsCrbInterface \in BOOLEAN
    BY CallTypes DEF Calling
  <1>3. /\ tpm.phase \in {"toReady", "toIdle"}
        /\ tpm'.phase = IF tpm.phase = "toReady" THEN "ready" ELSE "idle"
        /\ tpm'.pend = tpm.pend /\ tpm'.loc = tpm.loc /\ tpm'.data = tpm.data
    BY <1>2 DEF TpmSettles, Device
  <1>4. ~PhaseAgrees
    BY <1>3 DEF PhaseAgrees
  <1>5. Pending' = Pending
    BY <1>1, <1>3 DEF Pending
  <1>6. sst.op \notin LocalityOps
    BY <1>4 DEF UnderWay, LocalityUnderWay
  <1>7. CASE sst.op \in {"cmdReady", "goIdle"} /\ mIsCrbInterface
    <2>1. CrbChangeUnderWay /\ ~Pending
      BY <1>4, <1>7 DEF UnderWay, CrbChangeUnderWay
    <2>2. CrbChangeUnderWay'
      BY <1>1, <1>3, <1>5, <2>1 DEF CrbChangeUnderWay
    <2> QED
      BY <1>1, <1>3, <1>7, <2>2 DEF UnderWay, LocalityOps
  <1>8. CASE sst.op \in {"cmdReady", "goIdle"} /\ ~mIsCrbInterface
    BY <1>3, <1>8 DEF UnderWay, FifoChangeUnderWay
  <1>9. CASE sst.op = "start"
    <2>1. StartUnderWay /\ sst.stage = "burst"
      BY <1>3, <1>9 DEF UnderWay, StartUnderWay, Executes, Executed
    <2>2. StartUnderWay'
      BY <1>1, <1>3, <1>5, <2>1 DEF StartUnderWay
    <2> QED
      BY <1>1, <1>3, <1>9, <2>2 DEF UnderWay, LocalityOps
  <1> QED
    BY <1>2, <1>6, <1>7, <1>8, <1>9 DEF Ops, CommandOps

\* A call that succeeds leaves the device at rest in the state it stands for.
LEMMA FollowsSuccess ==
  ASSUME IInv, UnderWay, StartSucceeds
  PROVE  AtRest' /\ (sst.op = "start" => tpm.data = ResponseTo(sst.data))
  <1>1. /\ SstTypeOK /\ CallJustified /\ Calling /\ mCurrentState \in TpmStates
        /\ PollFinds(TRUE) /\ NextStage(sst.stage) = "none"
    BY DEF IInv, TypeOK, StartSucceeds, TpmSstReturns
  <1>2. /\ sst.op \in Ops /\ sst.loc \in Locality /\ mIsCrbInterface \in BOOLEAN
        /\ sst.loc # NO_ACTIVE_LOCALITY
    BY <1>1, CallTypes DEF Calling
  <1>3. /\ mCurrentState' = StateAfter(sst.op) /\ mActiveLocality' = ActiveAfter(sst.op)
        /\ UNCHANGED <<tpm, mIsCrbInterface>>
    BY DEF StartSucceeds, TpmSstReturns
  <1>4. sst.op \in CommandOps => sst.loc = mActiveLocality
    BY <1>1 DEF CallJustified
  <1>5. tpm.pend = {} <=> ~Pending
    BY DEF UnderWay, Pending
  <1>6. CASE sst.op \in LocalityOps
    <2>1. LocalityUnderWay
      BY <1>6 DEF UnderWay
    <2>2. tpm.loc = ActiveAfter(sst.op) /\ ~Pending
      BY <1>1, <1>2, <2>1
         DEF LocalityUnderWay, PollFinds, BurstStage, WaitRegisterBits, ActiveAfter
    <2>3. mCurrentState' = mCurrentState
      BY <1>3, <1>6 DEF StateAfter, LocalityOps
    <2>4. PhaseAgrees'
      BY <1>3, <2>1, <2>3 DEF PhaseAgrees, LocalityUnderWay
    <2> QED
      BY <1>3, <1>5, <1>6, <2>2, <2>4 DEF AtRest, LocalityOps
  <1>7. CASE sst.op \in {"cmdReady", "goIdle"} /\ mIsCrbInterface
    <2>1. CrbChangeUnderWay /\ sst.stage = "settle"
      BY <1>1, <1>7 DEF UnderWay, CrbChangeUnderWay, NextStage
    <2>2. ~Pending /\ tpm.loc = sst.loc
      BY <2>1 DEF CrbChangeUnderWay
    <2>3. (sst.op = "goIdle") = TpmIdleBit
      BY <1>1, <2>1 DEF PollFinds, BurstStage, WaitRegisterBits
    <2>4. tpm.phase = IF sst.op = "cmdReady" THEN "ready" ELSE "idle"
      BY <1>7, <2>1, <2>2, <2>3 DEF CrbChangeUnderWay, TpmIdleBit
    <2>5. mCurrentState' = IF sst.op = "cmdReady" THEN "READY" ELSE "IDLE"
      BY <1>3, <1>7 DEF StateAfter
    <2>6. PhaseAgrees' /\ mActiveLocality' = mActiveLocality
      BY <1>3, <1>7, <2>4, <2>5 DEF PhaseAgrees, ActiveAfter
    <2> QED
      BY <1>3, <1>4, <1>5, <1>7, <2>2, <2>6 DEF AtRest, CommandOps
  <1>8. CASE sst.op \in {"cmdReady", "goIdle"} /\ ~mIsCrbInterface
    <2>1. FifoChangeUnderWay
      BY <1>8 DEF UnderWay
    <2>2. tpm.phase = "ready" /\ ~Pending /\ tpm.loc = sst.loc
      BY <1>1, <2>1 DEF FifoChangeUnderWay, PollFinds, BurstStage, WaitRegisterBits
    <2>3. mCurrentState' = IF sst.op = "cmdReady" THEN "READY" ELSE "IDLE"
      BY <1>3, <1>8 DEF StateAfter
    <2>4. PhaseAgrees' /\ mActiveLocality' = mActiveLocality
      BY <1>3, <1>8, <2>2, <2>3 DEF PhaseAgrees, ActiveAfter
    <2> QED
      BY <1>3, <1>4, <1>5, <1>8, <2>2, <2>4 DEF AtRest, CommandOps
  <1>9. CASE sst.op = "start"
    <2>1. StartUnderWay
      BY <1>9 DEF UnderWay
    <2>2. Executed /\ ~Pending /\ tpm.loc = sst.loc
      <3>1. \/ sst.stage = "exec" /\ mIsCrbInterface
            \/ sst.stage = "drain"
        BY <1>1, <2>1 DEF StartUnderWay, NextStage
      <3>2. sst.stage = "exec" => ~Pending
        BY <1>1, <1>9, <3>1 DEF PollFinds, BurstStage, WaitRegisterBits, Pending
      <3> QED
        BY <2>1, <3>1, <3>2 DEF StartUnderWay
    <2>3. mCurrentState' = "COMPLETE" /\ mActiveLocality' = mActiveLocality
      BY <1>3, <1>9 DEF StateAfter, ActiveAfter
    <2>4. PhaseAgrees'
      BY <1>3, <2>2, <2>3 DEF PhaseAgrees, Executed
    <2> QED
      BY <1>3, <1>4, <1>5, <1>9, <2>2, <2>3, <2>4 DEF AtRest, CommandOps, Executed
  <1> QED
    BY <1>2, <1>6, <1>7, <1>8, <1>9 DEF Ops, CommandOps

\* The device follows the service through every step.
LEMMA DeviceFollowsStep == IInv /\ IInv' /\ DeviceFollows /\ [Next]_vars => DeviceFollows'
  <1> SUFFICES ASSUME IInv, IInv', DeviceFollows, [Next]_vars, giveUps' = 0
               PROVE  IF Calling' THEN UnderWay' ELSE AtRest'
    BY DEF DeviceFollows
  <1>0. SstTypeOK /\ giveUps \in Nat /\ mCurrentState \in TpmStates
    BY DEF IInv, TypeOK, SstTypeOK
  <1>1. ASSUME UNCHANGED <<sstVars, mCurrentState, mActiveLocality>>
        PROVE  IF Calling' THEN UnderWay' ELSE AtRest'
    BY <1>1, FollowsUnchanged DEF DeviceFollows
  <1>2. ASSUME NEW func, NEW arg \in LocalityArgs, StartForwarded(func, arg)
        PROVE  IF Calling' THEN UnderWay' ELSE AtRest'
    <2>1. giveUps = 0 /\ ~Calling
      BY <1>2 DEF StartForwarded, TpmSstBegin
    <2>2. UnderWay'
      BY <1>2, <2>1, FollowsBegin DEF DeviceFollows, IInv
    <2>3. Calling'
      <3>1. StartDecision(func, Truncated(arg)) \in Ops
        BY <1>2, DecisionType, TruncatedType DEF StartForwarded
      <3>2. sst'.op = StartDecision(func, Truncated(arg))
        BY <1>2 DEF StartForwarded, TpmSstBegin
      <3> QED
        BY <3>1, <3>2 DEF Calling, Ops, CommandOps, LocalityOps
    <2> QED
      BY <2>2, <2>3
  <1>3. ASSUME SstNextLoop \/ SstYield, UNCHANGED svcVars
        PROVE  IF Calling' THEN UnderWay' ELSE AtRest'
    <2>1. giveUps = 0 /\ Calling
      BY <1>3 DEF SstNextLoop, SstYield
    <2>2. UnderWay'
      BY <1>0, <1>3, <2>1, FollowsLoop, FollowsYield DEF DeviceFollows
    <2>3. Calling'
      BY <1>0, <1>3, <2>1, CallGoesOn DEF Calling
    <2> QED
      BY <2>2, <2>3
  <1>4. ~SstBurstFails /\ ~StartFails
    <2>1. SstBurstFails \/ StartFails => giveUps' = giveUps + 1
      BY DEF SstBurstFails, StartFails, TpmSstReturns
    <2> QED
      BY <1>0, <2>1
  <1>5. ASSUME StartSucceeds
        PROVE  IF Calling' THEN UnderWay' ELSE AtRest'
    <2>1. giveUps = 0 /\ Calling
      BY <1>5 DEF StartSucceeds, TpmSstReturns
    <2>2. AtRest'
      BY <1>5, <2>1, FollowsSuccess DEF DeviceFollows
    <2>3. ~Calling'
      BY <1>5 DEF StartSucceeds, TpmSstReturns, Calling, NoCall
    <2> QED
      BY <2>2, <2>3
  <1>6. ASSUME TpmStep, UNCHANGED svcVars
        PROVE  IF Calling' THEN UnderWay' ELSE AtRest'
    <2>1. giveUps = 0 /\ sst' = sst
      BY <1>6 DEF TpmStep, TpmActsOnCommand, TpmSettles, TpmActsOnLocality
    <2>2. Calling /\ Calling' /\ UnderWay
      BY <1>0, <1>6, <2>1, RestingDevice DEF DeviceFollows, Calling
    <2> QED
      BY <1>0, <1>6, <2>2, FollowsCommandWrite, FollowsLocalityWrite, FollowsSettling
         DEF TpmStep
  <1>7. ASSUME ClientStep \/ OtherMessages \/ UNCHANGED vars
        PROVE  UNCHANGED <<sstVars, mCurrentState, mActiveLocality>>
    BY <1>7 DEF ClientStep, ClientSetsBit, ClientFillsBuffer, OtherMessages,
                ManageLocalityHandler, AnswerOnly, vars, svcVars
  <1>8. ASSUME NEW func, NEW arg \in LocalityArgs, StartRefused(func, arg)
        PROVE  UNCHANGED <<sstVars, mCurrentState, mActiveLocality>>
    BY <1>8 DEF StartRefused
  <1> QED
    BY <1>1, <1>2, <1>3, <1>4, <1>5, <1>6, <1>7, <1>8
       DEF Next, TpmServiceHandle, StartMessages, StartHandler, HandlerStep

\* The strengthened invariant holds of every reachable state.
LEMMA DeviceFollowsService == Spec => [](IInv /\ DeviceFollows)
  <1>1. Init => DeviceFollows
    BY DEF Init, TpmSstInit, DeviceFollows, Calling, NoCall, AtRest, PhaseAgrees
  <1> QED
    BY <1>1, Invariance, DeviceFollowsStep, PTL DEF Spec

\* As long as no poll loop has given up, the device is between messages where the
\* service believes it to be: whatever clients write and whenever the device reacts.
THEOREM DeviceAgrees == Spec => []TpmAgrees
  <1>1. IInv /\ DeviceFollows => TpmAgrees
    BY DEF DeviceFollows, TpmAgrees, AtRest, PhaseAgrees
  <1> QED
    BY <1>1, DeviceFollowsService, PTL

\* A call that returns leaves no register write for the device to act on later, and no call
\* is in progress for a closed locality, as long as no poll loop has given up.
THEOREM DeviceHasNothingLeft == Spec => []NoWriteLeftBehind
  <1>1. IInv /\ DeviceFollows /\ CallIsOpen => NoWriteLeftBehind
    <2> SUFFICES ASSUME DeviceFollows, CallIsOpen, giveUps = 0, NEW w \in tpm.pend
                 PROVE  Calling /\ w = <<sst.op, sst.loc>> /\ mLocalityStates[w[2]] = "OPEN"
      BY DEF NoWriteLeftBehind
    <2>1. Calling /\ w = <<sst.op, sst.loc>>
      BY DEF DeviceFollows, UnderWay, AtRest
    <2> QED
      BY <2>1 DEF CallIsOpen
  <1>2. Init => CallIsOpen
    BY DEF Init, TpmSstInit, NoCall, CallIsOpen, Calling
  <1>3. Spec => []CallIsOpen
    BY <1>2, TypeCorrect, CallIsOpenStep, PTL DEF Spec
  <1> QED
    BY <1>1, <1>3, DeviceFollowsService, PTL

\* Cleaning the active CRB leaves every data buffer alone (CleanInternalCrb).
LEMMA CleanKeepsBuffers ==
  ASSUME NEW crbs \in [Locality -> InternalCrb],
         NEW active \in Locality \cup {NO_ACTIVE_LOCALITY}, NEW state, NEW l \in Locality
  PROVE  CleanInternalCrb(crbs, active, state)[l].buffer = crbs[l].buffer
  <1>1. CASE active = NO_ACTIVE_LOCALITY
    BY <1>1 DEF CleanInternalCrb
  <1>2. CASE active # NO_ACTIVE_LOCALITY /\ l = active
    BY <1>2 DEF CleanInternalCrb
  <1>3. CASE active # NO_ACTIVE_LOCALITY /\ l # active
    BY <1>3 DEF CleanInternalCrb
  <1> QED
    BY <1>1, <1>2, <1>3

\* As long as no poll loop has given up, a start that succeeds answers the command that
\* was in the buffer when the message arrived.
THEOREM ResponseAnswersCommand == Spec => ResponseIsForCommand
  <1> DEFINE A == sst.op = "start" /\ ~Calling' /\ response' = "OK" /\ giveUps = 0
                    => crb'[sst.loc].buffer = ResponseTo(sst.data)
  <1>1. IInv /\ DeviceFollows /\ [Next]_vars => [A]_vars
    <2> SUFFICES ASSUME IInv, DeviceFollows, [Next]_vars, sst.op = "start", ~Calling',
                        response' = "OK", giveUps = 0
                 PROVE  crb'[sst.loc].buffer = ResponseTo(sst.data)
      OBVIOUS
    <2>0. SstTypeOK /\ Calling
      BY DEF IInv, TypeOK, Calling
    <2>1. StartSucceeds
      <3>1. ~ClientStep /\ ~(UNCHANGED vars)
        BY <2>0 DEF ClientStep, ClientSetsBit, ClientFillsBuffer, vars, sstVars, Calling
      <3>2. ~TpmServiceHandle
        BY <2>0 DEF TpmServiceHandle, StartMessages, OtherMessages, StartHandler,
                    StartRefused, StartForwarded, ManageLocalityHandler, AnswerOnly
      <3>3. ~SstNextLoop /\ ~SstYield /\ ~SstBurstFails /\ ~TpmStep
        BY <2>0, CallGoesOn DEF Calling
      <3>4. ~StartFails
        BY DEF StartFails
      <3> QED
        BY <3>1, <3>2, <3>3, <3>4 DEF Next, HandlerStep
    <2>2. tpm.data = ResponseTo(sst.data)
      BY <2>0, <2>1, FollowsSuccess DEF DeviceFollows
    <2>3. /\ sst.loc \in Locality /\ crb \in [Locality -> InternalCrb]
          /\ "start" \in Ops /\ TypeOK
      BY <2>0, CallTypes DEF IInv, TypeOK, Ops, CommandOps
    <2>4. ActiveAfter("start") \in Locality \cup {NO_ACTIVE_LOCALITY}
      BY <2>3 DEF ActiveAfter, TypeOK
    <2> DEFINE crbs == [crb EXCEPT ![sst.loc] = CrbAfter("start", sst.loc)]
    <2>5. crb' = CleanInternalCrb(crbs, ActiveAfter("start"), StateAfter("start"))
      BY <2>1 DEF StartSucceeds
    <2>6. CrbAfter("start", sst.loc) \in InternalCrb
      BY <2>3, CrbAfterType
    <2>7. crbs \in [Locality -> InternalCrb] /\ crbs[sst.loc] = CrbAfter("start", sst.loc)
      BY <2>3, <2>6
    <2> HIDE DEF crbs
    <2>8. crb'[sst.loc].buffer = crbs[sst.loc].buffer
      BY <2>3, <2>4, <2>5, <2>7, CleanKeepsBuffers
    <2>9. CrbAfter("start", sst.loc).buffer = tpm.data
      BY <2>3 DEF CrbAfter, CopyResponseData, LocalityOps, InternalCrb
    <2> QED
      BY <2>2, <2>7, <2>8, <2>9
  <1> QED
    BY <1>1, DeviceFollowsService, PTL DEF Spec, ResponseIsForCommand
=============================================================================
