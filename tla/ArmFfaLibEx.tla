---------------------------- MODULE ArmFfaLibEx ----------------------------
(***************************************************************************)
(* ArmFfaLibEx: what its calls put into the registers of an SVC or SMC and *)
(* what they make of the registers that come back.                         *)
(*                                                                         *)
(* A register is a function from the numbers of its fields (bytes of a     *)
(* GUID or UUID, fields of a notification mapping, or 0 for a plain value) *)
(* to values.  Bitmaps are sets of bit numbers; two IDs that share Arg1    *)
(* are the pair <<upper half, lower half>>.                                *)
(***************************************************************************)
EXTENDS Integers

CONSTANT UINT32_BITS  \* 32 in the code: half of a 64-bit value

ASSUME HalfAssumption == UINT32_BITS \in Nat \ {0}

INVALID_SOURCE_ID == 65535

Args == 0 .. 13        \* Arg0 to Arg13 of a message
Regs == 2 .. 17        \* Arg2 to Arg17 of a call
GuidBytes == 0 .. 15
Low32 == 0 .. (UINT32_BITS - 1)

Scalar(n) == [i \in {0} |-> n]
ZeroReg == Scalar(0)
ZeroGuid == [i \in GuidBytes |-> 0]

\* The message kinds that carry six arguments and no GUID.
RequestsV1 == {"REQ32", "REQ64"}
ResponsesV1 == {"RESP32", "RESP64"}

-----------------------------------------------------------------------------
(***************************************************************************)
(* Direct messages.                                                        *)
(***************************************************************************)

\* Where byte i of a prepared GUID comes from: the first four bytes are reversed, then
\* two pairs.
SwappedByte(i) == CASE i < 4 -> 3 - i
                    [] i \in {4, 6} -> i + 1
                    [] i \in {5, 7} -> i - 1
                    [] OTHER -> i

FfaPrepareGuid(guid) == [i \in GuidBytes |-> guid[SwappedByte(i)]]

\* A GUID in two registers.
GuidLow(guid) == [i \in 0 .. 7 |-> guid[i]]
GuidHigh(guid) == [i \in 0 .. 7 |-> guid[i + 8]]
GuidOf(low, high) == [i \in GuidBytes |-> IF i < 8 THEN low[i] ELSE high[i - 8]]

DirectMsg(fid, source, dest, guid, arg) ==
  [fid |-> fid, source |-> source, dest |-> dest, guid |-> guid, arg |-> arg]

\* A GUID is a function on its sixteen bytes; a message is what DirectMsg builds.
IsGuid(guid) == guid = [i \in GuidBytes |-> guid[i]]
IsMessage(m) ==
  /\ m = DirectMsg(m.fid, m.source, m.dest, m.guid, m.arg)
  /\ IsGuid(m.guid)
  /\ m.arg = [a \in Args |-> m.arg[a]]

\* The message a call that returns no request leaves: all zero but the function ID.
NoRequestMessage(fid) == DirectMsg(fid, 0, 0, ZeroGuid, [a \in Args |-> ZeroReg])

\* Registers the message does not use are zero: the caller's Request starts as { 0 }.
FfaPackDirectMessage(m) ==
  LET guid == FfaPrepareGuid(m.guid) IN
  [fid |-> m.fid,
   arg1 |-> <<m.source, m.dest>>,
   x |-> [r \in Regs |->
            IF m.fid \in RequestsV1 \cup ResponsesV1
            THEN IF r <= 7 THEN m.arg[r - 2] ELSE ZeroReg
            ELSE CASE r = 2 -> GuidLow(guid) [] r = 3 -> GuidHigh(guid) [] OTHER -> m.arg[r - 4]]]

\* Fault variant: the arguments of a version 1 message are taken from the registers of
\* the others.
UnpackOneLayout(call, m) ==
  DirectMsg(call.fid, call.arg1[1], call.arg1[2],
            IF call.fid \in RequestsV1 THEN m.guid
                                       ELSE FfaPrepareGuid(GuidOf(call.x[2], call.x[3])),
            [a \in Args |-> IF call.fid \in RequestsV1 /\ a > 5 THEN m.arg[a] ELSE call.x[a + 4]])

\* m is what the buffer held before: a version 1 request leaves its GUID and Arg6 to
\* Arg13 in place.
FfaUnpackDirectMessage(call, m) ==
  IF call.fid \in RequestsV1
  THEN DirectMsg(call.fid, call.arg1[1], call.arg1[2], m.guid,
                 [a \in Args |-> IF a <= 5 THEN call.x[a + 2] ELSE m.arg[a]])
  ELSE DirectMsg(call.fid, call.arg1[1], call.arg1[2],
                 FfaPrepareGuid(GuidOf(call.x[2], call.x[3])), [a \in Args |-> call.x[a + 4]])

-----------------------------------------------------------------------------
(***************************************************************************)
(* The other calls.                                                        *)
(***************************************************************************)

\* Fault variant: a lookup that fails leaves zero in mPartitionId.
SourceIdZeroed(mPartitionId, own, found) ==
  IF mPartitionId = INVALID_SOURCE_ID THEN (IF found THEN own ELSE 0) ELSE mPartitionId

\* The source of a call: mPartitionId, looked up first while it is not known (found
\* tells whether ArmFfaLibPartitionIdGet succeeds).
SourceId(mPartitionId, own, found) ==
  IF mPartitionId = INVALID_SOURCE_ID /\ found THEN own ELSE mPartitionId

\* A 64-bit value in two 32-bit registers, and back.
LowHalf(bits) == bits \cap Low32
HighHalf(bits) == {b \in Low32 : b + UINT32_BITS \in bits}
Whole(low, high) == low \cup {b + UINT32_BITS : b \in high}

\* Fault variant: the halves of the bitmap change places.
NotificationSetHalvesSwapped(id, dest, bits) ==
  [arg1 |-> <<id, dest>>, arg3 |-> HighHalf(bits), arg4 |-> LowHalf(bits)]

FfaNotificationSet(id, dest, bits) ==
  [arg1 |-> <<id, dest>>, arg3 |-> LowHalf(bits), arg4 |-> HighHalf(bits)]

FfaNotificationBind(id, dest, bits) ==
  [arg1 |-> <<dest, id>>, arg3 |-> LowHalf(bits), arg4 |-> HighHalf(bits)]

\* The bitmap of the flags given, from the six registers of the result.
FfaNotificationGet(flags, result) ==
  CASE flags = "SP"  -> Whole(result[2], result[3])
    [] flags = "VM"  -> Whole(result[4], result[5])
    [] flags = "HYP" -> Whole(result[6], result[7])

\* FfaMemDonate, FfaMemLend and FfaMemShare build the handle from Arg2 and Arg3;
\* FfaMemReclaim passes it back in Arg1 and Arg2.
MemHandle(result) == Whole(result[2], result[3])
FfaMemReclaim(handle) == [r \in 1 .. 2 |-> IF r = 1 THEN LowHalf(handle) ELSE HighHalf(handle)]

\* The answer of the SPMC to FfaPartitionInfoGetRegs lists found partitions; room is the
\* caller's *PartDescCount.
FfaPartitionInfoGetRegs(found, room) ==
  CASE found = 0 -> "NOT_FOUND"
    [] found > room -> "BUFFER_TOO_SMALL"
    [] OTHER -> "SUCCESS"
=============================================================================
