------------------------ MODULE NotificationService ------------------------
(***************************************************************************)
(* NotificationServiceLib and its caller TestServiceLib: clients register  *)
(* cookie/ID mappings under a service UUID; the test service then raises   *)
(* the notification of a cookie.  IDs are bits of one global bitmask.      *)
(*                                                                         *)
(* A request carries several mappings.  UpdateServiceInfo handles them one *)
(* after the other and stores each one before it looks at the next, so the *)
(* loop is modelled by one step per mapping; the partition serves no other *)
(* message meanwhile.                                                      *)
(***************************************************************************)
EXTENDS Integers, Sequences, FiniteSets

CONSTANTS
  NOTIFICATION_MAX_SERVICES,  \* 16 in the code
  NOTIFICATION_MAX_MAPPINGS,  \* 64 in the code
  MAPPING_MAX,                \* 7 in the code
  INT_BITS,                   \* width of the int that 1 << Id is computed in (32)
  WORD_BYTES,                 \* bytes of a register, and of a pointer (8)
  BYTE,                       \* values of a byte (256)
  Cookies, Ids, Sources,      \* the fields of mappings and requests
  Mappings,                   \* the mappings clients send
  Counts,                     \* values of Arg6, the number of mappings
  UuidWords,                  \* the <<low, high>> register pairs of UUIDs in use
  MsgInfos                    \* values of Arg5

\* A register, as its bytes by significance.
Word == [0 .. (WORD_BYTES - 1) -> 0 .. (BYTE - 1)]

ASSUME SizeAssumption ==
  /\ NOTIFICATION_MAX_SERVICES \in Nat \ {0}
  /\ INT_BITS \in Nat \ {0}
  /\ NOTIFICATION_MAX_MAPPINGS \in Nat /\ NOTIFICATION_MAX_MAPPINGS >= INT_BITS
  /\ MAPPING_MAX \in Nat
ASSUME ByteAssumption == WORD_BYTES \in Nat \ {0} /\ BYTE \in Nat \ {0}
ASSUME MessageAssumption ==
  /\ Cookies \subseteq Nat /\ Ids \subseteq Nat /\ Sources \subseteq Nat
  /\ Mappings \subseteq [cookie : Cookies, id : Ids, perVcpu : BOOLEAN]
  /\ Counts \subseteq Nat /\ MsgInfos \subseteq Nat
  /\ UuidWords \subseteq Word \X Word

VARIABLES
  GlobalBitmask,  \* the bits of the registered IDs
  ServiceUuid,    \* the fields of NotificationServices, slot by slot
  ServiceInfo,
  InUse,
  call,           \* the register or unregister request being handled
  reply,          \* the status of the last message, "none" while one is due
  notified        \* the FfaNotificationSet calls made for the last message

tables == <<GlobalBitmask, ServiceUuid, ServiceInfo, InUse>>
vars == <<tables, call, reply, notified>>

MAPPING_MIN == 1
NOTIFICATION_NOT_FOUND == -1
Slots == 0 .. (NOTIFICATION_MAX_SERVICES - 1)
Indices == 0 .. (NOTIFICATION_MAX_MAPPINGS - 1)
Uuids == [0 .. (2 * WORD_BYTES - 1) -> 0 .. (BYTE - 1)]

NotifInfo == [cookie : Cookies \cup {0}, id : Ids \cup {0}, perVcpu : BOOLEAN,
              source : Sources \cup {0}, inUse : BOOLEAN]
Cleared == [cookie |-> 0, id |-> 0, perVcpu |-> FALSE, source |-> 0, inUse |-> FALSE]

ZeroUuid == [i \in 0 .. (2 * WORD_BYTES - 1) |-> 0]
NoRequest == [op |-> "none", slot |-> 0, uuid |-> ZeroUuid, source |-> 0,
              maps |-> << >>, index |-> 1]
Busy == call.op # "none"

Statuses == {"SUCCESS", "NOT_SUPPORTED", "INVALID_PARAMETER", "NO_MEM"}

TypeOK ==
  /\ GlobalBitmask \subseteq 0 .. (2 * INT_BITS - 1)
  /\ ServiceUuid \in [Slots -> Uuids]
  /\ ServiceInfo \in [Slots -> [Indices -> NotifInfo]]
  /\ InUse \in [Slots -> BOOLEAN]
  /\ call \in [op : {"REGISTER", "UNREGISTER", "none"}, slot : Slots, uuid : Uuids,
               source : Sources \cup {0}, maps : Seq(Mappings), index : 1 .. (MAPPING_MAX + 1)]
  /\ Len(call.maps) <= MAPPING_MAX /\ call.index <= Len(call.maps) + 1
  /\ reply \in Statuses \cup {"none"}
  /\ notified \subseteq [cookie : Cookies, dest : Sources \cup {0}, perVcpu : BOOLEAN,
                         bits : SUBSET (0 .. (2 * INT_BITS - 1))]

\* NotificationServiceInit.
Init ==
  /\ GlobalBitmask = {}
  /\ ServiceUuid = [s \in Slots |-> ZeroUuid]
  /\ ServiceInfo = [s \in Slots |-> [i \in Indices |-> Cleared]]
  /\ InUse = [s \in Slots |-> FALSE]
  /\ call = NoRequest
  /\ reply = "none"
  /\ notified = {}

-----------------------------------------------------------------------------
(***************************************************************************)
(* Helpers.                                                                *)
(***************************************************************************)

First(S) == IF S = {} THEN NOTIFICATION_NOT_FOUND
            ELSE CHOOSE i \in S : \A j \in S : i <= j

\* The UUID's bytes from the two words of a message, the most significant byte of the
\* high word first.
NotificationServiceExtractUuid(lo, hi) ==
  [i \in 0 .. (2 * WORD_BYTES - 1) |->
     IF i < WORD_BYTES THEN hi[WORD_BYTES - 1 - i] ELSE lo[2 * WORD_BYTES - 1 - i]]

\* CompareMem over sizeof (Uuid) bytes, where Uuid is a pointer.
SameUuid(u, v) == \A i \in 0 .. (WORD_BYTES - 1) : u[i] = v[i]

\* Fault variant: the search for an empty slot does not stop at the first.
LocateServiceNoBreak(uuid, locateEmpty) ==
  LET S == {s \in Slots : IF locateEmpty THEN ~InUse[s]
                                         ELSE InUse[s] /\ SameUuid(uuid, ServiceUuid[s])}
  IN IF S = {} THEN NOTIFICATION_NOT_FOUND ELSE CHOOSE i \in S : \A j \in S : j <= i

LocateService(uuid, locateEmpty) ==
  First({s \in Slots : IF locateEmpty THEN ~InUse[s]
                                      ELSE InUse[s] /\ SameUuid(uuid, ServiceUuid[s])})

IsMatchingCookie(cookie, s) ==
  First({i \in Indices : ServiceInfo[s][i].inUse /\ ServiceInfo[s][i].cookie = cookie})

\* Fault variant: the search does not look at InUse.
EmptyIndexAlwaysFirst(s) == 0

EmptyIndex(s) == First({i \in Indices : ~ServiceInfo[s][i].inUse})

\* 1 << Id as a UINT64: the int shift takes the count modulo the width (AArch64 LSLV;
\* the count is not checked, and one of the width or more is undefined in C), and the
\* sign bit is extended to the upper half.
IdBits(id) == LET b == id % INT_BITS
              IN IF b = INT_BITS - 1 THEN b .. (2 * INT_BITS - 1) ELSE {b}

-----------------------------------------------------------------------------
(***************************************************************************)
(* Register and unregister requests.                                       *)
(***************************************************************************)

Answer(status) ==
  /\ reply' = status
  /\ call' = NoRequest

\* Fault variant: one mapping more than the registers hold is accepted.
ValidCountOffByOne(n) == n \in MAPPING_MIN .. (MAPPING_MAX + 1)

ValidCount(n) == n \in MAPPING_MIN .. MAPPING_MAX

\* Entering UpdateServiceInfo: the count in Arg6 is cut to a UINT8 and checked.
BeginUpdate(op, s, uuid, source, count, maps) ==
  IF ValidCount(count % 256)
  THEN /\ Len(maps) = count % 256
       /\ call' = [op |-> op, slot |-> s, uuid |-> uuid, source |-> source,
                   maps |-> maps, index |-> 1]
       /\ reply' = "none"
  ELSE Answer("INVALID_PARAMETER")

\* Fault variant: the UUID is not looked up among the known services.
RegisterHandlerNoLookup(uuid, source, count, maps) ==
  LET s == LocateService(uuid, TRUE)
  IN IF s = NOTIFICATION_NOT_FOUND THEN Answer("NO_MEM")
     ELSE BeginUpdate("REGISTER", s, uuid, source, count, maps)

\* A UUID that is not known takes the first slot that is not in use.
RegisterHandler(uuid, source, count, maps) ==
  LET known == LocateService(uuid, FALSE)
      s == IF known # NOTIFICATION_NOT_FOUND THEN known ELSE LocateService(uuid, TRUE)
  IN IF s = NOTIFICATION_NOT_FOUND THEN Answer("NO_MEM")
     ELSE BeginUpdate("REGISTER", s, uuid, source, count, maps)

UnregisterHandler(uuid, source, count, maps) ==
  LET s == LocateService(uuid, FALSE)
  IN IF s = NOTIFICATION_NOT_FOUND THEN Answer("INVALID_PARAMETER")
     ELSE BeginUpdate("UNREGISTER", s, uuid, source, count, maps)

\* The opcode is two bits of Arg5; adding and removing services is not supported.
NotificationServiceHandle(arg5, words, source, count, maps) ==
  LET uuid == NotificationServiceExtractUuid(words[1], words[2]) IN
  /\ ~Busy
  /\ CASE arg5 % 4 = 2 -> RegisterHandler(uuid, source, count, maps)
       [] arg5 % 4 = 3 -> UnregisterHandler(uuid, source, count, maps)
       [] OTHER -> Answer("NOT_SUPPORTED")
  /\ notified' = {}
  /\ UNCHANGED tables

\* The mapping the loop of UpdateServiceInfo is at, and what it finds of its cookie.
Mapping == call.maps[call.index]
FoundIndex == IsMatchingCookie(Mapping.cookie, call.slot)
InLoop == Busy /\ call.index <= Len(call.maps)

\* Fault variant: anybody may unregister a mapping.
UnregisterStatusNoSourceCheck ==
  IF FoundIndex = NOTIFICATION_NOT_FOUND THEN "INVALID_PARAMETER"
  ELSE IF ServiceInfo[call.slot][FoundIndex].id # Mapping.id THEN "INVALID_PARAMETER"
  ELSE "SUCCESS"

UnregisterStatus ==
  IF FoundIndex = NOTIFICATION_NOT_FOUND THEN "INVALID_PARAMETER"
  ELSE LET info == ServiceInfo[call.slot][FoundIndex]
       IN IF info.id # Mapping.id \/ info.source # call.source
          THEN "INVALID_PARAMETER" ELSE "SUCCESS"

\* Fault variant: the bitmask is not consulted.
RegisterStatusNoBitCheck ==
  IF FoundIndex # NOTIFICATION_NOT_FOUND THEN "INVALID_PARAMETER"
  ELSE IF EmptyIndex(call.slot) = NOTIFICATION_NOT_FOUND THEN "NO_MEM" ELSE "SUCCESS"

RegisterStatus ==
  IF FoundIndex # NOTIFICATION_NOT_FOUND THEN "INVALID_PARAMETER"
  ELSE IF GlobalBitmask \cap IdBits(Mapping.id) # {} THEN "INVALID_PARAMETER"
  ELSE IF EmptyIndex(call.slot) = NOTIFICATION_NOT_FOUND THEN "NO_MEM" ELSE "SUCCESS"

Stored(i, info) ==
  /\ ServiceInfo' = [ServiceInfo EXCEPT ![call.slot] = [@ EXCEPT ![i] = info]]
  /\ call' = [call EXCEPT !.index = @ + 1]
  /\ UNCHANGED <<ServiceUuid, InUse, reply, notified>>

\* Fault variants: a field of the freed entry is not cleared.
UnregisterMappingKeepsCookie ==
  /\ InLoop /\ call.op = "UNREGISTER"
  /\ UnregisterStatus = "SUCCESS"
  /\ Stored(FoundIndex, [Cleared EXCEPT !.cookie = Mapping.cookie])
  /\ GlobalBitmask' = GlobalBitmask \ IdBits(Mapping.id)

UnregisterMappingKeepsInUse ==
  /\ InLoop /\ call.op = "UNREGISTER"
  /\ UnregisterStatus = "SUCCESS"
  /\ Stored(FoundIndex, [Cleared EXCEPT !.inUse = TRUE])
  /\ GlobalBitmask' = GlobalBitmask \ IdBits(Mapping.id)

\* An iteration that succeeds: the temporaries are changed and copied back at once.
UnregisterMapping ==
  /\ InLoop /\ call.op = "UNREGISTER"
  /\ UnregisterStatus = "SUCCESS"
  /\ Stored(FoundIndex, Cleared)
  /\ GlobalBitmask' = GlobalBitmask \ IdBits(Mapping.id)

RegisterMapping ==
  /\ InLoop /\ call.op = "REGISTER"
  /\ RegisterStatus = "SUCCESS"
  /\ Stored(EmptyIndex(call.slot),
            [cookie |-> Mapping.cookie, id |-> Mapping.id, perVcpu |-> Mapping.perVcpu,
             source |-> call.source, inUse |-> TRUE])
  /\ GlobalBitmask' = GlobalBitmask \cup IdBits(Mapping.id)

\* An iteration that fails leaves the loop and is answered; the mappings before it
\* stay stored, and a new service is not marked in use.
RefuseMapping ==
  /\ InLoop
  /\ LET status == IF call.op = "REGISTER" THEN RegisterStatus ELSE UnregisterStatus
     IN status # "SUCCESS" /\ Answer(status)
  /\ UNCHANGED <<tables, notified>>

\* All mappings are stored: a new service gets its UUID and is in use from now on.
UpdateDone ==
  /\ Busy /\ ~InLoop
  /\ IF call.op = "REGISTER" /\ ~InUse[call.slot]
     THEN /\ ServiceUuid' = [ServiceUuid EXCEPT ![call.slot] = call.uuid]
          /\ InUse' = [InUse EXCEPT ![call.slot] = TRUE]
     ELSE UNCHANGED <<ServiceUuid, InUse>>
  /\ Answer("SUCCESS")
  /\ UNCHANGED <<GlobalBitmask, ServiceInfo, notified>>

-----------------------------------------------------------------------------
(***************************************************************************)
(* Notifications.                                                          *)
(***************************************************************************)

\* The entry of service s that NotificationServiceIdSet picks: the first one with
\* the cookie, in use or not.
EntryToNotify(cookie, s) == First({i \in Indices : ServiceInfo[s][i].cookie = cookie})

\* TestNotificationHandler calls NotificationServiceIdSet; FfaNotificationSet may fail.
TestNotificationHandler(words, cookie, sent) ==
  LET uuid == NotificationServiceExtractUuid(words[1], words[2])
      s == LocateService(uuid, FALSE)
      i == IF s = NOTIFICATION_NOT_FOUND THEN NOTIFICATION_NOT_FOUND
                                         ELSE EntryToNotify(cookie, s)
      info == ServiceInfo[s][i]
  IN
  /\ ~Busy
  /\ IF i = NOTIFICATION_NOT_FOUND
     THEN notified' = {} /\ reply' = "INVALID_PARAMETER"
     ELSE /\ notified' = {[cookie |-> cookie, dest |-> info.source,
                           perVcpu |-> info.perVcpu, bits |-> IdBits(info.id)]}
          /\ reply' = IF sent THEN "SUCCESS" ELSE "INVALID_PARAMETER"
  /\ UNCHANGED <<tables, call>>

\* TestServiceHandle with any other opcode.
TestServiceInvalid ==
  /\ ~Busy
  /\ reply' = "INVALID_PARAMETER"
  /\ notified' = {}
  /\ UNCHANGED <<tables, call>>

-----------------------------------------------------------------------------
\* The mappings of a message: registers beyond its count are not read.
MapsOf(count) ==
  IF ValidCount(count % 256) THEN [1 .. (count % 256) -> Mappings] ELSE {<< >>}

Message ==
  \/ \E arg5 \in MsgInfos, words \in UuidWords, source \in Sources, count \in Counts :
       \E maps \in MapsOf(count) : NotificationServiceHandle(arg5, words, source, count, maps)
  \/ \E words \in UuidWords, cookie \in Cookies, sent \in BOOLEAN :
       TestNotificationHandler(words, cookie, sent)
  \/ TestServiceInvalid

LoopStep == UnregisterMapping \/ RegisterMapping \/ RefuseMapping \/ UpdateDone

Next == Message \/ LoopStep

Spec == Init /\ [][Next]_vars

-----------------------------------------------------------------------------
(***************************************************************************)
(* Properties.                                                             *)
(***************************************************************************)

Used == {e \in Slots \X Indices : ServiceInfo[e[1]][e[2]].inUse}
Info(e) == ServiceInfo[e[1]][e[2]]

\* An ID has at most one registrant in the whole partition, whatever the service, and
\* the bitmask is exactly the bits of the mappings stored: also between the mappings of
\* a request, after one that was refused half way, for IDs at and beyond the width of
\* the shift (UpdateServiceInfo).
IdsExclusive ==
  /\ \A e, f \in Used : e # f => IdBits(Info(e).id) \cap IdBits(Info(f).id) = {}
  /\ GlobalBitmask = UNION {IdBits(Info(e).id) : e \in Used}

\* Lookups are unambiguous: a UUID finds at most one service and a cookie at most one
\* mapping of it (LocateService, IsMatchingCookie), also when a request repeats a cookie
\* or a slot is taken over after a failed registration.
LookupsUnambiguous ==
  /\ \A s, t \in Slots : InUse[s] /\ InUse[t] /\ SameUuid(ServiceUuid[s], ServiceUuid[t]) => s = t
  /\ \A e, f \in Used : e[1] = f[1] /\ Info(e).cookie = Info(f).cookie => e = f

\* Services fill the table from the front, and mappings stored outside a service in use
\* (a registration that was refused half way) are only in the first free slot, where the
\* next new service takes them over (RegisterHandler, LocateService).
SlotsFillInOrder ==
  \A s \in Slots :
    InUse[s] \/ (\E i \in Indices : ServiceInfo[s][i].inUse) =>
      \A t \in Slots : t < s => InUse[t]

\* A stored mapping is never changed, and goes away only by an unregister request of
\* the partition that registered it, which names its cookie and its ID.
OnlyOwnerRemoves ==
  [][\A e \in Used : Info(e)' # Info(e) =>
       /\ call.op = "UNREGISTER" /\ call.slot = e[1] /\ call.source = Info(e).source
       /\ Mapping.cookie = Info(e).cookie /\ Mapping.id = Info(e).id
       /\ ~Info(e)'.inUse]_vars

\* An event with a nonzero cookie raises exactly the bits of one mapping in use, at the
\* partition that registered it and as it asked (per vCPU or not): entries freed earlier
\* are not hit (NotificationServiceIdSet matches cookies without looking at InUse).
EventReachesOwner ==
  \A n \in notified : n.cookie # 0 =>
    \E e \in Used :
      /\ Info(e).cookie = n.cookie /\ Info(e).source = n.dest /\ Info(e).perVcpu = n.perVcpu
      /\ \A f \in Used : IdBits(Info(f).id) \cap n.bits # {} <=> f = e

\* NO_MEM is answered only when every service slot is taken: the mapping table of a
\* service never runs out, because all IDs share the bits of one int.
NoMemOnlyWhenServicesFull == reply = "NO_MEM" => \A s \in Slots : InUse[s]

\* A request that succeeds has done all it asked for: after a register every mapping of
\* it is stored for its sender, in a service in use that answers to the UUID; after an
\* unregister none of its cookies is found (UpdateServiceInfo, RegisterHandler).
SuccessIsComplete ==
  [][Busy /\ reply' = "SUCCESS" =>
       \A k \in 1 .. Len(call.maps) :
         LET m == call.maps[k]
             hit == {i \in Indices : /\ ServiceInfo'[call.slot][i].inUse
                                     /\ ServiceInfo'[call.slot][i].cookie = m.cookie}
         IN IF call.op = "UNREGISTER" THEN hit = {}
            ELSE /\ InUse'[call.slot] /\ SameUuid(call.uuid, ServiceUuid'[call.slot])
                 /\ \E i \in hit : /\ ServiceInfo'[call.slot][i].id = m.id
                                   /\ ServiceInfo'[call.slot][i].source = call.source]_vars
=============================================================================
