------------------------ MODULE NotificationProofs ------------------------
(***************************************************************************)
(* Proofs about NotificationService, for any number of services, mappings  *)
(* and mappings per request, and any width of the bitmask.                 *)
(***************************************************************************)
EXTENDS NotificationService, FiniteSetTheorems, WellFoundedInduction, TLAPS

-----------------------------------------------------------------------------
(***************************************************************************)
(* Lookups.                                                                *)
(***************************************************************************)

\* A search over indices finds a member of what it looks for, unless there is none
\* (the loops of LocateService, IsMatchingCookie and UpdateServiceInfo).
LEMMA FirstFinds ==
  ASSUME NEW S \in SUBSET Nat
  PROVE  IF S = {} THEN First(S) = NOTIFICATION_NOT_FOUND
         ELSE First(S) \in S /\ First(S) # NOTIFICATION_NOT_FOUND
              /\ \A j \in S : First(S) <= j
  <1>1. CASE S = {}
    BY <1>1 DEF First
  <1>2. CASE S # {}
    <2> DEFINE R == {ss \in Nat \X Nat : ss[1] < ss[2]}
    <2>1. IsWellFoundedOn(R, Nat)
      BY NatLessThanWellFounded, Zenon DEF OpToRel
    <2>2. \E x \in S : \A y \in S : ~ (<<y, x>> \in R)
      <3> HIDE DEF R
      <3> QED
        BY <1>2, <2>1, WFMin
    <2>3. \E x \in S : \A y \in S : x <= y
      <3>1. PICK x \in S : \A y \in S : ~ (<<y, x>> \in R)
        BY <2>2
      <3>2. ASSUME NEW y \in S PROVE x <= y
        <4>1. x \in Nat /\ y \in Nat
          OBVIOUS
        <4>2. ~ (<<y, x>> \in R)
          BY <3>1
        <4>3. <<y, x>> \in Nat \X Nat /\ <<y, x>>[1] = y /\ <<y, x>>[2] = x
          BY <4>1
        <4>4. ~ (y < x)
          BY <4>2, <4>3
        <4> QED
          BY <4>1, <4>4
      <3> QED
        BY <3>2
    <2>4. First(S) \in S /\ \A j \in S : First(S) <= j
      BY <1>2, <2>3 DEF First
    <2>5. First(S) # NOTIFICATION_NOT_FOUND
      BY <2>4 DEF NOTIFICATION_NOT_FOUND
    <2> QED
      BY <1>2, <2>4, <2>5
  <1> QED
    BY <1>1, <1>2

\* LocateService returns a slot of the kind asked for, or none exists.
LEMMA LocateFinds ==
  ASSUME NEW uuid, NEW empty \in BOOLEAN
  PROVE  LET s == LocateService(uuid, empty)
             Fits(t) == IF empty THEN ~InUse[t] ELSE InUse[t] /\ SameUuid(uuid, ServiceUuid[t])
         IN IF s = NOTIFICATION_NOT_FOUND THEN \A t \in Slots : ~Fits(t)
            ELSE s \in Slots /\ Fits(s) /\ \A t \in Slots : Fits(t) => s <= t
  <1> DEFINE Fits(t) == IF empty THEN ~InUse[t]
                                 ELSE InUse[t] /\ SameUuid(uuid, ServiceUuid[t])
             S == {t \in Slots : Fits(t)}
  <1>1. S \in SUBSET Nat
    BY SizeAssumption DEF Slots
  <1>2. LocateService(uuid, empty) = First(S)
    BY DEF LocateService
  <1> QED
    BY <1>1, <1>2, FirstFinds

\* IsMatchingCookie returns the index of a mapping in use with the cookie, or none exists.
LEMMA CookieFinds ==
  ASSUME NEW cookie, NEW s
  PROVE  LET i == IsMatchingCookie(cookie, s)
             Fits(j) == ServiceInfo[s][j].inUse /\ ServiceInfo[s][j].cookie = cookie
         IN IF i = NOTIFICATION_NOT_FOUND THEN \A j \in Indices : ~Fits(j)
            ELSE i \in Indices /\ Fits(i)
  <1> DEFINE Fits(j) == ServiceInfo[s][j].inUse /\ ServiceInfo[s][j].cookie = cookie
             S == {j \in Indices : Fits(j)}
  <1>1. S \in SUBSET Nat
    BY SizeAssumption DEF Indices
  <1>2. IsMatchingCookie(cookie, s) = First(S)
    BY DEF IsMatchingCookie
  <1> QED
    BY <1>1, <1>2, FirstFinds

\* The search for an empty location returns one, or all are in use.
LEMMA EmptyFinds ==
  ASSUME NEW s
  PROVE  LET i == EmptyIndex(s)
         IN IF i = NOTIFICATION_NOT_FOUND THEN \A j \in Indices : ServiceInfo[s][j].inUse
            ELSE i \in Indices /\ ~ServiceInfo[s][i].inUse
  <1> DEFINE S == {j \in Indices : ~ServiceInfo[s][j].inUse}
  <1>1. S \in SUBSET Nat
    BY SizeAssumption DEF Indices
  <1>2. EmptyIndex(s) = First(S)
    BY DEF EmptyIndex
  <1> QED
    BY <1>1, <1>2, FirstFinds

-----------------------------------------------------------------------------
(***************************************************************************)
(* Type correctness.                                                       *)
(***************************************************************************)

\* What call may hold, as TypeOK types it.
RequestOK(c) ==
  /\ c \in [op : {"REGISTER", "UNREGISTER", "none"}, slot : Slots, uuid : Uuids,
            source : Sources \cup {0}, maps : Seq(Mappings), index : 1 .. (MAPPING_MAX + 1)]
  /\ Len(c.maps) <= MAPPING_MAX /\ c.index <= Len(c.maps) + 1

\* The extracted bytes are a UUID (NotificationServiceExtractUuid).
LEMMA UuidType ==
  ASSUME NEW words \in UuidWords
  PROVE  NotificationServiceExtractUuid(words[1], words[2]) \in Uuids
  <1>1. words[1] \in Word /\ words[2] \in Word
    BY MessageAssumption
  <1>2. ASSUME NEW lo \in Word, NEW hi \in Word
        PROVE  NotificationServiceExtractUuid(lo, hi) \in Uuids
    BY ByteAssumption DEF NotificationServiceExtractUuid, Uuids, Word
  <1> QED
    BY <1>1, <1>2

\* The bits of an ID are bits of the bitmask.
LEMMA BitsType ==
  ASSUME NEW id \in Nat
  PROVE  /\ IdBits(id) \subseteq 0 .. (2 * INT_BITS - 1)
         /\ id % INT_BITS \in IdBits(id) /\ id % INT_BITS \in 0 .. (INT_BITS - 1)
BY SizeAssumption DEF IdBits

\* The fields of an entry.
LEMMA InfoType ==
  ASSUME NEW x \in NotifInfo
  PROVE  /\ x.source \in Sources \cup {0} /\ x.perVcpu \in BOOLEAN /\ x.inUse \in BOOLEAN
         /\ x.id \in Nat
  <1>1. Ids \cup {0} \subseteq Nat
    BY MessageAssumption
  <1>2. x.id \in Ids \cup {0}
    BY DEF NotifInfo
  <1>3. x.source \in Sources \cup {0} /\ x.perVcpu \in BOOLEAN /\ x.inUse \in BOOLEAN
    BY DEF NotifInfo
  <1> QED
    BY <1>1, <1>2, <1>3

\* No request is a value of call.
LEMMA NoRequestType == RequestOK(NoRequest)
  <1>1. ZeroUuid \in Uuids
    BY ByteAssumption DEF ZeroUuid, Uuids
  <1>2. 0 \in Slots /\ << >> \in Seq(Mappings) /\ Len(<< >>) = 0 /\ 1 \in 1 .. (MAPPING_MAX + 1)
    BY SizeAssumption DEF Slots
  <1> QED
    BY <1>1, <1>2, SizeAssumption DEF NoRequest, RequestOK

\* A request accepted by UpdateServiceInfo is a value of call.
LEMMA BeginType ==
  ASSUME NEW op \in {"REGISTER", "UNREGISTER"}, NEW s \in Slots, NEW uuid \in Uuids,
         NEW source \in Sources, NEW count \in Counts, NEW maps \in MapsOf(count),
         BeginUpdate(op, s, uuid, source, count, maps)
  PROVE  RequestOK(call') /\ reply' \in Statuses \cup {"none"}
  <1>1. CASE ValidCount(count % 256)
    <2>1. count % 256 \in Nat /\ count % 256 <= MAPPING_MAX
      BY <1>1, SizeAssumption, MessageAssumption DEF ValidCount, MAPPING_MIN
    <2>2. maps \in Seq(Mappings) /\ Len(maps) = count % 256
      BY <1>1, <2>1 DEF MapsOf, BeginUpdate
    <2>3. 1 \in 1 .. (MAPPING_MAX + 1)
      BY SizeAssumption
    <2>4. call' = [op |-> op, slot |-> s, uuid |-> uuid, source |-> source,
                   maps |-> maps, index |-> 1] /\ reply' = "none"
      BY <1>1 DEF BeginUpdate
    <2>5. call' \in [op : {"REGISTER", "UNREGISTER", "none"}, slot : Slots, uuid : Uuids,
                     source : Sources \cup {0}, maps : Seq(Mappings),
                     index : 1 .. (MAPPING_MAX + 1)]
      BY <2>2, <2>3, <2>4
    <2>6. call'.maps = maps /\ call'.index = 1
      BY <2>4
    <2> QED
      BY <2>1, <2>2, <2>4, <2>5, <2>6 DEF RequestOK
  <1>2. CASE ~ValidCount(count % 256)
    BY <1>2, NoRequestType DEF BeginUpdate, Answer, Statuses
  <1> QED
    BY <1>1, <1>2

\* A message leaves call and reply well typed and the tables alone.
LEMMA HandleType ==
  ASSUME NEW arg5 \in MsgInfos, NEW words \in UuidWords, NEW source \in Sources,
         NEW count \in Counts, NEW maps \in MapsOf(count),
         NotificationServiceHandle(arg5, words, source, count, maps)
  PROVE  /\ RequestOK(call') /\ reply' \in Statuses \cup {"none"}
         /\ notified' = {} /\ UNCHANGED tables
  <1> DEFINE uuid == NotificationServiceExtractUuid(words[1], words[2])
  <1>1. uuid \in Uuids
    BY UuidType
  <1> HIDE DEF uuid
  <1>2. notified' = {} /\ UNCHANGED tables
    BY DEF NotificationServiceHandle
  <1>3. \/ RegisterHandler(uuid, source, count, maps)
        \/ UnregisterHandler(uuid, source, count, maps)
        \/ Answer("NOT_SUPPORTED")
    BY DEF NotificationServiceHandle, uuid
  <1>4. ASSUME NEW status \in Statuses, Answer(status)
        PROVE  RequestOK(call') /\ reply' \in Statuses \cup {"none"}
    BY <1>4, NoRequestType DEF Answer
  <1>5. ASSUME NEW empty \in BOOLEAN, LocateService(uuid, empty) # NOTIFICATION_NOT_FOUND
        PROVE  LocateService(uuid, empty) \in Slots
    BY <1>5, LocateFinds
  <1>6. CASE RegisterHandler(uuid, source, count, maps)
    <2>1. \/ Answer("NO_MEM")
          \/ \E s \in Slots : BeginUpdate("REGISTER", s, uuid, source, count, maps)
      BY <1>5, <1>6 DEF RegisterHandler
    <2> QED
      BY <1>1, <1>2, <1>4, <2>1, BeginType DEF Statuses
  <1>7. CASE UnregisterHandler(uuid, source, count, maps)
    <2>1. \/ Answer("INVALID_PARAMETER")
          \/ \E s \in Slots : BeginUpdate("UNREGISTER", s, uuid, source, count, maps)
      BY <1>5, <1>7 DEF UnregisterHandler
    <2> QED
      BY <1>1, <1>2, <1>4, <2>1, BeginType DEF Statuses
  <1>8. CASE Answer("NOT_SUPPORTED")
    BY <1>2, <1>4, <1>8 DEF Statuses
  <1> QED
    BY <1>3, <1>6, <1>7, <1>8

\* The mapping the loop is at.
LEMMA LoopMapping ==
  ASSUME TypeOK, InLoop
  PROVE  /\ Mapping \in Mappings /\ call.slot \in Slots
         /\ Mapping.cookie \in Cookies /\ Mapping.id \in Ids /\ Mapping.id \in Nat
         /\ Mapping.perVcpu \in BOOLEAN
         /\ call.source \in Sources \cup {0}
         /\ call.index + 1 \in 1 .. (MAPPING_MAX + 1) /\ call.index + 1 <= Len(call.maps) + 1
  <1>1. /\ call.slot \in Slots /\ call.source \in Sources \cup {0}
        /\ call.maps \in Seq(Mappings) /\ call.index \in 1 .. (MAPPING_MAX + 1)
        /\ Len(call.maps) <= MAPPING_MAX
    BY DEF TypeOK
  <1>2. call.index \in 1 .. Len(call.maps)
    BY <1>1, SizeAssumption DEF InLoop
  <1>3. call.maps[call.index] \in Mappings
    BY <1>1, <1>2
  <1>4. Mapping \in Mappings
    BY <1>3 DEF Mapping
  <1>5. Mapping \in [cookie : Cookies, id : Ids, perVcpu : BOOLEAN] /\ Ids \subseteq Nat
    BY <1>4, MessageAssumption
  <1>6. /\ Mapping.cookie \in Cookies /\ Mapping.id \in Ids /\ Mapping.id \in Nat
        /\ Mapping.perVcpu \in BOOLEAN
    BY <1>5
  <1>7. Len(call.maps) \in Nat
    BY <1>1
  <1>8. call.index + 1 \in 1 .. (MAPPING_MAX + 1) /\ call.index + 1 <= Len(call.maps) + 1
    BY <1>1, <1>2, <1>7, SizeAssumption
  <1> QED
    BY <1>1, <1>4, <1>6, <1>8

\* What a step that stores an entry changes.
LEMMA StoredEffect ==
  ASSUME TypeOK, InLoop, NEW i \in Indices, NEW info \in NotifInfo, Stored(i, info)
  PROVE  /\ ServiceInfo' \in [Slots -> [Indices -> NotifInfo]]
         /\ \A t \in Slots, j \in Indices :
              ServiceInfo'[t][j] = IF t = call.slot /\ j = i THEN info ELSE ServiceInfo[t][j]
         /\ RequestOK(call')
         /\ call'.op = call.op /\ call'.slot = call.slot /\ call'.uuid = call.uuid
         /\ call'.source = call.source /\ call'.maps = call.maps
         /\ call'.index = call.index + 1
         /\ UNCHANGED <<ServiceUuid, InUse, reply, notified>>
  <1>1. /\ ServiceInfo \in [Slots -> [Indices -> NotifInfo]]
        /\ call.slot \in Slots /\ RequestOK(call)
    BY DEF TypeOK, RequestOK
  <1>2. ServiceInfo' = [ServiceInfo EXCEPT ![call.slot] = [@ EXCEPT ![i] = info]]
    BY DEF Stored
  <1>3. call' = [call EXCEPT !.index = @ + 1]
    BY DEF Stored
  <1>4. RequestOK(call')
    BY <1>1, <1>3, LoopMapping DEF RequestOK
  <1>5. UNCHANGED <<ServiceUuid, InUse, reply, notified>>
    BY DEF Stored
  <1>6. /\ call'.op = call.op /\ call'.slot = call.slot /\ call'.uuid = call.uuid
        /\ call'.source = call.source /\ call'.maps = call.maps
        /\ call'.index = call.index + 1
    BY <1>1, <1>3 DEF RequestOK
  <1>7. ServiceInfo' \in [Slots -> [Indices -> NotifInfo]]
    BY <1>1, <1>2
  <1>8. ASSUME NEW t \in Slots, NEW j \in Indices
        PROVE  ServiceInfo'[t][j] = IF t = call.slot /\ j = i THEN info ELSE ServiceInfo[t][j]
    BY <1>1, <1>2
  <1> QED
    BY <1>4, <1>5, <1>6, <1>7, <1>8

\* An unregister iteration clears the one entry in use that has the cookie, the ID and
\* the source of the request.
LEMMA UnregisterEffect ==
  ASSUME TypeOK, UnregisterMapping
  PROVE  /\ FoundIndex \in Indices
         /\ LET info == ServiceInfo[call.slot][FoundIndex]
            IN /\ info.inUse /\ info.cookie = Mapping.cookie
               /\ info.id = Mapping.id /\ info.source = call.source
         /\ Stored(FoundIndex, Cleared) /\ Cleared \in NotifInfo
  <1>1. FoundIndex # NOTIFICATION_NOT_FOUND
    BY DEF UnregisterMapping, UnregisterStatus
  <1>2. /\ FoundIndex \in Indices
        /\ ServiceInfo[call.slot][FoundIndex].inUse
        /\ ServiceInfo[call.slot][FoundIndex].cookie = Mapping.cookie
    BY <1>1, CookieFinds DEF FoundIndex
  <1>3. /\ ServiceInfo[call.slot][FoundIndex].id = Mapping.id
        /\ ServiceInfo[call.slot][FoundIndex].source = call.source
    BY <1>1 DEF UnregisterMapping, UnregisterStatus
  <1>4. Cleared \in NotifInfo
    BY DEF Cleared, NotifInfo
  <1> QED
    BY <1>2, <1>3, <1>4 DEF UnregisterMapping

\* The entry a register iteration stores.
NewInfo == [cookie |-> Mapping.cookie, id |-> Mapping.id, perVcpu |-> Mapping.perVcpu,
            source |-> call.source, inUse |-> TRUE]

\* A register iteration stores it in a free entry; its cookie is new to the service and
\* its bits are new to the bitmask.
LEMMA RegisterEffect ==
  ASSUME TypeOK, RegisterMapping
  PROVE  /\ EmptyIndex(call.slot) \in Indices
         /\ ~ServiceInfo[call.slot][EmptyIndex(call.slot)].inUse
         /\ \A j \in Indices : ServiceInfo[call.slot][j].inUse =>
              ServiceInfo[call.slot][j].cookie # Mapping.cookie
         /\ GlobalBitmask \cap IdBits(Mapping.id) = {}
         /\ Stored(EmptyIndex(call.slot), NewInfo) /\ NewInfo \in NotifInfo
  <1>1. /\ FoundIndex = NOTIFICATION_NOT_FOUND
        /\ GlobalBitmask \cap IdBits(Mapping.id) = {}
        /\ EmptyIndex(call.slot) # NOTIFICATION_NOT_FOUND
    BY DEF RegisterMapping, RegisterStatus
  <1>2. \A j \in Indices : ServiceInfo[call.slot][j].inUse =>
          ServiceInfo[call.slot][j].cookie # Mapping.cookie
    BY <1>1, CookieFinds DEF FoundIndex
  <1>3. EmptyIndex(call.slot) \in Indices /\ ~ServiceInfo[call.slot][EmptyIndex(call.slot)].inUse
    BY <1>1, EmptyFinds
  <1>4. NewInfo \in NotifInfo
    BY LoopMapping DEF NewInfo, NotifInfo, RegisterMapping
  <1> QED
    BY <1>1, <1>2, <1>3, <1>4 DEF RegisterMapping, NewInfo

\* A notification carries the fields of a stored entry (NotificationServiceIdSet).
LEMMA NotifyEffect ==
  ASSUME TypeOK, NEW words \in UuidWords, NEW cookie \in Cookies, NEW sent \in BOOLEAN,
         TestNotificationHandler(words, cookie, sent)
  PROVE  /\ reply' \in Statuses
         /\ UNCHANGED <<tables, call>>
         /\ \/ notified' = {}
            \/ \E s \in Slots, i \in Indices :
                 /\ InUse[s] /\ ServiceInfo[s][i].cookie = cookie
                 /\ notified' = {[cookie |-> cookie, dest |-> ServiceInfo[s][i].source,
                                  perVcpu |-> ServiceInfo[s][i].perVcpu,
                                  bits |-> IdBits(ServiceInfo[s][i].id)]}
  <1> DEFINE uuid == NotificationServiceExtractUuid(words[1], words[2])
             s == LocateService(uuid, FALSE)
             i == IF s = NOTIFICATION_NOT_FOUND THEN NOTIFICATION_NOT_FOUND
                                                ELSE EntryToNotify(cookie, s)
             S == {j \in Indices : ServiceInfo[s][j].cookie = cookie}
  <1> HIDE DEF uuid
  <1>1. UNCHANGED <<tables, call>>
    BY DEF TestNotificationHandler
  <1>2. reply' \in Statuses
    BY DEF TestNotificationHandler, Statuses
  <1>3. CASE i = NOTIFICATION_NOT_FOUND
    <2>1. notified' = {}
      BY <1>3 DEF TestNotificationHandler, uuid
    <2> QED
      BY <1>1, <1>2, <2>1
  <1>4. CASE i # NOTIFICATION_NOT_FOUND
    <2>1. s # NOTIFICATION_NOT_FOUND /\ i = First(S)
      BY <1>4 DEF EntryToNotify
    <2>2. s \in Slots /\ InUse[s]
      BY <2>1, LocateFinds
    <2>3. S \in SUBSET Nat
      <3>1. Indices \subseteq Nat
        BY SizeAssumption DEF Indices
      <3> HIDE DEF s
      <3> QED
        BY <3>1
    <2>4. i \in Indices /\ ServiceInfo[s][i].cookie = cookie
      <3> HIDE DEF s
      <3>1. i \in S
        BY <1>4, <2>1, <2>3, FirstFinds
      <3> QED
        BY <3>1
    <2>5. notified' = {[cookie |-> cookie, dest |-> ServiceInfo[s][i].source,
                        perVcpu |-> ServiceInfo[s][i].perVcpu,
                        bits |-> IdBits(ServiceInfo[s][i].id)]}
      BY <1>4 DEF TestNotificationHandler, uuid
    <2> HIDE DEF s, i
    <2> QED
      BY <1>1, <1>2, <2>2, <2>4, <2>5
  <1> QED
    BY <1>3, <1>4

\* A step of the loop keeps the types.
LEMMA LoopType ==
  ASSUME TypeOK, LoopStep
  PROVE  TypeOK'
  <1>1. CASE UnregisterMapping
    <2>1. /\ ServiceInfo' \in [Slots -> [Indices -> NotifInfo]] /\ RequestOK(call')
          /\ UNCHANGED <<ServiceUuid, InUse, reply, notified>>
      BY <1>1, UnregisterEffect, StoredEffect DEF UnregisterMapping
    <2>2. GlobalBitmask' \subseteq 0 .. (2 * INT_BITS - 1)
      BY <1>1 DEF UnregisterMapping, TypeOK
    <2> QED
      BY <2>1, <2>2 DEF TypeOK, RequestOK
  <1>2. CASE RegisterMapping
    <2>1. /\ ServiceInfo' \in [Slots -> [Indices -> NotifInfo]] /\ RequestOK(call')
          /\ UNCHANGED <<ServiceUuid, InUse, reply, notified>>
      BY <1>2, RegisterEffect, StoredEffect DEF RegisterMapping
    <2>2. GlobalBitmask' \subseteq 0 .. (2 * INT_BITS - 1)
      <3>1. IdBits(Mapping.id) \subseteq 0 .. (2 * INT_BITS - 1)
        BY <1>2, LoopMapping, BitsType DEF RegisterMapping
      <3> QED
        BY <1>2, <3>1 DEF RegisterMapping, TypeOK
    <2> QED
      BY <2>1, <2>2 DEF TypeOK, RequestOK
  <1>3. CASE RefuseMapping
    <2>1. RequestOK(call') /\ UNCHANGED <<tables, notified>>
      BY <1>3, NoRequestType DEF RefuseMapping, Answer
    <2>2. reply' \in Statuses
      BY <1>3 DEF RefuseMapping, Answer, RegisterStatus, UnregisterStatus, Statuses
    <2> QED
      BY <2>1, <2>2 DEF TypeOK, RequestOK, tables
  <1>4. CASE UpdateDone
    <2>1. RequestOK(call') /\ reply' \in Statuses
          /\ UNCHANGED <<GlobalBitmask, ServiceInfo, notified>>
      BY <1>4, NoRequestType DEF UpdateDone, Answer, Statuses
    <2>2. ServiceUuid' \in [Slots -> Uuids] /\ InUse' \in [Slots -> BOOLEAN]
      BY <1>4 DEF UpdateDone, TypeOK
    <2> QED
      BY <2>1, <2>2 DEF TypeOK, RequestOK
  <1> QED
    BY <1>1, <1>2, <1>3, <1>4 DEF LoopStep

\* A message leaves the tables alone and the rest well typed.
LEMMA MessageType ==
  ASSUME TypeOK, Message
  PROVE  TypeOK' /\ UNCHANGED tables
  <1>1. ASSUME NEW arg5 \in MsgInfos, NEW words \in UuidWords, NEW source \in Sources,
               NEW count \in Counts, NEW maps \in MapsOf(count),
               NotificationServiceHandle(arg5, words, source, count, maps)
        PROVE  TypeOK' /\ UNCHANGED tables
    <2>1. /\ RequestOK(call') /\ reply' \in Statuses \cup {"none"}
          /\ notified' = {} /\ UNCHANGED tables
      BY <1>1, HandleType
    <2> QED
      BY <2>1 DEF TypeOK, RequestOK, tables
  <1>2. ASSUME NEW words \in UuidWords, NEW cookie \in Cookies, NEW sent \in BOOLEAN,
               TestNotificationHandler(words, cookie, sent)
        PROVE  TypeOK' /\ UNCHANGED tables
    <2>1. reply' \in Statuses /\ UNCHANGED <<tables, call>>
      BY <1>2, NotifyEffect
    <2>2. notified' \subseteq [cookie : Cookies, dest : Sources \cup {0}, perVcpu : BOOLEAN,
                               bits : SUBSET (0 .. (2 * INT_BITS - 1))]
      <3>1. CASE notified' = {}
        BY <3>1
      <3>2. ASSUME NEW s \in Slots, NEW i \in Indices,
                   notified' = {[cookie |-> cookie, dest |-> ServiceInfo[s][i].source,
                                 perVcpu |-> ServiceInfo[s][i].perVcpu,
                                 bits |-> IdBits(ServiceInfo[s][i].id)]}
            PROVE  notified' \subseteq [cookie : Cookies, dest : Sources \cup {0},
                                        perVcpu : BOOLEAN,
                                        bits : SUBSET (0 .. (2 * INT_BITS - 1))]
        <4>1. ServiceInfo[s][i] \in NotifInfo
          BY DEF TypeOK
        <4>2. ServiceInfo[s][i].source \in Sources \cup {0}
              /\ ServiceInfo[s][i].perVcpu \in BOOLEAN
              /\ ServiceInfo[s][i].id \in Nat
          BY <4>1, InfoType
        <4>3. IdBits(ServiceInfo[s][i].id) \in SUBSET (0 .. (2 * INT_BITS - 1))
          BY <4>2, BitsType
        <4>4. ASSUME NEW d \in Sources \cup {0}, NEW p \in BOOLEAN,
                     NEW b \in SUBSET (0 .. (2 * INT_BITS - 1))
              PROVE  {[cookie |-> cookie, dest |-> d, perVcpu |-> p, bits |-> b]}
                       \subseteq [cookie : Cookies, dest : Sources \cup {0}, perVcpu : BOOLEAN,
                                  bits : SUBSET (0 .. (2 * INT_BITS - 1))]
          OBVIOUS
        <4> QED
          BY <3>2, <4>2, <4>3, <4>4
      <3> QED
        BY <1>2, <3>1, <3>2, NotifyEffect
    <2> QED
      BY <2>1, <2>2 DEF TypeOK, tables
  <1>3. CASE TestServiceInvalid
    BY <1>3 DEF TestServiceInvalid, TypeOK, tables, Statuses
  <1> QED
    BY <1>1, <1>2, <1>3 DEF Message

\* Every step keeps the types.
LEMMA NextType == TypeOK /\ [Next]_vars => TypeOK'
  <1> SUFFICES ASSUME TypeOK, [Next]_vars PROVE TypeOK'
    OBVIOUS
  <1>1. CASE Message
    BY <1>1, MessageType
  <1>2. CASE LoopStep
    BY <1>2, LoopType
  <1>3. CASE UNCHANGED vars
    BY <1>3 DEF vars, tables, TypeOK
  <1> QED
    BY <1>1, <1>2, <1>3 DEF Next

\* The initial tables are well typed.
LEMMA InitType == Init => TypeOK
  <1> SUFFICES ASSUME Init PROVE TypeOK
    OBVIOUS
  <1>1. RequestOK(call)
    BY NoRequestType DEF Init
  <1>2. ZeroUuid \in Uuids /\ Cleared \in NotifInfo
    BY ByteAssumption DEF ZeroUuid, Uuids, Cleared, NotifInfo
  <1> QED
    BY <1>1, <1>2 DEF Init, TypeOK, RequestOK

\* The tables, the request being handled and the answers stay within their types.
THEOREM TypeCorrect == Spec => []TypeOK
  BY InitType, NextType, PTL DEF Spec

-----------------------------------------------------------------------------
(***************************************************************************)
(* The inductive invariant.                                                *)
(***************************************************************************)

\* Entries that are not in use are all zero, as unregistering leaves them.
FreeIsCleared ==
  \A s \in Slots, i \in Indices : ~ServiceInfo[s][i].inUse => ServiceInfo[s][i] = Cleared

\* The slot a request works on: one in use, or for a new UUID the first free one.
RequestPlaced ==
  Busy =>
    /\ notified = {}
    /\ call.op = "UNREGISTER" => InUse[call.slot]
    /\ ~InUse[call.slot] =>
         /\ \A t \in Slots : t < call.slot => InUse[t]
         /\ \A t \in Slots : InUse[t] => ~SameUuid(call.uuid, ServiceUuid[t])

TableInv == FreeIsCleared /\ IdsExclusive /\ LookupsUnambiguous /\ SlotsFillInOrder

IInv == TypeOK /\ TableInv /\ RequestPlaced /\ EventReachesOwner /\ NoMemOnlyWhenServicesFull

\* An unregister iteration takes one entry out of use and keeps the others.
LEMMA UsedAfterUnregister ==
  ASSUME TypeOK, UnregisterMapping
  PROVE  \E x \in Slots \X Indices :
           /\ x = <<call.slot, FoundIndex>>
           /\ x \in Used /\ Info(x).id = Mapping.id
           /\ Used' = Used \ {x}
           /\ \A e \in Slots \X Indices : e # x => Info(e)' = Info(e)
           /\ Info(x)' = Cleared
  <1> DEFINE s == call.slot
             i == FoundIndex
  <1>1. /\ s \in Slots /\ i \in Indices
        /\ ServiceInfo[s][i].inUse /\ ServiceInfo[s][i].id = Mapping.id
    BY UnregisterEffect DEF TypeOK
  <1>2. \A t \in Slots, j \in Indices :
          ServiceInfo'[t][j] = IF t = s /\ j = i THEN Cleared ELSE ServiceInfo[t][j]
    BY UnregisterEffect, StoredEffect DEF UnregisterMapping
  <1> HIDE DEF s, i
  <1>x. PICK x \in Slots \X Indices : x = <<s, i>>
    BY <1>1
  <1>3. ~Cleared.inUse
    BY DEF Cleared
  <1>4. x \in Used /\ Info(x).id = Mapping.id
    BY <1>1, <1>x DEF Used, Info
  <1>5. ASSUME NEW e \in Slots \X Indices
        PROVE  Info(e)' = IF e = x THEN Cleared ELSE Info(e)
    <2>1. PICK t \in Slots, j \in Indices : e = <<t, j>>
      BY <1>5
    <2>2. e[1] = t /\ e[2] = j /\ (e = x <=> t = s /\ j = i)
      BY <1>x, <2>1
    <2> QED
      BY <1>2, <2>1, <2>2 DEF Info
  <1>6. Used = {e \in Slots \X Indices : Info(e).inUse}
    BY DEF Used, Info
  <1>7. Used' = {e \in Slots \X Indices : Info(e)'.inUse}
    BY DEF Used, Info
  <1>8. Used' = Used \ {x}
    BY <1>3, <1>5, <1>6, <1>7
  <1> QED
    BY <1>x, <1>4, <1>5, <1>8 DEF s, i

\* A register iteration takes one entry into use and keeps the others.
LEMMA UsedAfterRegister ==
  ASSUME TypeOK, RegisterMapping
  PROVE  \E x \in Slots \X Indices :
           /\ x = <<call.slot, EmptyIndex(call.slot)>>
           /\ x \notin Used
           /\ Used' = Used \cup {x}
           /\ \A e \in Slots \X Indices : e # x => Info(e)' = Info(e)
           /\ Info(x)' = NewInfo
  <1> DEFINE s == call.slot
             i == EmptyIndex(call.slot)
  <1>1. s \in Slots /\ i \in Indices /\ ~ServiceInfo[s][i].inUse
    BY RegisterEffect DEF TypeOK
  <1>2. \A t \in Slots, j \in Indices :
          ServiceInfo'[t][j] = IF t = s /\ j = i THEN NewInfo ELSE ServiceInfo[t][j]
    BY RegisterEffect, StoredEffect DEF RegisterMapping
  <1> HIDE DEF s, i
  <1>x. PICK x \in Slots \X Indices : x = <<s, i>>
    BY <1>1
  <1>3. NewInfo.inUse
    BY DEF NewInfo
  <1>4. x \notin Used
    BY <1>1, <1>x DEF Used
  <1>5. ASSUME NEW e \in Slots \X Indices
        PROVE  Info(e)' = IF e = x THEN NewInfo ELSE Info(e)
    <2>1. PICK t \in Slots, j \in Indices : e = <<t, j>>
      BY <1>5
    <2>2. e[1] = t /\ e[2] = j /\ (e = x <=> t = s /\ j = i)
      BY <1>x, <2>1
    <2> QED
      BY <1>2, <2>1, <2>2 DEF Info
  <1>6. Used = {e \in Slots \X Indices : Info(e).inUse}
    BY DEF Used, Info
  <1>7. Used' = {e \in Slots \X Indices : Info(e)'.inUse}
    BY DEF Used, Info
  <1>8. Used' = Used \cup {x}
    BY <1>3, <1>5, <1>6, <1>7
  <1> QED
    BY <1>x, <1>4, <1>5, <1>8 DEF s, i

\* IDs stay exclusive and the bitmask exact (UpdateServiceInfo).
LEMMA IdsExclusiveStep ==
  ASSUME TypeOK, IdsExclusive, UnregisterMapping \/ RegisterMapping
  PROVE  IdsExclusive'
  <1>0. ASSUME NEW e \in Used, NEW f \in Used, e # f
        PROVE  IdBits(Info(e).id) \cap IdBits(Info(f).id) = {}
    BY <1>0 DEF IdsExclusive
  <1>00. GlobalBitmask = UNION {IdBits(Info(e).id) : e \in Used}
    BY DEF IdsExclusive
  <1>1. CASE UnregisterMapping
    <2>0. PICK x \in Slots \X Indices :
            /\ x \in Used /\ Info(x).id = Mapping.id
            /\ Used' = Used \ {x}
            /\ \A e \in Slots \X Indices : e # x => Info(e)' = Info(e)
      BY <1>1, UsedAfterUnregister
    <2>1. /\ x \in Used /\ Info(x).id = Mapping.id /\ Used' = Used \ {x}
          /\ \A e \in Used' : Info(e)' = Info(e)
      BY <2>0 DEF Used
    <2>2. ASSUME NEW e \in Used', NEW f \in Used', e # f
          PROVE  IdBits(Info(e)'.id) \cap IdBits(Info(f)'.id) = {}
      BY <1>0, <2>1, <2>2
    <2>3. GlobalBitmask' = GlobalBitmask \ IdBits(Info(x).id)
      BY <1>1, <2>1 DEF UnregisterMapping
    <2>4. ASSUME NEW b
          PROVE  b \in GlobalBitmask' <=> \E e \in Used' : b \in IdBits(Info(e)'.id)
      <3>1. b \in GlobalBitmask <=> \E e \in Used : b \in IdBits(Info(e).id)
        BY <1>00
      <3>2. b \in GlobalBitmask' <=> b \in GlobalBitmask /\ b \notin IdBits(Info(x).id)
        BY <2>3
      <3>3. ASSUME NEW e \in Used, e # x, b \in IdBits(Info(e).id)
            PROVE  b \notin IdBits(Info(x).id)
        BY <1>0, <2>1, <3>3
      <3> QED
        BY <2>1, <3>1, <3>2, <3>3
    <2>5. GlobalBitmask' = UNION {IdBits(Info(e)'.id) : e \in Used'}
      BY <2>4
    <2> QED
      BY <2>2, <2>5 DEF IdsExclusive, IdBits
  <1>2. CASE RegisterMapping
    <2>0. PICK x \in Slots \X Indices :
            /\ x \notin Used /\ Used' = Used \cup {x}
            /\ \A e \in Slots \X Indices : e # x => Info(e)' = Info(e)
            /\ Info(x)' = NewInfo
      BY <1>2, UsedAfterRegister
    <2>1. /\ x \notin Used /\ Used' = Used \cup {x}
          /\ \A e \in Used : Info(e)' = Info(e)
          /\ Info(x)' = NewInfo
      BY <2>0 DEF Used
    <2>2. Info(x)'.id = Mapping.id
      BY <2>1 DEF NewInfo
    <2>3. GlobalBitmask \cap IdBits(Mapping.id) = {}
      BY <1>2, RegisterEffect
    <2>4. ASSUME NEW e \in Used
          PROVE  IdBits(Info(e).id) \cap IdBits(Mapping.id) = {}
      BY <1>00, <2>3
    <2>5. ASSUME NEW e \in Used', NEW f \in Used', e # f
          PROVE  IdBits(Info(e)'.id) \cap IdBits(Info(f)'.id) = {}
      BY <1>0, <2>1, <2>2, <2>4, <2>5
    <2>6. GlobalBitmask' = GlobalBitmask \cup IdBits(Mapping.id)
      BY <1>2 DEF RegisterMapping
    <2>7. ASSUME NEW b
          PROVE  b \in GlobalBitmask' <=> \E e \in Used' : b \in IdBits(Info(e)'.id)
      <3>1. b \in GlobalBitmask <=> \E e \in Used : b \in IdBits(Info(e).id)
        BY <1>00
      <3> QED
        BY <2>1, <2>2, <2>6, <3>1
    <2>8. GlobalBitmask' = UNION {IdBits(Info(e)'.id) : e \in Used'}
      BY <2>7
    <2> QED
      BY <2>5, <2>8 DEF IdsExclusive, IdBits
  <1> QED
    BY <1>1, <1>2

\* A step that changes no table keeps what is known about them.
LEMMA TablesUnchanged ==
  ASSUME TableInv, UNCHANGED tables
  PROVE  TableInv'
  <1>1. Used' = Used /\ \A e \in Slots \X Indices : Info(e)' = Info(e)
    BY DEF tables, Used, Info
  <1>2. IdsExclusive'
    BY <1>1 DEF TableInv, tables, IdsExclusive, IdBits, Used
  <1>3. LookupsUnambiguous'
    BY <1>1 DEF TableInv, tables, LookupsUnambiguous, SameUuid, Used
  <1>4. FreeIsCleared' /\ SlotsFillInOrder'
    BY DEF TableInv, tables, FreeIsCleared, SlotsFillInOrder, Cleared
  <1> QED
    BY <1>2, <1>3, <1>4 DEF TableInv

\* Storing and clearing one entry keep the free entries zero, the cookies of a service
\* distinct and the slots filled in order.
LEMMA StoreKeepsTables ==
  ASSUME IInv, UnregisterMapping \/ RegisterMapping
  PROVE  TableInv'
  <1>0. TypeOK /\ TableInv /\ RequestPlaced
    BY DEF IInv
  <1>1. IdsExclusive'
    BY <1>0, IdsExclusiveStep DEF TableInv
  <1>2. UNCHANGED <<ServiceUuid, InUse>>
    BY DEF UnregisterMapping, RegisterMapping, Stored
  <1>3. \A s, t \in Slots :
          InUse'[s] /\ InUse'[t] /\ SameUuid(ServiceUuid'[s], ServiceUuid'[t]) => s = t
    BY <1>0, <1>2 DEF TableInv, LookupsUnambiguous
  <1>4. ASSUME NEW e \in Used, NEW f \in Used, e[1] = f[1], Info(e).cookie = Info(f).cookie
        PROVE  e = f
    BY <1>0, <1>4 DEF TableInv, LookupsUnambiguous
  <1>5. CASE UnregisterMapping
    <2>1. PICK x \in Slots \X Indices :
            /\ x \in Used /\ Used' = Used \ {x}
            /\ \A e \in Slots \X Indices : e # x => Info(e)' = Info(e)
            /\ Info(x)' = Cleared
      BY <1>0, <1>5, UsedAfterUnregister
    <2>2. ASSUME NEW e \in Used', NEW f \in Used', e[1] = f[1],
                 Info(e)'.cookie = Info(f)'.cookie
          PROVE  e = f
      <3>1. e \in Used /\ f \in Used /\ Info(e)' = Info(e) /\ Info(f)' = Info(f)
        BY <2>1 DEF Used
      <3> QED
        BY <1>4, <2>2, <3>1
    <2>3. LookupsUnambiguous'
      BY <1>3, <2>2 DEF LookupsUnambiguous, SameUuid
    <2>4. ASSUME NEW s \in Slots, NEW i \in Indices
          PROVE  /\ ~ServiceInfo'[s][i].inUse => ServiceInfo'[s][i] = Cleared
                 /\ ServiceInfo'[s][i].inUse => ServiceInfo[s][i].inUse
      <3>1. \/ ServiceInfo'[s][i] = Cleared
            \/ ServiceInfo'[s][i] = ServiceInfo[s][i]
        <4>1. <<s, i>> \in Slots \X Indices /\ <<s, i>>[1] = s /\ <<s, i>>[2] = i
          OBVIOUS
        <4> QED
          BY <2>1, <4>1 DEF Info
      <3>2. ~Cleared.inUse
        BY DEF Cleared
      <3> QED
        BY <1>0, <3>1, <3>2 DEF TableInv, FreeIsCleared
    <2>5. FreeIsCleared'
      BY <2>4 DEF FreeIsCleared, Cleared
    <2>6. SlotsFillInOrder'
      BY <1>0, <1>2, <2>4 DEF TableInv, SlotsFillInOrder
    <2> QED
      BY <1>1, <2>3, <2>5, <2>6 DEF TableInv
  <1>6. CASE RegisterMapping
    <2>1. PICK x \in Slots \X Indices :
            /\ x = <<call.slot, EmptyIndex(call.slot)>>
            /\ x \notin Used /\ Used' = Used \cup {x}
            /\ \A e \in Slots \X Indices : e # x => Info(e)' = Info(e)
            /\ Info(x)' = NewInfo
      BY <1>0, <1>6, UsedAfterRegister
    <2>2. x[1] = call.slot /\ Info(x)'.cookie = Mapping.cookie /\ Info(x)'.inUse
      BY <2>1 DEF NewInfo
    <2>3. ASSUME NEW e \in Used, e[1] = call.slot
          PROVE  Info(e).cookie # Mapping.cookie
      <3>1. e[2] \in Indices /\ Info(e).inUse /\ Info(e) = ServiceInfo[call.slot][e[2]]
        BY <2>3 DEF Used, Info
      <3> QED
        BY <1>0, <1>6, <3>1, RegisterEffect
    <2>4. ASSUME NEW e \in Used', NEW f \in Used', e[1] = f[1],
                 Info(e)'.cookie = Info(f)'.cookie
          PROVE  e = f
      <3>1. \A g \in Used' : g # x => g \in Used /\ Info(g)' = Info(g)
        BY <2>1 DEF Used
      <3>2. CASE e # x /\ f # x
        BY <1>4, <2>4, <3>1, <3>2
      <3>3. CASE e = x /\ f # x
        BY <2>2, <2>3, <2>4, <3>1, <3>3
      <3>4. CASE e # x /\ f = x
        BY <2>2, <2>3, <2>4, <3>1, <3>4
      <3> QED
        BY <3>2, <3>3, <3>4
    <2>5. LookupsUnambiguous'
      BY <1>3, <2>4 DEF LookupsUnambiguous, SameUuid
    <2>6. ASSUME NEW s \in Slots, NEW i \in Indices
          PROVE  /\ ~ServiceInfo'[s][i].inUse => ServiceInfo'[s][i] = Cleared
                 /\ s # call.slot => ServiceInfo'[s][i] = ServiceInfo[s][i]
      <3>1. <<s, i>> \in Slots \X Indices /\ <<s, i>>[1] = s /\ <<s, i>>[2] = i
        OBVIOUS
      <3>2. CASE <<s, i>> = x
        <4>1. ServiceInfo'[s][i].inUse /\ s = call.slot
          BY <2>2, <3>1, <3>2 DEF Info
        <4> QED
          BY <4>1
      <3>3. CASE <<s, i>> # x
        <4>1. ServiceInfo'[s][i] = ServiceInfo[s][i]
          BY <2>1, <3>1, <3>3 DEF Info
        <4> QED
          BY <1>0, <4>1 DEF TableInv, FreeIsCleared
      <3> QED
        BY <3>2, <3>3
    <2>7. FreeIsCleared'
      BY <2>6 DEF FreeIsCleared, Cleared
    <2>8. ASSUME NEW t \in Slots, t < call.slot
          PROVE  InUse[t]
      <3>1. call.slot \in Slots /\ Busy
        BY <1>0, <1>6 DEF TypeOK, RegisterMapping, InLoop
      <3>2. CASE InUse[call.slot]
        BY <1>0, <2>8, <3>1, <3>2 DEF TableInv, SlotsFillInOrder
      <3>3. CASE ~InUse[call.slot]
        BY <1>0, <2>8, <3>1, <3>3 DEF RequestPlaced
      <3> QED
        BY <3>2, <3>3
    <2>9. SlotsFillInOrder'
      BY <1>0, <1>2, <2>6, <2>8 DEF TableInv, SlotsFillInOrder
    <2> QED
      BY <1>1, <2>5, <2>7, <2>9 DEF TableInv
  <1> QED
    BY <1>5, <1>6

\* Marking a new service in use keeps UUIDs distinct and the slots filled in order
\* (RegisterHandler).
LEMMA DoneKeepsTables ==
  ASSUME IInv, UpdateDone
  PROVE  TableInv' /\ \A s \in Slots : InUse[s] => InUse'[s]
  <1>0. TypeOK /\ TableInv /\ RequestPlaced /\ Busy /\ call.slot \in Slots
    BY DEF IInv, TypeOK, UpdateDone
  <1>1. UNCHANGED <<GlobalBitmask, ServiceInfo>>
    BY DEF UpdateDone
  <1>2. Used' = Used /\ \A e \in Slots \X Indices : Info(e)' = Info(e)
    BY <1>1 DEF Used, Info
  <1>3. IdsExclusive' /\ FreeIsCleared'
    <2>1. IdsExclusive'
      <3>1. IdsExclusive /\ GlobalBitmask' = GlobalBitmask
        BY <1>0, <1>1 DEF TableInv
      <3>2. \A e \in Used : Info(e)' = Info(e)
        BY <1>2 DEF Used
      <3>3. \A e, f \in Used' : e # f => IdBits(Info(e)'.id) \cap IdBits(Info(f)'.id) = {}
        BY <1>2, <3>1, <3>2 DEF IdsExclusive
      <3>4. GlobalBitmask' = UNION {IdBits(Info(e)'.id) : e \in Used'}
        BY <1>2, <3>1, <3>2 DEF IdsExclusive
      <3> QED
        BY <3>3, <3>4 DEF IdsExclusive, IdBits
    <2>2. FreeIsCleared'
      BY <1>0, <1>1 DEF TableInv, FreeIsCleared, Cleared
    <2> QED
      BY <2>1, <2>2
  <1>4. CASE UNCHANGED <<ServiceUuid, InUse>>
    <2>1. TableInv'
      BY <1>0, <1>1, <1>4, TablesUnchanged DEF tables
    <2> QED
      BY <1>4, <2>1
  <1>5. CASE /\ ~InUse[call.slot]
             /\ ServiceUuid' = [ServiceUuid EXCEPT ![call.slot] = call.uuid]
             /\ InUse' = [InUse EXCEPT ![call.slot] = TRUE]
    <2>1. ASSUME NEW s \in Slots
          PROVE  /\ InUse'[s] <=> InUse[s] \/ s = call.slot
                 /\ ServiceUuid'[s] = IF s = call.slot THEN call.uuid ELSE ServiceUuid[s]
      BY <1>0, <1>5 DEF TypeOK
    <2>2. ASSUME NEW s \in Slots, NEW t \in Slots, InUse'[s], InUse'[t],
                 SameUuid(ServiceUuid'[s], ServiceUuid'[t])
          PROVE  s = t
      <3>1. ASSUME NEW u \in Slots, InUse[u]
            PROVE  ~SameUuid(call.uuid, ServiceUuid[u]) /\ ~SameUuid(ServiceUuid[u], call.uuid)
        BY <1>0, <1>5, <3>1 DEF RequestPlaced, SameUuid
      <3> QED
        BY <1>0, <2>1, <2>2, <3>1 DEF TableInv, LookupsUnambiguous
    <2>3. LookupsUnambiguous'
      <3>1. ASSUME NEW e \in Used', NEW f \in Used', e[1] = f[1],
                   Info(e)'.cookie = Info(f)'.cookie
            PROVE  e = f
        BY <1>0, <1>2, <3>1 DEF TableInv, LookupsUnambiguous, Used
      <3> QED
        BY <2>2, <3>1 DEF LookupsUnambiguous, SameUuid
    <2>4. SlotsFillInOrder'
      BY <1>0, <1>1, <1>5, <2>1 DEF TableInv, SlotsFillInOrder, RequestPlaced
    <2> QED
      BY <1>3, <2>1, <2>3, <2>4 DEF TableInv
  <1> QED
    BY <1>4, <1>5 DEF UpdateDone

\* A request that begins works on a slot in use, or on the first free one for a UUID
\* that no service in use answers to.
LEMMA BeginPlaced ==
  ASSUME NEW op \in {"REGISTER", "UNREGISTER"}, NEW s \in Slots, NEW uuid, NEW source,
         NEW count, NEW maps, BeginUpdate(op, s, uuid, source, count, maps),
         notified' = {}, UNCHANGED tables,
         op = "UNREGISTER" => InUse[s],
         ~InUse[s] => /\ \A t \in Slots : t < s => InUse[t]
                      /\ \A t \in Slots : InUse[t] => ~SameUuid(uuid, ServiceUuid[t])
  PROVE  RequestPlaced' /\ NoMemOnlyWhenServicesFull'
  <1>1. CASE ValidCount(count % 256)
    <2>1. /\ call' = [op |-> op, slot |-> s, uuid |-> uuid, source |-> source,
                      maps |-> maps, index |-> 1]
          /\ reply' = "none"
      BY <1>1 DEF BeginUpdate
    <2>2. call'.op = op /\ call'.slot = s /\ call'.uuid = uuid
      BY <2>1
    <2>3. InUse' = InUse /\ ServiceUuid' = ServiceUuid
      BY DEF tables
    <2> QED
      BY <2>1, <2>2, <2>3 DEF RequestPlaced, NoMemOnlyWhenServicesFull, SameUuid
  <1>2. CASE ~ValidCount(count % 256)
    <2>1. call' = NoRequest /\ reply' = "INVALID_PARAMETER"
      BY <1>2 DEF BeginUpdate, Answer
    <2>2. call'.op = "none"
      BY <2>1 DEF NoRequest
    <2> QED
      BY <2>1, <2>2 DEF RequestPlaced, Busy, NoMemOnlyWhenServicesFull
  <1> QED
    BY <1>1, <1>2

\* RegisterHandler and UnregisterHandler place a request so, and answer NO_MEM only
\* when no slot is free.
LEMMA HandlePlaced ==
  ASSUME IInv, NEW arg5 \in MsgInfos, NEW words \in UuidWords, NEW source \in Sources,
         NEW count \in Counts, NEW maps \in MapsOf(count),
         NotificationServiceHandle(arg5, words, source, count, maps)
  PROVE  RequestPlaced' /\ NoMemOnlyWhenServicesFull'
  <1> DEFINE uuid == NotificationServiceExtractUuid(words[1], words[2])
             known == LocateService(uuid, FALSE)
             free == LocateService(uuid, TRUE)
  <1> HIDE DEF uuid
  <1>1. notified' = {} /\ UNCHANGED tables
    BY DEF NotificationServiceHandle
  <1>2. \/ RegisterHandler(uuid, source, count, maps)
        \/ UnregisterHandler(uuid, source, count, maps)
        \/ Answer("NOT_SUPPORTED")
    BY DEF NotificationServiceHandle, uuid
  <1>3. /\ known = NOTIFICATION_NOT_FOUND =>
             \A t \in Slots : InUse[t] => ~SameUuid(uuid, ServiceUuid[t])
        /\ known # NOTIFICATION_NOT_FOUND => known \in Slots /\ InUse[known]
    BY LocateFinds
  <1>4. /\ free = NOTIFICATION_NOT_FOUND => \A t \in Slots : InUse[t]
        /\ free # NOTIFICATION_NOT_FOUND =>
             /\ free \in Slots /\ ~InUse[free]
             /\ \A t \in Slots : ~InUse[t] => free <= t
    BY LocateFinds
  <1>5. ASSUME NEW status, Answer(status), status = "NO_MEM" => \A t \in Slots : InUse[t]
        PROVE  RequestPlaced' /\ NoMemOnlyWhenServicesFull'
    <2>1. call' = NoRequest /\ reply' = status /\ InUse' = InUse
      BY <1>1, <1>5 DEF Answer, tables
    <2>2. call'.op = "none"
      BY <2>1 DEF NoRequest
    <2> QED
      BY <1>5, <2>1, <2>2 DEF RequestPlaced, Busy, NoMemOnlyWhenServicesFull
  <1> HIDE DEF known, free
  <1>6. CASE RegisterHandler(uuid, source, count, maps)
    <2>1. CASE known # NOTIFICATION_NOT_FOUND
      <3>1. BeginUpdate("REGISTER", known, uuid, source, count, maps)
        BY <1>6, <2>1 DEF RegisterHandler, known
      <3> QED
        BY <1>1, <1>3, <2>1, <3>1, BeginPlaced
    <2>2. CASE known = NOTIFICATION_NOT_FOUND /\ free # NOTIFICATION_NOT_FOUND
      <3>1. BeginUpdate("REGISTER", free, uuid, source, count, maps)
        BY <1>6, <2>2 DEF RegisterHandler, known, free
      <3>2. \A t \in Slots : t < free => InUse[t]
        BY <1>4, <2>2, SizeAssumption DEF Slots
      <3> QED
        BY <1>1, <1>3, <1>4, <2>2, <3>1, <3>2, BeginPlaced
    <2>3. CASE known = NOTIFICATION_NOT_FOUND /\ free = NOTIFICATION_NOT_FOUND
      <3>1. Answer("NO_MEM")
        BY <1>6, <2>3 DEF RegisterHandler, known, free
      <3> QED
        BY <1>4, <1>5, <2>3, <3>1
    <2> QED
      BY <2>1, <2>2, <2>3
  <1>7. CASE UnregisterHandler(uuid, source, count, maps)
    <2>1. CASE known # NOTIFICATION_NOT_FOUND
      <3>1. BeginUpdate("UNREGISTER", known, uuid, source, count, maps)
        BY <1>7, <2>1 DEF UnregisterHandler, known
      <3> QED
        BY <1>1, <1>3, <2>1, <3>1, BeginPlaced
    <2>2. CASE known = NOTIFICATION_NOT_FOUND
      <3>1. Answer("INVALID_PARAMETER")
        BY <1>7, <2>2 DEF UnregisterHandler, known
      <3> QED
        BY <1>5, <3>1
    <2> QED
      BY <2>1, <2>2
  <1>8. CASE Answer("NOT_SUPPORTED")
    BY <1>5, <1>8
  <1> QED
    BY <1>2, <1>6, <1>7, <1>8

\* The mapping table of a service cannot be full when the bits of an ID are free: its
\* entries hold distinct bits of one int, and there are at least as many entries.
LEMMA MappingTableNeverFull ==
  ASSUME IInv, InLoop, RegisterStatus = "NO_MEM"
  PROVE  FALSE
  <1>0. TypeOK /\ IdsExclusive
    BY DEF IInv, TableInv
  <1>1. /\ call.slot \in Slots /\ Mapping.id \in Nat
        /\ ServiceInfo \in [Slots -> [Indices -> NotifInfo]]
    BY <1>0, LoopMapping DEF TypeOK
  <1>2. /\ GlobalBitmask \cap IdBits(Mapping.id) = {}
        /\ EmptyIndex(call.slot) = NOTIFICATION_NOT_FOUND
    BY DEF RegisterStatus
  <1>3. \A j \in Indices : ServiceInfo[call.slot][j].inUse
    BY <1>2, EmptyFinds
  <1> DEFINE Bit(j) == IF j = -1 THEN Mapping.id % INT_BITS
                       ELSE ServiceInfo[call.slot][j].id % INT_BITS
             S == (-1) .. (NOTIFICATION_MAX_MAPPINGS - 1)
             T == 0 .. (INT_BITS - 1)
             f == [j \in S |-> Bit(j)]
  <1>4. ASSUME NEW j \in Indices
        PROVE  /\ ServiceInfo[call.slot][j].id \in Nat
               /\ Bit(j) \in T /\ Bit(j) \in IdBits(ServiceInfo[call.slot][j].id)
               /\ <<call.slot, j>> \in Used
               /\ Info(<<call.slot, j>>) = ServiceInfo[call.slot][j]
    <2>1. ServiceInfo[call.slot][j] \in NotifInfo
      BY <1>1
    <2>2. ServiceInfo[call.slot][j].id \in Nat
      BY <2>1, InfoType
    <2>3. j # -1
      BY SizeAssumption DEF Indices
    <2>4. <<call.slot, j>> \in Used /\ Info(<<call.slot, j>>) = ServiceInfo[call.slot][j]
      BY <1>1, <1>3 DEF Used, Info
    <2> QED
      BY <2>2, <2>3, <2>4, BitsType
  <1>5. Bit(-1) \in T /\ Bit(-1) \in IdBits(Mapping.id)
    BY <1>1, BitsType
  <1>6. \A j \in S : j = -1 \/ j \in Indices
    BY SizeAssumption DEF Indices
  <1>7. \A j \in S : Bit(j) \in T
    BY <1>4, <1>5, <1>6
  <1>8. ASSUME NEW j \in Indices
        PROVE  Bit(j) # Bit(-1)
    <2>1. Bit(j) \in GlobalBitmask
      BY <1>0, <1>4 DEF IdsExclusive
    <2> QED
      BY <1>2, <1>5, <2>1
  <1>9. ASSUME NEW j \in Indices, NEW k \in Indices, j # k
        PROVE  Bit(j) # Bit(k)
    <2>1. <<call.slot, j>> # <<call.slot, k>>
      BY <1>9
    <2>2. IdBits(ServiceInfo[call.slot][j].id) \cap IdBits(ServiceInfo[call.slot][k].id) = {}
      BY <1>0, <1>4, <2>1 DEF IdsExclusive
    <2> QED
      BY <1>4, <2>2
  <1> HIDE DEF Bit
  <1>10. \A j, k \in S : j # k => f[j] # f[k]
    BY <1>6, <1>8, <1>9
  <1>11. f \in [S -> T]
    BY <1>7
  <1>12. /\ IsFiniteSet(S) /\ Cardinality(S) = NOTIFICATION_MAX_MAPPINGS + 1
         /\ IsFiniteSet(T) /\ Cardinality(T) = INT_BITS
    BY SizeAssumption, FS_Interval
  <1>13. Cardinality(T) < Cardinality(S)
    BY <1>12, SizeAssumption
  <1> HIDE DEF f, S, T
  <1> QED
    BY <1>10, <1>11, <1>12, <1>13, FS_PigeonHole

\* The entry a nonzero cookie hits is in use, and no other mapping shares its bits
\* (NotificationServiceIdSet).
LEMMA EventStep ==
  ASSUME IInv, NEW words \in UuidWords, NEW cookie \in Cookies, NEW sent \in BOOLEAN,
         TestNotificationHandler(words, cookie, sent)
  PROVE  EventReachesOwner'
  <1>0. TypeOK /\ FreeIsCleared /\ IdsExclusive
    BY DEF IInv, TableInv
  <1>1. UNCHANGED <<tables, call>>
    BY <1>0, NotifyEffect
  <1>2. Used' = Used /\ \A e \in Used : Info(e)' = Info(e)
    BY <1>1 DEF tables, Used, Info
  <1>3. CASE notified' = {}
    BY <1>3 DEF EventReachesOwner
  <1>4. ASSUME NEW s \in Slots, NEW i \in Indices, ServiceInfo[s][i].cookie = cookie,
               notified' = {[cookie |-> cookie, dest |-> ServiceInfo[s][i].source,
                             perVcpu |-> ServiceInfo[s][i].perVcpu,
                             bits |-> IdBits(ServiceInfo[s][i].id)]}
        PROVE  EventReachesOwner'
    <2> DEFINE e == <<s, i>>
    <2>1. SUFFICES ASSUME NEW n \in notified', n.cookie # 0
                   PROVE  \E g \in Used : /\ Info(g).cookie = n.cookie
                                          /\ Info(g).source = n.dest
                                          /\ Info(g).perVcpu = n.perVcpu
                                          /\ \A f \in Used :
                                               IdBits(Info(f).id) \cap n.bits # {} <=> f = g
      BY <1>2 DEF EventReachesOwner, IdBits
    <2>2. /\ n.cookie = cookie /\ n.dest = ServiceInfo[s][i].source
          /\ n.perVcpu = ServiceInfo[s][i].perVcpu
          /\ n.bits = IdBits(ServiceInfo[s][i].id)
      BY <1>4, <2>1
    <2>3. ServiceInfo[s][i].inUse
      BY <1>0, <1>4, <2>1, <2>2 DEF FreeIsCleared, Cleared
    <2>4. e \in Used /\ Info(e) = ServiceInfo[s][i]
      BY <2>3 DEF Used, Info
    <2>5. IdBits(Info(e).id) # {}
      <3>1. ServiceInfo[s][i] \in NotifInfo
        BY <1>0 DEF TypeOK
      <3> QED
        BY <2>4, <3>1, InfoType, BitsType
    <2>6. ASSUME NEW f \in Used
          PROVE  IdBits(Info(f).id) \cap n.bits # {} <=> f = e
      BY <1>0, <2>2, <2>4, <2>5 DEF IdsExclusive
    <2> HIDE DEF e
    <2> QED
      BY <1>4, <2>2, <2>4, <2>6
  <1> QED
    BY <1>0, <1>3, <1>4, NotifyEffect

\* Nothing was notified yet for a request that is being handled, or a message that
\* notifies nothing.
LEMMA NothingNotified ==
  ASSUME notified' = {}
  PROVE  EventReachesOwner'
BY DEF EventReachesOwner

\* Every step keeps the inductive invariant.
LEMMA IInvStep == IInv /\ [Next]_vars => IInv'
  <1> SUFFICES ASSUME IInv, [Next]_vars PROVE IInv'
    OBVIOUS
  <1>0. TypeOK'
    BY NextType DEF IInv
  <1>1. ASSUME NEW arg5 \in MsgInfos, NEW words \in UuidWords, NEW source \in Sources,
               NEW count \in Counts, NEW maps \in MapsOf(count),
               NotificationServiceHandle(arg5, words, source, count, maps)
        PROVE  IInv'
    <2>1. notified' = {} /\ UNCHANGED tables
      BY <1>1 DEF NotificationServiceHandle
    <2> QED
      BY <1>0, <1>1, <2>1, TablesUnchanged, HandlePlaced, NothingNotified DEF IInv
  <1>2. ASSUME NEW words \in UuidWords, NEW cookie \in Cookies, NEW sent \in BOOLEAN,
               TestNotificationHandler(words, cookie, sent)
        PROVE  IInv'
    <2>1. ~Busy /\ UNCHANGED <<tables, call>> /\ reply' # "NO_MEM"
      BY <1>2 DEF TestNotificationHandler
    <2>2. RequestPlaced' /\ NoMemOnlyWhenServicesFull'
      BY <2>1 DEF RequestPlaced, Busy, NoMemOnlyWhenServicesFull
    <2> QED
      BY <1>0, <1>2, <2>1, <2>2, TablesUnchanged, EventStep DEF IInv
  <1>3. CASE TestServiceInvalid
    <2>1. ~Busy /\ UNCHANGED <<tables, call>> /\ reply' # "NO_MEM" /\ notified' = {}
      BY <1>3 DEF TestServiceInvalid
    <2>2. RequestPlaced' /\ NoMemOnlyWhenServicesFull'
      BY <2>1 DEF RequestPlaced, Busy, NoMemOnlyWhenServicesFull
    <2> QED
      BY <1>0, <2>1, <2>2, TablesUnchanged, NothingNotified DEF IInv
  <1>4. CASE UnregisterMapping \/ RegisterMapping
    <2>1. /\ Busy /\ notified = {} /\ call'.op = call.op /\ call'.slot = call.slot
          /\ call'.uuid = call.uuid /\ UNCHANGED <<ServiceUuid, InUse, reply, notified>>
      BY <1>4, UnregisterEffect, RegisterEffect, StoredEffect
         DEF IInv, RequestPlaced, UnregisterMapping, RegisterMapping, InLoop
    <2>2. RequestPlaced'
      BY <2>1 DEF IInv, RequestPlaced, SameUuid
    <2>3. NoMemOnlyWhenServicesFull' /\ EventReachesOwner'
      BY <2>1, NothingNotified DEF IInv, NoMemOnlyWhenServicesFull
    <2> QED
      BY <1>0, <1>4, <2>2, <2>3, StoreKeepsTables DEF IInv
  <1>5. CASE RefuseMapping
    <2>1. /\ Busy /\ notified = {} /\ UNCHANGED <<tables, notified>>
          /\ call' = NoRequest /\ InLoop
          /\ reply' \in {RegisterStatus, UnregisterStatus}
      BY <1>5 DEF IInv, RequestPlaced, RefuseMapping, InLoop, Answer
    <2>2. reply' # "NO_MEM"
      BY <2>1, MappingTableNeverFull DEF UnregisterStatus
    <2>3. call'.op = "none"
      BY <2>1 DEF NoRequest
    <2>4. RequestPlaced' /\ NoMemOnlyWhenServicesFull'
      BY <2>2, <2>3 DEF RequestPlaced, Busy, NoMemOnlyWhenServicesFull
    <2> QED
      BY <1>0, <2>1, <2>4, TablesUnchanged, NothingNotified DEF IInv
  <1>6. CASE UpdateDone
    <2>1. /\ Busy /\ notified = {} /\ notified' = notified
          /\ call' = NoRequest /\ reply' = "SUCCESS"
      BY <1>6 DEF IInv, RequestPlaced, UpdateDone, Answer
    <2>2. call'.op = "none"
      BY <2>1 DEF NoRequest
    <2>3. RequestPlaced' /\ NoMemOnlyWhenServicesFull'
      BY <2>1, <2>2 DEF RequestPlaced, Busy, NoMemOnlyWhenServicesFull
    <2> QED
      BY <1>0, <1>6, <2>1, <2>3, DoneKeepsTables, NothingNotified DEF IInv
  <1>7. CASE UNCHANGED vars
    <2>1. TableInv'
      BY <1>7, TablesUnchanged DEF IInv, vars
    <2>2. RequestPlaced' /\ NoMemOnlyWhenServicesFull'
      BY <1>7 DEF IInv, vars, tables, RequestPlaced, Busy, NoMemOnlyWhenServicesFull, SameUuid
    <2>3. EventReachesOwner'
      <3>1. Used' = Used /\ notified' = notified /\ \A e \in Used : Info(e)' = Info(e)
        BY <1>7 DEF vars, tables, Used, Info
      <3> QED
        BY <3>1 DEF IInv, EventReachesOwner, IdBits
    <2> QED
      BY <1>0, <2>1, <2>2, <2>3 DEF IInv
  <1> QED
    BY <1>1, <1>2, <1>3, <1>4, <1>5, <1>6, <1>7 DEF Next, Message, LoopStep

\* NotificationServiceInit establishes it.
LEMMA IInvInit == Init => IInv
  <1> SUFFICES ASSUME Init PROVE IInv
    OBVIOUS
  <1>1. TypeOK
    BY InitType
  <1>2. \A s \in Slots, i \in Indices : ServiceInfo[s][i] = Cleared
    BY DEF Init
  <1>3. Used = {}
    BY <1>2 DEF Used, Cleared
  <1>4. FreeIsCleared /\ SlotsFillInOrder
    BY <1>2 DEF Init, FreeIsCleared, SlotsFillInOrder, Cleared
  <1>5. IdsExclusive
    BY <1>3 DEF Init, IdsExclusive
  <1>6. LookupsUnambiguous
    BY <1>3 DEF Init, LookupsUnambiguous
  <1>7. RequestPlaced /\ EventReachesOwner /\ NoMemOnlyWhenServicesFull
    BY DEF Init, RequestPlaced, Busy, NoRequest, EventReachesOwner, NoMemOnlyWhenServicesFull
  <1> QED
    BY <1>1, <1>4, <1>5, <1>6, <1>7 DEF IInv, TableInv

\* The inductive invariant holds throughout.
LEMMA Invariance == Spec => []IInv
  BY IInvInit, IInvStep, PTL DEF Spec

-----------------------------------------------------------------------------
(***************************************************************************)
(* The theorems.                                                           *)
(***************************************************************************)

\* For tables of any size: an ID has one registrant in the partition and the bitmask is
\* exact, whatever requests fail half way (UpdateServiceInfo).
THEOREM IdsExclusiveCorrect == Spec => []IdsExclusive
  <1>1. IInv => IdsExclusive
    BY DEF IInv, TableInv
  <1> QED
    BY Invariance, <1>1, PTL

\* For tables of any size: a UUID finds one service, a cookie one mapping of it.
THEOREM LookupsCorrect == Spec => []LookupsUnambiguous
  <1>1. IInv => LookupsUnambiguous
    BY DEF IInv, TableInv
  <1> QED
    BY Invariance, <1>1, PTL

\* For tables of any size: services fill the table from the front, and what a refused
\* registration left is in the first free slot.
THEOREM SlotsCorrect == Spec => []SlotsFillInOrder
  <1>1. IInv => SlotsFillInOrder
    BY DEF IInv, TableInv
  <1> QED
    BY Invariance, <1>1, PTL

\* For tables of any size: an event with a nonzero cookie reaches exactly its owner.
THEOREM EventCorrect == Spec => []EventReachesOwner
  <1>1. IInv => EventReachesOwner
    BY DEF IInv
  <1> QED
    BY Invariance, <1>1, PTL

\* As long as a service has at least as many entries as an int has bits, NO_MEM means
\* that every service slot is taken.
THEOREM NoMemCorrect == Spec => []NoMemOnlyWhenServicesFull
  <1>1. IInv => NoMemOnlyWhenServicesFull
    BY DEF IInv
  <1> QED
    BY Invariance, <1>1, PTL

\* A stored mapping goes away only by an unregister request of its registrant that
\* names its cookie and its ID.
THEOREM RemovalCorrect == Spec => OnlyOwnerRemoves
  <1> DEFINE Removal == \A e \in Used : Info(e)' # Info(e) =>
               /\ call.op = "UNREGISTER" /\ call.slot = e[1] /\ call.source = Info(e).source
               /\ Mapping.cookie = Info(e).cookie /\ Mapping.id = Info(e).id
               /\ ~Info(e)'.inUse
  <1>1. TypeOK /\ [Next]_vars => [Removal]_vars
    <2> SUFFICES ASSUME TypeOK, [Next]_vars, NEW e \in Used, Info(e)' # Info(e)
                 PROVE  /\ call.op = "UNREGISTER" /\ call.slot = e[1]
                        /\ call.source = Info(e).source
                        /\ Mapping.cookie = Info(e).cookie /\ Mapping.id = Info(e).id
                        /\ ~Info(e)'.inUse
      OBVIOUS
    <2>1. ServiceInfo' # ServiceInfo /\ e \in Slots \X Indices
      BY DEF Info, Used
    <2>2. UnregisterMapping \/ RegisterMapping
      <3>1. CASE Message
        BY <2>1, <3>1, MessageType DEF tables
      <3>2. CASE LoopStep
        BY <2>1, <3>2 DEF LoopStep, RefuseMapping, UpdateDone, tables
      <3>3. CASE UNCHANGED vars
        BY <2>1, <3>3 DEF vars, tables
      <3> QED
        BY <3>1, <3>2, <3>3 DEF Next
    <2>3. CASE RegisterMapping
      <3>1. PICK x \in Slots \X Indices :
              /\ x \notin Used
              /\ \A g \in Slots \X Indices : g # x => Info(g)' = Info(g)
        BY <2>3, UsedAfterRegister
      <3> QED
        BY <2>1, <3>1
    <2>4. CASE UnregisterMapping
      <3>1. PICK x \in Slots \X Indices :
              /\ x = <<call.slot, FoundIndex>>
              /\ \A g \in Slots \X Indices : g # x => Info(g)' = Info(g)
              /\ Info(x)' = Cleared
        BY <2>4, UsedAfterUnregister
      <3>2. e = x
        BY <2>1, <3>1
      <3>3. Info(e) = ServiceInfo[call.slot][FoundIndex] /\ e[1] = call.slot
        BY <3>1, <3>2 DEF Info
      <3>4. /\ Info(e).cookie = Mapping.cookie /\ Info(e).id = Mapping.id
            /\ Info(e).source = call.source
        BY <2>4, <3>3, UnregisterEffect
      <3>5. ~Info(e)'.inUse
        BY <3>1, <3>2 DEF Cleared
      <3> QED
        BY <2>4, <3>3, <3>4, <3>5 DEF UnregisterMapping
    <2> QED
      BY <2>2, <2>3, <2>4
  <1> QED
    BY <1>1, TypeCorrect, PTL DEF Spec, OnlyOwnerRemoves
-----------------------------------------------------------------------------
(***************************************************************************)
(* A request that succeeds is complete.                                    *)
(***************************************************************************)

\* What the loop of UpdateServiceInfo has done for a mapping it is past: no mapping in
\* use has its cookie any more, or one in use is the sender's with its cookie and ID.
MappingDone(m) ==
  IF call.op = "UNREGISTER"
  THEN \A i \in Indices : ServiceInfo[call.slot][i].inUse =>
         ServiceInfo[call.slot][i].cookie # m.cookie
  ELSE \E i \in Indices : /\ ServiceInfo[call.slot][i].inUse
                          /\ ServiceInfo[call.slot][i].cookie = m.cookie
                          /\ ServiceInfo[call.slot][i].id = m.id
                          /\ ServiceInfo[call.slot][i].source = call.source

\* A request in progress is not answered yet and works on the service its UUID names; the
\* mappings the loop is past are done, and later iterations do not undo them.
DoneSoFar ==
  Busy => /\ reply = "none"
          /\ InUse[call.slot] => SameUuid(call.uuid, ServiceUuid[call.slot])
          /\ \A k \in 1 .. (call.index - 1) : MappingDone(call.maps[k])

\* A message that is accepted starts at the first mapping, in a slot that is free or
\* answers to its UUID.
LEMMA HandleStarts ==
  ASSUME NEW arg5, NEW words, NEW source, NEW count, NEW maps,
         NotificationServiceHandle(arg5, words, source, count, maps)
  PROVE  DoneSoFar'
  <1> DEFINE uuid == NotificationServiceExtractUuid(words[1], words[2])
             known == LocateService(uuid, FALSE)
             free == LocateService(uuid, TRUE)
  <1> HIDE DEF uuid
  <1>1. InUse' = InUse /\ ServiceUuid' = ServiceUuid
    BY DEF NotificationServiceHandle, tables
  <1>2. \/ RegisterHandler(uuid, source, count, maps)
        \/ UnregisterHandler(uuid, source, count, maps)
        \/ Answer("NOT_SUPPORTED")
    BY DEF NotificationServiceHandle, uuid
  <1>3. known # NOTIFICATION_NOT_FOUND => SameUuid(uuid, ServiceUuid[known])
    BY LocateFinds
  <1>4. free # NOTIFICATION_NOT_FOUND => ~InUse[free]
    BY LocateFinds
  <1>5. ASSUME NEW status, Answer(status)
        PROVE  DoneSoFar'
    <2>1. call'.op = "none"
      BY <1>5 DEF Answer, NoRequest
    <2> QED
      BY <2>1 DEF DoneSoFar, Busy
  <1>6. ASSUME NEW op, NEW s, InUse[s] => SameUuid(uuid, ServiceUuid[s]),
               BeginUpdate(op, s, uuid, source, count, maps)
        PROVE  DoneSoFar'
    <2>1. CASE ValidCount(count % 256)
      <3>1. /\ call'.slot = s /\ call'.uuid = uuid /\ call'.index = 1
            /\ reply' = "none"
        BY <1>6, <2>1 DEF BeginUpdate
      <3>2. 1 .. (call'.index - 1) = {}
        BY <3>1
      <3>3. InUse'[call'.slot] => SameUuid(call'.uuid, ServiceUuid'[call'.slot])
        BY <1>1, <1>6, <3>1
      <3> QED
        BY <3>1, <3>2, <3>3 DEF DoneSoFar, SameUuid
    <2>2. CASE ~ValidCount(count % 256)
      BY <1>5, <1>6, <2>2 DEF BeginUpdate
    <2> QED
      BY <2>1, <2>2
  <1> HIDE DEF known, free
  <1>7. CASE RegisterHandler(uuid, source, count, maps)
    <2>1. \/ Answer("NO_MEM")
          \/ /\ known # NOTIFICATION_NOT_FOUND
             /\ BeginUpdate("REGISTER", known, uuid, source, count, maps)
          \/ /\ free # NOTIFICATION_NOT_FOUND
             /\ BeginUpdate("REGISTER", free, uuid, source, count, maps)
      BY <1>7 DEF RegisterHandler, known, free
    <2> QED
      BY <1>3, <1>4, <1>5, <1>6, <2>1
  <1>8. CASE UnregisterHandler(uuid, source, count, maps)
    <2>1. \/ Answer("INVALID_PARAMETER")
          \/ /\ known # NOTIFICATION_NOT_FOUND
             /\ BeginUpdate("UNREGISTER", known, uuid, source, count, maps)
      BY <1>8 DEF UnregisterHandler, known
    <2> QED
      BY <1>3, <1>5, <1>6, <2>1
  <1> QED
    BY <1>2, <1>5, <1>7, <1>8

\* What an iteration that stores an entry leaves of the request.
LEMMA LoopAdvances ==
  ASSUME TypeOK, DoneSoFar, InLoop, NEW i \in Indices, NEW info \in NotifInfo,
         Stored(i, info),
         \A k \in 1 .. call.index :
           (k < call.index => MappingDone(call.maps[k])) =>
             IF call.op = "UNREGISTER"
             THEN \A j \in Indices : ServiceInfo'[call.slot][j].inUse =>
                    ServiceInfo'[call.slot][j].cookie # call.maps[k].cookie
             ELSE \E j \in Indices : /\ ServiceInfo'[call.slot][j].inUse
                                     /\ ServiceInfo'[call.slot][j].cookie = call.maps[k].cookie
                                     /\ ServiceInfo'[call.slot][j].id = call.maps[k].id
                                     /\ ServiceInfo'[call.slot][j].source = call.source
  PROVE  DoneSoFar'
  <1>1. /\ call'.op = call.op /\ call'.slot = call.slot /\ call'.uuid = call.uuid
        /\ call'.source = call.source /\ call'.maps = call.maps
        /\ call'.index = call.index + 1
        /\ UNCHANGED <<ServiceUuid, InUse, reply>>
    BY StoredEffect
  <1>2. Busy /\ call.index \in Nat
    BY SizeAssumption DEF InLoop, TypeOK
  <1>3. InUse'[call'.slot] => SameUuid(call'.uuid, ServiceUuid'[call'.slot])
    BY <1>1, <1>2 DEF DoneSoFar
  <1>5. reply' = "none"
    BY <1>1, <1>2 DEF DoneSoFar
  <1>4. ASSUME NEW k \in 1 .. (call'.index - 1)
        PROVE  MappingDone(call.maps[k])'
    <2>1. k \in 1 .. call.index
      BY <1>1, <1>2
    <2>2. k < call.index => k \in 1 .. (call.index - 1)
      BY <1>2, <2>1
    <2>3. k < call.index => MappingDone(call.maps[k])
      BY <1>2, <2>2 DEF DoneSoFar
    <2>4. call.maps[k]' = call.maps[k]
      BY <1>1
    <2> QED
      BY <1>1, <2>1, <2>3, <2>4 DEF MappingDone
  <1> QED
    BY <1>3, <1>4, <1>5 DEF DoneSoFar, SameUuid

\* An unregister iteration keeps what the earlier ones did and leaves no mapping with its
\* own cookie, because the cookie had only one.
LEMMA UnregisterProgress ==
  ASSUME TypeOK, LookupsUnambiguous, DoneSoFar, UnregisterMapping
  PROVE  DoneSoFar'
  <1>1. call.slot \in Slots /\ call.op = "UNREGISTER" /\ InLoop
    BY DEF TypeOK, UnregisterMapping
  <1>2. /\ FoundIndex \in Indices /\ Stored(FoundIndex, Cleared) /\ Cleared \in NotifInfo
        /\ ServiceInfo[call.slot][FoundIndex].inUse
        /\ ServiceInfo[call.slot][FoundIndex].cookie = Mapping.cookie
    BY UnregisterEffect
  <1>3. \A j \in Indices : ServiceInfo'[call.slot][j] =
          IF j = FoundIndex THEN Cleared ELSE ServiceInfo[call.slot][j]
    BY <1>1, <1>2, StoredEffect
  <1>4. ~Cleared.inUse
    BY DEF Cleared
  <1>5. ASSUME NEW j \in Indices, ServiceInfo[call.slot][j].inUse, j # FoundIndex
        PROVE  ServiceInfo[call.slot][j].cookie # Mapping.cookie
    <2> DEFINE e == <<call.slot, j>>
               f == <<call.slot, FoundIndex>>
    <2>1. e \in Used /\ f \in Used /\ e[1] = f[1] /\ e # f
      BY <1>1, <1>2, <1>5 DEF Used
    <2>2. Info(e).cookie # Info(f).cookie
      BY <2>1 DEF LookupsUnambiguous
    <2> QED
      BY <1>2, <2>2 DEF Info
  <1>6. ASSUME NEW k \in 1 .. call.index, k < call.index => MappingDone(call.maps[k]),
               NEW j \in Indices, ServiceInfo'[call.slot][j].inUse
        PROVE  ServiceInfo'[call.slot][j].cookie # call.maps[k].cookie
    <2>1. j # FoundIndex /\ ServiceInfo'[call.slot][j] = ServiceInfo[call.slot][j]
      BY <1>3, <1>4, <1>6
    <2>2. CASE k < call.index
      BY <1>1, <1>6, <2>1, <2>2 DEF MappingDone
    <2>3. CASE k = call.index
      BY <1>5, <1>6, <2>1, <2>3 DEF Mapping
    <2>4. k < call.index \/ k = call.index
      BY DEF TypeOK
    <2> QED
      BY <2>2, <2>3, <2>4
  <1> QED
    BY <1>1, <1>2, <1>6, LoopAdvances

\* A register iteration uses an entry that was free, so it keeps what the earlier ones
\* stored and adds its own mapping.
LEMMA RegisterProgress ==
  ASSUME TypeOK, DoneSoFar, RegisterMapping
  PROVE  DoneSoFar'
  <1> DEFINE free == EmptyIndex(call.slot)
  <1>1. call.slot \in Slots /\ call.op # "UNREGISTER" /\ InLoop
    BY DEF TypeOK, RegisterMapping
  <1>2. /\ free \in Indices /\ Stored(free, NewInfo) /\ NewInfo \in NotifInfo
        /\ ~ServiceInfo[call.slot][free].inUse
    BY RegisterEffect
  <1>3. \A j \in Indices : ServiceInfo'[call.slot][j] =
          IF j = free THEN NewInfo ELSE ServiceInfo[call.slot][j]
    BY <1>1, <1>2, StoredEffect
  <1>4. /\ NewInfo.inUse /\ NewInfo.cookie = Mapping.cookie /\ NewInfo.id = Mapping.id
        /\ NewInfo.source = call.source
    BY DEF NewInfo
  <1> HIDE DEF free
  <1>5. ASSUME NEW k \in 1 .. call.index, k < call.index => MappingDone(call.maps[k])
        PROVE  \E j \in Indices : /\ ServiceInfo'[call.slot][j].inUse
                                  /\ ServiceInfo'[call.slot][j].cookie = call.maps[k].cookie
                                  /\ ServiceInfo'[call.slot][j].id = call.maps[k].id
                                  /\ ServiceInfo'[call.slot][j].source = call.source
    <2>1. CASE k < call.index
      <3>1. PICK j \in Indices : /\ ServiceInfo[call.slot][j].inUse
                                 /\ ServiceInfo[call.slot][j].cookie = call.maps[k].cookie
                                 /\ ServiceInfo[call.slot][j].id = call.maps[k].id
                                 /\ ServiceInfo[call.slot][j].source = call.source
        BY <1>1, <1>5, <2>1 DEF MappingDone
      <3>2. ServiceInfo'[call.slot][j] = ServiceInfo[call.slot][j]
        BY <1>2, <1>3, <3>1
      <3> QED
        BY <3>1, <3>2
    <2>2. CASE k = call.index
      <3>1. ServiceInfo'[call.slot][free] = NewInfo
        BY <1>2, <1>3
      <3> QED
        BY <1>2, <1>4, <2>2, <3>1 DEF Mapping
    <2>3. k < call.index \/ k = call.index
      BY DEF TypeOK
    <2> QED
      BY <2>1, <2>2, <2>3
  <1> QED
    BY <1>1, <1>2, <1>5, LoopAdvances

\* Every step keeps the account of what is done.
LEMMA ProgressStep == IInv /\ DoneSoFar /\ [Next]_vars => DoneSoFar'
  <1> SUFFICES ASSUME IInv, DoneSoFar, [Next]_vars PROVE DoneSoFar'
    OBVIOUS
  <1>1. TypeOK /\ LookupsUnambiguous
    BY DEF IInv, TableInv
  <1>2. ASSUME NEW arg5 \in MsgInfos, NEW words \in UuidWords, NEW source \in Sources,
               NEW count \in Counts, NEW maps \in MapsOf(count),
               NotificationServiceHandle(arg5, words, source, count, maps)
        PROVE  DoneSoFar'
    BY <1>2, HandleStarts
  <1>3. CASE \/ TestServiceInvalid
             \/ \E words \in UuidWords, cookie \in Cookies, sent \in BOOLEAN :
                  TestNotificationHandler(words, cookie, sent)
    <2>1. ~Busy /\ call' = call
      BY <1>3 DEF TestServiceInvalid, TestNotificationHandler
    <2> QED
      BY <2>1 DEF DoneSoFar, Busy
  <1>4. CASE UnregisterMapping
    BY <1>1, <1>4, UnregisterProgress
  <1>5. CASE RegisterMapping
    BY <1>1, <1>5, RegisterProgress
  <1>6. CASE RefuseMapping \/ UpdateDone
    <2>1. call'.op = "none"
      BY <1>6 DEF RefuseMapping, UpdateDone, Answer, NoRequest
    <2> QED
      BY <2>1 DEF DoneSoFar, Busy
  <1>7. CASE UNCHANGED vars
    BY <1>7 DEF vars, tables, DoneSoFar, Busy, MappingDone, SameUuid
  <1> QED
    BY <1>2, <1>3, <1>4, <1>5, <1>6, <1>7 DEF Next, Message, LoopStep

\* A request that succeeds has stored all its mappings for its sender in a service in use
\* that answers to its UUID, or left none of its cookies: in any number of iterations, no
\* later one undoes an earlier one (UpdateServiceInfo).
THEOREM SuccessCorrect == Spec => SuccessIsComplete
  <1> DEFINE Complete ==
        Busy /\ reply' = "SUCCESS" =>
          \A k \in 1 .. Len(call.maps) :
            LET m == call.maps[k]
                hit == {i \in Indices : /\ ServiceInfo'[call.slot][i].inUse
                                        /\ ServiceInfo'[call.slot][i].cookie = m.cookie}
            IN IF call.op = "UNREGISTER" THEN hit = {}
               ELSE /\ InUse'[call.slot] /\ SameUuid(call.uuid, ServiceUuid'[call.slot])
                    /\ \E i \in hit : /\ ServiceInfo'[call.slot][i].id = m.id
                                      /\ ServiceInfo'[call.slot][i].source = call.source
  <1>1. Init => DoneSoFar
    BY DEF Init, NoRequest, DoneSoFar, Busy
  <1>2. Spec => []DoneSoFar
    BY <1>1, ProgressStep, Invariance, PTL DEF Spec
  <1>3. IInv /\ DoneSoFar /\ [Next]_vars => [Complete]_vars
    <2> SUFFICES ASSUME IInv, DoneSoFar, Next, Busy, reply' = "SUCCESS",
                        ~ UNCHANGED vars,
                        NEW k \in 1 .. Len(call.maps)
                 PROVE  LET m == call.maps[k]
                            hit == {i \in Indices :
                                      /\ ServiceInfo'[call.slot][i].inUse
                                      /\ ServiceInfo'[call.slot][i].cookie = m.cookie}
                        IN IF call.op = "UNREGISTER" THEN hit = {}
                           ELSE /\ InUse'[call.slot]
                                /\ SameUuid(call.uuid, ServiceUuid'[call.slot])
                                /\ \E i \in hit :
                                     /\ ServiceInfo'[call.slot][i].id = m.id
                                     /\ ServiceInfo'[call.slot][i].source = call.source
      OBVIOUS
    <2>0. TypeOK /\ RequestPlaced
      BY DEF IInv
    <2>1. UpdateDone
      <3>1. ~Message
        BY DEF Message, NotificationServiceHandle, TestNotificationHandler, TestServiceInvalid
      <3>2. ASSUME UnregisterMapping \/ RegisterMapping PROVE FALSE
        <4>1. reply' = reply
          BY <3>2 DEF UnregisterMapping, RegisterMapping, Stored
        <4> QED
          BY <4>1 DEF DoneSoFar
      <3>3. ~RefuseMapping
        BY DEF RefuseMapping, Answer
      <3> QED
        BY <3>1, <3>2, <3>3 DEF Next, LoopStep
    <2>2. ~InLoop /\ ServiceInfo' = ServiceInfo
      BY <2>1 DEF UpdateDone
    <2>3. k \in 1 .. (call.index - 1)
      <3>1. Len(call.maps) \in Nat /\ call.index \in Nat
        BY <2>0, SizeAssumption DEF TypeOK
      <3> QED
        BY <2>2, <3>1 DEF InLoop
    <2>4. MappingDone(call.maps[k])
      BY <2>3 DEF DoneSoFar
    <2>5. CASE call.op = "UNREGISTER"
      BY <2>2, <2>4, <2>5 DEF MappingDone
    <2>6. CASE call.op # "UNREGISTER"
      <3>1. call.op = "REGISTER" /\ call.slot \in Slots
        BY <2>0, <2>6 DEF TypeOK, Busy
      <3>2. InUse'[call.slot] /\ SameUuid(call.uuid, ServiceUuid'[call.slot])
        <4>1. CASE InUse[call.slot]
          <5>1. InUse' = InUse /\ ServiceUuid' = ServiceUuid
            BY <2>1, <4>1 DEF UpdateDone
          <5> QED
            BY <4>1, <5>1 DEF DoneSoFar
        <4>2. CASE ~InUse[call.slot]
          <5>1. /\ ServiceUuid' = [ServiceUuid EXCEPT ![call.slot] = call.uuid]
                /\ InUse' = [InUse EXCEPT ![call.slot] = TRUE]
            BY <2>1, <3>1, <4>2 DEF UpdateDone
          <5>2. InUse'[call.slot] /\ ServiceUuid'[call.slot] = call.uuid
            BY <2>0, <3>1, <5>1 DEF TypeOK
          <5> QED
            BY <5>2 DEF SameUuid
        <4> QED
          BY <4>1, <4>2
      <3>3. PICK i \in Indices : /\ ServiceInfo[call.slot][i].inUse
                                 /\ ServiceInfo[call.slot][i].cookie = call.maps[k].cookie
                                 /\ ServiceInfo[call.slot][i].id = call.maps[k].id
                                 /\ ServiceInfo[call.slot][i].source = call.source
        BY <2>4, <2>6 DEF MappingDone
      <3> QED
        BY <2>2, <2>6, <3>2, <3>3
    <2> QED
      BY <2>5, <2>6
  <1> QED
    BY <1>2, <1>3, Invariance, PTL DEF Spec, SuccessIsComplete
=============================================================================
