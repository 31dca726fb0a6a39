# Verification of the FF-A feature package

TLA+ modules for the secure-partition services of `FfaFeaturePkg`, checked with TLC on
small instances and, for the core, proved with TLAPS for every value of the constants.
`PROJECT.json` lists the runs, the source lines every definition stands for, the hazards
each property is aimed at and the theorems.

## The system

A secure partition at S-EL0 receives FF-A direct messages, dispatches each one by UUID to
a service library, and answers before it takes the next. The message loop itself is not
part of this repository. A UEFI application tests the services of a partition from the
normal world, through the same messages.

| Part | State | Operations | Talks to |
|---|---|---|---|
| TPM service (`TpmServiceLib.c`) | `mCurrentState`, `mActiveLocality`, `mLocalityStates`, one CRB per locality in memory shared with the normal world | `TpmServiceHandle` and its handlers | state translation library; clients through shared memory; TF-A |
| State translation (`TpmServiceStateTranslationLib.c`) | interface type, idle bypass | `TpmSst*`: write a device register, poll, yield | the TPM device; the normal world runs during a yield |
| Notification service (`NotificationServiceLib.c`) | 16 services with 64 mappings each, one bitmask of IDs | register, unregister, `NotificationServiceIdSet` | `FfaNotificationSet` |
| Test service (`TestServiceLib.c`) | none | raise a notification | notification service |
| FF-A library (`ArmFfaLibEx.c`) | the partition's own ID, cached | wait, respond, request, return from interrupt, notifications, memory sharing | SPMC |
| Test application (`FfaPartitionTestApp.c`) | which services it found, the flag its interrupt handler sets | nineteen test cases in order, the handler | all services of a partition, SPMC |
| Memory allocation (`Page.c`, `Pool.c`, `SecurePartitionMemoryAllocationLib.c`) | sorted list of free page runs; six pool free lists | allocate, free, aligned allocation, reallocation, constructor | all services |
| Entry point (`StandaloneMmCoreEntryPoint.c`, `SetPermissions.c`) | none after boot | boot information, manifest, section permissions | SPMC, FF-A library |
| Timer, services table, null interrupt library | none | | |

What is hard here:

* a TpmSst call yields between polls, so clients write the very CRB the call serves, and a
  call that gives up leaves a device that may still act on the register later;
* all clients share one TPM state machine but each has its own CRB, so what a CRB shows may
  disagree with what the service will do;
* a notification request is a loop over mappings that may fail in the middle, over tables
  that are searched by UUID, cookie and ID with different notions of "in use";
* widths: locality and mapping count are cut to a byte, `1 << Id` is an `int`;
* free lists that are split and merged in any order;
* interrupts are served inside the calls that wait for a message, one buffer takes messages of
  two layouts, and the statuses of some calls are dropped;
* the cases of the test application build on the state earlier ones left in a service that
  other clients use at the same time, and one of them waits for an interrupt.

## Modules

| Module | Models | Kind |
|---|---|---|
| `TpmStateTranslation` | `TpmServiceStateTranslationLib.c` and, external, the device | component |
| `TpmService` | `TpmServiceLib.c` on top of it, with the clients and TF-A | composition |
| `TpmStateMachine` | what the Start ABI promises | abstract specification |
| `MCTpmService`, `TpmStartHistory` | instances; a history variable | TLC |
| `TpmServiceProofs` | theorems about `TpmService` | TLAPS |
| `NotificationService` | `NotificationServiceLib.c` and `TestServiceLib.c` | composition |
| `MCNotification`, `NotificationDocumented` | instances; a history variable | TLC |
| `NotificationProofs` | theorems about `NotificationService` | TLAPS |
| `PageList` | the free list of `Page.c` and the page functions on it, as operators | algorithms |
| `PageListProofs` | lemmas: what the operators of `PageList` do to a list and to its free pages | TLAPS |
| `PageAllocator` | any sequence of page calls | component |
| `PageSet` | what a page allocator promises | abstract specification |
| `PageAllocatorProofs` | theorems about `PageAllocator` | TLAPS |
| `PoolAllocator` | `Pool.c` and callers of pages, both on one `PageList` | composition |
| `PoolAllocatorProofs` | theorems about `PoolAllocator` | TLAPS |
| `SpEntryPoint` | `ModuleEntryPoint.S`, `StandaloneMmCoreEntryPoint.c`, `SetPermissions.c` and the constructor of the memory library | component |
| `MCSpEntryPoint` | the images of its runs | TLC |
| `SpEntryPointProofs` | theorems about `SpEntryPoint` | TLAPS |
| `ArmFfaLibEx` | what the calls of `ArmFfaLibEx.c` put into registers and make of them, as operators | algorithms |
| `FfaPartition` | a partition with its services on top of `ArmFfaLibEx` and `NotificationService`; its clients and, external, the SPMC and the main loop | composition |
| `FfaPartitionTestApp` | `FfaPartitionTestApp.c` against that partition | composition |
| `MCPartitionTest` | the instance | TLC |
| `FfaPartitionProofs` | theorems about the registers of a message and about the composition | TLAPS |
| `ArmArchTimerLibEx` | the conversions of `ArmArchTimerLibEx.c`, with their theorems | algorithms, TLAPS |

### TPM service

Variables keep the names of the C globals. `crb[l]` is the CRB of a locality, reduced to
the control bits its client has set, whether it shows access granted, its tpmIdle bit and
its buffer (zeroed, a command, or the response to a command). `response` is the answer to
the last message; `sst` the TpmSst call in progress. A Start message is `StartRefused`
(the whole handler, the trailing clean included) or `StartForwarded`, then the poll loops
of the call - `SstNextLoop`, `SstYield`, `SstBurstFails` - and at last `StartSucceeds` or
`StartFails`, each with everything the handler does after the call returns. While a call
is in progress no other message is served, but `ClientSetsBit`, `ClientFillsBuffer` and
the device (`TpmStep`) take steps. The other messages are one step each.

The device is external. `pend` holds the register writes it has not acted on; it acts on
them in any order and at any time, grants a locality once no other holds it, and drops a
command of a locality it has not granted. A CRB device clears a request bit before its
idle status follows. A burst count may read zero at any time.

Left out: the wording of status codes, buffer sizes (a client that overwrites the size
registers is outside the model: they are what `InitInternalCrb` set), torn writes of a
buffer while it is copied, the `default` branch of `HandleCommand` (a state no step
reaches: `TypeOK`).

### Notification service

`UpdateServiceInfo` stores each mapping before it looks at the next one, so the loop is one
step per mapping (`RegisterMapping`, `UnregisterMapping`, `RefuseMapping`) and `UpdateDone`
is the end of the handler. UUIDs are functions from byte positions to bytes so that the
partial comparison is what the code does. `IdBits` is `1 << Id` converted to `UINT64`: the
count modulo the width of `int`, as the AArch64 shift does it, and the sign bit extended.
`TestNotificationHandler` includes `NotificationServiceIdSet`; `FfaNotificationSet` may
succeed or fail.

### Memory allocation

`PageList` has one operator per function of `Page.c`, from a list to a list and an address.
Addresses are page numbers; a loop over the list is a choice of the node at which it stops.
`PageAllocator` keeps the list (`mMmMemoryMap`), the pages its callers hold and the last call;
a caller may also free pages it does not hold, which the code must refuse. `PoolAllocator`
keeps the free lists of blocks (`mMmPoolLists`) and the buffers in use with the size in their
headers. Callers ask for bytes, and `WithHeader` adds the header modulo the span of a `UINTN`: a
request near its end wraps around and gets a block of the smallest size. The recursion of `InternalAllocPoolByIndex` is unrolled: `SourceIndex` is the depth at
which it ends, and every level above inserts one half. Addresses are in units of the smallest
block; a page is 2^MAX_POOL_INDEX of them, as in the code. `PoolUnits` tabulates the shifts
`MIN_POOL_SIZE << Index`, by doubling.

`region` is nondeterministic: the constructor hands over a descriptor whose `RegionState` it
never sets, so the heap may be ignored as a whole. Left out: misaligned addresses (refused
before anything is read), memory types (checked, not kept), buffer contents, requests of zero
pages of the types `AllocateMaxAddress` and `AllocateAddress` (no caller makes one), and what a build without assertions does with a pool
request that wraps to a size of zero: `Allocatable` stands for the assertion that stops it.

### Entry point

The stack pages, one action per check, then one per turn of the loop over the section headers or
per call to the SPMC inside it (`SkipSection`, `IgnoreSection`, `TextUpdater`,
`ReadWriteUpdater`), then the services table, the first page of a relocated image and the
constructor. What a check reads is chosen when it is read; the image is chosen at the start and
stays, because its headers are read in turn. `perm` is what every page may be used for besides
reading. The SPMC may refuse any change, and outside `ModuleEntryPoint.S` the code does not look:
`refused` records it.

Addresses are bytes and permissions belong to pages, so a call reaches every page its range
touches (`PagesOf`), and the correction for the headers a TE image has lost is visible.
`Images` is any set of images whose sections are in order and do not overlap and whose code holds
the stack (`ImageLayout`). In an aligned image every section begins a page. A TE image need not be
aligned, and then headers, code and data share pages. The image itself begins at a page
boundary: `StackBase` is aligned to a page in it, and the SPMC takes only whole pages.

Left out: the return code (computed and dropped), what relocation writes, the fault of a
partition whose code has lost the execute permission to data on the same page (the boot goes on
in the model), the assertion generated around a constructor that fails (a release build goes on
without a heap, as the model does).

### Messages, the partition and the test application

`ArmFfaLibEx` has one operator per call: from a message to registers and back. A register is
a function from the numbers of its fields, so that packing moves bytes of GUIDs and fields of
mappings and not opaque values; bitmaps are sets of bits. `FfaUnpackDirectMessage` takes what
the buffer held before, because a version 1 request overwrites only a part of it.

`FfaPartition` adds the state of the SPMC - the open request, the answer, the notification
bitmaps - and the partition's loop: `FfaMessageWait`, one dispatch action per service, `Serve`
(the notification service's loop over the mappings, from `NotificationService`) and
`FfaMessageSendDirectResp`, which waits for the next request in the same call. Interrupts
arrive while the partition waits (`SpInterrupt`, `FfaReturnFromInterrupt`). The clients are a
peer partition that calls `FfaMessageSendDirectReq2`, with interrupts inside the call, a
caller of version 1 messages, and the application. `mPartitionId` is kept per image.

`FfaPartitionTestApp` runs the nineteen cases in the order of the `AddTestCase` calls. A case
that sends a message is a record of what it sends and expects; `SendRequest`,
`ReceiveResponse` and, for the event, `StallEnds` run it. The others are an action each.
`ApIrqInterruptHandler` runs whenever the interrupt is pending and the handler registered.
Every call may fail; what failed without a cause in the model is in `faults`.

The handler's `FfaNotificationGet` and `EndOfInterrupt` are one step: nothing else runs on the
processor between them, and an event raised in between makes the interrupt pending again as one
raised after it does. The order of the two calls is not something the model can tell. The model
ends with the application; its handler stays registered in the firmware, and interrupts after
that are not followed.

Left out: what the application prints, the contents of partition descriptors (the number
found decides), the versions and features the TPM service returns, the parts of the TPM
service the application does not reach (`TpmService` has them), FFA_ERROR as the result of a
wait (the main loop would handle it), a build without `TPM2_ENABLE` (its TPM cases are skipped,
as they are on a system without that service).

### Timer

`ArmArchTimerLibEx` holds the arithmetic of the timer library: the conversion of ticks to
nanoseconds and the number of turns a delay makes. `MicroSecondDelay` counts turns of a loop
and not ticks, since the calls that read the counter are commented out, so how long it takes
is not modelled.

## Runs

| Run | Shows |
|---|---|
| `tpm_service` | all eight properties, as long as no call begins after a poll loop has failed |
| `tpm_timeouts` | what is independent of the device still holds when calls go on after a failed poll loop; every call returns |
| `tpm_start_history` (violation) | a Start for one locality cleans the CRB of another, the active one |
| `notification` | the tables stay consistent, events reach their owners, success is complete |
| `notification_partial` (violation) | a refused request leaves the mappings before the refused one |
| `notification_unmapped` (violation) | cookie 0 matches free entries |
| `notification_uuid` (violation) | UUIDs that agree in 8 bytes share a service |
| `page_allocator` | the free list stays sorted and merged, and behaves as a set of free pages |
| `entry_point` | permissions are right before globals are written, never writable and executable, only on the image's own pages; the boot ends |
| `entry_empty_section` (violation) | sections behind an empty one keep the firmware's mapping |
| `pool_allocator` | every unit of the heap has one owner; a request fails only when nothing fits |
| `partition_test` | the whole path of a message and of an event, from the application through the library and the SPMC to the services and back, among other clients, interrupts and failing calls; the verdicts of the suite mean what they say |

Properties that are not types, in words:

* `ShownStateAgrees`: every CRB shows what the service will act on.
* `ResponseOnlyWhileComplete`: a response is visible to its locality only, in COMPLETE only.
* `TpmAgrees`, `ResponseIsForCommand`: the device is where the service believes, and a
  response belongs to the bytes that were in the buffer when the message came - until a poll
  loop has failed. After that neither holds: the device may act late.
* `NoWriteLeftBehind`: a register write the device has still to act on belongs to the call in
  progress and to an open locality, until a poll loop has failed. So no write of one client comes
  into effect under another, or after TF-A has closed its locality.
* `ClosedLocalityFrozen`: when TF-A closes the active locality the service stands still, with no
  call in progress, until it is opened again: not even its owner can give it up.
* `ImplementsMachine`: refinement of `TpmStateMachine`, in which state and owner move only together
  with an answer of success: a Start that is refused or whose call fails moves nothing.
* `EveryCallReturns`: under weak fairness of the handler alone.
* `IdsExclusive`, `LookupsUnambiguous`, `SlotsFillInOrder`: the tables.
* `OnlyOwnerRemoves`, `EventReachesOwner`, `NoMemOnlyWhenServicesFull`,
  `SuccessIsComplete`: what clients rely on.
* `FreeListMerged`, `FreedHeapIsWhole`: every maximal run of free pages is one node; the heap
  comes back whole.
* `ImplementsPageSet`: refinement of `PageSet`: no page is handed out twice, a request that fits
  is met, a free is accepted exactly when its pages are held. An aligned request is met when
  there is a run of its size plus the alignment, which is what the code asks for.
* `NeverWritableAndExecutable`, `SectionsProtected`: permissions, in boots in which the SPMC
  refuses nothing. The second says of a page-aligned image that sections are as their headers ask,
  with the stack as the exception in its code section; of an image whose sections share pages only
  that data and the stack are - code beside data loses the execute permission there.
  `OnlyImageDataChanges`: in all boots no page changes but the stack's, at the start, those of
  data sections, and the first one of a relocated image. `BootEnds`: the loop over sections ends,
  also at empty ones.
* `MemoryPartitioned`, `HeadersAsAsserted`: the pool and its neighbours, whatever is asked for.
  `ServedOrFull`: a request gets a buffer large enough or nothing would have done, if its size
  with the header is a `UINTN`. One that wraps around gets too small a buffer; no caller here
  makes one.
* `RequestIntact`, `AnswerFitsRequest`: a service handles what its client sent, and the answer
  reaches that client in the form it reads.
* `NotificationsConserved`: an accepted event is fetched or waits with its interrupt pending. The
  exception is the code's: the handler ends the interrupt when `FfaNotificationGet` has failed.
* `FreshRunPasses`, `AllPassedSound`: with no failure the suite passes although others use, and
  register in, the same services; and a suite that passed has left exactly its own mappings stored
  for the application and seen the event delivered, although some of its cases drop the status of
  a call. Dropping the source check of an unregister request, for
  example, lets a peer remove a mapping of the application unnoticed.
* `SuiteEnds`: no request stays unanswered.

### Bounds

TPM: two localities (an owner and a competitor; nothing in the code depends on a third),
one command, one yield per poll loop (a loop can find its bits before the yield, after it,
or not at all), at most two control bits set at once in all CRBs (one with timeouts), at
most one failed poll loop before the last call begins (`MaxGiveUps`), and the localities 0,
257 (1 after truncation) and 2 (invalid). All three kinds of device in the first run, two
in the second. Notifications: two services of two mappings, an `int` of two bits so that
three IDs cover a plain bit, the sign bit and a wrap-around, requests of one and two
mappings and the counts 0, 3 (too many) and 258 (2 after truncation), four UUIDs of which
two agree in the half that is compared. Pages: a heap of six (three separate free runs), at
an odd base in an address space that is larger on both sides, alignments of two and four.
Pool: a heap of two pages of eight units of eight bytes, so three sizes of block, a header of two
bytes, and requests that take a block with room to spare, a block that one byte less would halve,
and two pages, one that wraps to zero and one that wraps to a byte. At most four buffers at a time
(`MaxBuffers`): enough to split a page, use up its smallest blocks and split a larger one from its
list; further ones repeat that. Boot: images of up to three sections of all five kinds (one before,
one at and one behind an empty one), PE and TE, page-aligned or with neighbours that share pages,
linked where they are or at another address; a page of eight bytes, sections of a page and a half
and a stack of one page (two in the code: one call covers all of them). Test suite: all nineteen cases with their own arguments, a table
of two services of ten mappings (the suite uses five and three) and an `int` of ten bits (IDs up
to 8), UUIDs of two words of one byte; four systems (one that meets the requirements, one without a service, one
without the MM partition, one with two test partitions and an older framework); four requests of the peer (one
raises the event the application waits for, one tries to remove a mapping of the application, one
registers a mapping in a service of the application, one is invalid) and
one kind of arguments for version 1 requests. `MaxDisturbances` is two: any two of an interrupt,
a wake-up without a message, a request of another client and a failing call, anywhere in the
suite. One failure with one reaction to it, or two messages in the buffer before
the next one, is what the properties turn on; larger values repeat that later in the suite.

### Fairness

In `TpmService`, `FairSpec` is weak fairness of `HandlerStep` alone. The partition is the only actor
that must run - it is resumed after `ArmFfaLibYield` by the scheduler of the normal world,
or the yield fails and the call ends. The device and the clients owe nothing. In
`SpEntryPoint`, `FairSpec` is weak fairness of the boot: nothing else runs in the partition. In
`FfaPartitionTestApp`, `FairAppSpec` is weak fairness of the application, which runs until it
is done, and of `Progress`: the SPMC schedules a partition with an open request and resumes a
caller whose answer is there. Interrupts, other clients and failures owe nothing, and neither
does the interrupt handler: the stall ends without it.

## Proofs

`TpmServiceProofs` assumes what the modules assume of their constants: 1 to 255 localities,
`NoCommand` is not a command, natural bounds. The inductive invariant is

    IInv == TypeOK /\ CallJustified /\ ShownStateAgrees /\ ResponseOnlyWhileComplete

`CallJustified` is the strengthening: what `StartHandler` checked before it entered a call
(the locality is the active one, or there is none; the state allows the operation) still
holds when the call returns, because nothing else writes those variables. Without it the
step `StartSucceeds` could move the machine along an edge that does not exist. From `IInv`
follow the two invariants and the refinement
(`OnlySuccessMoves`: every other step leaves the abstract state alone; `SuccessIsMachineStep`:
this one is an abstract step). `MaxGiveUps` only guards `TpmSstBegin`, so the proofs cover
any number of failed poll loops.

`DeviceAgrees` and `ResponseAnswersCommand` need a second invariant on top, `DeviceFollows`: as long
as no poll loop has failed, the device is at rest where the service believes it is between two
calls, and in a call it is at a point that the loops already passed determine - which register
write it still has to act on, and which it has certainly acted on. The statement about a call is
the strengthening: the device acts at any time, and a poll loop that ends is the only evidence
the service has of it. `DeviceHasNothingLeft` takes `NoWriteLeftBehind` from it and from
`CallIsOpen` (below).

`NotificationProofs` assumes that there is at least one service, that a service has at least
as many entries as an `int` has bits (64 and 32), and what messages contain. Its invariant is
`TypeOK`, `FreeIsCleared` (an entry not in use is zero), `IdsExclusive`, `LookupsUnambiguous`,
`SlotsFillInOrder`, `RequestPlaced` (a request in progress works on the slot its UUID finds,
or on the first free one), `EventReachesOwner` and `NoMemOnlyWhenServicesFull`. The last rests
on a pigeonhole argument (`MappingTableNeverFull`): mappings in use have disjoint nonempty
sets of bits, so a full table has used all bits of the `int` and the bit test refuses first.
`SuccessCorrect` proves the action property `SuccessIsComplete` with one more conjunct, `DoneSoFar`:
the mappings the loop is past are stored (or removed), and no later iteration of the same request
undoes one.

`SpEntryPointProofs` assumes that headers are smaller than a page, that the image is loaded at a
page boundary, and `ImageLayout` of every image; the number, size and place of sections and the
sizes of page and stack are arbitrary. Its invariant adds to `TypeOK` and
`NeverWritableAndExecutable` how far the boot has come (`Progress`), the fact the bug of the empty
section turns on - the offset keeps up with the index, or has stopped at an empty section for
good (`OffsetStopsAtEmpty`) - and what pages look like on the way: the stack is writable and not
executable (`StackWritable`), data sections the loop is past have their permissions
(`DataDone`), a section between its two calls is no longer executable (`NoExecFirst`), and in
an aligned image pages of other sections are untouched (`AlignedSoFar`). The first three hold
although sections share pages, because after the stack a call takes away nothing but the execute
permission and adds nothing but the write permission. `OnlyImageDataChanges` needs that the
corrected base is the loaded one (`BaseIsLoaded`).

`TpmServiceProofs` also proves `ClosedLocalityFrozen`. It rests on `CallIsOpen`: a call in
progress is for an open locality, because a message that could close it is not served before
the call returns.

The first part of `FfaPartitionProofs` proves that packing and unpacking are inverse - for messages with a GUID
altogether (`MessageRoundTrip`), for version 1 requests in the parts they carry
(`OldRequestRoundTrip`) - and that bitmaps and memory handles survive being halved.
The rest of the module uses it for the composition with the application. The assumptions are that
endpoint IDs are not 0xFFFF and the peer's is not the application's, that GUIDs have sixteen bytes and the services' differ, and that
a request has fourteen arguments, so at most seven mappings. The invariant `MsgInv` is `RequestIntact` and
`AnswerFitsRequest`, strengthened by `OpenRequest` (the SPMC's open request is well formed and
belongs to its client) and `AtWork` (a partition past its wait has an open request without an
answer): without them an answer could be composed from a buffer that no request filled.

The composition runs the notification service and nothing else on its tables
(`CompositionRunsService`: the composed specification implies that of `NotificationService`), so
what was proved of the service alone holds of it behind the message path
(`ServiceSafeInComposition`). This needs that every message the partition serves is one the
service's own specification admits: `RequestCovered` carries that from the clients, whose
requests the assumption `CoverAssumption` compares with the sets of the service, through
registers and buffer to the dispatch. `CompositionTypeCorrect` and `EventsConserved` come from one
invariant, `AppInv`: the types part by part, and `NotificationsConserved`, which turns on the
fetch of the bitmap by `ApIrqInterruptHandler` before the interrupt is gone.

The last part of the module is about the verdicts of the suite. `PassMeansSound` needs no
hypothesis about peers, systems or failures. Its invariant is

    Sound == Base /\ Origin /\ Stage /\ TableSound /\ SignalSound /\ EventSound

`Base` is everything proved before. `Origin` says whose request the service is working on: the
open request of the application is the one of its current case, and a request in the loop over
mappings belongs to the client whose message is open. `TableSound` is the strengthening that
carries the argument: as long as all cases before `test` have passed, the mappings stored for the
application are those `TableAfter(test - 1)` lists; while the request of `test` is served they
are these and the ones the loop is past (`DoneRows`); once it has the status its case expects they
are `TableAfter(test)`. No request of another client changes them, because the service checks the
source of a mapping before it removes one (`TableAfterOther`). For the event, `SignalSound`
says that only `BIND_BIT` is ever bound, so an interrupt that fires means that bit, and
`EventSound` that the status of the event's case comes from an SPMC that accepted it.

`FreshRunsPass` has two hypotheses, and both are needed. `SuiteFits`: there are two services, five
mappings fit into one request, an `int` has at least eight bits (the code's values are 16, 7 and
32), the two UUIDs differ, and the application's ID is not one of TF-A's, to which the TPM service
grants what a case expects it to deny. `PeersKeepClear`: what peers register is in one of the suite's
two services, under other cookies and bits. A peer may otherwise do what it likes - raise
the suite's event, send invalid requests, try to remove the suite's mappings. One that stores
mappings under the suite's IDs first makes the suite's register request fail, which is what the
service is meant to do and no fault of either. TLC evaluates both hypotheses on the instance of
`partition_test` (`InstanceAssumption`). The invariant adds to `Sound`:

* `Harmless` and `SuiteSlots`: the mappings of others share no cookie and no bit with the suite's,
  and every service in use is one of the two - so a request of the suite finds its service or a
  free one, and no check of its mappings fails that its case does not expect to fail;
* `Fresh`: in a run in which nothing has failed, all cases so far have passed (`SoFar`), the
  partition was found, the bitmap created, the bit bound and the handler registered when a case
  needs them (`Prepared`), and the request being served is on the way to the status its case
  expects (`AsExpected`). After the event the interrupt is pending or its handler has run.

`PageListProofs` has no theorem of its own: it proves, for every sorted and merged list, that each
operator of `PageList` returns such a list and which pages it adds to or takes from
`FreePagesOf`; the proofs of both allocators cite it. `PageAllocatorProofs` assumes only that
the heap lies in the address space and does not begin at page 0, and that an alignment worth
asking for is more than one page. Its invariant is

    IInv == TypeOK /\ FreeListMerged /\ Conserved

`Conserved` says that every page of the region is free or held and none is both. From it follow
that a heap of which nothing is held is one node again (`HeapBecomesWhole`: a list that is merged
and covers an interval has one node) and the refinement of `PageSet` step by step
(`PageAllocatorImplementsPageSet`): a request the list refuses has no run of free pages that
it needs, because merged lists show every run in one node.

`PoolAllocatorProofs` proves `PoolTypeCorrect`, `MemoryStaysPartitioned`, `HeadersCorrect` and
`RequestsServedOrFull` for any heap and any number of block sizes. None of them is inductive. The
invariant `PInv` says in `Good` that the page list is sorted and merged, that a block is on one
list and there once, aligned to its size, that a buffer in use is a block of some list's size or
whole pages, and that free blocks and buffers together cut the pages the allocators have taken
from the page list into disjoint pieces. Sizes and alignment are what a free relies on: the
code decides by the size in the header, and by nothing else, whether a buffer goes back to a pool
list or to the page list. What a request takes is a number of units however its size came about
(`UnitsFor`), so a size that wrapped around needs no case of its own; `RequestsServedOrFull` goes
back to bytes for those that did not. Every operation is then an exchange of some pieces for others that
cover the same units (lemma `Exchange`): splitting a block exchanges it for its halves, an
allocation a free block for a buffer, a large request free pages for a buffer. That a block of
one list is two of the list below, and a page the sum of a chain of halves, rests on the table
of shifts (`ShiftLeftDoubles`), which is a recursive function: the provers have no induction
over it, so the lemma takes the least index at which it would fail.

`ArmArchTimerLibEx` proves that the nanoseconds are the exact quotient rounded down once, modulo
2^64, when the frequency fits in 32 bits (`NanoSecondsExact`), and that a delay has at least
as many turns as whole ticks (`DelayNotTooShort`). TLC does not run it: its numbers do not fit.

Only model-checked: liveness (`EveryCallReturns`, `BootEnds`, `SuiteEnds`), which needs fairness and
ENABLED and is out of this prover's reach. Every safety invariant, action property and
refinement of the passing runs is a theorem.

## Not modelled

Left out for good: the services table and the null interrupt library (no behaviour), the Rust
partition (its loop is an external crate), the calls of `ArmFfaLibEx.c` that nothing in this
repository makes (destroying a bitmap, unbinding, retrieving and relinquishing memory, memory
permissions, the console), the typed wrappers of the memory library, the counter hardware.
Hazards no property covers are listed with the reason in `PROJECT.json`.
