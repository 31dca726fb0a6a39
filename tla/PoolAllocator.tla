--------------------------- MODULE PoolAllocator ---------------------------
(***************************************************************************)
(* The pool allocator (Pool.c) on top of the page allocator, with callers  *)
(* of both.  Small buffers are blocks of 2^0 .. 2^(MAX_POOL_INDEX-1) units *)
(* of MIN_POOL_SIZE, kept in one free list per size; a page is split into  *)
(* blocks when no list can serve a request.  Larger buffers are pages.     *)
(*                                                                         *)
(* Callers ask for bytes.  The header is added in a UINTN, so the size of  *)
(* a request near the end of its range wraps around to less than a header. *)
(* What follows is in units of MIN_POOL_SIZE: addresses, and sizes with    *)
(* the header counted.  Of the headers only the sizes of buffers in use    *)
(* are ever read before they are written again.                            *)
(***************************************************************************)
EXTENDS PageList, FiniteSets

CONSTANTS
  MAX_POOL_INDEX,  \* number of pool lists (6 in the code)
  MIN_POOL_SIZE,   \* bytes in a unit (64 in the code)
  POOL_HEADER_SIZE,  \* sizeof (POOL_HEADER), in bytes
  UINTN_SPAN,      \* how many values a UINTN has (2^64)
  Requests,        \* sizes callers ask for, in bytes
  MaxBuffers       \* bound: pool buffers in use at a time

ASSUME PoolAssumption ==
  /\ MAX_POOL_INDEX \in Nat \ {0}
  /\ MIN_POOL_SIZE \in Nat \ {0}
  /\ POOL_HEADER_SIZE \in Nat \ {0}
  /\ UINTN_SPAN \in Nat \ {0}
  /\ Requests \subseteq 0 .. (UINTN_SPAN - 1)
  /\ MaxBuffers \in Nat

VARIABLES
  mMmMemoryMap,  \* the free list of pages
  mMmPoolLists,  \* the free blocks of every size
  buffers,       \* the buffers in use, with the Size of their headers
  region, held,  \* as in PageAllocator
  last           \* the last pool request and the units of its buffer, 0 for none

vars == <<mMmMemoryMap, mMmPoolLists, buffers, region, held, last>>

\* 1 << k, and as a table the size of the blocks of list k; the last one is a page.
ShiftLeft[k \in 0 .. MAX_POOL_INDEX] == IF k = 0 THEN 1 ELSE 2 * ShiftLeft[k - 1]
PoolUnits == [k \in 0 .. MAX_POOL_INDEX |-> ShiftLeft[k]]

PAGE_UNITS == PoolUnits[MAX_POOL_INDEX]
MAX_POOL_SIZE == PoolUnits[MAX_POOL_INDEX - 1]
PoolIndices == 0 .. (MAX_POOL_INDEX - 1)

Extent == [at : Nat, size : Nat \ {0}]
NoBuffer == [at |-> 0, size |-> 0]
NoRequest == [request |-> -1, size |-> 0]

TypeOK ==
  /\ mMmMemoryMap \in Seq(FreeNode)
  /\ mMmPoolLists \in [PoolIndices -> Seq(Nat)]
  /\ buffers \subseteq Extent
  /\ region \in {{}, Heap}
  /\ held \subseteq region
  /\ last \in [request : Requests, size : Nat] \cup {NoRequest}

-----------------------------------------------------------------------------
(***************************************************************************)
(* An operation maps the two free lists and returns a buffer, or NoBuffer. *)
(***************************************************************************)

NoMemory(pages, pools) == [pages |-> pages, pools |-> pools, buffer |-> NoBuffer]

\* The first list from index on that is not empty, or MAX_POOL_INDEX for a new page.
SourceIndex(pools, index) ==
  CHOOSE k \in index .. MAX_POOL_INDEX :
    /\ k = MAX_POOL_INDEX \/ pools[k] # << >>
    /\ \A j \in index .. (k - 1) : pools[j] = << >>

\* Takes the first block of that list (or a page) and splits it down to the size asked
\* for: at every size on the way the lower half goes to its list and the upper half is
\* split on.
InternalAllocPoolByIndex(pages, pools, index) ==
  LET from == SourceIndex(pools, index)
      page == InternalAllocMaxAddress(pages, 1, ADDRESS_PAGES)
      at == IF from = MAX_POOL_INDEX THEN page.memory * PAGE_UNITS ELSE Head(pools[from])
      lower(k) == at + PoolUnits[from] - PoolUnits[k + 1]
  IN IF from = MAX_POOL_INDEX /\ page.memory = NULL THEN NoMemory(pages, pools)
     ELSE [pages |-> IF from = MAX_POOL_INDEX THEN page.list ELSE pages,
           pools |-> [k \in PoolIndices |->
                        IF k = from THEN Tail(pools[k])
                        ELSE IF k \in index .. (from - 1) THEN <<lower(k)>> \o pools[k]
                        ELSE pools[k]],
           buffer |-> [at |-> at + PoolUnits[from] - PoolUnits[index], size |-> PoolUnits[index]]]

\* HighBitSet32, for sizes below two pages, and the index of the smallest block that
\* holds size units.
HighBitSet(size) ==
  CHOOSE k \in 0 .. MAX_POOL_INDEX :
    PoolUnits[k] <= size /\ (k < MAX_POOL_INDEX => size < PoolUnits[k + 1])

\* Fault variant: the size is rounded down to a power of two.
PoolIndexRoundsDown(size) == HighBitSet(size)

PoolIndex(size) ==
  IF PoolUnits[HighBitSet(size)] = size THEN HighBitSet(size) ELSE HighBitSet(size) + 1

PagesFor(size) == (size + PAGE_UNITS - 1) \div PAGE_UNITS

\* Size += sizeof (*PoolHdr), and the units that hold so many bytes.
WithHeader(Size) == (Size + POOL_HEADER_SIZE) % UINTN_SPAN
UnitsOf(bytes) == (bytes + MIN_POOL_SIZE - 1) \div MIN_POOL_SIZE

\* Fault variant: the header of a buffer of pages keeps the size asked for.
AllocateUnitsKeepsSize(pages, pools, size) ==
  IF size > MAX_POOL_SIZE
  THEN LET result == InternalAllocMaxAddress(pages, PagesFor(size), ADDRESS_PAGES)
       IN IF result.memory = NULL THEN NoMemory(pages, pools)
          ELSE [pages |-> result.list, pools |-> pools,
                buffer |-> [at |-> result.memory * PAGE_UNITS, size |-> size]]
  ELSE InternalAllocPoolByIndex(pages, pools, PoolIndex(size))

\* A request above the largest block takes whole pages.
AllocateUnits(pages, pools, size) ==
  IF size > MAX_POOL_SIZE
  THEN LET result == InternalAllocMaxAddress(pages, PagesFor(size), ADDRESS_PAGES)
       IN IF result.memory = NULL THEN NoMemory(pages, pools)
          ELSE [pages |-> result.list, pools |-> pools,
                buffer |-> [at |-> result.memory * PAGE_UNITS,
                            size |-> PagesFor(size) * PAGE_UNITS]]
  ELSE InternalAllocPoolByIndex(pages, pools, PoolIndex(size))

MmInternalAllocatePool(pages, pools, Size) ==
  AllocateUnits(pages, pools, UnitsOf(WithHeader(Size)))

\* Fault variant: a buffer of exactly half a page is freed as if it were pages.
MmInternalFreePoolOffByOne(pages, pools, b) ==
  IF b.size >= MAX_POOL_SIZE
  THEN [pages |-> MmInternalFreePages(pages, b.at \div PAGE_UNITS, PagesFor(b.size)).list,
        pools |-> pools]
  ELSE [pages |-> pages, pools |-> [pools EXCEPT ![HighBitSet(b.size)] = <<b.at>> \o @]]

\* The header's Size tells where a buffer came from; a block goes to the head of its list
\* and is not merged with its other half.
MmInternalFreePool(pages, pools, b) ==
  IF b.size > MAX_POOL_SIZE
  THEN [pages |-> MmInternalFreePages(pages, b.at \div PAGE_UNITS, PagesFor(b.size)).list,
        pools |-> pools]
  ELSE [pages |-> pages, pools |-> [pools EXCEPT ![HighBitSet(b.size)] = <<b.at>> \o @]]

-----------------------------------------------------------------------------
\* MmInitializeMemoryServices; see PageAllocator for the region that may be ignored.
Init ==
  /\ region \in {{}, Heap}
  /\ mMmMemoryMap = MmAddMemoryRegion(region)
  /\ mMmPoolLists = [k \in PoolIndices |-> << >>]
  /\ buffers = {}
  /\ held = {}
  /\ last = NoRequest

\* A size that wraps around to nothing at all has no list: HighBitSet32 (0) is -1, and the
\* assertion of InternalAllocPoolByIndex stops the partition.
Allocatable(size) == WithHeader(size) # 0

AllocatePool(size) ==
  LET result == MmInternalAllocatePool(mMmMemoryMap, mMmPoolLists, size) IN
  /\ Allocatable(size)
  /\ mMmMemoryMap' = result.pages
  /\ mMmPoolLists' = result.pools
  /\ buffers' = buffers \cup ({result.buffer} \ {NoBuffer})
  /\ last' = [request |-> size, size |-> result.buffer.size]
  /\ UNCHANGED <<region, held>>

FreePool(b) ==
  LET result == MmInternalFreePool(mMmMemoryMap, mMmPoolLists, b) IN
  /\ mMmMemoryMap' = result.pages
  /\ mMmPoolLists' = result.pools
  /\ buffers' = buffers \ {b}
  /\ last' = NoRequest
  /\ UNCHANGED <<region, held>>

\* InternalReallocatePool: the old buffer is freed after the new one was allocated, and
\* kept when there is none.
ReallocatePool(b, size) ==
  LET new == MmInternalAllocatePool(mMmMemoryMap, mMmPoolLists, size)
      result == IF new.buffer = NoBuffer THEN new ELSE MmInternalFreePool(new.pages, new.pools, b)
  IN
  /\ Allocatable(size)
  /\ mMmMemoryMap' = result.pages
  /\ mMmPoolLists' = result.pools
  /\ buffers' = IF new.buffer = NoBuffer THEN buffers ELSE (buffers \cup {new.buffer}) \ {b}
  /\ last' = [request |-> size, size |-> new.buffer.size]
  /\ UNCHANGED <<region, held>>

\* Callers of the page allocator in between.
AllocatePages(n) ==
  LET result == InternalAllocatePages(mMmMemoryMap, n) IN
  /\ mMmMemoryMap' = result.list
  /\ held' = IF result.memory = NULL THEN held ELSE held \cup Run(result.memory, n)
  /\ last' = NoRequest
  /\ UNCHANGED <<mMmPoolLists, buffers, region>>

FreePages(memory, n) ==
  /\ Run(memory, n) \subseteq held
  /\ mMmMemoryMap' = MmInternalFreePages(mMmMemoryMap, memory, n).list
  /\ held' = held \ Run(memory, n)
  /\ last' = NoRequest
  /\ UNCHANGED <<mMmPoolLists, buffers, region>>

Next ==
  \/ \E size \in Requests : Cardinality(buffers) < MaxBuffers /\ AllocatePool(size)
  \/ \E b \in buffers : FreePool(b)
  \/ \E b \in buffers, size \in Requests : ReallocatePool(b, size)
  \/ \E n \in 1 .. HEAP_PAGES : AllocatePages(n)
  \/ \E n \in 1 .. HEAP_PAGES, memory \in Heap : FreePages(memory, n)

Spec == Init /\ [][Next]_vars

-----------------------------------------------------------------------------
(***************************************************************************)
(* Properties.                                                             *)
(***************************************************************************)

Units(at, size) == at .. (at + size - 1)

FreeBlocks == UNION {{k} \X DOMAIN mMmPoolLists[k] : k \in PoolIndices}
BlockAt(e) == mMmPoolLists[e[1]][e[2]]

\* Every piece of memory that somebody owns, with its owner.
Pieces ==
  {[owner |-> <<"free page", i>>,
    units |-> Units(mMmMemoryMap[i].page * PAGE_UNITS, mMmMemoryMap[i].pages * PAGE_UNITS)]
     : i \in DOMAIN mMmMemoryMap}
  \cup {[owner |-> <<"page", p>>, units |-> Units(p * PAGE_UNITS, PAGE_UNITS)] : p \in held}
  \cup {[owner |-> <<"buffer", b>>, units |-> Units(b.at, b.size)] : b \in buffers}
  \cup {[owner |-> <<"block", e>>, units |-> Units(BlockAt(e), PoolUnits[e[1]])]
           : e \in FreeBlocks}

\* Memory is partitioned: every unit of the heap belongs to exactly one free run, page
\* caller, buffer or free block, after any sequence of splits, frees and reallocations.
\* No two buffers overlap, nothing is lost and nothing is on two lists.
MemoryPartitioned ==
  /\ \A x, y \in Pieces : x # y => x.units \cap y.units = {}
  /\ UNION {x.units : x \in Pieces} = UNION {Units(p * PAGE_UNITS, PAGE_UNITS) : p \in region}

\* What InternalFreePoolByIndex and MmInternalFreePool assert of the header they find in
\* front of a buffer: a block is aligned to its size, a power of two that has a list;
\* anything larger is whole pages.
HeadersAsAsserted ==
  \A b \in buffers :
    /\ b.size <= MAX_POOL_SIZE => /\ PoolUnits[HighBitSet(b.size)] = b.size
                                  /\ HighBitSet(b.size) < MAX_POOL_INDEX
                                  /\ b.at % b.size = 0
    /\ b.size > MAX_POOL_SIZE => b.size % PAGE_UNITS = 0 /\ b.at % PAGE_UNITS = 0

\* A request whose size with the header is a UINTN is answered with a buffer of at least
\* so many bytes, or there was none: no block of any sufficient size is free and no run of
\* enough pages.  A request that wraps around is outside: it gets a block of the smallest
\* size, which MemoryPartitioned and HeadersAsAsserted cover and this cannot.
ServedOrFull ==
  LET bytes == last.request + POOL_HEADER_SIZE IN
  last # NoRequest /\ bytes < UINTN_SPAN =>
    IF last.size # 0 THEN last.size * MIN_POOL_SIZE >= bytes
    ELSE /\ \A e \in FreeBlocks : PoolUnits[e[1]] * MIN_POOL_SIZE < bytes
         /\ \A i \in DOMAIN mMmMemoryMap :
              mMmMemoryMap[i].pages * PAGE_UNITS * MIN_POOL_SIZE < bytes
=============================================================================
