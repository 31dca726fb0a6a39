--------------------------- MODULE PageAllocator ---------------------------
(***************************************************************************)
(* The page allocator as its callers see it: any sequence of allocations   *)
(* and frees on the free list of PageList.                                 *)
(***************************************************************************)
EXTENDS PageList

CONSTANT Alignments  \* alignments callers ask for, in pages
ASSUME AlignAssumption == Alignments \subseteq Nat \ {0, 1}

VARIABLES
  mMmMemoryMap,  \* the free list
  region,        \* the pages MmAddMemoryRegion was given and did not ignore
  held,          \* the pages that callers hold
  last           \* the last call and its result

vars == <<mMmMemoryMap, region, held, last>>

Ops == {"none", "any", "max", "address", "aligned", "free"}

TypeOK ==
  /\ mMmMemoryMap \in Seq(FreeNode)
  /\ region \in {{}, Heap}
  /\ held \subseteq region
  /\ last \in [op : Ops, pages : Nat, arg : Nat, memory : Nat]

\* The constructor leaves RegionState uninitialised: the region is ignored when one of
\* the bits "allocated", "needs testing" or "needs ECC initialization" happens to be set.
Init ==
  /\ region \in {{}, Heap}
  /\ mMmMemoryMap = MmAddMemoryRegion(region)
  /\ held = {}
  /\ last = [op |-> "none", pages |-> 0, arg |-> 0, memory |-> NULL]

Takes(op, n, arg, result) ==
  /\ mMmMemoryMap' = result.list
  /\ held' = IF result.memory = NULL THEN held ELSE held \cup Run(result.memory, n)
  /\ last' = [op |-> op, pages |-> n, arg |-> arg, memory |-> result.memory]
  /\ UNCHANGED region

AllocatePages(n) == Takes("any", n, 0, InternalAllocatePages(mMmMemoryMap, n))

AllocateAlignedPages(n, alignment) ==
  Takes("aligned", n, alignment, InternalAllocateAlignedPages(mMmMemoryMap, n, alignment))

\* MmAllocatePages below a limit and at an address.
AllocateMaxAddress(n, limit) ==
  Takes("max", n, limit, InternalAllocMaxAddress(mMmMemoryMap, n, limit))

AllocateAddress(n, address) ==
  Takes("address", n, address, InternalAllocAddress(mMmMemoryMap, n, address))

\* FreePages of any run of the region, held or not.
FreePages(memory, n) ==
  LET result == MmInternalFreePages(mMmMemoryMap, memory, n)
  IN /\ Run(memory, n) \subseteq region
     /\ mMmMemoryMap' = result.list
     /\ held' = IF result.memory = NULL THEN held ELSE held \ Run(memory, n)
     /\ last' = [op |-> "free", pages |-> n, arg |-> memory, memory |-> result.memory]
     /\ UNCHANGED region

Sizes == 1 .. (HEAP_PAGES + 1)

Next ==
  \/ \E n \in Sizes \cup {0} : AllocatePages(n)
  \/ \E n \in Sizes, limit \in HEAP_BASE .. ADDRESS_PAGES : AllocateMaxAddress(n, limit)
  \/ \E n \in Sizes, address \in HEAP_BASE .. ADDRESS_PAGES : AllocateAddress(n, address)
  \/ \E n \in Sizes \cup {0}, alignment \in Alignments : AllocateAlignedPages(n, alignment)
  \/ \E n \in Sizes, memory \in Heap : FreePages(memory, n)

Spec == Init /\ [][Next]_vars

-----------------------------------------------------------------------------
(***************************************************************************)
(* Properties.                                                             *)
(***************************************************************************)

\* The free list is sorted, its nodes are not empty, and between two of them there is
\* at least one page in use: every maximal run of free pages is one node, whatever the
\* order of allocations and frees (InternalMergeNodes; its ASSERT never fires).
FreeListMerged ==
  /\ \A i \in DOMAIN mMmMemoryMap : mMmMemoryMap[i].pages > 0
  /\ \A i, j \in DOMAIN mMmMemoryMap :
       i < j => mMmMemoryMap[i].page + mMmMemoryMap[i].pages < mMmMemoryMap[j].page

\* Once callers have given everything back, the heap is one run again: nothing leaks
\* from splitting, merging or the two partial frees of an aligned allocation.
FreedHeapIsWhole ==
  held = {} /\ region # {} => mMmMemoryMap = <<[page |-> HEAP_BASE, pages |-> HEAP_PAGES]>>

\* The allocator implements a set of free pages: no page is handed out twice or lost, a
\* request that fits is met, and a free is accepted exactly when all its pages are held.
PageSet == INSTANCE PageSet WITH free <- FreePagesOf(mMmMemoryMap)
ImplementsPageSet == PageSet!Spec
=============================================================================
