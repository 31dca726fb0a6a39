------------------------------ MODULE PageList ------------------------------
(***************************************************************************)
(* The free list of SecurePartitionMemoryAllocationLib (Page.c) and the    *)
(* page functions of its front end, as operators on a list.  Free memory   *)
(* is a list of runs of pages; an allocation cuts a run, a free inserts    *)
(* one and merges it with its neighbours.                                  *)
(*                                                                         *)
(* Addresses are page numbers: every address in the list is a multiple of  *)
(* the page size, and a byte limit MaxAddress is used only as              *)
(* TRUNCATE_TO_PAGES (MaxAddress + 1), the number of whole pages below it. *)
(* Page.c is asked for at least one page: the front end refuses zero, and  *)
(* nobody asks for zero pages below a limit or at an address.              *)
(***************************************************************************)
EXTENDS Integers, Sequences

CONSTANTS
  HEAP_BASE,      \* the first page and the number of pages of the heap region
  HEAP_PAGES,
  ADDRESS_PAGES   \* pages in the address space: the limit of AllocateAnyPages

ASSUME HeapAssumption ==
  /\ HEAP_BASE \in Nat \ {0} /\ HEAP_PAGES \in Nat \ {0} /\ ADDRESS_PAGES \in Nat
  /\ HEAP_BASE + HEAP_PAGES <= ADDRESS_PAGES

Heap == HEAP_BASE .. (HEAP_BASE + HEAP_PAGES - 1)
NULL == 0
Run(p, n) == p .. (p + n - 1)
FreeNode == [page : Nat, pages : Nat]
FreePagesOf(list) == UNION {Run(list[i].page, list[i].pages) : i \in DOMAIN list}

\* An operation returns the new list and the address, NULL when it fails; a failed
\* operation leaves the list alone.
Failed(list) == [list |-> list, memory |-> NULL]

\* The list with node i replaced by the nodes of t.
Replaced(list, i, t) == SubSeq(list, 1, i - 1) \o t \o SubSeq(list, i + 1, Len(list))

\* Fault variant: the pages above the limit are forgotten.
InternalAllocPagesOnOneNodeLeaks(list, i, n, limit) ==
  LET node == list[i]
      top == IF limit - node.page > node.pages THEN node.pages ELSE limit - node.page
      bottom == top - n
      lower == IF bottom > 0 THEN <<[node EXCEPT !.pages = bottom]>> ELSE << >>
  IN [list |-> Replaced(list, i, lower), memory |-> node.page + bottom]

\* Takes n pages from node i, the highest below limit: what is above them becomes a
\* node of its own after node i, what is below them stays node i.
InternalAllocPagesOnOneNode(list, i, n, limit) ==
  LET node == list[i]
      top == IF limit - node.page > node.pages THEN node.pages ELSE limit - node.page
      bottom == top - n
      lower == IF bottom > 0 THEN <<[node EXCEPT !.pages = bottom]>> ELSE << >>
      upper == IF top < node.pages
               THEN <<[page |-> node.page + top, pages |-> node.pages - top]>> ELSE << >>
  IN [list |-> Replaced(list, i, lower \o upper), memory |-> node.page + bottom]

\* The last node of S, searching the list backwards.
LastOf(S) == CHOOSE i \in S : \A j \in S : j <= i

\* Fault variant: the size of the node is not looked at.
InternalAllocMaxAddressNoSizeCheck(list, n, limit) ==
  LET fits == {i \in DOMAIN list : list[i].page + n <= limit}
  IN IF fits = {} THEN Failed(list)
     ELSE InternalAllocPagesOnOneNode(list, LastOf(fits), n, limit)

InternalAllocMaxAddress(list, n, limit) ==
  LET fits == {i \in DOMAIN list : list[i].pages >= n /\ list[i].page + n <= limit}
  IN IF fits = {} THEN Failed(list)
     ELSE InternalAllocPagesOnOneNode(list, LastOf(fits), n, limit)

\* Only the last node that begins at or below the address is considered.
InternalAllocAddress(list, n, address) ==
  LET below == {i \in DOMAIN list : list[i].page <= address}
      i == LastOf(below)
  IN IF below = {} \/ list[i].page + list[i].pages < address + n THEN Failed(list)
     ELSE InternalAllocPagesOnOneNode(list, i, n, address + n)

\* Fault variant: nodes that touch stay apart.
InternalMergeNodesNever(list, k) == list

\* Merges node k with the next one when they touch.
InternalMergeNodes(list, k) ==
  IF list[k].page + list[k].pages = list[k + 1].page
  THEN SubSeq(list, 1, k - 1)
       \o <<[page |-> list[k].page, pages |-> list[k].pages + list[k + 1].pages]>>
       \o SubSeq(list, k + 2, Len(list))
  ELSE list

\* The place of a freed run: before the first node with a higher address.
PlaceOf(list, memory) ==
  CHOOSE k \in 1 .. (Len(list) + 1) :
    /\ \A i \in 1 .. (k - 1) : list[i].page <= memory
    /\ k <= Len(list) => memory < list[k].page

\* A run that overlaps the node before or after its place is refused.
MmInternalFreePages(list, memory, n) ==
  LET k == PlaceOf(list, memory)
      refused == \/ k <= Len(list) /\ memory + n > list[k].page
                 \/ k > 1 /\ list[k - 1].page + list[k - 1].pages > memory
      inserted == SubSeq(list, 1, k - 1) \o <<[page |-> memory, pages |-> n]>>
                  \o SubSeq(list, k, Len(list))
      merged == IF k > 1 THEN InternalMergeNodes(inserted, k - 1) ELSE inserted
      at == IF Len(merged) = Len(inserted) THEN k ELSE k - 1
  IN IF refused THEN Failed(list)
     ELSE [list |-> IF k <= Len(list) THEN InternalMergeNodes(merged, at) ELSE merged,
           memory |-> memory]

-----------------------------------------------------------------------------
\* AllocatePages: no pages, no memory.
InternalAllocatePages(list, n) ==
  IF n = 0 THEN Failed(list) ELSE InternalAllocMaxAddress(list, n, ADDRESS_PAGES)

AlignedUp(p, alignment) == ((p + alignment - 1) \div alignment) * alignment

\* Fault variant: the pages freed before the run are not counted again behind it.
InternalAllocateAlignedPagesFreesMore(list, n, alignment) ==
  LET whole == InternalAllocMaxAddress(list, n + alignment, ADDRESS_PAGES)
      memory == AlignedUp(whole.memory, alignment)
      before == memory - whole.memory
      cut == IF before > 0 THEN MmInternalFreePages(whole.list, whole.memory, before) ELSE whole
      rest == MmInternalFreePages(cut.list, memory + n, alignment)
  IN IF n = 0 \/ whole.memory = NULL THEN Failed(list)
     ELSE [list |-> rest.list, memory |-> memory]

\* An alignment above the page size: allocates too much, then frees the pages before the
\* aligned address and those after the run.
InternalAllocateAlignedPages(list, n, alignment) ==
  LET whole == InternalAllocMaxAddress(list, n + alignment, ADDRESS_PAGES)
      memory == AlignedUp(whole.memory, alignment)
      before == memory - whole.memory
      after == alignment - before
      cut == IF before > 0 THEN MmInternalFreePages(whole.list, whole.memory, before) ELSE whole
      rest == IF after > 0 THEN MmInternalFreePages(cut.list, memory + n, after) ELSE cut
  IN IF n = 0 \/ whole.memory = NULL THEN Failed(list)
     ELSE [list |-> rest.list, memory |-> memory]

\* MmInitializeMemoryServices and MmAddMemoryRegion, for the pages of a region that is
\* not ignored, or for none.
MmAddMemoryRegion(pages) ==
  IF pages = {} THEN << >> ELSE MmInternalFreePages(<< >>, HEAP_BASE, HEAP_PAGES).list
=============================================================================
