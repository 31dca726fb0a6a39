------------------------ MODULE PageAllocatorProofs ------------------------
(***************************************************************************)
(* Proofs about PageAllocator, for a heap of any size at any place and any *)
(* set of alignments.                                                      *)
(***************************************************************************)
EXTENDS PageAllocator, PageListProofs

-----------------------------------------------------------------------------
(***************************************************************************)
(* The inductive invariant: the pages of the region are divided between    *)
(* the list and the callers.                                               *)
(***************************************************************************)

Conserved ==
  /\ FreePagesOf(mMmMemoryMap) \cup held = region
  /\ FreePagesOf(mMmMemoryMap) \cap held = {}

IInv == TypeOK /\ FreeListMerged /\ Conserved

\* The invariant in the words of the lemmas.
LEMMA InvList ==
  IInv => /\ IsList(mMmMemoryMap)
          /\ \A p \in FreePagesOf(mMmMemoryMap) : p \in Nat \ {0} /\ p < ADDRESS_PAGES
  <1> SUFFICES ASSUME IInv
               PROVE  /\ IsList(mMmMemoryMap)
                      /\ \A p \in FreePagesOf(mMmMemoryMap) : p \in Nat \ {0} /\ p < ADDRESS_PAGES
    OBVIOUS
  <1>1. Sorted(mMmMemoryMap, {})
    BY MergedIsSorted DEF IInv, TypeOK, FreeListMerged
  <1>2. FreePagesOf(mMmMemoryMap) \subseteq Heap
    BY DEF IInv, TypeOK, Conserved
  <1>3. \A p \in Heap : p \in Nat \ {0} /\ p < ADDRESS_PAGES
    BY HeapAssumption DEF Heap
  <1> QED
    BY <1>1, <1>2, <1>3 DEF IsList, NULL

\* A state is good when its list and its sets are.
LEMMA InvFrom ==
  ASSUME Sorted(mMmMemoryMap, {}), Conserved, region \in {{}, Heap},
         last \in [op : Ops, pages : Nat, arg : Nat, memory : Nat]
  PROVE  IInv
  <1>1. mMmMemoryMap \in Seq(FreeNode)
    BY DEF Sorted
  <1>2. FreeListMerged
    BY <1>1, MergedIsSorted DEF FreeListMerged
  <1>3. held \subseteq region
    BY DEF Conserved
  <1> QED
    BY <1>1, <1>2, <1>3 DEF IInv, TypeOK

\* The same for the state after a step.
LEMMA InvFromNext ==
  ASSUME Sorted(mMmMemoryMap', {}), Conserved', region' \in {{}, Heap},
         last' \in [op : Ops, pages : Nat, arg : Nat, memory : Nat]
  PROVE  IInv'
  <1>1. mMmMemoryMap' \in Seq(FreeNode)
    BY DEF Sorted
  <1>2. FreeListMerged'
    BY <1>1, MergedIsSorted DEF FreeListMerged
  <1>3. held' \subseteq region'
    BY DEF Conserved
  <1> QED
    BY <1>1, <1>2, <1>3 DEF IInv, TypeOK

\* The invariant after MmInitializeMemoryServices.
LEMMA InitInv == Init => IInv
  <1> SUFFICES ASSUME Init PROVE IInv
    OBVIOUS
  <1>1. Sorted(mMmMemoryMap, {}) /\ FreePagesOf(mMmMemoryMap) = region
    BY RegionEffect DEF Init
  <1>2. Conserved
    BY <1>1 DEF Init, Conserved
  <1>3. last \in [op : Ops, pages : Nat, arg : Nat, memory : Nat]
    BY DEF Init, Ops, NULL
  <1> QED
    BY <1>1, <1>2, <1>3, InvFrom DEF Init

\* What an allocation does: it hands out free pages or leaves everything alone.
Handed(op, n, arg) ==
  LET p == last'.memory
  IN /\ last' = [op |-> op, pages |-> n, arg |-> arg, memory |-> p]
     /\ UNCHANGED region
     /\ \/ /\ p \in Nat \ {NULL} /\ n # 0
           /\ Run(p, n) \subseteq FreePagesOf(mMmMemoryMap)
           /\ FreePagesOf(mMmMemoryMap)' = FreePagesOf(mMmMemoryMap) \ Run(p, n)
           /\ held' = held \cup Run(p, n)
        \/ /\ p = NULL
           /\ UNCHANGED <<mMmMemoryMap, held>>

\* An allocation that is granted pages or fails keeps the invariant.
LEMMA TakesEffect ==
  ASSUME IInv, NEW op \in Ops, NEW n \in Nat, NEW arg \in Nat, NEW result,
         Takes(op, n, arg, result),
         \/ n # 0 /\ Granted(mMmMemoryMap, n, result)
         \/ result = Failed(mMmMemoryMap)
  PROVE  Handed(op, n, arg) /\ last'.memory = result.memory /\ IInv'
  <1> DEFINE F == FreePagesOf(mMmMemoryMap)
             p == result.memory
  <1>1. /\ mMmMemoryMap' = result.list
        /\ last' = [op |-> op, pages |-> n, arg |-> arg, memory |-> p]
        /\ region' = region
        /\ held' = IF p = NULL THEN held ELSE held \cup Run(p, n)
    BY DEF Takes
  <1>2. last'.memory = p
    BY <1>1
  <1>3. /\ F \cup held = region /\ F \cap held = {} /\ region \in {{}, Heap}
        /\ IsList(mMmMemoryMap)
    BY InvList DEF IInv, Conserved, TypeOK
  <1>4. CASE n # 0 /\ Granted(mMmMemoryMap, n, result)
    <2>1. /\ p \in Nat \ {NULL} /\ Run(p, n) \subseteq F /\ Sorted(result.list, {})
          /\ FreePagesOf(result.list) = F \ Run(p, n)
      BY <1>4 DEF Granted, IsList
    <2>2. FreePagesOf(mMmMemoryMap') = F \ Run(p, n) /\ held' = held \cup Run(p, n)
      BY <1>1, <2>1
    <2>3. Conserved'
      BY <1>1, <1>3, <2>1, <2>2 DEF Conserved
    <2>4. last' \in [op : Ops, pages : Nat, arg : Nat, memory : Nat]
      BY <1>1, <2>1
    <2>5. Sorted(mMmMemoryMap', {})
      BY <1>1, <2>1
    <2>6. IInv'
      BY <1>1, <1>3, <2>3, <2>4, <2>5, InvFromNext
    <2>7. Handed(op, n, arg)
      BY <1>1, <1>2, <1>4, <2>1, <2>2 DEF Handed
    <2> QED
      BY <1>2, <2>6, <2>7
  <1>5. CASE result = Failed(mMmMemoryMap)
    <2>1. p = NULL /\ mMmMemoryMap' = mMmMemoryMap /\ held' = held
      BY <1>1, <1>5 DEF Failed
    <2>2. Conserved'
      BY <1>1, <1>3, <2>1 DEF Conserved
    <2>3. last' \in [op : Ops, pages : Nat, arg : Nat, memory : Nat]
      BY <1>1, <2>1 DEF NULL
    <2>4. Sorted(mMmMemoryMap', {})
      BY <1>3, <2>1 DEF IsList
    <2>5. IInv'
      BY <1>1, <1>3, <2>2, <2>3, <2>4, InvFromNext
    <2>6. Handed(op, n, arg)
      BY <1>1, <1>2, <2>1 DEF Handed
    <2> QED
      BY <1>2, <2>5, <2>6
  <1> QED
    BY <1>4, <1>5

-----------------------------------------------------------------------------
(***************************************************************************)
(* Every step keeps the invariant and is a step of PageSet.                *)
(***************************************************************************)

\* An allocation is a step of PageSet when what it returns is right.
LEMMA HandedImplements ==
  ASSUME NEW op \in {"any", "max", "address", "aligned"}, NEW n \in Nat, NEW arg,
         Handed(op, n, arg),
         last'.memory # NULL => PageSet!Meets(op, n, arg, last'.memory),
         last'.memory = NULL => ~PageSet!Possible(op, n, arg)
  PROVE  PageSet!Next
  <1> DEFINE p == last'.memory
             F == FreePagesOf(mMmMemoryMap)
  <1>1. /\ last'.op = op /\ last'.pages = n /\ last'.arg = arg
        /\ region' = region
    BY DEF Handed
  <1>2. CASE p = NULL
    <2>1. UNCHANGED <<mMmMemoryMap, held>>
      BY <1>2 DEF Handed
    <2>2. ~PageSet!Possible(op, n, arg) /\ p = 0
      BY <1>2 DEF NULL
    <2>3. PageSet!Refuse
      BY <1>1, <2>1, <2>2 DEF PageSet!Refuse
    <2> QED
      BY <2>3 DEF PageSet!Next
  <1>3. CASE p # NULL
    <2>1. /\ p \in Nat /\ n # 0 /\ Run(p, n) \subseteq F
          /\ FreePagesOf(mMmMemoryMap)' = F \ Run(p, n)
          /\ held' = held \cup Run(p, n)
      BY <1>3 DEF Handed
    <2>2. p \in F /\ n > 0
      BY <2>1 DEF Run
    <2>3. PageSet!RunOf(p, n) = Run(p, n)
      BY DEF PageSet!RunOf, Run
    <2>4. PageSet!Meets(op, n, arg, p)
      BY <1>3
    <2>5. PageSet!Grant
      BY <1>1, <2>1, <2>2, <2>3, <2>4 DEF PageSet!Grant
    <2> QED
      BY <2>5 DEF PageSet!Next
  <1> QED
    BY <1>2, <1>3

\* Free pages in a row, as PageSet and as the lemmas say it.
LEMMA RunIsFree ==
  ASSUME IInv, NEW p \in FreePagesOf(mMmMemoryMap), NEW n \in Nat \ {0},
         PageSet!RunOf(p, n) \subseteq FreePagesOf(mMmMemoryMap)
  PROVE  p \in Nat /\ Run(p, n) \subseteq FreePagesOf(mMmMemoryMap) /\ p + n <= ADDRESS_PAGES
  <1>1. p \in Nat
    BY InvList
  <1>2. Run(p, n) \subseteq FreePagesOf(mMmMemoryMap)
    BY DEF PageSet!RunOf, Run
  <1>3. p + n - 1 \in Run(p, n)
    BY <1>1 DEF Run
  <1>4. p + n - 1 < ADDRESS_PAGES
    BY <1>2, <1>3, InvList
  <1> QED
    BY <1>1, <1>2, <1>4, HeapAssumption

\* AllocatePages.
LEMMA AnyStep ==
  ASSUME IInv, NEW n \in Nat, AllocatePages(n)
  PROVE  IInv' /\ PageSet!Next
  <1> DEFINE F == FreePagesOf(mMmMemoryMap)
             result == InternalAllocatePages(mMmMemoryMap, n)
  <1>1. Takes("any", n, 0, result) /\ "any" \in Ops
    BY DEF AllocatePages, Ops
  <1>2. IsList(mMmMemoryMap)
    BY InvList
  <1>3. \/ n # 0 /\ Granted(mMmMemoryMap, n, result)
        \/ /\ result = Failed(mMmMemoryMap)
           /\ n # 0 => ~ \E p \in Nat : Run(p, n) \subseteq F /\ p + n <= ADDRESS_PAGES
    <2>1. CASE n = 0
      BY <2>1 DEF InternalAllocatePages
    <2>2. CASE n # 0
      <3>1. ADDRESS_PAGES \in Nat /\ n \in Nat \ {0}
        BY <2>2, HeapAssumption
      <3>2. result = InternalAllocMaxAddress(mMmMemoryMap, n, ADDRESS_PAGES)
        BY <2>2 DEF InternalAllocatePages
      <3> HIDE DEF result
      <3> QED
        BY <1>2, <2>2, <3>1, <3>2, MaxAddressEffect
    <2> QED
      BY <2>1, <2>2
  <1> HIDE DEF result
  <1>4. Handed("any", n, 0) /\ last'.memory = result.memory /\ IInv'
    BY <1>1, <1>3, TakesEffect
  <1>5. PageSet!Meets("any", n, 0, last'.memory)
    BY DEF PageSet!Meets
  <1>6. ASSUME last'.memory = NULL PROVE ~PageSet!Possible("any", n, 0)
    <2>1. SUFFICES ASSUME PageSet!Possible("any", n, 0) PROVE FALSE
      OBVIOUS
    <2>2. n \in Nat \ {0} /\ \E p \in F : PageSet!RunOf(p, n) \subseteq F
      BY <2>1 DEF PageSet!Possible
    <2>3. PICK p \in F : PageSet!RunOf(p, n) \subseteq F
      BY <2>2
    <2>4. p \in Nat /\ Run(p, n) \subseteq F /\ p + n <= ADDRESS_PAGES
      BY <2>2, <2>3, RunIsFree
    <2>5. ~Granted(mMmMemoryMap, n, result)
      BY <1>4, <1>6 DEF Granted
    <2> QED
      BY <1>3, <2>2, <2>4, <2>5
  <1> QED
    BY <1>4, <1>5, <1>6, HandedImplements

\* MmInternalAllocatePages with AllocateMaxAddress.
LEMMA MaxStep ==
  ASSUME IInv, NEW n \in Nat \ {0}, NEW limit \in Nat, AllocateMaxAddress(n, limit)
  PROVE  IInv' /\ PageSet!Next
  <1> DEFINE F == FreePagesOf(mMmMemoryMap)
             result == InternalAllocMaxAddress(mMmMemoryMap, n, limit)
  <1>1. Takes("max", n, limit, result) /\ "max" \in Ops
    BY DEF AllocateMaxAddress, Ops
  <1>2. IsList(mMmMemoryMap)
    BY InvList
  <1>3. \/ Granted(mMmMemoryMap, n, result) /\ result.memory + n <= limit
        \/ /\ result = Failed(mMmMemoryMap)
           /\ ~ \E p \in Nat : Run(p, n) \subseteq F /\ p + n <= limit
    BY <1>2, MaxAddressEffect
  <1> HIDE DEF result
  <1>4. Handed("max", n, limit) /\ last'.memory = result.memory /\ IInv'
    BY <1>1, <1>3, TakesEffect
  <1>5. ASSUME last'.memory # NULL PROVE PageSet!Meets("max", n, limit, last'.memory)
    <2>1. result.memory + n <= limit
      BY <1>3, <1>4, <1>5 DEF Failed
    <2> QED
      BY <1>4, <2>1 DEF PageSet!Meets
  <1>6. ASSUME last'.memory = NULL PROVE ~PageSet!Possible("max", n, limit)
    <2>1. SUFFICES ASSUME PageSet!Possible("max", n, limit) PROVE FALSE
      OBVIOUS
    <2>2. PICK p \in F : PageSet!RunOf(p, n) \subseteq F /\ PageSet!Meets("max", n, limit, p)
      BY <2>1 DEF PageSet!Possible
    <2>3. p + n <= limit
      BY <2>2 DEF PageSet!Meets
    <2>4. p \in Nat /\ Run(p, n) \subseteq F
      BY <2>2, RunIsFree
    <2>5. ~Granted(mMmMemoryMap, n, result)
      BY <1>4, <1>6 DEF Granted
    <2> QED
      BY <1>3, <2>3, <2>4, <2>5
  <1> QED
    BY <1>4, <1>5, <1>6, HandedImplements

\* MmInternalAllocatePages with AllocateAddress.
LEMMA AddressStep ==
  ASSUME IInv, NEW n \in Nat \ {0}, NEW address \in Nat, AllocateAddress(n, address)
  PROVE  IInv' /\ PageSet!Next
  <1> DEFINE F == FreePagesOf(mMmMemoryMap)
             result == InternalAllocAddress(mMmMemoryMap, n, address)
  <1>1. Takes("address", n, address, result) /\ "address" \in Ops
    BY DEF AllocateAddress, Ops
  <1>2. IsList(mMmMemoryMap)
    BY InvList
  <1>3. \/ Granted(mMmMemoryMap, n, result) /\ result.memory = address
        \/ result = Failed(mMmMemoryMap) /\ ~(Run(address, n) \subseteq F)
    BY <1>2, AddressEffect
  <1> HIDE DEF result
  <1>4. Handed("address", n, address) /\ last'.memory = result.memory /\ IInv'
    BY <1>1, <1>3, TakesEffect
  <1>5. ASSUME last'.memory # NULL PROVE PageSet!Meets("address", n, address, last'.memory)
    <2>1. result.memory = address
      BY <1>3, <1>4, <1>5 DEF Failed
    <2> QED
      BY <1>4, <2>1 DEF PageSet!Meets
  <1>6. ASSUME last'.memory = NULL PROVE ~PageSet!Possible("address", n, address)
    <2>1. SUFFICES ASSUME PageSet!Possible("address", n, address) PROVE FALSE
      OBVIOUS
    <2>2. PICK p \in F : PageSet!RunOf(p, n) \subseteq F /\ PageSet!Meets("address", n, address, p)
      BY <2>1 DEF PageSet!Possible
    <2>3. p = address
      BY <2>2 DEF PageSet!Meets
    <2>4. Run(p, n) \subseteq F
      BY <2>2, RunIsFree
    <2>5. ~Granted(mMmMemoryMap, n, result)
      BY <1>4, <1>6 DEF Granted
    <2> QED
      BY <1>3, <2>3, <2>4, <2>5
  <1> QED
    BY <1>4, <1>5, <1>6, HandedImplements

\* AllocateAlignedPages.
LEMMA AlignedStep ==
  ASSUME IInv, NEW n \in Nat, NEW alignment \in Alignments,
         AllocateAlignedPages(n, alignment)
  PROVE  IInv' /\ PageSet!Next
  <1> DEFINE F == FreePagesOf(mMmMemoryMap)
             result == InternalAllocateAlignedPages(mMmMemoryMap, n, alignment)
             room == \E p \in Nat : /\ Run(p, n + alignment) \subseteq F
                                    /\ p + (n + alignment) <= ADDRESS_PAGES
  <1>0. alignment \in Nat \ {0}
    BY AlignAssumption
  <1>1. Takes("aligned", n, alignment, result) /\ "aligned" \in Ops
    BY DEF AllocateAlignedPages, Ops
  <1>2. IsList(mMmMemoryMap)
    BY InvList
  <1>3. \/ n # 0 /\ Granted(mMmMemoryMap, n, result) /\ result.memory % alignment = 0
        \/ result = Failed(mMmMemoryMap) /\ (n # 0 => ~room)
    <2>1. CASE n = 0
      BY <2>1 DEF InternalAllocateAlignedPages
    <2>2. CASE n # 0
      <3>1. n \in Nat \ {0}
        BY <2>2
      <3> QED
        BY <1>0, <1>2, <3>1, AlignedEffect
    <2> QED
      BY <2>1, <2>2
  <1> HIDE DEF result, room
  <1>4. Handed("aligned", n, alignment) /\ last'.memory = result.memory /\ IInv'
    BY <1>0, <1>1, <1>3, TakesEffect
  <1>5. ASSUME last'.memory # NULL PROVE PageSet!Meets("aligned", n, alignment, last'.memory)
    <2>1. result.memory % alignment = 0
      BY <1>3, <1>4, <1>5 DEF Failed
    <2> QED
      BY <1>4, <2>1 DEF PageSet!Meets
  <1>6. ASSUME last'.memory = NULL PROVE ~PageSet!Possible("aligned", n, alignment)
    <2>1. SUFFICES ASSUME PageSet!Possible("aligned", n, alignment) PROVE FALSE
      OBVIOUS
    <2>2. n > 0 /\ \E p \in F : PageSet!RunOf(p, n + alignment) \subseteq F
      BY <2>1 DEF PageSet!Possible
    <2>3. PICK p \in F : PageSet!RunOf(p, n + alignment) \subseteq F
      BY <2>2
    <2>4. n + alignment \in Nat \ {0} /\ n # 0
      BY <1>0, <2>2
    <2>5. p \in Nat /\ Run(p, n + alignment) \subseteq F /\ p + (n + alignment) <= ADDRESS_PAGES
      BY <2>3, <2>4, RunIsFree
    <2>6. room
      BY <2>5 DEF room
    <2>7. ~Granted(mMmMemoryMap, n, result)
      BY <1>4, <1>6 DEF Granted
    <2> QED
      BY <1>3, <2>4, <2>6, <2>7
  <1> QED
    BY <1>4, <1>5, <1>6, HandedImplements

\* FreePages.
LEMMA FreeStep ==
  ASSUME IInv, NEW n \in Nat \ {0}, NEW memory \in Nat \ {0}, FreePages(memory, n)
  PROVE  IInv' /\ PageSet!Next
  <1> DEFINE F == FreePagesOf(mMmMemoryMap)
             result == MmInternalFreePages(mMmMemoryMap, memory, n)
             run == Run(memory, n)
  <1>1. /\ run \subseteq region /\ mMmMemoryMap' = result.list /\ region' = region
        /\ held' = IF result.memory = NULL THEN held ELSE held \ run
        /\ last' = [op |-> "free", pages |-> n, arg |-> memory, memory |-> result.memory]
    BY DEF FreePages
  <1>2. Sorted(mMmMemoryMap, {})
    BY InvList DEF IsList
  <1>3. F \cup held = region /\ F \cap held = {} /\ region \in {{}, Heap}
    BY DEF IInv, Conserved, TypeOK
  <1>4. \/ /\ run \cap F = {} /\ result.memory = memory /\ Sorted(result.list, {})
           /\ FreePagesOf(result.list) = F \cup run
        \/ run \cap F # {} /\ result = Failed(mMmMemoryMap)
    BY <1>2, FreeEffect
  <1> HIDE DEF result
  <1>5. run = PageSet!RunOf(memory, n) /\ "free" \in Ops
    BY DEF PageSet!RunOf, Run, Ops
  <1>6. last'.op = "free" /\ last'.pages = n /\ last'.arg = memory /\ last'.memory = result.memory
    BY <1>1
  <1> HIDE DEF run
  <1>7. CASE /\ run \cap F = {} /\ result.memory = memory /\ Sorted(result.list, {})
             /\ FreePagesOf(result.list) = F \cup run
    <2>1. run \subseteq held /\ held' = held \ run /\ FreePagesOf(mMmMemoryMap)' = F \cup run
      BY <1>1, <1>3, <1>7 DEF NULL
    <2>2. Conserved'
      BY <1>1, <1>3, <2>1 DEF Conserved
    <2>3. last' \in [op : Ops, pages : Nat, arg : Nat, memory : Nat]
      BY <1>1, <1>5, <1>7
    <2>4. Sorted(mMmMemoryMap', {})
      BY <1>1, <1>7
    <2>5. IInv'
      BY <1>1, <1>3, <2>2, <2>3, <2>4, InvFromNext
    <2>6. PageSet!Release
      BY <1>1, <1>5, <1>6, <1>7, <2>1 DEF PageSet!Release
    <2> QED
      BY <2>5, <2>6 DEF PageSet!Next
  <1>8. CASE run \cap F # {} /\ result = Failed(mMmMemoryMap)
    <2>1. /\ ~(run \subseteq held) /\ result.memory = NULL /\ held' = held
          /\ mMmMemoryMap' = mMmMemoryMap
      BY <1>1, <1>3, <1>8 DEF Failed
    <2>2. Conserved'
      BY <1>1, <1>3, <2>1 DEF Conserved
    <2>3. last' \in [op : Ops, pages : Nat, arg : Nat, memory : Nat]
      BY <1>1, <1>5, <2>1 DEF NULL
    <2>4. Sorted(mMmMemoryMap', {})
      BY <1>2, <2>1
    <2>5. IInv'
      BY <1>1, <1>3, <2>2, <2>3, <2>4, InvFromNext
    <2>6. PageSet!Release
      BY <1>1, <1>5, <1>6, <2>1 DEF PageSet!Release, NULL
    <2> QED
      BY <2>5, <2>6 DEF PageSet!Next
  <1> QED
    BY <1>4, <1>7, <1>8

\* Every step keeps the invariant and is one of the abstract allocator.
LEMMA StepInv ==
  IInv /\ [Next]_vars =>
    IInv' /\ [PageSet!Next]_<<FreePagesOf(mMmMemoryMap), held, region, last>>
  <1> SUFFICES ASSUME IInv, [Next]_vars
               PROVE  IInv' /\ [PageSet!Next]_<<FreePagesOf(mMmMemoryMap), held, region, last>>
    OBVIOUS
  <1>1. /\ Sizes \subseteq Nat \ {0} /\ Heap \subseteq Nat \ {0}
        /\ HEAP_BASE .. ADDRESS_PAGES \subseteq Nat
    BY HeapAssumption DEF Sizes, Heap
  <1>2. CASE \E n \in Sizes \cup {0} : AllocatePages(n)
    BY <1>1, <1>2, AnyStep
  <1>3. CASE \E n \in Sizes, limit \in HEAP_BASE .. ADDRESS_PAGES : AllocateMaxAddress(n, limit)
    BY <1>1, <1>3, MaxStep
  <1>4. CASE \E n \in Sizes, address \in HEAP_BASE .. ADDRESS_PAGES : AllocateAddress(n, address)
    BY <1>1, <1>4, AddressStep
  <1>5. CASE \E n \in Sizes \cup {0}, alignment \in Alignments : AllocateAlignedPages(n, alignment)
    BY <1>1, <1>5, AlignedStep
  <1>6. CASE \E n \in Sizes, memory \in Heap : FreePages(memory, n)
    BY <1>1, <1>6, FreeStep
  <1>7. CASE UNCHANGED vars
    BY <1>7 DEF vars, IInv, TypeOK, FreeListMerged, Conserved
  <1> QED
    BY <1>2, <1>3, <1>4, <1>5, <1>6, <1>7 DEF Next

\* The list and the holdings of the callers together are the region, at every step.
THEOREM PageConservation == Spec => []IInv
  <1>1. IInv /\ [Next]_vars => IInv'
    BY StepInv
  <1> QED
    BY <1>1, InitInv, PTL DEF Spec

\* The list, the pages held and the last call have their types.
THEOREM PageTypeCorrect == Spec => []TypeOK
  <1>1. IInv => TypeOK
    BY DEF IInv
  <1> QED
    BY <1>1, PageConservation, PTL

\* InternalMergeNodes keeps the list sorted and merged whatever the order of allocations
\* and frees; the ASSERT at its head never fires.
THEOREM FreeListStaysMerged == Spec => []FreeListMerged
  <1>1. IInv => FreeListMerged
    BY DEF IInv
  <1> QED
    BY <1>1, PageConservation, PTL

\* Once everything has been given back MmInternalFreePages has joined the heap into the
\* one node it began as.
THEOREM HeapBecomesWhole == Spec => []FreedHeapIsWhole
  <1>1. IInv => FreedHeapIsWhole
    <2> SUFFICES ASSUME IInv, held = {}, region # {}
                 PROVE  mMmMemoryMap = <<[page |-> HEAP_BASE, pages |-> HEAP_PAGES]>>
      BY DEF FreedHeapIsWhole
    <2> DEFINE list == mMmMemoryMap
               whole == [page |-> HEAP_BASE, pages |-> HEAP_PAGES]
    <2>1. Sorted(list, {}) /\ list \in Seq(FreeNode) /\ Len(list) \in Nat
      BY InvList, LenProperties DEF IsList, Sorted
    <2>2. FreePagesOf(list) = Heap
      BY DEF IInv, Conserved, TypeOK
    <2>3. Heap = Run(HEAP_BASE, HEAP_PAGES) /\ HEAP_BASE \in Nat /\ HEAP_PAGES \in Nat \ {0}
      BY HeapAssumption DEF Heap, Run
    <2> HIDE DEF list
    <2>4. PICK i \in 1 .. Len(list) :
            list[i].page <= HEAP_BASE /\ HEAP_BASE + HEAP_PAGES <= EndOf(list[i])
      BY <2>1, <2>2, <2>3, RunInOneNode
    <2>5. ASSUME NEW j \in 1 .. Len(list)
          PROVE  /\ HEAP_BASE <= list[j].page /\ list[j].page < HEAP_BASE + HEAP_PAGES
                 /\ EndOf(list[j]) <= HEAP_BASE + HEAP_PAGES
      <3>1. /\ list[j].page \in Nat /\ list[j].pages \in Nat \ {0}
            /\ EndOf(list[j]) = list[j].page + list[j].pages
        BY <2>1, NodeType DEF Sorted, EndOf
      <3>2. list[j].page \in FreePagesOf(list)
        BY <2>1, <3>1, FreePagesIs
      <3>3. EndOf(list[j]) - 1 \in FreePagesOf(list)
        <4>1. /\ EndOf(list[j]) - 1 \in Int /\ list[j].page <= EndOf(list[j]) - 1
              /\ EndOf(list[j]) - 1 < EndOf(list[j])
          BY <3>1
        <4> QED
          BY <2>1, <4>1, FreePagesIs
      <3>4. /\ list[j].page \in HEAP_BASE .. (HEAP_BASE + HEAP_PAGES - 1)
            /\ EndOf(list[j]) - 1 \in HEAP_BASE .. (HEAP_BASE + HEAP_PAGES - 1)
        BY <2>2, <3>2, <3>3 DEF Heap
      <3> QED
        BY <2>3, <3>1, <3>4
    <2>6. /\ list[i] \in FreeNode /\ list[i].page \in Nat /\ list[i].pages \in Nat
          /\ EndOf(list[i]) = list[i].page + list[i].pages
      BY <2>1, NodeType DEF EndOf
    <2>7. list[i].page = HEAP_BASE /\ list[i].pages = HEAP_PAGES
      BY <2>3, <2>4, <2>5, <2>6
    <2>8. list[i] = whole
      BY <2>6, <2>7 DEF FreeNode
    <2>9. ASSUME NEW j \in 1 .. Len(list) PROVE j = i
      <3>1. /\ i < j => EndOf(list[i]) < list[j].page
            /\ j < i => EndOf(list[j]) < list[i].page
        BY <2>1, Apart
      <3>2. list[j].page \in Nat /\ EndOf(list[j]) \in Nat /\ list[j].page <= EndOf(list[j])
        BY <2>1, NodeType
      <3> QED
        BY <2>3, <2>5, <2>6, <2>7, <3>1, <3>2
    <2>10. Len(list) = 1 /\ i = 1
      <3>1. 1 \in 1 .. Len(list) /\ Len(list) \in 1 .. Len(list)
        BY <2>1
      <3> QED
        BY <2>9, <3>1
    <2> DEFINE t == <<whole>>
    <2>11. whole \in FreeNode
      BY <2>3 DEF FreeNode
    <2> HIDE DEF whole
    <2>12. t \in Seq(FreeNode) /\ Len(t) = 1 /\ t[1] = whole
      BY <2>11, OneNode
    <2> HIDE DEF t
    <2>13. \A j \in 1 .. Len(list) : list[j] = t[j]
      BY <2>8, <2>10, <2>12
    <2>14. list = t
      BY <2>1, <2>10, <2>12, <2>13, SeqEqual
    <2> QED
      BY <2>14 DEF list, t, whole
  <1> QED
    BY <1>1, PageConservation, PTL

\* The free list, with its searches, splits and merges, implements a plain set of free
\* pages.
THEOREM PageAllocatorImplementsPageSet == Spec => ImplementsPageSet
  <1>1. Init => PageSet!Init
    <2> SUFFICES ASSUME Init PROVE PageSet!Init
      OBVIOUS
    <2>1. FreePagesOf(mMmMemoryMap) = region
      BY RegionEffect DEF Init
    <2> QED
      BY <2>1 DEF Init, PageSet!Init, NULL
  <1>2. IInv /\ [Next]_vars => [PageSet!Next]_<<FreePagesOf(mMmMemoryMap), held, region, last>>
    BY StepInv
  <1> QED
    BY <1>1, <1>2, PageConservation, PTL DEF Spec, ImplementsPageSet, PageSet!Spec
=============================================================================
