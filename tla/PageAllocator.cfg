CONSTANTS
  HEAP_BASE = 3
  HEAP_PAGES = 6
  ADDRESS_PAGES = 10
  Alignments = {2, 4}
SPECIFICATION Spec
INVARIANTS
  TypeOK
  FreeListMerged
  FreedHeapIsWhole
PROPERTY ImplementsPageSet
