CONSTANTS
  MaxSections = 3
  EFI_PAGE_SIZE = 8
  MEMORY_PAGES = 9
  STACK_PAGES = 1
  StrippedSize = 3
  TE_HEADER_SIZE = 1
  LOADED_BASE = 16
  Images <- ImagesMC
SPECIFICATION Spec
INVARIANT AllSectionsProtected
CHECK_DEADLOCK FALSE
