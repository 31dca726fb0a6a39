CONSTANTS
  HEAP_BASE = 2
  HEAP_PAGES = 2
  ADDRESS_PAGES = 4
  MAX_POOL_INDEX = 3
  MIN_POOL_SIZE = 8
  POOL_HEADER_SIZE = 2
  UINTN_SPAN = 1024
  MaxBuffers = 4
  Requests = {0, 15, 70, 1022, 1023}
SPECIFICATION Spec
INVARIANTS
  TypeOK
  MemoryPartitioned
  HeadersAsAsserted
  ServedOrFull
