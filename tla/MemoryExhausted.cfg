CONSTANTS
  PAGE_SIZE = 2
  Space = 7
  Types = {1, 2}
  MaxEntries = 2
  MAX_PMEM_ENTRIES = 2
  MaxWild = 1
SPECIFICATION MemSpec
INVARIANT OutOfMemoryStops
CHECK_DEADLOCK FALSE
