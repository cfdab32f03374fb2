CONSTANTS
  PAGE_SIZE = 1
  Space = 31
  Types = {1, 2}
  MaxEntries = 3
  MAX_PMEM_ENTRIES = 4
  MaxWild = 1
  N = 3
  FB_FRAME = 40
  Sizes = {1, 3, 4}
  Word = 81
  FbPages = {1, 3, 6, 10}
  Layouts <- SmallLayouts
  Remains <- AllPresent
SPECIFICATION VmemSpec
INVARIANT TablesNotMapped
