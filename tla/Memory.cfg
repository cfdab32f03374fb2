CONSTANTS
  PAGE_SIZE = 2
  Space = 11
  Types = {1, 2}
  MaxEntries = 5
  MAX_PMEM_ENTRIES = 4
  MaxWild = 1
SPECIFICATION MemSpec
INVARIANT MemTypeOK Accounted BlocksDisjoint NothingStranded PartsSeparate DepthBounded
PROPERTY AllocFresh PmemSpec
CHECK_DEADLOCK FALSE
