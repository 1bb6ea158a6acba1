SPECIFICATION MCSpec
CONSTANTS
  Pages = 8
  META_ENT_NUM_P_PG = 3
  Requests <- MCRequests
  PAGE_SIZE = 2
  Entries = 2
  Directory = 10
  K_SPACE_END = 8
  ApicBase = 38
  NTables = 5
  MAX_ARDS_ENT = 3
  ARDS_SIZE = 24
INVARIANTS NoAlias BackedByRam MetaInPlace OnlyApicFaults
PROPERTIES ImplementsBlocks
CHECK_DEADLOCK FALSE
