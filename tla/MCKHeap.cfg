SPECIFICATION Spec
CONSTANTS
  HeapStart = 16
  HeapSize = 8
  EntPerPage = 5
  MaxMeta = 2
  Sizes <- MCSizes
INVARIANTS Coalesced EntriesConserved
PROPERTIES ImplementsBlocks
