SPECIFICATION Spec
CONSTANTS
  h1 = h1
  h2 = h2
  e1 = e1
  e2 = e2
  e3 = e3
  Heads <- MCHeads
  Entries <- MCEntries
  POISON1 = POISON1
  POISON2 = POISON2
  NULL = NULL
SYMMETRY Perms
INVARIANTS WalkSeesAll
PROPERTIES OnSequences
