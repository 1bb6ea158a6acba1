SPECIFICATION FairSpec
CONSTANTS
  t1 = t1
  t2 = t2
  b1 = b1
  b2 = b2
  NULL = NULL
  Torn = Torn
  Zero = 0
  Threads <- MCThreads
  Bufs <- MCOneBuf
  Blocks <- MCTwo
  BadBlocks <- MCNoBad
  Vals <- MCVals
  MaxCalls = 2
PROPERTIES WaiterWakes
CHECK_DEADLOCK FALSE
