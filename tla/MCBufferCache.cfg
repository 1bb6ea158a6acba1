SPECIFICATION Spec
CONSTANTS
  t1 = t1
  t2 = t2
  b1 = b1
  b2 = b2
  NULL = NULL
  Torn = Torn
  Zero = 0
  Threads <- MCThreads
  Bufs <- MCBufs
  Blocks <- MCThree
  BadBlocks <- MCBad
  Vals <- MCVals
  MaxCalls = 4
SYMMETRY Perms
INVARIANTS OneBufferPerBlock UserOwnsBuffer WaiterRecordsLive NothingLost ReadsLatest
CHECK_DEADLOCK FALSE
