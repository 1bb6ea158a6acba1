SPECIFICATION MCSpec
CONSTANTS
  t1 = t1
  t2 = t2
  t3 = t3
  Threads <- MCThreads
  NULL = NULL
  Units = 1
INVARIANTS GrantedIsAwake
PROPERTIES DownIsGranted ImplementsFifoLock LockIsGranted
