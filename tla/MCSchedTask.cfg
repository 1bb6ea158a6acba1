SPECIFICATION CallFairSpec
CONSTANTS
  c1 = c1
  c2 = c2
  t1 = t1
  t2 = t2
  t3 = t3
  NULL = NULL
  HEAD = HEAD
  CPUs <- MCOneCpu
  Threads <- MCTwo
  BSP = c1
  InitThread = t1
PROPERTIES TaskCompletes
CHECK_DEADLOCK FALSE
