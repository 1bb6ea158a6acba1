SPECIFICATION FairSpec
CONSTANTS
  c1 = c1
  c2 = c2
  t1 = t1
  t2 = t2
  t3 = t3
  NULL = NULL
  HEAD = HEAD
  CPUs <- MCCpus
  Threads <- MCThreads
  BSP = c1
  InitThread = t1
INVARIANTS RunningIsCurrent NoSharedStack NoNestedSchedule InterruptsOn StrayOnlyAfterFinish
PROPERTIES RunsAgain
CHECK_DEADLOCK FALSE
