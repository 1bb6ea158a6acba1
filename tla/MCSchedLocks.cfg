SPECIFICATION MCSpec
CONSTANTS
  c1 = c1
  c2 = c2
  v1 = v1
  v2 = v2
  v3 = v3
  NULL = NULL
  HEAD = HEAD
  CPUs <- MCCpus
  Threads <- MCThreads
  Units = 2
INVARIANTS Exclusion SleeperHasWaker InterruptsLostOnlyBySleeping
