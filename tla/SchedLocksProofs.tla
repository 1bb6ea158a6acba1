-------------------------- MODULE SchedLocksProofs --------------------------
(***************************************************************************)
(* Proofs about SchedLocks, for every set of processors, every finite set  *)
(* of workers, every distribution of them and every initial count.         *)
(***************************************************************************)
EXTENDS SchedLocks, CpuSchedProofs, FiniteSetTheorems

Locations ==
  {"lock", "wait", "relock", "cs", "cs_sched", "unlock", "rest", "rest_sched"}

TypeOK ==
  /\ mode \in {"mutex", "sem"}
  /\ pc \in [Threads -> Locations]
  /\ owner \in Threads \cup {NULL}
  /\ count \in Nat
  /\ wq \in Seq(Threads)
  /\ slept \in SUBSET Threads

Waits(t) == pc[t] \in {"wait", "relock"}

\* Code that runs belongs to a RUNNING thread, except between make_sleep and
\* schedule().
Awake ==
  \A c \in CPUs, t \in Threads :
    Runs(c, t) => status[t] = "RUNNING" \/ pc[t] \in {"wait", "cs_sched", "rest_sched"}

\* An alarm is set for a thread that sleeps in pause.
Alarms ==
  \A t \in alarms :
    status[t] = "BLOCKED" /\ pc[t] \in {"cs_sched", "rest_sched", "unlock", "lock"}

\* The wait queue holds threads that sleep for the lock, each once; the owner
\* may be on it, awake.
Queue ==
  /\ Distinct(wq)
  /\ \A t \in Threads : InQ(t, wq) => Waits(t)
  /\ \A t \in Threads : InQ(t, wq) /\ owner # t => status[t] = "BLOCKED"
  /\ \A t \in Threads : Waits(t) => t \in slept

MutexInv ==
  mode = "mutex" =>
    /\ \A t \in Threads : t \in Inside => owner = t
    /\ \A t \in Threads : Waits(t) => InQ(t, wq)
    /\ \A t \in Threads : owner = t /\ t \notin Inside => wq # <<>> /\ wq[1] = t
    /\ owner = NULL => wq = <<>>

\* The workers that have a unit of the semaphore, some of them without having
\* noticed.
Holders == {t \in Threads : t \in Inside \/ (Waits(t) /\ ~ InQ(t, wq))}

SemInv == mode = "sem" => owner = NULL /\ count + Cardinality(Holders) = Units

LockInv == TypeOK /\ Queue /\ MutexInv /\ SemInv

\* The inductive invariant.
IInv ==
  /\ CpuInv({}) /\ LockInv /\ Awake /\ Alarms /\ SleeperHasWaker
  /\ FlagsKept(slept)

\* __do_sched_rr never meets an empty queue here, so that Cpu may do without
\* scan_head.
LEMMA NoScanHead ==
  ASSUME IInv, NEW c \in CPUs
  PROVE  ~ scan_head(c)
<1> SUFFICES ASSUME scan_head(c) PROVE FALSE
  OBVIOUS
<1>1. exec[c].mode = "scan" /\ rthread[c] # NULL /\ runq[c] = <<>>
  BY DEF scan_head
<1>2. ~ InQ(exec[c].at, runq[c])
  BY <1>1 DEF InQ
<1> QED
  BY <1>1, <1>2 DEF IInv, CpuInv, Current, CpuTypeOK, Execs

\* The threads that hold a unit can be counted.
LEMMA HoldersFinite ==
  /\ IsFiniteSet(Holders) /\ Cardinality(Holders) \in Nat
  /\ IsFiniteSet(Holders') /\ Cardinality(Holders') \in Nat
<1>1. Holders \subseteq Threads /\ Holders' \subseteq Threads
  BY DEF Holders
<1> QED
  BY <1>1, FiniteThreads, FS_Subset, FS_CardinalityType

\* Before init_sched nobody holds anything.
LEMMA InitIInv == Init => IInv
<1> SUFFICES ASSUME Init PROVE IInv
  OBVIOUS
<1>1. NULL \notin Threads /\ HEAD \notin Threads /\ NULL # HEAD
  BY SchedAssumption
<1>2. runq \in [CPUs -> Seq(Threads)] /\ \A c \in CPUs : Distinct(runq[c])
  <2>1. Cardinality(Threads) \in Nat
    BY FiniteThreads, FS_CardinalityType
  <2>2. ASSUME NEW q \in UNION {[1 .. n -> Threads] : n \in 0 .. Cardinality(Threads)}
        PROVE  q \in Seq(Threads)
    <3>1. PICK n \in 0 .. Cardinality(Threads) : q \in [1 .. n -> Threads]
      OBVIOUS
    <3>2. n \in Nat
      BY <2>1
    <3> QED
      BY <3>1, <3>2
  <2> QED
    BY <2>2 DEF Init, Distinct
<1>3. CpuTypeOK
  BY <1>1, <1>2 DEF Init, CpuTypeOK, Statuses, Execs
<1>4. OneQueue
  BY <1>2 DEF OneQueue, Init
<1>5. Homes({}) /\ Current({}) /\ Born
  BY <1>1 DEF Homes, Current, Born, Init
<1>6. RunningIsCurrent /\ NoNestedSchedule /\ NoSharedStack
  BY DEF RunningIsCurrent, NoNestedSchedule, NoSharedStack, Init
<1>7. CpuInv({})
  BY <1>3, <1>4, <1>5, <1>6 DEF CpuInv
<1>8. TypeOK
  BY UnitsAssumption DEF TypeOK, Init, Locations
<1>9. \A t \in Threads : ~ InQ(t, wq) /\ ~ Waits(t) /\ t \notin Inside
  BY DEF Init, InQ, Waits, Inside
<1>10. Queue /\ MutexInv
  BY <1>1, <1>9 DEF Queue, MutexInv, Distinct, Init
<1>11. Holders = {}
  BY <1>9 DEF Holders
<1>12. SemInv
  BY <1>11, FS_EmptySet, UnitsAssumption DEF SemInv, Init
<1>13. Awake /\ Alarms /\ SleeperHasWaker /\ FlagsKept(slept)
  BY DEF Awake, Alarms, SleeperHasWaker, FlagsKept, Runs, Init
<1> QED
  BY <1>7, <1>8, <1>10, <1>12, <1>13 DEF IInv, LockInv

\* A step of a processor: a sleeper is woken only by its own alarm, which it
\* has not set while it is on the wait queue.
LEMMA CpuIInv ==
  ASSUME IInv, NEW c \in CPUs, Cpu(c), mode' = mode
  PROVE  IInv'
<1>1. Processor(c) /\ UNCHANGED <<pc, owner, count, wq, slept>>
  BY DEF Cpu, Processor, lockvars
<1>2. CpuInv({}) /\ CpuInv({})'
  BY <1>1, ProcessorCpuInv DEF IInv
<1>3. /\ \A t \in Threads :
           \/ status'[t] = status[t]
           \/ status[t] = "RUNNING" /\ status'[t] = "READY"
           \/ status[t] = "READY" /\ status'[t] = "RUNNING"
           \/ status[t] = "BLOCKED" /\ status'[t] = "READY" /\ t \in alarms \ alarms'
      /\ alarms' \in SUBSET alarms
      /\ \A t \in alarms \ alarms' : status'[t] = "READY"
  BY <1>1, <1>2, ProcessorStatus
<1>4. \A t \in Threads : status'[t] = "BLOCKED" => status[t] = "BLOCKED"
  BY <1>3
<1>5. \A t \in Threads :
        status[t] = "BLOCKED" => status'[t] = "BLOCKED" \/ t \in alarms \ alarms'
  BY <1>3
<1>6. alarms \subseteq Threads
  BY <1>2 DEF CpuInv, CpuTypeOK
<1>7. TypeOK'
  BY <1>1 DEF IInv, LockInv, TypeOK
<1>8. Queue'
  <2>1. \A t \in Threads : InQ(t, wq) => t \notin alarms
    BY DEF IInv, LockInv, Queue, Waits, Alarms
  <2> QED
    BY <1>1, <1>5, <2>1 DEF IInv, LockInv, Queue, Waits, InQ, Distinct
<1>9. MutexInv'
  BY <1>1 DEF IInv, LockInv, MutexInv, Inside, Waits, InQ
<1>10. SemInv'
  <2>1. Holders' = Holders
    BY <1>1 DEF Holders, Inside, Waits, InQ
  <2> QED
    BY <1>1, <2>1 DEF IInv, LockInv, SemInv
<1>11. Awake'
  <2> SUFFICES ASSUME NEW d \in CPUs, NEW t \in Threads, Runs(d, t)'
               PROVE  status'[t] = "RUNNING" \/ pc'[t] \in {"wait", "cs_sched", "rest_sched"}
    BY DEF Awake
  <2>1. \/ status'[t] = "RUNNING"
        \/ Runs(d, t) /\ (status'[t] = status[t] \/ status[t] = "BLOCKED")
    BY <1>1, <1>2, ProcessorRuns
  <2> QED
    BY <1>1, <2>1 DEF IInv, Awake
<1>12. Alarms'
  BY <1>1, <1>3, <1>5, <1>6 DEF IInv, Alarms
<1>13. SleeperHasWaker'
  BY <1>1, <1>3, <1>4 DEF IInv, SleeperHasWaker, InQ
<1>14. FlagsKept(slept)'
  <2>1. PICK S : S = slept
    OBVIOUS
  <2>2. FlagsKept(S)'
    BY <1>1, <1>2, <2>1, ProcessorFlags DEF IInv
  <2> QED
    BY <1>1, <2>1, <2>2
<1> QED
  BY <1>2, <1>7, <1>8, <1>9, <1>10, <1>11, <1>12, <1>13, <1>14 DEF IInv, LockInv

\* What is known of a worker whose code runs.
LEMMA WorkerFacts ==
  ASSUME IInv, NEW c \in CPUs, NEW t \in Threads, Runs(c, t)
  PROVE  /\ t # NULL /\ exec[c].mode = "run" /\ exec[c].th = t
         /\ \A d \in CPUs : Runs(d, t) => d = c
         /\ pc[t] \notin {"wait", "cs_sched", "rest_sched"} =>
              status[t] = "RUNNING" /\ t \notin alarms
         /\ ~ Waits(t) => ~ InQ(t, wq)
<1>1. t # NULL /\ exec[c].mode = "run" /\ exec[c].th = t
  BY SchedAssumption DEF Runs
<1>2. \A d \in CPUs : Runs(d, t) => d = c
  BY <1>1 DEF IInv, CpuInv, NoSharedStack, Runs
<1>3. pc[t] \notin {"wait", "cs_sched", "rest_sched"} =>
        status[t] = "RUNNING" /\ t \notin alarms
  BY DEF IInv, Awake, Alarms
<1>4. ~ Waits(t) => ~ InQ(t, wq)
  BY DEF IInv, LockInv, Queue
<1> QED
  BY <1>1, <1>2, <1>3, <1>4

\* A step of an awake thread may wake a sleeper that has no alarm set.
LEMMA WakeStep ==
  ASSUME IInv, NEW t \in Threads, t \notin alarms, status'[t] = "RUNNING",
         UNCHANGED <<exec, alarms>>,
         \A u \in Threads \ {t} :
           /\ pc'[u] = pc[u]
           /\ status'[u] = status[u] \/ (status[u] = "BLOCKED" /\ u \notin alarms)
  PROVE  Awake' /\ Alarms'
<1>1. Awake'
  <2> SUFFICES ASSUME NEW d \in CPUs, NEW u \in Threads, Runs(d, u)', u # t
               PROVE  status'[u] = "RUNNING" \/ pc'[u] \in {"wait", "cs_sched", "rest_sched"}
    BY DEF Awake
  <2>1. Runs(d, u)
    BY DEF Runs
  <2>2. status[u] = "RUNNING" \/ pc[u] \in {"wait", "cs_sched", "rest_sched"}
    BY <2>1 DEF IInv, Awake
  <2> QED
    BY <2>2
<1>2. alarms \subseteq Threads
  BY DEF IInv, CpuInv, CpuTypeOK
<1>3. Alarms'
  BY <1>2 DEF IInv, Alarms
<1> QED
  BY <1>1, <1>3

\* A step of thread code that does not call schedule(): what it does to the
\* flags of its own processor only matters to the thread itself.
LEMMA LocalStep ==
  ASSUME IInv, NEW c \in CPUs, NEW t \in Threads, Runs(c, t), CpuTypeOK',
         UNCHANGED <<ctx, runq, rthread, exec>>,
         \A d \in CPUs \ {c} : /\ preempt_on'[d] = preempt_on[d]
                               /\ saved_flags'[d] = saved_flags[d]
                               /\ irq_on'[d] = irq_on[d],
         irq_on'[c] \/ irq_on'[c] = irq_on[c] \/ t \in slept',
         slept \subseteq slept',
         \A u \in Threads : status'[u] = status[u] \/ status'[u] \in {"BLOCKED", "READY"}
  PROVE  CpuInv({})' /\ FlagsKept(slept)'
<1>1. exec[c].mode = "run" /\ exec[c].th = t
  BY DEF Runs
<1>2. \A u \in Threads :
        /\ status'[u] = "RUNNING" => status[u] = "RUNNING"
        /\ status'[u] \in {"NONE", "INIT"} => status[u] \in {"NONE", "INIT"}
  OBVIOUS
<1>3. \A d \in CPUs : exec[d].mode = "scan" => d # c
  BY <1>1
<1>4. CpuInv({})'
  BY <1>2, <1>3, QuietCpuInv DEF IInv
<1>5. \A u \in Threads \ slept' : ctx'[u]
  BY DEF IInv, FlagsKept
<1>6. \A d \in CPUs, u \in Threads \ slept' : Runs(d, u)' => irq_on'[d]
  BY <1>1 DEF IInv, FlagsKept, Runs
<1>7. \A d \in CPUs, u \in Threads \ slept' :
        exec'[d].mode = "scan" /\ exec'[d].th = u => exec'[d].irq \/ saved_flags'[d]
  BY <1>3 DEF IInv, FlagsKept
<1> QED
  BY <1>4, <1>5, <1>6, <1>7 DEF FlagsKept

\* mutex_lock finds the mutex free, or sem_down a unit.
LEMMA FastIInv ==
  ASSUME IInv, NEW c \in CPUs, NEW t \in Threads, mutex_lock(c, t) \/ sem_down(c, t),
         mode' = mode, pc' = [pc EXCEPT ![t] = "cs"]
  PROVE  IInv'
<1>1. TypeOK /\ CpuTypeOK
  BY DEF IInv, LockInv, CpuInv
<1>2. pc'[t] = "cs" /\ pc'[t] # "wait"
  BY <1>1 DEF TypeOK
<1>3. /\ Runs(c, t) /\ pc[t] = "lock"
      /\ \/ mode = "mutex" /\ owner = NULL /\ owner' = t /\ count' = count
         \/ mode = "sem" /\ count > 0 /\ count' = count - 1 /\ owner' = owner
      /\ saved_flags' = [saved_flags EXCEPT ![c] = irq_on[c]]
      /\ preempt_on' = [preempt_on EXCEPT ![c] = TRUE]
      /\ UNCHANGED <<irq_on, status, wq, slept, ctx, alarms, runq, rthread, exec>>
  <2>1. ~ sleep_on(c, t)
    BY <1>1, <1>2 DEF sleep_on, Goto, Set, TypeOK
  <2> QED
    BY <2>1 DEF mutex_lock, sem_down, At, irqsave_section, local_irq_save, preempt_enable, Set
<1>4. /\ t # NULL /\ status[t] = "RUNNING" /\ ~ InQ(t, wq)
  BY <1>3, WorkerFacts DEF Waits
<1>5. CpuTypeOK'
  BY <1>1, <1>3 DEF CpuTypeOK
<1>6. CpuInv({})' /\ FlagsKept(slept)'
  BY <1>1, <1>3, <1>5, LocalStep, Zenon DEF CpuTypeOK
<1>7. TypeOK'
  BY <1>1, <1>3 DEF TypeOK, Locations
<1>8. /\ \A u \in Threads : pc'[u] = IF u = t THEN "cs" ELSE pc[u]
      /\ \A u \in Threads : Waits(u)' <=> Waits(u)
      /\ \A u \in Threads : u \in Inside' <=> u \in Inside \/ u = t
      /\ t \notin Inside /\ ~ Waits(t)
  BY <1>1, <1>3 DEF TypeOK, Waits, Inside
<1>9. mode = "mutex" => wq = <<>> /\ \A u \in Threads : u \notin Inside /\ ~ InQ(u, wq)
  <2>1. mode = "mutex" => wq = <<>> /\ owner = NULL
    BY <1>3 DEF IInv, LockInv, MutexInv
  <2>2. \A u \in Threads : u # NULL
    BY SchedAssumption
  <2> QED
    BY <2>1, <2>2 DEF IInv, LockInv, MutexInv, InQ
<1>10. Queue'
  <2>1. \A u \in Threads : InQ(u, wq) => owner' = owner
    BY <1>3, <1>9
  <2> QED
    BY <1>3, <1>8, <2>1 DEF IInv, LockInv, Queue, InQ, Distinct
<1>11. MutexInv'
  <2>1. ASSUME mode = "mutex"
        PROVE  /\ \A u \in Threads : u \in Inside' => owner' = u
               /\ \A u \in Threads : ~ Waits(u)'
               /\ \A u \in Threads : owner' = u => u \in Inside'
               /\ owner' # NULL
    BY <1>3, <1>4, <1>8, <1>9, <2>1 DEF IInv, LockInv, MutexInv
  <2> QED
    BY <2>1 DEF MutexInv
<1>12. SemInv'
  <2>1. Holders' = Holders \cup {t} /\ t \notin Holders
    BY <1>3, <1>8 DEF Holders, InQ
  <2>2. Cardinality(Holders') = Cardinality(Holders) + 1
    BY <2>1, HoldersFinite, FS_AddElement
  <2> QED
    BY <1>1, <1>3, <2>2, HoldersFinite, UnitsAssumption DEF IInv, LockInv, SemInv, TypeOK
<1>13. Awake' /\ Alarms'
  BY <1>3, <1>4, <1>8 DEF IInv, Awake, Alarms, Runs, CpuTypeOK
<1>14. SleeperHasWaker'
  BY <1>3, <1>4, <1>9 DEF IInv, SleeperHasWaker, InQ
<1> QED
  BY <1>6, <1>7, <1>10, <1>11, <1>12, <1>13, <1>14 DEF IInv, LockInv

\* The slow paths: the worker goes to sleep on the wait queue.
LEMMA SleepIInv ==
  ASSUME IInv, NEW c \in CPUs, NEW t \in Threads, sleep_on(c, t), mode' = mode,
         At(c, t, "lock"), mode = "mutex" => owner # NULL,
         UNCHANGED <<ctx, alarms, runq, rthread, exec, owner, count>>
  PROVE  IInv'
<1>1. TypeOK /\ CpuTypeOK
  BY DEF IInv, LockInv, CpuInv
<1>2. /\ Runs(c, t) /\ pc[t] = "lock" /\ pc' = [pc EXCEPT ![t] = "wait"]
      /\ status' = [status EXCEPT ![t] = "BLOCKED"]
      /\ saved_flags' = [saved_flags EXCEPT ![c] = irq_on[c]]
      /\ irq_on' = [irq_on EXCEPT ![c] = TRUE]
      /\ preempt_on' = [preempt_on EXCEPT ![c] = TRUE]
      /\ wq' = Append(wq, t) /\ slept' = slept \cup {t}
  BY DEF sleep_on, At, Goto, Set
<1>3. t # NULL /\ status[t] = "RUNNING" /\ t \notin alarms /\ ~ InQ(t, wq)
  BY <1>2, WorkerFacts DEF Waits
<1>4. /\ wq' \in Seq(Threads) /\ Distinct(wq')
      /\ \A u : InQ(u, wq') <=> InQ(u, wq) \/ u = t
  BY <1>1, <1>2, <1>3, AppendInQ DEF IInv, LockInv, Queue, TypeOK
<1>5. CpuTypeOK'
  BY <1>1, <1>2 DEF CpuTypeOK, Statuses
<1>6. /\ \A u \in Threads : pc'[u] = IF u = t THEN "wait" ELSE pc[u]
      /\ \A u \in Threads : status'[u] = IF u = t THEN "BLOCKED" ELSE status[u]
  BY <1>1, <1>2 DEF TypeOK, CpuTypeOK
<1>7. CpuInv({})' /\ FlagsKept(slept)'
  BY <1>1, <1>2, <1>5, <1>6, LocalStep, Zenon DEF CpuTypeOK
<1>8. TypeOK'
  BY <1>1, <1>2, <1>4 DEF TypeOK, Locations
<1>9. /\ \A u \in Threads : Waits(u)' <=> Waits(u) \/ u = t
      /\ \A u \in Threads : u \in Inside' <=> u \in Inside
      /\ t \notin Inside /\ ~ Waits(t)
  BY <1>2, <1>6 DEF Waits, Inside
<1>10. owner # t
  <2>1. CASE mode = "mutex"
    <3> SUFFICES ASSUME owner = t PROVE FALSE
      OBVIOUS
    <3>1. wq # <<>> /\ wq[1] = t
      BY <1>9, <2>1 DEF IInv, LockInv, MutexInv
    <3> QED
      BY <1>1, <1>3, <3>1, FirstInQ DEF TypeOK
  <2>2. CASE mode = "sem"
    BY <1>3, <2>2 DEF IInv, LockInv, SemInv
  <2> QED
    BY <1>1, <2>1, <2>2 DEF TypeOK
<1>11. Queue'
  <2>1. /\ \A u \in Threads : InQ(u, wq') => Waits(u)'
        /\ \A u \in Threads : InQ(u, wq') /\ owner' # u => status'[u] = "BLOCKED"
        /\ \A u \in Threads : Waits(u)' => u \in slept'
    BY <1>2, <1>4, <1>6, <1>9 DEF IInv, LockInv, Queue
  <2> QED
    BY <1>4, <2>1 DEF Queue, InQ, Distinct
<1>12. MutexInv'
  <2> SUFFICES ASSUME mode = "mutex"
               PROVE  /\ \A u \in Threads : u \in Inside' => owner' = u
                      /\ \A u \in Threads : Waits(u)' => InQ(u, wq')
                      /\ \A u \in Threads : owner' = u /\ u \notin Inside' =>
                           wq' # <<>> /\ wq'[1] = u
                      /\ owner' = NULL => wq' = <<>>
    BY DEF MutexInv, InQ
  <2>1. wq # <<>> => wq' # <<>> /\ wq'[1] = wq[1]
    BY <1>1, <1>2, AppendProperties, EmptySeq DEF TypeOK
  <2> QED
    BY <1>4, <1>9, <2>1 DEF IInv, LockInv, MutexInv
<1>13. SemInv'
  <2>1. Holders' = Holders
    <3>1. \A u \in Threads : u \in Inside' \/ (Waits(u)' /\ ~ InQ(u, wq'))
                             <=> u \in Inside \/ (Waits(u) /\ ~ InQ(u, wq))
      BY <1>4, <1>9
    <3> QED
      BY <3>1 DEF Holders, InQ
  <2> QED
    BY <2>1 DEF IInv, LockInv, SemInv
<1>14. Awake' /\ Alarms'
  BY <1>1, <1>2, <1>3, <1>6 DEF IInv, Awake, Alarms, Runs, CpuTypeOK
<1>15. SleeperHasWaker'
  <2>1. \A u \in Threads : status'[u] = "BLOCKED" =>
          u \in alarms' \/ (InQ(u, wq') /\ owner' # u)
    BY <1>4, <1>6, <1>10 DEF IInv, SleeperHasWaker
  <2> QED
    BY <2>1 DEF SleeperHasWaker, InQ
<1> QED
  BY <1>7, <1>8, <1>11, <1>12, <1>13, <1>14, <1>15 DEF IInv, LockInv

\* Back from schedule() the lock is always held: by hand-over of the mutex, or
\* by a unit that came with the wake-up.
LEMMA WokenIInv ==
  ASSUME IInv, NEW c \in CPUs, NEW t \in Threads, lock_woken(c, t), mode' = mode
  PROVE  IInv'
<1>1. TypeOK /\ CpuTypeOK
  BY DEF IInv, LockInv, CpuInv
<1>2. Runs(c, t) /\ pc[t] = "relock"
  BY DEF lock_woken, At
<1>3. t # NULL /\ status[t] = "RUNNING" /\ t \notin alarms /\ t \in slept
      /\ Waits(t) /\ t \notin Inside
  BY <1>2, WorkerFacts DEF IInv, LockInv, Queue, Waits, Inside
<1>4. InQ(t, wq) => owner = t
  BY <1>3 DEF IInv, LockInv, Queue
<1>5. mode = "mutex" => owner = t /\ InQ(t, wq)
  BY <1>3, <1>4 DEF IInv, LockInv, MutexInv
<1>6. mode = "sem" => ~ InQ(t, wq)
  BY <1>3, <1>4 DEF IInv, LockInv, SemInv
<1>7. /\ wq' = (IF mode = "mutex" THEN Without(wq, t) ELSE wq)
      /\ irq_on' = [irq_on EXCEPT ![c] = saved_flags[c]]
      /\ preempt_on' = [preempt_on EXCEPT ![c] = TRUE]
      /\ pc' = [pc EXCEPT ![t] = "cs"]
      /\ UNCHANGED <<status, ctx, alarms, runq, rthread, saved_flags, exec, owner, count, slept>>
  BY <1>1, <1>5, Zenon DEF lock_woken, Goto, Set, TypeOK
<1>8. /\ wq' \in Seq(Threads) /\ Distinct(wq')
      /\ \A u \in Threads : InQ(u, wq') <=> InQ(u, wq) /\ u # t
  <2>1. CASE mode = "mutex"
    BY <1>1, <1>5, <1>7, <2>1, WithoutInQ DEF IInv, LockInv, Queue, TypeOK
  <2>2. CASE mode = "sem"
    BY <1>1, <1>6, <1>7, <2>2 DEF IInv, LockInv, Queue, TypeOK
  <2> QED
    BY <1>1, <2>1, <2>2 DEF TypeOK
<1>9. CpuTypeOK'
  BY <1>1, <1>7 DEF CpuTypeOK
<1>10. CpuInv({})' /\ FlagsKept(slept)'
  BY <1>1, <1>2, <1>3, <1>7, <1>9, LocalStep, Zenon DEF CpuTypeOK
<1>11. TypeOK'
  BY <1>1, <1>7, <1>8 DEF TypeOK, Locations
<1>12. /\ \A u \in Threads : pc'[u] = IF u = t THEN "cs" ELSE pc[u]
       /\ \A u \in Threads : Waits(u)' <=> Waits(u) /\ u # t
       /\ \A u \in Threads : u \in Inside' <=> u \in Inside \/ u = t
  BY <1>1, <1>7 DEF TypeOK, Waits, Inside
<1>13. Queue'
  <2>1. /\ \A u \in Threads : InQ(u, wq') => Waits(u)'
        /\ \A u \in Threads : InQ(u, wq') /\ owner' # u => status'[u] = "BLOCKED"
        /\ \A u \in Threads : Waits(u)' => u \in slept'
    BY <1>7, <1>8, <1>12 DEF IInv, LockInv, Queue
  <2> QED
    BY <1>8, <2>1 DEF Queue, InQ, Distinct
<1>14. MutexInv'
  <2> SUFFICES ASSUME mode = "mutex"
               PROVE  /\ \A u \in Threads : u \in Inside' => owner' = u
                      /\ \A u \in Threads : Waits(u)' => InQ(u, wq')
                      /\ \A u \in Threads : owner' = u => u \in Inside'
                      /\ owner' # NULL
    BY DEF MutexInv, InQ
  <2> QED
    BY <1>3, <1>5, <1>7, <1>8, <1>12 DEF IInv, LockInv, MutexInv
<1>15. SemInv'
  <2> SUFFICES ASSUME mode = "sem" PROVE owner' = NULL /\ count' + Cardinality(Holders') = Units
    BY DEF SemInv
  <2>1. Holders' = Holders
    <3>1. \A u \in Threads : u \in Inside' \/ (Waits(u)' /\ ~ InQ(u, wq'))
                             <=> u \in Inside \/ (Waits(u) /\ ~ InQ(u, wq))
      BY <1>3, <1>6, <1>8, <1>12
    <3> QED
      BY <3>1 DEF Holders, InQ
  <2> QED
    BY <1>7, <2>1 DEF IInv, LockInv, SemInv
<1>16. Awake' /\ Alarms'
  BY <1>3, <1>7, <1>12 DEF IInv, Awake, Alarms, Runs
<1>17. SleeperHasWaker'
  <2>1. \A u \in Threads : status'[u] = "BLOCKED" =>
          u \in alarms' \/ (InQ(u, wq') /\ owner' # u)
    BY <1>3, <1>7, <1>8 DEF IInv, SleeperHasWaker
  <2> QED
    BY <2>1 DEF SleeperHasWaker, InQ
<1> QED
  BY <1>10, <1>11, <1>13, <1>14, <1>15, <1>16, <1>17 DEF IInv, LockInv

\* The first entry of the wait queue sleeps, and wake_up makes it READY.
LEMMA FirstWaiter ==
  ASSUME IInv, NEW t \in Threads, t \in Inside, wq # <<>>
  PROVE  LET h == Head(wq)
         IN  /\ h \in Threads /\ h = wq[1] /\ InQ(h, wq) /\ Waits(h) /\ h # t
             /\ status[h] = "BLOCKED" /\ h \notin alarms
<1> DEFINE h == Head(wq)
<1>1. wq \in Seq(Threads)
  BY DEF IInv, LockInv, TypeOK
<1>2. h = wq[1] /\ h \in Threads /\ InQ(h, wq)
  BY <1>1, FirstInQ, HeadTailProperties
<1>3. Waits(h) /\ h # t
  BY <1>2 DEF IInv, LockInv, Queue, Waits, Inside
<1>4. owner # h
  <2>1. CASE mode = "mutex"
    BY <1>3, <2>1 DEF IInv, LockInv, MutexInv
  <2>2. CASE mode = "sem"
    BY <1>2, <2>2, SchedAssumption DEF IInv, LockInv, SemInv
  <2> QED
    BY <2>1, <2>2 DEF IInv, LockInv, TypeOK
<1>5. status[h] = "BLOCKED"
  BY <1>2, <1>4 DEF IInv, LockInv, Queue
<1>6. h \notin alarms
  BY <1>3 DEF IInv, Alarms, Waits
<1> QED
  BY <1>2, <1>3, <1>5, <1>6

\* mutex_unlock passes the mutex on and wakes the first waiter.
LEMMA MutexUnlockIInv ==
  ASSUME IInv, NEW c \in CPUs, NEW t \in Threads, mutex_unlock(c, t), mode' = mode
  PROVE  IInv'
<1> DEFINE h == Head(wq)
<1>1. TypeOK /\ CpuTypeOK
  BY DEF IInv, LockInv, CpuInv
<1>2. /\ Runs(c, t) /\ pc[t] = "unlock" /\ mode = "mutex" /\ pc' = [pc EXCEPT ![t] = "rest"]
      /\ saved_flags' = [saved_flags EXCEPT ![c] = irq_on[c]]
      /\ preempt_on' = [preempt_on EXCEPT ![c] = TRUE]
      /\ UNCHANGED <<irq_on, ctx, alarms, runq, rthread, exec, count, wq, slept>>
  BY DEF mutex_unlock, At, Goto, irqsave_section, local_irq_save, preempt_enable, Set
<1>3. t # NULL /\ status[t] = "RUNNING" /\ t \in Inside /\ ~ Waits(t) /\ ~ InQ(t, wq)
      /\ t \notin alarms
  BY <1>2, WorkerFacts DEF Waits, Inside
<1>4. /\ \A u \in Threads : pc'[u] = IF u = t THEN "rest" ELSE pc[u]
      /\ \A u \in Threads : Waits(u)' <=> Waits(u)
      /\ \A u \in Threads : u \in Inside' <=> u \in Inside /\ u # t
  BY <1>1, <1>2 DEF TypeOK, Waits, Inside
<1>5. owner = t /\ \A u \in Threads : u \notin Inside'
  BY <1>2, <1>3, <1>4 DEF IInv, LockInv, MutexInv
<1>6. CASE wq = <<>>
  <2>1. owner' = NULL /\ status' = status
    BY <1>6 DEF mutex_unlock
  <2>2. \A u \in Threads : ~ InQ(u, wq) /\ ~ Waits(u) /\ u # NULL
    BY <1>2, <1>6, SchedAssumption DEF IInv, LockInv, MutexInv, InQ
  <2>3. TypeOK' /\ CpuTypeOK'
    BY <1>1, <1>2, <2>1 DEF TypeOK, CpuTypeOK, Locations
  <2>4. CpuInv({})' /\ FlagsKept(slept)'
    BY <1>1, <1>2, <2>1, <2>3, LocalStep, Zenon DEF CpuTypeOK
  <2>5. Queue' /\ MutexInv' /\ SemInv'
    BY <1>2, <1>4, <1>5, <1>6, <2>1, <2>2 DEF IInv, LockInv, Queue, MutexInv, SemInv, InQ, Distinct
  <2>6. Awake' /\ Alarms'
    BY <1>2, <1>3, <1>4, <2>1, WakeStep
  <2>7. SleeperHasWaker'
    BY <1>2, <2>1, <2>2, Zenon DEF IInv, SleeperHasWaker, InQ
  <2> QED
    BY <2>3, <2>4, <2>5, <2>6, <2>7 DEF IInv, LockInv
<1>7. CASE wq # <<>>
  <2>1. /\ h \in Threads /\ h = wq[1] /\ InQ(h, wq) /\ Waits(h) /\ h # t
        /\ status[h] = "BLOCKED" /\ h \notin alarms
    BY <1>3, <1>7, FirstWaiter
  <2>2. owner' = h /\ status' = [status EXCEPT ![h] = "READY"]
    BY <1>7, <2>1 DEF mutex_unlock, wake_up, Set
  <2> HIDE DEF h
  <2>3. TypeOK' /\ CpuTypeOK'
    BY <1>1, <1>2, <2>1, <2>2 DEF TypeOK, CpuTypeOK, Locations, Statuses
  <2>4. \A u \in Threads : status'[u] = IF u = h THEN "READY" ELSE status[u]
    BY <1>1, <2>1, <2>2 DEF CpuTypeOK
  <2>5. CpuInv({})' /\ FlagsKept(slept)'
    BY <1>1, <1>2, <2>3, <2>4, LocalStep, Zenon DEF CpuTypeOK
  <2>6. h # NULL
    BY <2>1, SchedAssumption
  <2>7. Queue'
    <3>1. \A u \in Threads : InQ(u, wq) => owner # u
      BY <1>3, <1>5
    <3> QED
      BY <1>2, <1>4, <2>2, <2>4, <3>1 DEF IInv, LockInv, Queue, InQ, Distinct
  <2>8. MutexInv' /\ SemInv'
    BY <1>2, <1>4, <1>5, <1>7, <2>1, <2>2, <2>6 DEF IInv, LockInv, MutexInv, SemInv, InQ
  <2>9. Awake' /\ Alarms'
    BY <1>2, <1>3, <1>4, <2>1, <2>4, WakeStep, Zenon
  <2>10. SleeperHasWaker'
    <3>1. \A u \in Threads : status'[u] = "BLOCKED" =>
            u \in alarms \/ (InQ(u, wq) /\ h # u)
      BY <2>4 DEF IInv, SleeperHasWaker
    <3> QED
      BY <1>2, <2>2, <3>1 DEF SleeperHasWaker, InQ
  <2> QED
    BY <2>3, <2>5, <2>7, <2>8, <2>9, <2>10 DEF IInv, LockInv
<1> QED
  BY <1>6, <1>7

\* What is left of a queue without repetitions when its first entry goes.
LEMMA TailInQ ==
  ASSUME NEW q \in Seq(Threads), Distinct(q), q # <<>>
  PROVE  /\ Tail(q) \in Seq(Threads) /\ Distinct(Tail(q))
         /\ \A u \in Threads : InQ(u, Tail(q)) <=> InQ(u, q) /\ u # q[1]
<1>1. /\ Tail(q) \in Seq(Threads) /\ Len(Tail(q)) = Len(q) - 1 /\ Len(q) \in Nat \ {0}
      /\ \A i \in 1 .. Len(Tail(q)) : Tail(q)[i] = q[i + 1]
  BY HeadTailProperties, EmptySeq
<1>2. Distinct(Tail(q))
  <2>1. ASSUME NEW i \in 1 .. Len(Tail(q)), NEW j \in 1 .. Len(Tail(q)),
               Tail(q)[i] = Tail(q)[j]
        PROVE  i = j
    <3>1. i + 1 \in 1 .. Len(q) /\ j + 1 \in 1 .. Len(q) /\ q[i + 1] = q[j + 1]
      BY <1>1, <2>1
    <3>2. i + 1 = j + 1
      BY <3>1 DEF Distinct
    <3> QED
      BY <3>2
  <2> QED
    BY <2>1 DEF Distinct
<1>3. ASSUME NEW u \in Threads, InQ(u, Tail(q)) PROVE InQ(u, q) /\ u # q[1]
  <2>1. PICK i \in 1 .. Len(Tail(q)) : Tail(q)[i] = u
    BY <1>3 DEF InQ
  <2>2. i + 1 \in 1 .. Len(q) /\ 1 \in 1 .. Len(q) /\ q[i + 1] = u /\ i + 1 # 1
    BY <1>1, <2>1
  <2> QED
    BY <2>2 DEF InQ, Distinct
<1>4. ASSUME NEW u \in Threads, InQ(u, q), u # q[1] PROVE InQ(u, Tail(q))
  <2>1. PICK i \in 1 .. Len(q) : q[i] = u
    BY <1>4 DEF InQ
  <2>2. i # 1
    BY <1>4, <2>1
  <2>3. i - 1 \in 1 .. Len(Tail(q)) /\ Tail(q)[i - 1] = u
    BY <1>1, <2>1, <2>2
  <2> QED
    BY <2>3 DEF InQ
<1> QED
  BY <1>1, <1>2, <1>3, <1>4

\* up passes the unit on and wakes the first waiter.
LEMMA SemUpIInv ==
  ASSUME IInv, NEW c \in CPUs, NEW t \in Threads, sem_up(c, t), mode' = mode
  PROVE  IInv'
<1> DEFINE h == Head(wq)
<1>1. TypeOK /\ CpuTypeOK
  BY DEF IInv, LockInv, CpuInv
<1>2. /\ Runs(c, t) /\ pc[t] = "unlock" /\ mode = "sem" /\ pc' = [pc EXCEPT ![t] = "rest"]
      /\ saved_flags' = [saved_flags EXCEPT ![c] = irq_on[c]]
      /\ preempt_on' = [preempt_on EXCEPT ![c] = TRUE]
      /\ UNCHANGED <<irq_on, ctx, alarms, runq, rthread, exec, owner, slept>>
  BY DEF sem_up, At, Goto, irqsave_section, local_irq_save, preempt_enable, Set
<1>3. t # NULL /\ status[t] = "RUNNING" /\ t \in Inside /\ ~ Waits(t) /\ ~ InQ(t, wq)
      /\ t \notin alarms
  BY <1>2, WorkerFacts DEF Waits, Inside
<1>4. /\ \A u \in Threads : pc'[u] = IF u = t THEN "rest" ELSE pc[u]
      /\ \A u \in Threads : Waits(u)' <=> Waits(u)
      /\ \A u \in Threads : u \in Inside' <=> u \in Inside /\ u # t
  BY <1>1, <1>2 DEF TypeOK, Waits, Inside
<1>5. owner = NULL /\ owner' = NULL /\ count + Cardinality(Holders) = Units
  BY <1>2 DEF IInv, LockInv, SemInv
<1>6. MutexInv'
  BY <1>2 DEF MutexInv
<1>7. t \in Holders /\ IsFiniteSet(Holders \ {t}) /\ count \in Nat
      /\ Cardinality(Holders) \in Nat /\ Cardinality(Holders \ {t}) = Cardinality(Holders) - 1
  <2>1. t \in Holders
    BY <1>3 DEF Holders
  <2> QED
    BY <1>1, <2>1, HoldersFinite, FS_RemoveElement DEF TypeOK
<1>8. CASE wq = <<>>
  <2>1. count' = count + 1 /\ status' = status /\ wq' = wq
    BY <1>8 DEF sem_up
  <2>2. TypeOK' /\ CpuTypeOK'
    BY <1>1, <1>2, <2>1 DEF TypeOK, CpuTypeOK, Locations
  <2>3. CpuInv({})' /\ FlagsKept(slept)'
    BY <1>1, <1>2, <2>1, <2>2, LocalStep, Zenon DEF CpuTypeOK
  <2>4. Queue'
    BY <1>2, <1>4, <2>1, Zenon DEF IInv, LockInv, Queue, InQ, Distinct
  <2>5. Holders' = Holders \ {t}
    <3>1. \A u \in Threads : u \in Inside' \/ (Waits(u)' /\ ~ InQ(u, wq'))
                             <=> (u \in Inside \/ (Waits(u) /\ ~ InQ(u, wq))) /\ u # t
      BY <1>3, <1>4, <2>1
    <3> QED
      BY <3>1 DEF Holders, InQ
  <2>6. SemInv'
    BY <1>2, <1>5, <1>7, <2>1, <2>5 DEF SemInv
  <2>7. Awake' /\ Alarms'
    BY <1>2, <1>3, <1>4, <2>1, WakeStep
  <2>8. SleeperHasWaker'
    BY <1>2, <2>1, Zenon DEF IInv, SleeperHasWaker, InQ
  <2> QED
    BY <1>6, <2>2, <2>3, <2>4, <2>6, <2>7, <2>8 DEF IInv, LockInv
<1>9. CASE wq # <<>>
  <2>1. /\ h \in Threads /\ h = wq[1] /\ InQ(h, wq) /\ Waits(h) /\ h # t
        /\ status[h] = "BLOCKED" /\ h \notin alarms
    BY <1>3, <1>9, FirstWaiter
  <2>2. wq' = Tail(wq) /\ count' = count /\ status' = [status EXCEPT ![h] = "READY"]
    BY <1>9, <2>1 DEF sem_up, wake_up, Set
  <2>3. /\ wq' \in Seq(Threads) /\ Distinct(wq')
        /\ \A u \in Threads : InQ(u, wq') <=> InQ(u, wq) /\ u # h
    BY <1>1, <1>9, <2>1, <2>2, TailInQ DEF IInv, LockInv, Queue, TypeOK
  <2> HIDE DEF h
  <2>4. TypeOK' /\ CpuTypeOK'
    BY <1>1, <1>2, <2>1, <2>2, <2>3, Zenon DEF TypeOK, CpuTypeOK, Locations, Statuses
  <2>5. \A u \in Threads : status'[u] = IF u = h THEN "READY" ELSE status[u]
    BY <1>1, <2>1, <2>2 DEF CpuTypeOK
  <2>6. CpuInv({})' /\ FlagsKept(slept)'
    BY <1>1, <1>2, <2>4, <2>5, <2>1, LocalStep, Zenon DEF CpuTypeOK
  <2>7. Queue'
    <3>1. /\ \A u \in Threads : InQ(u, wq') => Waits(u)'
          /\ \A u \in Threads : InQ(u, wq') /\ owner' # u => status'[u] = "BLOCKED"
          /\ \A u \in Threads : Waits(u)' => u \in slept'
      BY <1>2, <1>4, <2>3, <2>5, Zenon DEF IInv, LockInv, Queue
    <3> QED
      BY <2>3, <3>1, Zenon DEF Queue, InQ, Distinct
  <2>8. Holders' = (Holders \ {t}) \cup {h}
    <3>1. \A u \in Threads : u \in Inside' \/ (Waits(u)' /\ ~ InQ(u, wq'))
            <=> ((u \in Inside \/ (Waits(u) /\ ~ InQ(u, wq))) /\ u # t) \/ u = h
      BY <1>3, <1>4, <2>1, <2>3, Zenon
    <3>2. Holders' \subseteq (Holders \ {t}) \cup {h}
      BY <3>1 DEF Holders, InQ
    <3>3. (Holders \ {t}) \cup {h} \subseteq Holders'
      BY <2>1, <3>1 DEF Holders, InQ
    <3> QED
      BY <3>2, <3>3
  <2>9. h \notin Holders \ {t}
    BY <2>1 DEF Holders, Waits, Inside
  <2>10. Cardinality(Holders') = Cardinality(Holders)
    BY <1>7, <2>8, <2>9, FS_AddElement
  <2>11. SemInv'
    BY <1>2, <1>5, <2>2, <2>10 DEF SemInv
  <2>12. Awake' /\ Alarms'
    BY <1>2, <1>3, <1>4, <2>1, <2>5, WakeStep
  <2>13. SleeperHasWaker'
    <3>1. \A u \in Threads : status'[u] = "BLOCKED" =>
            u \in alarms' \/ (InQ(u, wq') /\ owner' # u)
      BY <1>2, <2>3, <2>5, Zenon DEF IInv, SleeperHasWaker
    <3> QED
      BY <3>1 DEF SleeperHasWaker, InQ
  <2> QED
    BY <1>6, <2>4, <2>6, <2>7, <2>11, <2>12, <2>13 DEF IInv, LockInv
<1> QED
  BY <1>8, <1>9

\* pause sets an alarm before it sleeps.
LEMMA PauseIInv ==
  ASSUME IInv, NEW c \in CPUs, NEW t \in Threads, pause(c, t), mode' = mode
  PROVE  IInv'
<1>1. TypeOK /\ CpuTypeOK
  BY DEF IInv, LockInv, CpuInv
<1>2. PICK loc \in {"cs_sched", "rest_sched"} :
        /\ pc' = [pc EXCEPT ![t] = loc]
        /\ (pc[t] = "cs" /\ loc = "cs_sched") \/ (pc[t] = "rest" /\ loc = "rest_sched")
  BY DEF pause, At, Goto, Set
<1>3. /\ Runs(c, t) /\ alarms' = alarms \cup {t} /\ status' = [status EXCEPT ![t] = "BLOCKED"]
      /\ UNCHANGED <<ctx, runq, rthread, preempt_on, saved_flags, irq_on, exec, owner, count,
                     wq, slept>>
  BY DEF pause, At, Set, lockvars
<1>4. ~ Waits(t) /\ ~ InQ(t, wq) /\ status[t] = "RUNNING"
  BY <1>2, <1>3, WorkerFacts DEF Waits
<1>5. CpuTypeOK'
  BY <1>1, <1>3 DEF CpuTypeOK, Statuses
<1>6. \A u \in Threads : status'[u] = IF u = t THEN "BLOCKED" ELSE status[u]
  BY <1>1, <1>3 DEF CpuTypeOK
<1>7. CpuInv({})' /\ FlagsKept(slept)'
  BY <1>3, <1>5, <1>6, LocalStep, Zenon
<1>8. TypeOK'
  BY <1>1, <1>2, <1>3 DEF TypeOK, Locations
<1>9. /\ \A u \in Threads : pc'[u] = IF u = t THEN loc ELSE pc[u]
      /\ \A u \in Threads : Waits(u)' <=> Waits(u)
      /\ \A u \in Threads : u \in Inside' <=> u \in Inside
  BY <1>1, <1>2 DEF TypeOK, Waits, Inside
<1>10. Queue'
  BY <1>3, <1>6, <1>9, Zenon DEF IInv, LockInv, Queue, InQ, Distinct
<1>11. MutexInv'
  BY <1>3, <1>9, Zenon DEF IInv, LockInv, MutexInv, InQ
<1>12. SemInv'
  <2>1. Holders' = Holders
    BY <1>3, <1>9 DEF Holders, InQ
  <2> QED
    BY <1>3, <2>1 DEF IInv, LockInv, SemInv
<1>13. Awake'
  BY <1>3, <1>6, <1>9 DEF IInv, Awake, Runs
<1>14. Alarms'
  <2> SUFFICES ASSUME NEW u \in alarms'
               PROVE  status'[u] = "BLOCKED" /\ pc'[u] \in {"cs_sched", "rest_sched", "unlock", "lock"}
    BY DEF Alarms
  <2>1. u \in Threads /\ (u \in alarms \/ u = t)
    BY <1>1, <1>3 DEF CpuTypeOK
  <2> QED
    BY <1>6, <1>9, <2>1 DEF IInv, Alarms
<1>15. SleeperHasWaker'
  BY <1>3, <1>6 DEF IInv, SleeperHasWaker, InQ
<1> QED
  BY <1>7, <1>8, <1>10, <1>11, <1>12, <1>13, <1>14, <1>15 DEF IInv, LockInv

\* schedule() called after make_sleep, whether or not the wake-up has come in
\* between.
LEMMA ScheduleIInv ==
  ASSUME IInv, NEW c \in CPUs, NEW t \in Threads,
         lock_schedule(c, t) \/ pause_schedule(c, t), mode' = mode
  PROVE  IInv'
<1>1. TypeOK /\ CpuTypeOK
  BY DEF IInv, LockInv, CpuInv
<1>2. PICK loc \in {"relock", "unlock", "lock"} :
        /\ pc' = [pc EXCEPT ![t] = loc]
        /\ \/ pc[t] = "wait" /\ loc = "relock"
           \/ pc[t] = "cs_sched" /\ loc = "unlock"
           \/ pc[t] = "rest_sched" /\ loc = "lock"
  BY DEF lock_schedule, pause_schedule, At, Goto, Set
<1>3. /\ Runs(c, t) /\ enter_schedule(c, FALSE, status) /\ alarms' = alarms
      /\ UNCHANGED <<owner, count, wq, slept>>
  BY Zenon DEF lock_schedule, pause_schedule, call_schedule, At, lockvars
<1>4. Woken(status) /\ alarms' \in SUBSET Threads /\ exec[c].mode \in {"boot", "run"}
  BY <1>1, <1>3 DEF Woken, CpuTypeOK, Runs
<1>5. CpuInv({})
  BY DEF IInv
<1>6. CpuInv({})'
  BY <1>3, <1>4, <1>5, EnterCpuInv, Zenon
<1>7. \A u \in Threads :
        status'[u] = IF u = rthread[c] /\ status[u] = "RUNNING" THEN "READY" ELSE status[u]
  BY <1>3, <1>4, <1>5, EnterStatus, Zenon
<1>8. FlagsKept(slept)'
  <2>1. PICK S : S = slept
    OBVIOUS
  <2>2. FlagsKept(S)'
    BY <1>3, <1>4, <1>5, <2>1, EnterFlags, Zenon DEF IInv
  <2> QED
    BY <1>3, <2>1, <2>2
<1>9. TypeOK'
  BY <1>1, <1>2, <1>3 DEF TypeOK, Locations
<1>10. /\ \A u \in Threads : pc'[u] = IF u = t THEN loc ELSE pc[u]
       /\ \A u \in Threads : Waits(u)' <=> Waits(u)
       /\ \A u \in Threads : u \in Inside' <=> u \in Inside
       /\ \A u \in Threads : status'[u] = "BLOCKED" <=> status[u] = "BLOCKED"
  BY <1>1, <1>2, <1>7 DEF TypeOK, Waits, Inside
<1>11. Queue'
  BY <1>3, <1>10, Zenon DEF IInv, LockInv, Queue, InQ, Distinct
<1>12. MutexInv'
  BY <1>3, <1>10 DEF IInv, LockInv, MutexInv, InQ
<1>13. SemInv'
  <2>1. Holders' = Holders
    BY <1>3, <1>10, Zenon DEF Holders, InQ
  <2> QED
    BY <1>3, <2>1 DEF IInv, LockInv, SemInv
<1>14. Awake'
  <2> SUFFICES ASSUME NEW d \in CPUs, NEW u \in Threads, Runs(d, u)'
               PROVE  status'[u] = "RUNNING" \/ pc'[u] \in {"wait", "cs_sched", "rest_sched"}
    BY DEF Awake
  <2>1. exec'[c].mode = "scan" /\ \A e \in CPUs \ {c} : exec'[e] = exec[e]
    BY <1>3, <1>4, <1>5, EnterExec, Zenon
  <2>2. d # c /\ Runs(d, u)
    BY <2>1 DEF Runs
  <2>3. u # t
    <3>1. \A e \in CPUs : Runs(e, t) => e = c
      BY <1>3, WorkerFacts, Zenon
    <3> QED
      BY <2>2, <3>1
  <2>4. u # rthread[c]
    BY <1>3, <2>3, SchedAssumption, Zenon DEF IInv, CpuInv, Current, Runs
  <2> QED
    BY <1>7, <1>10, <2>2, <2>3, <2>4, Zenon DEF IInv, Awake
<1>15. Alarms'
  <2>1. alarms \subseteq Threads
    BY <1>1 DEF CpuTypeOK
  <2> QED
    BY <1>2, <1>3, <1>10, <2>1 DEF IInv, Alarms
<1>16. SleeperHasWaker'
  BY <1>3, <1>10, Zenon DEF IInv, SleeperHasWaker, InQ
<1> QED
  BY <1>6, <1>8, <1>9, <1>11, <1>12, <1>13, <1>14, <1>15, <1>16 DEF IInv, LockInv

\* mutex_lock and down, whether the caller gets in or sleeps.
LEMMA LockIInv ==
  ASSUME IInv, NEW c \in CPUs, NEW t \in Threads,
         mutex_lock(c, t) \/ sem_down(c, t), mode' = mode
  PROVE  IInv'
<1>1. CASE pc' = [pc EXCEPT ![t] = "cs"]
  BY <1>1, FastIInv, Zenon
<1>2. CASE pc' # [pc EXCEPT ![t] = "cs"]
  <2>1. /\ sleep_on(c, t) /\ At(c, t, "lock") /\ (mode = "mutex" => owner # NULL)
        /\ UNCHANGED <<ctx, alarms, runq, rthread, exec, owner, count>>
    BY <1>2 DEF mutex_lock, sem_down, Goto, Set
  <2> QED
    BY <2>1, SleepIInv
<1> QED
  BY <1>1, <1>2

\* A step of nobody changes nothing.
LEMMA StutterIInv ==
  ASSUME IInv, UNCHANGED vars
  PROVE  IInv'
<1>1. CpuTypeOK' /\ TypeOK'
  BY DEF IInv, CpuInv, CpuTypeOK, LockInv, TypeOK, vars, cpuvars
<1>2. CpuInv({})'
  BY <1>1, QuietCpuInv, Zenon DEF IInv, vars, cpuvars
<1>3. Queue' /\ MutexInv'
  <2>1. UNCHANGED <<mode, pc, status, owner, wq, slept>>
    BY DEF vars, cpuvars
  <2>2. Queue'
    BY <2>1 DEF IInv, LockInv, Queue, Waits, InQ, Distinct
  <2>3. MutexInv'
    BY <2>1 DEF IInv, LockInv, MutexInv, Waits, Inside, InQ
  <2> QED
    BY <2>2, <2>3
<1>4. SemInv'
  <2>1. Holders' = Holders
    BY DEF Holders, Waits, Inside, InQ, vars
  <2> QED
    BY <2>1 DEF IInv, LockInv, SemInv, vars
<1>5. Awake' /\ Alarms' /\ SleeperHasWaker' /\ FlagsKept(slept)'
  BY DEF IInv, Awake, Alarms, SleeperHasWaker, FlagsKept, Runs, InQ, vars, cpuvars
<1> QED
  BY <1>1, <1>2, <1>3, <1>4, <1>5 DEF IInv, LockInv

\* The inductive invariant holds in every state of SchedLocks.
THEOREM LockInvariant == Spec => []IInv
<1>1. IInv /\ [Next]_vars => IInv'
  <2> SUFFICES ASSUME IInv, [Next]_vars PROVE IInv'
    OBVIOUS
  <2>1. ASSUME NEW c \in CPUs, Cpu(c), mode' = mode
        PROVE  IInv'
    BY <2>1, CpuIInv
  <2>2. ASSUME NEW c \in CPUs, NEW t \in Threads, Worker(c, t), mode' = mode
        PROVE  IInv'
    BY <2>2, LockIInv, ScheduleIInv, WokenIInv, MutexUnlockIInv, SemUpIInv, PauseIInv
       DEF Worker
  <2> QED
    BY <2>1, <2>2, StutterIInv DEF Next
<1> QED
  BY <1>1, InitIInv, PTL DEF Spec

\* With timer interrupts, sleeping and several processors, the section of
\* init.c holds one worker under the mutex and no more than the initial count
\* under the semaphore.
THEOREM SectionExclusive == Spec => []Exclusion
<1>1. IInv => Exclusion
  <2> SUFFICES ASSUME IInv PROVE Exclusion
    OBVIOUS
  <2>1. Inside \subseteq Threads
    BY DEF Inside
  <2>2. CASE mode = "mutex"
    <3>1. Inside \subseteq {owner}
      BY <2>1, <2>2 DEF IInv, LockInv, MutexInv
    <3>2. IsFiniteSet({owner}) /\ Cardinality({owner}) = 1
      BY FS_Singleton
    <3>3. Cardinality(Inside) <= 1
      BY <3>1, <3>2, FS_Subset
    <3> QED
      BY <2>2, <3>3 DEF Exclusion
  <2>3. CASE mode = "sem"
    <3>1. Inside \subseteq Holders
      BY <2>1 DEF Holders
    <3>2. Cardinality(Inside) <= Cardinality(Holders)
      BY <3>1, HoldersFinite, FS_Subset
    <3>3. IsFiniteSet(Inside)
      BY <3>1, HoldersFinite, FS_Subset
    <3>4. Cardinality(Inside) \in Nat
      BY <3>3, FS_CardinalityType
    <3>5. count \in Nat /\ count + Cardinality(Holders) = Units
      BY <2>3 DEF IInv, LockInv, SemInv, TypeOK
    <3>6. Cardinality(Inside) <= Units
      BY <3>2, <3>4, <3>5, HoldersFinite, UnitsAssumption
    <3> QED
      BY <2>3, <3>6 DEF Exclusion
  <2> QED
    BY <2>2, <2>3 DEF IInv, LockInv, TypeOK
<1> QED
  BY <1>1, LockInvariant, PTL

\* A worker that is BLOCKED, even by a tick between make_sleep and schedule(),
\* has an alarm set or is still to be woken by an unlock.
THEOREM NoLostWakeUp == Spec => []SleeperHasWaker
<1>1. IInv => SleeperHasWaker
  BY DEF IInv
<1> QED
  BY <1>1, LockInvariant, PTL

\* Ticks, pauses and the fast paths of the locks give every worker its
\* interrupts back; only the slow path can lose them.
THEOREM FlagsLostOnlyBySleeping == Spec => []InterruptsLostOnlyBySleeping
<1>1. IInv => InterruptsLostOnlyBySleeping
  BY DEF IInv, FlagsKept, InterruptsLostOnlyBySleeping
<1> QED
  BY <1>1, LockInvariant, PTL

\* The processors stay sound under the locks: no stack is used twice.
THEOREM LockStacksApart == Spec => []NoSharedStack
<1>1. IInv => NoSharedStack
  BY DEF IInv, CpuInv
<1> QED
  BY <1>1, LockInvariant, PTL
=============================================================================
