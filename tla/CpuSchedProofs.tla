--------------------------- MODULE CpuSchedProofs ---------------------------
(***************************************************************************)
(* What the processor side of the scheduler preserves, for every set of    *)
(* processors and threads: the lemmas that the proofs about Sched and      *)
(* about SchedLocks share.                                                 *)
(***************************************************************************)
EXTENDS CpuSched, SequenceTheorems, TLAPS

CpuTypeOK ==
  /\ status \in [Threads -> Statuses]
  /\ ctx \in [Threads -> BOOLEAN]
  /\ alarms \in SUBSET Threads
  /\ runq \in [CPUs -> Seq(Threads)]
  /\ rthread \in [CPUs -> Threads \cup {NULL}]
  /\ preempt_on \in [CPUs -> BOOLEAN]
  /\ saved_flags \in [CPUs -> BOOLEAN]
  /\ irq_on \in [CPUs -> BOOLEAN]
  /\ exec \in [CPUs -> Execs]

Distinct(q) == \A i, j \in 1 .. Len(q) : q[i] = q[j] => i = j

\* A thread is on one queue at most, and there once.
OneQueue ==
  /\ \A c \in CPUs : Distinct(runq[c])
  /\ \A c, d \in CPUs, t \in Threads :
       InQ(t, runq[c]) /\ InQ(t, runq[d]) => c = d

\* A processor works for a thread of its own queue, or for one of the set F of
\* threads that have left their queue.
Homes(F) ==
  /\ \A c \in CPUs, t \in Threads : exec[c].th = t => t \in F \/ InQ(t, runq[c])
  /\ \A c \in CPUs, t \in F : ~ InQ(t, runq[c])

\* What a processor does agrees with its current thread and its queue.
Current(F) ==
  \A c \in CPUs :
    /\ exec[c].mode = "boot" => rthread[c] = NULL /\ exec[c].th = NULL
    /\ exec[c].mode = "run" =>
         /\ exec[c].th \in Threads
         /\ \/ rthread[c] = exec[c].th
            \/ /\ rthread[c] = NULL /\ exec[c].th \in F
               /\ status[exec[c].th] # "RUNNING"
    /\ exec[c].mode = "scan" =>
         /\ exec[c].at = NULL <=> rthread[c] = NULL
         /\ exec[c].at \in Threads => InQ(exec[c].at, runq[c])
         /\ exec[c].at = HEAD => exec[c].th \in F
    /\ exec[c].mode = "wild" => exec[c].th \in F

\* No processor works for a thread that is still being created.
Born ==
  \A c \in CPUs, t \in Threads :
    exec[c].th = t => status[t] \notin {"NONE", "INIT"}

\* The invariant of the processors.
CpuInv(F) ==
  /\ CpuTypeOK /\ OneQueue /\ Homes(F) /\ Current(F) /\ Born
  /\ RunningIsCurrent /\ NoNestedSchedule /\ NoSharedStack
-----------------------------------------------------------------------------
\* Who is on which run queue depends on the queues only.
LEMMA QueuesKept ==
  ASSUME OneQueue, runq' = runq
  PROVE  OneQueue'
BY DEF OneQueue, InQ, Distinct

\* The first entry of a queue is on it.
LEMMA FirstInQ ==
  ASSUME NEW q \in Seq(Threads), q # <<>>
  PROVE  q[1] \in Threads /\ InQ(q[1], q)
<1>1. 1 \in 1 .. Len(q)
  BY EmptySeq
<1> QED
  BY <1>1, ElementOfSeq DEF InQ

\* The round robin stays on the queue.
LEMMA NextEntryInQ ==
  ASSUME NEW q \in Seq(Threads), q # <<>>, NEW x, x = HEAD \/ InQ(x, q)
  PROVE  next_entry(q, x) \in Threads /\ InQ(next_entry(q, x), q)
<1>1. CASE x = HEAD \/ x = q[Len(q)]
  BY <1>1, FirstInQ DEF next_entry
<1>2. CASE ~ (x = HEAD \/ x = q[Len(q)])
  <2> DEFINE i == CHOOSE k \in 1 .. Len(q) : q[k] = x
  <2>1. i \in 1 .. Len(q) /\ q[i] = x
    BY <1>2 DEF InQ
  <2>2. Len(q) \in Nat /\ i # Len(q)
    BY <1>2, <2>1, LenProperties
  <2>3. 1 + i \in 1 .. Len(q)
    BY <2>1, <2>2
  <2>4. next_entry(q, x) = q[1 + i]
    BY <1>2 DEF next_entry
  <2> HIDE DEF i
  <2> QED
    BY <2>3, <2>4, ElementOfSeq DEF InQ
<1> QED
  BY <1>1, <1>2

\* list_add_tail
LEMMA AppendInQ ==
  ASSUME NEW q \in Seq(Threads), NEW t \in Threads
  PROVE  /\ Append(q, t) \in Seq(Threads)
         /\ \A u : InQ(u, Append(q, t)) <=> InQ(u, q) \/ u = t
         /\ Distinct(q) /\ ~ InQ(t, q) => Distinct(Append(q, t))
<1> DEFINE p == Append(q, t)
<1>1. /\ p \in Seq(Threads)
      /\ Len(q) \in Nat /\ Len(p) = Len(q) + 1
      /\ \A i \in 1 .. Len(q) : p[i] = q[i]
      /\ p[Len(q) + 1] = t
  BY AppendProperties, LenProperties
<1> HIDE DEF p
<1>2. \A u : InQ(u, p) <=> InQ(u, q) \/ u = t
  BY <1>1 DEF InQ
<1>3. Distinct(q) /\ ~ InQ(t, q) => Distinct(p)
  BY <1>1 DEF Distinct, InQ
<1> QED
  BY <1>1, <1>2, <1>3 DEF p

\* list_del
LEMMA WithoutInQ ==
  ASSUME NEW q \in Seq(Threads), NEW t \in Threads, InQ(t, q), Distinct(q)
  PROVE  /\ Without(q, t) \in Seq(Threads)
         /\ \A u : InQ(u, Without(q, t)) <=> InQ(u, q) /\ u # t
         /\ Distinct(Without(q, t))
<1> DEFINE i == CHOOSE k \in 1 .. Len(q) : q[k] = t
           n == Len(q) - 1
           p == [k \in 1 .. n |-> IF k < i THEN q[k] ELSE q[k + 1]]
<1>1. Without(q, t) = p
  BY DEF Without
<1>2. i \in 1 .. Len(q) /\ q[i] = t
  BY DEF InQ
<1>3. Len(q) \in Nat /\ n \in Nat
  BY <1>2, LenProperties
<1>4. \A k \in 1 .. n : q[k] \in Threads /\ q[k + 1] \in Threads
  BY <1>3, ElementOfSeq
<1> HIDE DEF i
<1>5. p \in [1 .. n -> Threads]
  BY <1>2, <1>3, <1>4
<1>6. p \in Seq(Threads) /\ Len(p) = n
  BY <1>3, <1>5
<1>7. \A k \in 1 .. n : p[k] = IF k < i THEN q[k] ELSE q[k + 1]
  OBVIOUS
<1> HIDE DEF p
<1>8. ASSUME NEW u PROVE InQ(u, p) <=> InQ(u, q) /\ u # t
  <2>1. ASSUME InQ(u, p) PROVE InQ(u, q) /\ u # t
    <3>1. PICK k \in 1 .. n : p[k] = u
      BY <1>6, <2>1 DEF InQ
    <3>2. PICK l \in 1 .. Len(q) : q[l] = u /\ l # i
      BY <1>2, <1>3, <1>7, <3>1
    <3> QED
      BY <1>2, <3>2 DEF InQ, Distinct
  <2>2. ASSUME InQ(u, q), u # t PROVE InQ(u, p)
    <3>1. PICK k \in 1 .. Len(q) : q[k] = u
      BY <2>2 DEF InQ
    <3>2. k # i
      BY <1>2, <2>2, <3>1
    <3>3. PICK l \in 1 .. n : p[l] = u
      <4>1. CASE k < i
        BY <1>2, <1>3, <1>7, <3>1, <4>1
      <4>2. CASE k > i
        <5>1. k - 1 \in 1 .. n /\ ~ (k - 1 < i) /\ (k - 1) + 1 = k
          BY <1>2, <1>3, <3>1, <4>2
        <5> QED
          BY <1>7, <3>1, <5>1
      <4> QED
        BY <1>2, <3>1, <3>2, <4>1, <4>2
    <3> QED
      BY <1>6, <3>3 DEF InQ
  <2> QED
    BY <2>1, <2>2
<1>9. Distinct(p)
  <2> SUFFICES ASSUME NEW k \in 1 .. n, NEW l \in 1 .. n, p[k] = p[l]
               PROVE  k = l
    BY <1>6 DEF Distinct
  <2> DEFINE K == IF k < i THEN k ELSE k + 1
             L == IF l < i THEN l ELSE l + 1
  <2>1. K \in 1 .. Len(q) /\ L \in 1 .. Len(q) /\ q[K] = q[L]
    BY <1>2, <1>3, <1>7
  <2>2. K = L
    BY <2>1 DEF Distinct
  <2> QED
    BY <1>2, <1>3, <2>2
<1> QED
  BY <1>1, <1>6, <1>8, <1>9
-----------------------------------------------------------------------------
\* A step that leaves alone what the processors execute and the queues.
LEMMA QuietCpuInv ==
  ASSUME NEW F, CpuInv(F), CpuTypeOK', UNCHANGED <<exec, rthread, runq>>,
         \A d \in CPUs : exec[d].mode = "scan" => preempt_on'[d] = preempt_on[d],
         \A t \in Threads : status'[t] = "RUNNING" => status[t] = "RUNNING",
         \A t \in Threads :
           status'[t] \in {"NONE", "INIT"} => status[t] \in {"NONE", "INIT"}
  PROVE  CpuInv(F)'
<1>1. OneQueue'
  BY QueuesKept DEF CpuInv
<1>2. Homes(F)'
  BY DEF CpuInv, Homes, InQ
<1>3. Current(F)'
  BY DEF CpuInv, Current, InQ
<1>4. Born'
  BY DEF CpuInv, Born
<1>5. RunningIsCurrent'
  BY DEF CpuInv, RunningIsCurrent, Runs
<1>6. NoNestedSchedule'
  BY DEF CpuInv, NoNestedSchedule
<1>7. NoSharedStack'
  BY DEF CpuInv, NoSharedStack
<1> QED
  BY <1>1, <1>2, <1>3, <1>4, <1>5, <1>6, <1>7 DEF CpuInv

\* The statuses that schedule() starts from: sleepers may just have been woken.
Woken(st) ==
  /\ st \in [Threads -> Statuses]
  /\ \A t \in Threads : st[t] = status[t] \/ (status[t] = "BLOCKED" /\ st[t] = "READY")

\* What schedule() does before its loop, pointwise.
LEMMA EnterFacts ==
  ASSUME NEW F, CpuInv(F), NEW c \in CPUs, NEW irq \in BOOLEAN, NEW st, Woken(st),
         enter_schedule(c, irq, st), exec[c].mode \in {"boot", "run"},
         alarms' \in SUBSET Threads
  PROVE  /\ CpuTypeOK'
         /\ UNCHANGED <<ctx, runq, rthread>>
         /\ exec'[c].mode = "scan" /\ exec'[c].th = rthread[c] /\ exec'[c].irq = irq
         /\ exec'[c].at = IF rthread[c] = NULL THEN NULL
                          ELSE find_thread_in_rq(rthread[c], runq[c])
         /\ \A d \in CPUs \ {c} : exec'[d] = exec[d] /\ preempt_on'[d] = preempt_on[d]
                                  /\ saved_flags'[d] = saved_flags[d] /\ irq_on'[d] = irq_on[d]
         /\ ~ preempt_on'[c] /\ irq_on'[c]
         /\ saved_flags'[c] = (~ irq /\ irq_on[c])
         /\ \A t \in Threads :
              status'[t] = IF t = rthread[c] /\ st[t] = "RUNNING" THEN "READY" ELSE st[t]
<1> DEFINE r == rthread[c]
           e == [mode |-> "scan", th |-> r, irq |-> irq,
                 at |-> IF r = NULL THEN NULL ELSE find_thread_in_rq(r, runq[c])]
<1>1. r \in Threads \cup {NULL} /\ NULL \notin Threads
  BY SchedAssumption DEF CpuInv, CpuTypeOK
<1>2. e \in Execs
  BY <1>1 DEF Execs, find_thread_in_rq
<1>3. exec' = [exec EXCEPT ![c] = e]
  BY DEF enter_schedule, Set
<1> HIDE DEF e
<1>4. exec' \in [CPUs -> Execs] /\ exec'[c] = e /\ \A d \in CPUs \ {c} : exec'[d] = exec[d]
  BY <1>2, <1>3 DEF CpuInv, CpuTypeOK
<1>5. /\ preempt_on' = [preempt_on EXCEPT ![c] = FALSE]
      /\ saved_flags' = [saved_flags EXCEPT ![c] = ~ irq /\ irq_on[c]]
      /\ irq_on' = [irq_on EXCEPT ![c] = TRUE]
      /\ UNCHANGED <<ctx, runq, rthread>>
  BY DEF enter_schedule, preempt_disable, local_irq_save, Set
<1>6. /\ preempt_on' \in [CPUs -> BOOLEAN] /\ saved_flags' \in [CPUs -> BOOLEAN]
      /\ irq_on' \in [CPUs -> BOOLEAN]
      /\ \A d \in CPUs \ {c} : preempt_on'[d] = preempt_on[d]
                               /\ saved_flags'[d] = saved_flags[d] /\ irq_on'[d] = irq_on[d]
      /\ ~ preempt_on'[c] /\ irq_on'[c] /\ saved_flags'[c] = (~ irq /\ irq_on[c])
  BY <1>5 DEF CpuInv, CpuTypeOK
<1>7. status' = IF r # NULL /\ st[r] = "RUNNING" THEN [st EXCEPT ![r] = "READY"] ELSE st
  BY DEF enter_schedule, Set
<1>8. /\ status' \in [Threads -> Statuses]
      /\ \A t \in Threads :
           status'[t] = IF t = r /\ st[t] = "RUNNING" THEN "READY" ELSE st[t]
  BY <1>1, <1>7 DEF Woken, Statuses
<1>9. CpuTypeOK'
  BY <1>4, <1>5, <1>6, <1>8 DEF CpuInv, CpuTypeOK
<1> QED
  BY <1>4, <1>5, <1>6, <1>8, <1>9 DEF e

\* schedule() up to its scan: no run queue changes, and the running thread is
\* READY again.
LEMMA EnterStatus ==
  ASSUME NEW F, CpuInv(F), NEW c \in CPUs, NEW irq \in BOOLEAN, NEW st, Woken(st),
         enter_schedule(c, irq, st), exec[c].mode \in {"boot", "run"},
         alarms' \in SUBSET Threads
  PROVE  /\ runq' = runq
         /\ \A t \in Threads :
              status'[t] = IF t = rthread[c] /\ st[t] = "RUNNING" THEN "READY" ELSE st[t]
BY EnterFacts

\* schedule() up to its scan: the processor scans, the others go on.
LEMMA EnterExec ==
  ASSUME NEW F, CpuInv(F), NEW c \in CPUs, NEW irq \in BOOLEAN, NEW st, Woken(st),
         enter_schedule(c, irq, st), exec[c].mode \in {"boot", "run"},
         alarms' \in SUBSET Threads
  PROVE  exec'[c].mode = "scan" /\ \A d \in CPUs \ {c} : exec'[d] = exec[d]
BY EnterFacts

\* schedule() is entered.
LEMMA EnterCpuInv ==
  ASSUME NEW F, CpuInv(F), NEW c \in CPUs, NEW irq \in BOOLEAN, NEW st, Woken(st),
         enter_schedule(c, irq, st), exec[c].mode \in {"boot", "run"},
         alarms' \in SUBSET Threads
  PROVE  CpuInv(F)'
<1> DEFINE r == rthread[c]
<1>1. /\ CpuTypeOK'
      /\ UNCHANGED <<ctx, runq, rthread>>
      /\ exec'[c].mode = "scan" /\ exec'[c].th = r
      /\ exec'[c].at = IF r = NULL THEN NULL ELSE find_thread_in_rq(r, runq[c])
      /\ \A d \in CPUs \ {c} : exec'[d] = exec[d] /\ preempt_on'[d] = preempt_on[d]
      /\ ~ preempt_on'[c]
      /\ \A t \in Threads :
           status'[t] = IF t = r /\ st[t] = "RUNNING" THEN "READY" ELSE st[t]
  BY EnterFacts
<1>2. r \in Threads \cup {NULL} /\ NULL \notin Threads /\ HEAD \notin Threads /\ HEAD # NULL
  BY SchedAssumption DEF CpuInv, CpuTypeOK
<1>3. r \in Threads => exec[c].th = r /\ exec[c].mode = "run"
  BY <1>2 DEF CpuInv, Current
<1>4. r \in Threads => r \in F \/ InQ(r, runq[c])
  BY <1>3 DEF CpuInv, Homes
<1>5. OneQueue'
  BY <1>1, QueuesKept DEF CpuInv
<1>6. Homes(F)'
  BY <1>1, <1>2, <1>4 DEF CpuInv, Homes, InQ
<1>7. Current(F)'
  <2> SUFFICES ASSUME NEW d \in CPUs
               PROVE  /\ exec'[d].mode = "boot" => rthread'[d] = NULL /\ exec'[d].th = NULL
                      /\ exec'[d].mode = "run" =>
                           /\ exec'[d].th \in Threads
                           /\ \/ rthread'[d] = exec'[d].th
                              \/ /\ rthread'[d] = NULL /\ exec'[d].th \in F
                                 /\ status'[exec'[d].th] # "RUNNING"
                      /\ exec'[d].mode = "scan" =>
                           /\ exec'[d].at = NULL <=> rthread'[d] = NULL
                           /\ exec'[d].at \in Threads => InQ(exec'[d].at, runq'[d])
                           /\ exec'[d].at = HEAD => exec'[d].th \in F
                      /\ exec'[d].mode = "wild" => exec'[d].th \in F
    BY DEF Current, InQ
  <2>1. CASE d = c
    BY <1>1, <1>2, <1>4, <2>1 DEF find_thread_in_rq
  <2>2. CASE d # c
    <3>1. exec'[d] = exec[d] /\ rthread'[d] = rthread[d] /\ runq'[d] = runq[d]
      BY <1>1, <2>2
    <3>2. \A t \in Threads : status'[t] = "RUNNING" => status[t] = "RUNNING"
      BY <1>1 DEF Woken
    <3> QED
      BY <3>1, <3>2 DEF CpuInv, Current
  <2> QED
    BY <2>1, <2>2
<1>8. Born'
  <2> SUFFICES ASSUME NEW d \in CPUs, NEW t \in Threads, exec'[d].th = t
               PROVE  status'[t] \notin {"NONE", "INIT"}
    BY DEF Born
  <2>1. exec[d].th = t
    BY <1>1, <1>3
  <2>2. status[t] \notin {"NONE", "INIT"}
    BY <2>1 DEF CpuInv, Born
  <2> QED
    BY <1>1, <2>2 DEF Woken
<1>9. RunningIsCurrent'
  <2> SUFFICES ASSUME NEW t \in Threads, status'[t] = "RUNNING"
               PROVE  \E d \in CPUs : Runs(d, t)' /\ rthread'[d] = t
    BY DEF RunningIsCurrent
  <2>1. status[t] = "RUNNING" /\ t # r
    BY <1>1 DEF Woken
  <2>2. PICK d \in CPUs : Runs(d, t) /\ rthread[d] = t
    BY <2>1 DEF CpuInv, RunningIsCurrent
  <2>3. d # c
    BY <2>1, <2>2
  <2> QED
    BY <1>1, <2>2, <2>3 DEF Runs
<1>10. NoNestedSchedule'
  BY <1>1 DEF CpuInv, NoNestedSchedule
<1>11. NoSharedStack'
  BY <1>1, <1>2, <1>3 DEF CpuInv, NoSharedStack
<1> QED
  BY <1>1, <1>5, <1>6, <1>7, <1>8, <1>9, <1>10, <1>11 DEF CpuInv

\* What switch_to does, pointwise.
LEMMA SwitchFacts ==
  ASSUME NEW F, CpuInv(F), NEW c \in CPUs, NEW n \in Threads, switch_to(c, n)
  PROVE  /\ CpuTypeOK'
         /\ UNCHANGED <<alarms, runq, saved_flags>>
         /\ exec'[c].mode = "run" /\ exec'[c].th = n
         /\ rthread'[c] = n /\ preempt_on'[c]
         /\ \A d \in CPUs \ {c} :
              exec'[d] = exec[d] /\ rthread'[d] = rthread[d]
              /\ preempt_on'[d] = preempt_on[d] /\ irq_on'[d] = irq_on[d]
         /\ \A t \in Threads : status'[t] = IF t = n THEN "RUNNING" ELSE status[t]
         /\ \A t \in Threads :
              ctx'[t] = IF t = exec[c].th THEN exec[c].irq \/ saved_flags[c] ELSE ctx[t]
         /\ irq_on'[c] = ctx'[n]
<1> DEFINE e == [mode |-> "run", th |-> n, at |-> NULL, irq |-> FALSE]
           v == exec[c].irq \/ saved_flags[c]
<1>1. e \in Execs
  BY DEF Execs
<1>2. /\ exec' = [exec EXCEPT ![c] = e]
      /\ rthread' = [rthread EXCEPT ![c] = n]
      /\ preempt_on' = [preempt_on EXCEPT ![c] = TRUE]
      /\ status' = [status EXCEPT ![n] = "RUNNING"]
      /\ irq_on' = [irq_on EXCEPT ![c] = ctx'[n]]
      /\ ctx' = IF exec[c].th = NULL THEN ctx ELSE [ctx EXCEPT ![exec[c].th] = v]
      /\ UNCHANGED <<alarms, runq, saved_flags>>
  BY DEF switch_to, preempt_enable, Set
<1>3. exec[c].th \in Threads \cup {NULL} /\ v \in BOOLEAN /\ NULL \notin Threads
  BY SchedAssumption DEF CpuInv, CpuTypeOK, Execs
<1>4. exec'[c] = e /\ exec' \in [CPUs -> Execs] /\ \A d \in CPUs \ {c} : exec'[d] = exec[d]
  BY <1>1, <1>2 DEF CpuInv, CpuTypeOK
<1> HIDE DEF v
<1>5. /\ ctx' \in [Threads -> BOOLEAN]
      /\ \A t \in Threads : ctx'[t] = IF t = exec[c].th THEN v ELSE ctx[t]
  BY <1>2, <1>3 DEF CpuInv, CpuTypeOK
<1>6. /\ status' \in [Threads -> Statuses]
      /\ \A t \in Threads : status'[t] = IF t = n THEN "RUNNING" ELSE status[t]
  BY <1>2 DEF CpuInv, CpuTypeOK, Statuses
<1>7. /\ rthread' \in [CPUs -> Threads \cup {NULL}] /\ rthread'[c] = n
      /\ preempt_on' \in [CPUs -> BOOLEAN] /\ preempt_on'[c]
      /\ irq_on' \in [CPUs -> BOOLEAN] /\ irq_on'[c] = ctx'[n]
      /\ \A d \in CPUs \ {c} : rthread'[d] = rthread[d] /\ preempt_on'[d] = preempt_on[d]
                               /\ irq_on'[d] = irq_on[d]
  BY <1>2, <1>5 DEF CpuInv, CpuTypeOK
<1>8. CpuTypeOK'
  BY <1>2, <1>4, <1>5, <1>6, <1>7 DEF CpuInv, CpuTypeOK
<1> QED
  BY <1>2, <1>4, <1>5, <1>6, <1>7, <1>8 DEF v

\* The loop of __do_sched_rr has found a thread that is READY and on the queue.
LEMMA SwitchCpuInv ==
  ASSUME NEW F, CpuInv(F), NEW c \in CPUs, NEW n \in Threads, switch_to(c, n),
         exec[c].mode = "scan", status[n] = "READY", InQ(n, runq[c])
  PROVE  CpuInv(F)'
<1>1. /\ CpuTypeOK'
      /\ UNCHANGED <<alarms, runq, saved_flags>>
      /\ exec'[c].mode = "run" /\ exec'[c].th = n
      /\ rthread'[c] = n /\ preempt_on'[c]
      /\ \A d \in CPUs \ {c} :
           exec'[d] = exec[d] /\ rthread'[d] = rthread[d] /\ preempt_on'[d] = preempt_on[d]
      /\ \A t \in Threads : status'[t] = IF t = n THEN "RUNNING" ELSE status[t]
  BY SwitchFacts
<1>2. OneQueue'
  BY <1>1, QueuesKept DEF CpuInv
<1>3. Homes(F)'
  BY <1>1 DEF CpuInv, Homes, InQ
<1>4. n \notin F
  BY DEF CpuInv, Homes
<1>5. Current(F)'
  BY <1>1, <1>4 DEF CpuInv, Current, InQ
<1>6. Born'
  <2>1. Born
    BY DEF CpuInv
  <2> QED
    BY <1>1, <2>1 DEF Born
<1>7. RunningIsCurrent'
  <2> SUFFICES ASSUME NEW t \in Threads, status'[t] = "RUNNING"
               PROVE  \E d \in CPUs : Runs(d, t)' /\ rthread'[d] = t
    BY DEF RunningIsCurrent
  <2>1. CASE t = n
    BY <1>1, <2>1 DEF Runs
  <2>2. CASE t # n
    <3>1. PICK d \in CPUs : Runs(d, t) /\ rthread[d] = t
      BY <1>1, <2>2 DEF CpuInv, RunningIsCurrent
    <3>2. d # c
      BY <3>1 DEF Runs
    <3> QED
      BY <1>1, <3>1, <3>2 DEF Runs
  <2> QED
    BY <2>1, <2>2
<1>8. NoNestedSchedule'
  BY <1>1 DEF CpuInv, NoNestedSchedule
<1>9. NoSharedStack'
  <2>1. \A d \in CPUs \ {c} : exec[d].th # n
    BY <1>4 DEF CpuInv, Homes, OneQueue
  <2> QED
    BY <1>1, <2>1 DEF CpuInv, NoSharedStack
<1> QED
  BY <1>1, <1>2, <1>3, <1>5, <1>6, <1>7, <1>8, <1>9 DEF CpuInv

\* The entry that a turn of the loop looks at is on the queue.
LEMMA ScanNextInQ ==
  ASSUME NEW F, CpuInv(F), NEW c \in CPUs, exec[c].mode = "scan",
         NEW n \in Threads,
         n = IF rthread[c] # NULL THEN next_entry(runq[c], exec[c].at)
             ELSE IF runq[c] = <<>> THEN NULL ELSE runq[c][1]
  PROVE  InQ(n, runq[c])
<1>1. runq[c] \in Seq(Threads) /\ NULL \notin Threads /\ HEAD \notin Threads
  BY SchedAssumption DEF CpuInv, CpuTypeOK
<1>2. CASE rthread[c] = NULL
  BY <1>1, <1>2, FirstInQ
<1>3. CASE rthread[c] # NULL
  <2>1. exec[c].at = HEAD \/ InQ(exec[c].at, runq[c])
    BY <1>3 DEF CpuInv, Current, CpuTypeOK, Execs
  <2>2. n = next_entry(runq[c], exec[c].at)
    BY <1>3
  <2>3. runq[c] # <<>>
    BY <1>1, <2>2 DEF next_entry
  <2> QED
    BY <1>1, <2>1, <2>2, <2>3, NextEntryInQ
<1> QED
  BY <1>2, <1>3

\* A turn of the loop that finds a thread that is not READY.
LEMMA PassCpuInv ==
  ASSUME NEW F, CpuInv(F), NEW c \in CPUs, NEW n \in Threads, exec[c].mode = "scan",
         InQ(n, runq[c]),
         exec' = [exec EXCEPT ![c].at = n],
         rthread' = IF rthread[c] = NULL THEN Set(rthread, c, n) ELSE rthread,
         UNCHANGED <<status, ctx, alarms, runq, preempt_on, saved_flags, irq_on>>
  PROVE  CpuInv(F)'
<1>1. n # NULL /\ n # HEAD
  BY SchedAssumption
<1>2. /\ exec' \in [CPUs -> Execs]
      /\ exec'[c].mode = "scan" /\ exec'[c].th = exec[c].th /\ exec'[c].at = n
      /\ exec'[c].irq = exec[c].irq
      /\ \A d \in CPUs \ {c} : exec'[d] = exec[d]
  BY DEF CpuInv, CpuTypeOK, Execs
<1>3. /\ rthread' \in [CPUs -> Threads \cup {NULL}]
      /\ rthread'[c] # NULL
      /\ \A d \in CPUs \ {c} : rthread'[d] = rthread[d]
  BY <1>1 DEF CpuInv, CpuTypeOK, Set
<1>4. CpuTypeOK'
  BY <1>2, <1>3 DEF CpuInv, CpuTypeOK
<1>5. OneQueue'
  BY QueuesKept DEF CpuInv
<1>6. Homes(F)'
  BY <1>2 DEF CpuInv, Homes, InQ
<1>7. Current(F)'
  BY <1>1, <1>2, <1>3 DEF CpuInv, Current, InQ
<1>8. Born'
  BY <1>2 DEF CpuInv, Born
<1>9. RunningIsCurrent'
  BY <1>2, <1>3 DEF CpuInv, RunningIsCurrent, Runs
<1>10. NoNestedSchedule'
  BY <1>2 DEF CpuInv, NoNestedSchedule
<1>11. NoSharedStack'
  BY <1>2 DEF CpuInv, NoSharedStack
<1> QED
  BY <1>4, <1>5, <1>6, <1>7, <1>8, <1>9, <1>10, <1>11 DEF CpuInv

\* The loop on an empty queue.
LEMMA ScanHeadCpuInv ==
  ASSUME NEW F, CpuInv(F), NEW c \in CPUs, scan_head(c)
  PROVE  CpuInv(F)'
<1>1. exec[c].mode = "scan" /\ rthread[c] # NULL /\ runq[c] = <<>>
  BY DEF scan_head
<1>2. ~ InQ(exec[c].at, runq[c])
  BY <1>1 DEF InQ
<1>3. exec[c].at = HEAD /\ exec[c].th \in F
  BY <1>1, <1>2 DEF CpuInv, Current, CpuTypeOK, Execs
<1>4. /\ exec' \in [CPUs -> Execs]
      /\ exec'[c].mode \in {"scan", "wild"} /\ exec'[c].at = exec[c].at
      /\ exec'[c].th = exec[c].th
      /\ \A d \in CPUs \ {c} : exec'[d] = exec[d]
  <2>1. exec \in [CPUs -> Execs]
    BY DEF CpuInv, CpuTypeOK
  <2>2. CASE exec' = [exec EXCEPT ![c].at = HEAD]
    BY <1>1, <1>3, <2>1, <2>2 DEF Execs
  <2>3. CASE exec' = [exec EXCEPT ![c].mode = "wild"]
    BY <1>1, <1>3, <2>1, <2>3 DEF Execs
  <2> QED
    BY <2>2, <2>3 DEF scan_head
<1>5. UNCHANGED <<status, ctx, alarms, runq, rthread, preempt_on, saved_flags, irq_on>>
  BY DEF scan_head
<1>6. CpuTypeOK'
  BY <1>4, <1>5 DEF CpuInv, CpuTypeOK
<1>7. OneQueue'
  BY <1>5, QueuesKept DEF CpuInv
<1>8. Homes(F)'
  BY <1>4, <1>5 DEF CpuInv, Homes, InQ
<1>9. Current(F)'
  BY <1>1, <1>3, <1>4, <1>5 DEF CpuInv, Current, InQ
<1>10. Born'
  BY <1>4, <1>5 DEF CpuInv, Born
<1>11. RunningIsCurrent'
  BY <1>1, <1>4, <1>5 DEF CpuInv, RunningIsCurrent, Runs
<1>12. NoNestedSchedule'
  BY <1>1, <1>4, <1>5 DEF CpuInv, NoNestedSchedule
<1>13. NoSharedStack'
  BY <1>4 DEF CpuInv, NoSharedStack
<1> QED
  BY <1>6, <1>7, <1>8, <1>9, <1>10, <1>11, <1>12, <1>13 DEF CpuInv

\* A timer interrupt, in thread code, in the loop or before the first schedule().
LEMMA TickCpuInv ==
  ASSUME NEW F, CpuInv(F), NEW c \in CPUs, NEW sched \in BOOLEAN, tick(c, sched)
  PROVE  CpuInv(F)'
<1>1. PICK W \in SUBSET Expirable(c) : timer_callback(c, W, sched)
  BY DEF tick
<1> DEFINE st == [t \in Threads |-> IF t \in W THEN "READY" ELSE status[t]]
<1>2. \A t \in W : t \in Threads /\ status[t] = "BLOCKED"
  BY DEF Expirable, CpuInv, CpuTypeOK
<1>3. Woken(st)
  <2>1. status \in [Threads -> Statuses] /\ "READY" \in Statuses
    BY DEF CpuInv, CpuTypeOK, Statuses
  <2> QED
    BY <1>2, <2>1 DEF Woken
<1>4. alarms' = alarms \ W /\ alarms' \in SUBSET Threads
  BY <1>1 DEF timer_callback, CpuInv, CpuTypeOK
<1>5. CASE preempt_on[c] /\ enter_schedule(c, TRUE, st)
  <2>1. exec[c].mode \in {"boot", "run"}
    BY <1>1, <1>5 DEF timer_callback, CpuInv, NoNestedSchedule, CpuTypeOK, Execs
  <2> HIDE DEF st
  <2> QED
    BY <1>3, <1>4, <1>5, <2>1, EnterCpuInv
<1>6. CASE status' = st /\ UNCHANGED <<ctx, runq, rthread, preempt_on, saved_flags, irq_on, exec>>
  <2>1. CpuTypeOK'
    BY <1>3, <1>4, <1>6 DEF CpuInv, CpuTypeOK, Woken
  <2>2. \A t \in Threads : status'[t] = status[t] \/ (status[t] = "BLOCKED" /\ status'[t] = "READY")
    BY <1>3, <1>6 DEF Woken
  <2>3. \A t \in Threads :
          /\ status'[t] = "RUNNING" => status[t] = "RUNNING"
          /\ status'[t] \in {"NONE", "INIT"} => status[t] \in {"NONE", "INIT"}
    BY <2>2
  <2> HIDE DEF st
  <2> QED
    BY <1>6, <2>1, <2>3, QuietCpuInv
<1> QED
  BY <1>1, <1>5, <1>6 DEF timer_callback

\* Every step of a processor that is not one of a thread.
LEMMA ProcessorCpuInv ==
  ASSUME NEW F, CpuInv(F), NEW c \in CPUs, Processor(c)
  PROVE  CpuInv(F)'
<1>1. CASE init_sched(c)
  <2>1. Woken(status)
    BY DEF Woken, CpuInv, CpuTypeOK
  <2>2. alarms' \in SUBSET Threads
    BY <1>1 DEF init_sched, CpuInv, CpuTypeOK
  <2> QED
    BY <1>1, <2>1, <2>2, EnterCpuInv DEF init_sched
<1>2. CASE scan(c)
  <2> DEFINE n == IF rthread[c] # NULL THEN next_entry(runq[c], exec[c].at)
                  ELSE IF runq[c] = <<>> THEN NULL ELSE runq[c][1]
  <2>1. exec[c].mode = "scan" /\ n \in Threads
    BY <1>2 DEF scan
  <2>2. InQ(n, runq[c])
    BY <2>1, ScanNextInQ
  <2>3. \/ status[n] = "READY" /\ switch_to(c, n)
        \/ /\ exec' = [exec EXCEPT ![c].at = n]
           /\ rthread' = IF rthread[c] = NULL THEN Set(rthread, c, n) ELSE rthread
           /\ UNCHANGED <<status, ctx, alarms, runq, preempt_on, saved_flags, irq_on>>
    BY <1>2 DEF scan
  <2> HIDE DEF n
  <2> QED
    BY <2>1, <2>2, <2>3, SwitchCpuInv, PassCpuInv
<1> QED
  BY <1>1, <1>2, ScanHeadCpuInv, TickCpuInv DEF Processor

\* How a step of a processor changes statuses and alarms: a sleeper is woken
\* only by its alarm, and the loop only runs what is READY.
LEMMA ProcessorStatus ==
  ASSUME NEW F, CpuInv(F), NEW c \in CPUs, Processor(c)
  PROVE  /\ runq' = runq
         /\ \A t \in Threads :
              \/ status'[t] = status[t]
              \/ status[t] = "RUNNING" /\ status'[t] = "READY"
              \/ status[t] = "READY" /\ status'[t] = "RUNNING"
              \/ status[t] = "BLOCKED" /\ status'[t] = "READY" /\ t \in alarms \ alarms'
         /\ alarms' \in SUBSET alarms
         /\ \A t \in alarms \ alarms' : status'[t] = "READY"
<1> DEFINE Goal == /\ runq' = runq
                   /\ \A t \in Threads :
                        \/ status'[t] = status[t]
                        \/ status[t] = "RUNNING" /\ status'[t] = "READY"
                        \/ status[t] = "READY" /\ status'[t] = "RUNNING"
                        \/ /\ status[t] = "BLOCKED" /\ status'[t] = "READY"
                           /\ t \in alarms \ alarms'
                   /\ alarms' \in SUBSET alarms
                   /\ \A t \in alarms \ alarms' : status'[t] = "READY"
<1>1. CASE init_sched(c)
  <2>1. Woken(status) /\ alarms' = alarms /\ alarms' \in SUBSET Threads
    BY <1>1 DEF Woken, CpuInv, CpuTypeOK, init_sched
  <2>2. /\ runq' = runq
        /\ \A t \in Threads :
             status'[t] = IF t = rthread[c] /\ status[t] = "RUNNING" THEN "READY"
                          ELSE status[t]
    BY <1>1, <2>1, EnterStatus DEF init_sched
  <2> QED
    BY <2>1, <2>2
<1>2. CASE scan(c)
  <2> DEFINE n == IF rthread[c] # NULL THEN next_entry(runq[c], exec[c].at)
                  ELSE IF runq[c] = <<>> THEN NULL ELSE runq[c][1]
  <2>1. n \in Threads
    BY <1>2 DEF scan
  <2>2. \/ status[n] = "READY" /\ switch_to(c, n)
        \/ UNCHANGED <<status, alarms, runq>>
    BY <1>2 DEF scan
  <2> HIDE DEF n
  <2>3. CASE status[n] = "READY" /\ switch_to(c, n)
    <3>1. /\ UNCHANGED <<alarms, runq>>
          /\ \A t \in Threads : status'[t] = IF t = n THEN "RUNNING" ELSE status[t]
      BY <2>1, <2>3, SwitchFacts
    <3> QED
      BY <2>3, <3>1
  <2> QED
    BY <2>2, <2>3
<1>3. CASE scan_head(c)
  BY <1>3 DEF scan_head
<1>4. CASE \E sched \in BOOLEAN : tick(c, sched)
  <2>1. PICK sched \in BOOLEAN, W \in SUBSET Expirable(c) : timer_callback(c, W, sched)
    BY <1>4 DEF tick
  <2> DEFINE st == [t \in Threads |-> IF t \in W THEN "READY" ELSE status[t]]
  <2>2. \A t \in W : t \in Threads /\ status[t] = "BLOCKED" /\ t \in alarms
    BY DEF Expirable, CpuInv, CpuTypeOK
  <2>3. status \in [Threads -> Statuses] /\ "READY" \in Statuses
    BY DEF CpuInv, CpuTypeOK, Statuses
  <2>4. Woken(st)
    BY <2>2, <2>3 DEF Woken
  <2>5. alarms' = alarms \ W /\ alarms' \in SUBSET Threads
    BY <2>1 DEF timer_callback, CpuInv, CpuTypeOK
  <2>6. CASE preempt_on[c] /\ enter_schedule(c, TRUE, st)
    <3>1. exec[c].mode \in {"boot", "run"}
      BY <2>1, <2>6 DEF timer_callback, CpuInv, NoNestedSchedule, CpuTypeOK, Execs
    <3>2. \A t \in Threads : st[t] = IF t \in W THEN "READY" ELSE status[t]
      OBVIOUS
    <3> HIDE DEF st
    <3>3. /\ runq' = runq
          /\ \A t \in Threads :
               status'[t] = IF t = rthread[c] /\ st[t] = "RUNNING" THEN "READY" ELSE st[t]
      BY <2>4, <2>5, <2>6, <3>1, EnterStatus
    <3> QED
      BY <2>2, <2>5, <3>2, <3>3
  <2>7. CASE status' = st /\ runq' = runq
    BY <2>2, <2>5, <2>7
  <2> QED
    BY <2>1, <2>6, <2>7 DEF timer_callback
<1> QED
  BY <1>1, <1>2, <1>3, <1>4 DEF Processor

\* Other processors leave the thread that a processor runs alone, but for
\* waking it.
LEMMA ProcessorRuns ==
  ASSUME NEW F, CpuInv(F), NEW c \in CPUs, Processor(c),
         NEW d \in CPUs, NEW t \in Threads, Runs(d, t)'
  PROVE  \/ status'[t] = "RUNNING"
         \/ Runs(d, t) /\ (status'[t] = status[t] \/ status[t] = "BLOCKED")
<1>1. CASE init_sched(c)
  <2>1. Woken(status) /\ alarms' \in SUBSET Threads
    BY <1>1 DEF Woken, CpuInv, CpuTypeOK, init_sched
  <2>2. status'[t] = IF t = rthread[c] /\ status[t] = "RUNNING" THEN "READY"
                   ELSE status[t]
    BY <1>1, <2>1, EnterStatus DEF init_sched
  <2>3. exec'[c].mode = "scan" /\ \A e \in CPUs \ {c} : exec'[e] = exec[e]
    BY <1>1, <2>1, EnterExec DEF init_sched
  <2>4. rthread[c] = NULL
    BY <1>1 DEF init_sched, CpuInv, Current
  <2> QED
    BY <2>2, <2>3, <2>4, SchedAssumption DEF Runs
<1>2. CASE scan(c)
  <2> DEFINE n == IF rthread[c] # NULL THEN next_entry(runq[c], exec[c].at)
                  ELSE IF runq[c] = <<>> THEN NULL ELSE runq[c][1]
  <2>1. n \in Threads /\ exec[c].mode = "scan"
    BY <1>2 DEF scan
  <2>2. \/ switch_to(c, n)
        \/ exec' = [exec EXCEPT ![c].at = n] /\ status' = status
    BY <1>2 DEF scan
  <2> HIDE DEF n
  <2>3. CASE switch_to(c, n)
    <3>1. /\ exec'[c].th = n
          /\ \A e \in CPUs \ {c} : exec'[e] = exec[e]
          /\ status'[t] = IF t = n THEN "RUNNING" ELSE status[t]
      BY <2>1, <2>3, SwitchFacts
    <3> QED
      BY <3>1 DEF Runs
  <2>4. CASE exec' = [exec EXCEPT ![c].at = n] /\ status' = status
    BY <2>1, <2>4 DEF Runs, CpuInv, CpuTypeOK, Execs
  <2> QED
    BY <2>2, <2>3, <2>4
<1>3. CASE scan_head(c)
  <2>1. exec \in [CPUs -> Execs] /\ exec[c].mode = "scan" /\ status' = status
    BY <1>3 DEF scan_head, CpuInv, CpuTypeOK
  <2>2. exec'[c].mode \in {"scan", "wild"} /\ \A e \in CPUs \ {c} : exec'[e] = exec[e]
    <3>1. CASE exec' = [exec EXCEPT ![c].at = HEAD]
      BY <2>1, <3>1 DEF Execs
    <3>2. CASE exec' = [exec EXCEPT ![c].mode = "wild"]
      BY <2>1, <3>2 DEF Execs
    <3> QED
      BY <1>3, <3>1, <3>2 DEF scan_head
  <2> QED
    BY <2>1, <2>2 DEF Runs
<1>4. CASE \E sched \in BOOLEAN : tick(c, sched)
  <2>1. PICK sched \in BOOLEAN, W \in SUBSET Expirable(c) : timer_callback(c, W, sched)
    BY <1>4 DEF tick
  <2> DEFINE st == [u \in Threads |-> IF u \in W THEN "READY" ELSE status[u]]
  <2>2. status \in [Threads -> Statuses] /\ "READY" \in Statuses
    BY DEF CpuInv, CpuTypeOK, Statuses
  <2>3. Woken(st)
    BY <2>2 DEF Woken, Expirable
  <2>4. alarms' \in SUBSET Threads
    BY <2>1 DEF timer_callback, CpuInv, CpuTypeOK
  <2>5. st[t] = status[t] \/ status[t] = "BLOCKED"
    BY DEF Expirable
  <2>6. CASE preempt_on[c] /\ enter_schedule(c, TRUE, st)
    <3>1. exec[c].mode \in {"boot", "run"}
      BY <2>1, <2>6 DEF timer_callback, CpuInv, NoNestedSchedule, CpuTypeOK, Execs
    <3> HIDE DEF st
    <3>2. status'[t] = IF t = rthread[c] /\ st[t] = "RUNNING" THEN "READY" ELSE st[t]
      BY <2>3, <2>4, <2>6, <3>1, EnterStatus
    <3>3. d # c /\ Runs(d, t)
      <4>1. exec'[c].mode = "scan" /\ \A e \in CPUs \ {c} : exec'[e] = exec[e]
        BY <2>3, <2>4, <2>6, <3>1, EnterExec
      <4> QED
        BY <4>1 DEF Runs
    <3>4. rthread[c] = t => exec[c].th = t
      BY <3>1, SchedAssumption DEF CpuInv, Current
    <3>5. rthread[c] # t
      BY <3>3, <3>4, SchedAssumption DEF CpuInv, NoSharedStack, Runs
    <3> QED
      BY <2>5, <3>2, <3>3, <3>5
  <2>7. CASE status' = st /\ exec' = exec
    BY <2>5, <2>7 DEF Runs
  <2> QED
    BY <2>1, <2>6, <2>7 DEF timer_callback
<1> QED
  BY <1>1, <1>2, <1>3, <1>4 DEF Processor

-----------------------------------------------------------------------------
\* The threads that are not in S have their interrupts on, now or when they go
\* on.
FlagsKept(S) ==
  /\ \A t \in Threads \ S : ctx[t]
  /\ \A c \in CPUs, t \in Threads \ S : Runs(c, t) => irq_on[c]
  /\ \A c \in CPUs, t \in Threads \ S :
       exec[c].mode = "scan" /\ exec[c].th = t => exec[c].irq \/ saved_flags[c]

\* Entering schedule() keeps the flags of the thread that it leaves.
LEMMA EnterFlags ==
  ASSUME NEW F, CpuInv(F), NEW c \in CPUs, NEW irq \in BOOLEAN, NEW st, Woken(st),
         enter_schedule(c, irq, st), exec[c].mode \in {"boot", "run"},
         alarms' \in SUBSET Threads,
         NEW S, FlagsKept(S)
  PROVE  FlagsKept(S)'
<1>1. /\ ctx' = ctx /\ exec'[c].irq = irq
      /\ exec'[c].mode = "scan" /\ exec'[c].th = rthread[c]
      /\ \A d \in CPUs \ {c} : exec'[d] = exec[d] /\ saved_flags'[d] = saved_flags[d]
                               /\ irq_on'[d] = irq_on[d]
      /\ saved_flags'[c] = (~ irq /\ irq_on[c])
  BY EnterFacts
<1>2. \A t \in Threads : rthread[c] = t => Runs(c, t)
  BY SchedAssumption DEF CpuInv, Current, Runs
<1>3. irq_on[c] => exec'[c].irq \/ saved_flags'[c]
  BY <1>1
<1>4. \A t \in Threads \ S : exec'[c].th = t => exec'[c].irq \/ saved_flags'[c]
  BY <1>1, <1>2, <1>3 DEF FlagsKept
<1>5. \A d \in CPUs, t \in Threads \ S : Runs(d, t)' => irq_on'[d]
  BY <1>1 DEF FlagsKept, Runs
<1>6. \A d \in CPUs, t \in Threads \ S :
        exec'[d].mode = "scan" /\ exec'[d].th = t => exec'[d].irq \/ saved_flags'[d]
  BY <1>1, <1>4 DEF FlagsKept
<1> QED
  BY <1>1, <1>5, <1>6 DEF FlagsKept

\* Whatever a processor does, the threads outside S keep their interrupts on.
LEMMA ProcessorFlags ==
  ASSUME NEW F, CpuInv(F), NEW c \in CPUs, Processor(c),
         NEW S, FlagsKept(S)
  PROVE  FlagsKept(S)'
<1>1. CASE init_sched(c)
  <2>1. Woken(status) /\ alarms' \in SUBSET Threads
    BY <1>1 DEF Woken, CpuInv, CpuTypeOK, init_sched
  <2> QED
    BY <1>1, <2>1, EnterFlags DEF init_sched
<1>2. CASE scan(c)
  <2> DEFINE n == IF rthread[c] # NULL THEN next_entry(runq[c], exec[c].at)
                  ELSE IF runq[c] = <<>> THEN NULL ELSE runq[c][1]
  <2>1. n \in Threads /\ exec[c].mode = "scan"
    BY <1>2 DEF scan
  <2>2. \/ switch_to(c, n)
        \/ /\ exec' = [exec EXCEPT ![c].at = n]
           /\ UNCHANGED <<ctx, saved_flags, irq_on>>
    BY <1>2 DEF scan
  <2> HIDE DEF n
  <2>3. CASE switch_to(c, n)
    <3>1. /\ saved_flags' = saved_flags /\ exec'[c].mode = "run" /\ exec'[c].th = n
          /\ \A d \in CPUs \ {c} : exec'[d] = exec[d] /\ irq_on'[d] = irq_on[d]
          /\ \A t \in Threads :
               ctx'[t] = IF t = exec[c].th THEN exec[c].irq \/ saved_flags[c] ELSE ctx[t]
          /\ irq_on'[c] = ctx'[n]
      BY <2>1, <2>3, SwitchFacts
    <3>2. \A t \in Threads \ S : ctx'[t]
      BY <2>1, <3>1 DEF FlagsKept, Runs
    <3> QED
      BY <2>1, <3>1, <3>2 DEF FlagsKept, Runs
  <2>4. CASE exec' = [exec EXCEPT ![c].at = n] /\ UNCHANGED <<ctx, saved_flags, irq_on>>
    <3>1. \A d \in CPUs : /\ exec'[d].mode = exec[d].mode /\ exec'[d].th = exec[d].th
                          /\ exec'[d].irq = exec[d].irq
      BY <2>4 DEF CpuInv, CpuTypeOK, Execs
    <3> QED
      BY <2>4, <3>1 DEF FlagsKept, Runs
  <2> QED
    BY <2>2, <2>3, <2>4
<1>3. CASE scan_head(c)
  <2>1. exec \in [CPUs -> Execs] /\ exec[c].mode = "scan"
    BY <1>3 DEF scan_head, CpuInv, CpuTypeOK
  <2>2. /\ exec'[c].irq = exec[c].irq /\ exec'[c].mode \in {"scan", "wild"}
        /\ exec'[c].th = exec[c].th
        /\ \A d \in CPUs \ {c} : exec'[d] = exec[d]
    <3>1. CASE exec' = [exec EXCEPT ![c].at = HEAD]
      BY <2>1, <3>1 DEF Execs
    <3>2. CASE exec' = [exec EXCEPT ![c].mode = "wild"]
      BY <2>1, <3>2 DEF Execs
    <3> QED
      BY <1>3, <3>1, <3>2 DEF scan_head
  <2> QED
    BY <1>3, <2>1, <2>2 DEF scan_head, FlagsKept, Runs
<1>4. CASE \E sched \in BOOLEAN : tick(c, sched)
  <2>1. PICK sched \in BOOLEAN, W \in SUBSET Expirable(c) : timer_callback(c, W, sched)
    BY <1>4 DEF tick
  <2> DEFINE st == [t \in Threads |-> IF t \in W THEN "READY" ELSE status[t]]
  <2>2. status \in [Threads -> Statuses] /\ "READY" \in Statuses
    BY DEF CpuInv, CpuTypeOK, Statuses
  <2>3. Woken(st)
    BY <2>2 DEF Woken, Expirable
  <2>4. alarms' \in SUBSET Threads
    BY <2>1 DEF timer_callback, CpuInv, CpuTypeOK
  <2>5. CASE preempt_on[c] /\ enter_schedule(c, TRUE, st)
    <3>1. exec[c].mode \in {"boot", "run"}
      BY <2>1, <2>5 DEF timer_callback, CpuInv, NoNestedSchedule, CpuTypeOK, Execs
    <3> HIDE DEF st
    <3> QED
      BY <2>3, <2>4, <2>5, <3>1, EnterFlags
  <2>6. CASE UNCHANGED <<ctx, saved_flags, irq_on, exec>>
    BY <2>6 DEF FlagsKept, Runs
  <2> QED
    BY <2>1, <2>5, <2>6 DEF timer_callback
<1> QED
  BY <1>1, <1>2, <1>3, <1>4 DEF Processor
=============================================================================
