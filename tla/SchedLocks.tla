----------------------------- MODULE SchedLocks -----------------------------
(***************************************************************************)
(* The sleeping locks on real processors: the workers v1, v2 and v3 of     *)
(* src/init.c, which share a mutex (src/mutex.c) or a semaphore            *)
(* (src/semaphore.c), on top of CpuSched.  Mutex and Semaphore have the    *)
(* interleavings inside the locks; here a section under the inner spinlock *)
(* is one step (interrupts are off in it and the other processors spin)    *)
(* and what matters is what it does to interrupts and preemption.          *)
(*                                                                         *)
(* The workers are queued on application processors that have not called   *)
(* init_sched yet.  mlock is 1 exactly when there is an owner, and is left *)
(* out.                                                                    *)
(***************************************************************************)
EXTENDS CpuSched, FiniteSets

CONSTANT Units    \* the count given to sem_init (2)

ASSUME UnitsAssumption == Units \in Nat \ {0}
ASSUME FiniteThreads   == IsFiniteSet(Threads)

VARIABLES
  mode,           \* the variable mode of init.c: which of the two is used
  owner,          \* mutex_t.owner
  count,          \* semaphore_t.count
  wq,             \* wait queue of the lock
  slept           \* history: workers that have slept for the lock

vars == <<cpuvars, mode, pc, owner, count, wq, slept>>
lockvars == <<owner, count, wq, slept>>

Init ==
  /\ status      = [t \in Threads |-> "READY"]
  /\ ctx         = [t \in Threads |-> TRUE]
  /\ alarms      = {}
  /\ runq \in [CPUs -> {q \in UNION {[1 .. n -> Threads] : n \in 0 .. Cardinality(Threads)} :
                          \A i, j \in 1 .. Len(q) : q[i] = q[j] => i = j}]
  /\ \A t \in Threads : \E c \in CPUs : InQ(t, runq[c])
  /\ \A t \in Threads, c, d \in CPUs : InQ(t, runq[c]) /\ InQ(t, runq[d]) => c = d
  /\ rthread     = [c \in CPUs |-> NULL]
  /\ preempt_on  = [c \in CPUs |-> FALSE]
  /\ saved_flags = [c \in CPUs |-> FALSE]
  /\ irq_on      = [c \in CPUs |-> TRUE]
  /\ exec        = [c \in CPUs |-> [mode |-> "boot", th |-> NULL, at |-> NULL,
                                    irq |-> FALSE]]
  /\ mode \in {"mutex", "sem"}
  /\ pc    = [t \in Threads |-> "lock"]
  /\ owner = NULL
  /\ count = Units
  /\ wq    = <<>>
  /\ slept = {}

\* The slow path: queue, make_sleep and spin_unlock_irq, which turns
\* interrupts and preemption on.
sleep_on(c, t) ==
  /\ wq' = Append(wq, t)
  /\ slept' = slept \cup {t}
  /\ status' = Set(status, t, "BLOCKED")
  /\ saved_flags' = Set(saved_flags, c, irq_on[c])
  /\ irq_on' = Set(irq_on, c, TRUE)
  /\ preempt_on' = Set(preempt_on, c, TRUE)
  /\ Goto(t, "wait")

\* Mutant: the owner is not looked at.
mutex_lock_shared(c, t) ==
  /\ At(c, t, "lock") /\ mode = "mutex"
  /\ \/ /\ owner' = t
        /\ irqsave_section(c)
        /\ Goto(t, "cs")
        /\ UNCHANGED <<status, wq, slept>>
     \/ /\ owner # NULL
        /\ sleep_on(c, t)
        /\ UNCHANGED owner
  /\ UNCHANGED <<ctx, alarms, runq, rthread, exec, count>>

mutex_lock(c, t) ==
  /\ At(c, t, "lock") /\ mode = "mutex"
  /\ \/ /\ owner = NULL
        /\ owner' = t
        /\ irqsave_section(c)
        /\ Goto(t, "cs")
        /\ UNCHANGED <<status, wq, slept>>
     \/ /\ owner # NULL
        /\ sleep_on(c, t)
        /\ UNCHANGED owner
  /\ UNCHANGED <<ctx, alarms, runq, rthread, exec, count>>

sem_down(c, t) ==
  /\ At(c, t, "lock") /\ mode = "sem"
  /\ \/ /\ count > 0
        /\ count' = count - 1
        /\ irqsave_section(c)
        /\ Goto(t, "cs")
        /\ UNCHANGED <<status, wq, slept>>
     \/ /\ count = 0
        /\ sleep_on(c, t)
        /\ UNCHANGED count
  /\ UNCHANGED <<ctx, alarms, runq, rthread, exec, owner>>

\* schedule() in mutex_lock and __sem_down
lock_schedule(c, t) ==
  /\ At(c, t, "wait")
  /\ call_schedule(c)
  /\ Goto(t, "relock")
  /\ UNCHANGED lockvars

\* Back from schedule(): spin_lock_irq, and spin_unlock_irqrestore once the
\* lock is held.  The flags restored are those in the slot of the processor.
\* A mutex that is not ours yet means sleeping again.
lock_woken(c, t) ==
  LET mine == mode = "sem" \/ owner = t IN
  /\ At(c, t, "relock")
  /\ wq' = IF mode = "mutex" /\ mine THEN Without(wq, t) ELSE wq
  /\ status' = IF mine THEN status ELSE Set(status, t, "BLOCKED")
  /\ irq_on' = Set(irq_on, c, IF mine THEN saved_flags[c] ELSE TRUE)
  /\ preempt_on' = Set(preempt_on, c, TRUE)
  /\ Goto(t, IF mine THEN "cs" ELSE "wait")
  /\ UNCHANGED <<ctx, alarms, runq, rthread, saved_flags, exec, owner, count,
                 slept>>

wake_up(t) == status' = IF status[t] = "BLOCKED" THEN Set(status, t, "READY")
                        ELSE status

\* Mutant: the new owner is not woken.
mutex_unlock_asleep(c, t) ==
  /\ At(c, t, "unlock") /\ mode = "mutex"
  /\ \/ wq = <<>> /\ owner' = NULL /\ UNCHANGED status
     \/ wq # <<>> /\ owner' = Head(wq) /\ UNCHANGED status
  /\ irqsave_section(c)
  /\ Goto(t, "rest")
  /\ UNCHANGED <<ctx, alarms, runq, rthread, exec, count, wq, slept>>

mutex_unlock(c, t) ==
  /\ At(c, t, "unlock") /\ mode = "mutex"
  /\ \/ wq = <<>> /\ owner' = NULL /\ UNCHANGED status
     \/ wq # <<>> /\ owner' = Head(wq) /\ wake_up(Head(wq))
  /\ irqsave_section(c)
  /\ Goto(t, "rest")
  /\ UNCHANGED <<ctx, alarms, runq, rthread, exec, count, wq, slept>>

sem_up(c, t) ==
  /\ At(c, t, "unlock") /\ mode = "sem"
  /\ \/ wq = <<>> /\ count' = count + 1 /\ UNCHANGED <<status, wq>>
     \/ wq # <<>> /\ wake_up(Head(wq)) /\ wq' = Tail(wq) /\ UNCHANGED count
  /\ irqsave_section(c)
  /\ Goto(t, "rest")
  /\ UNCHANGED <<ctx, alarms, runq, rthread, exec, owner, slept>>

\* pause, inside and outside of the section
pause(c, t) ==
  /\ \/ At(c, t, "cs") /\ Goto(t, "cs_sched")
     \/ At(c, t, "rest") /\ Goto(t, "rest_sched")
  /\ alarms' = alarms \cup {t}
  /\ status' = Set(status, t, "BLOCKED")
  /\ UNCHANGED <<ctx, runq, rthread, preempt_on, saved_flags, irq_on, exec,
                 lockvars>>

pause_schedule(c, t) ==
  /\ \/ At(c, t, "cs_sched") /\ Goto(t, "unlock")
     \/ At(c, t, "rest_sched") /\ Goto(t, "lock")
  /\ call_schedule(c)
  /\ UNCHANGED lockvars

Worker(c, t) ==
  \/ mutex_lock(c, t) \/ sem_down(c, t) \/ lock_schedule(c, t)
  \/ lock_woken(c, t) \/ mutex_unlock(c, t) \/ sem_up(c, t)
  \/ pause(c, t) \/ pause_schedule(c, t)

\* Every processor that is used has a worker, so scan_head never applies.
Cpu(c) ==
  /\ \/ init_sched(c) \/ scan(c) \/ \E sched \in BOOLEAN : tick(c, sched)
  /\ UNCHANGED <<pc, lockvars>>

Next ==
  /\ \/ \E c \in CPUs : Cpu(c)
     \/ \E c \in CPUs, t \in Threads : Worker(c, t)
  /\ UNCHANGED mode

Spec == Init /\ [][Next]_vars
-----------------------------------------------------------------------------
Inside == {t \in Threads : pc[t] \in {"cs", "cs_sched", "unlock"}}

\* The section of init.c holds one worker under the mutex and at most the
\* initial count under the semaphore, with preemption and sleeping inside.
Exclusion == Cardinality(Inside) <= IF mode = "mutex" THEN 1 ELSE Units

\* No lost wake-up: whatever tick comes between make_sleep and schedule(), a
\* BLOCKED thread has an alarm set or is on the wait queue and not the owner.
SleeperHasWaker ==
  \A t \in Threads : status[t] = "BLOCKED" =>
    t \in alarms \/ (InQ(t, wq) /\ owner # t)

\* A worker goes on with its interrupts off only if it has slept for the lock
\* at some time: spin_unlock_irqrestore then restores the one slot of the
\* processor, which schedule() has used meanwhile.  Preemption, pause and the
\* fast paths of the locks give every worker its interrupts back.
InterruptsLostOnlyBySleeping ==
  \A c \in CPUs, t \in Threads : Runs(c, t) /\ ~ irq_on[c] => t \in slept
=============================================================================
