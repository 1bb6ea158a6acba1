------------------------------- MODULE Mutex -------------------------------
(***************************************************************************)
(* The sleeping lock of src/mutex.c with the spinlock that guards it       *)
(* (src/spinlock.c) and schedule of src/sched.c; make_sleep and wake_up    *)
(* are in SleepWake.                                                       *)
(*                                                                         *)
(* Every thread moves on its own, which covers any number of processors    *)
(* and any preemption: a thread that is preempted is one that takes no     *)
(* step for a while.  Interrupt flags and run queues are in SchedLocks.    *)
(* The wait-queue entry lives on the stack of the thread that waits and a  *)
(* thread waits for one thing at a time, so an entry is its thread.        *)
(***************************************************************************)
EXTENDS Integers, Sequences, SleepWake

VARIABLES
  wlock,          \* lock->wlock: the thread that holds the spinlock, or NULL
  mlock,          \* lock->mlock: 0 or 1
  owner,          \* lock->owner
  wq              \* lock->wq

vars == <<pc, status, wlock, mlock, owner, wq>>

Locations == {"out", "spin", "try", "sched", "relock", "check", "cs", "unlock"}

\* mutex_init
Init ==
  /\ pc     = [t \in Threads |-> "out"]
  /\ status = [t \in Threads |-> "RUNNING"]
  /\ wlock  = NULL
  /\ mlock  = 0
  /\ owner  = NULL
  /\ wq     = <<>>

\* spin_lock_irqsave and spin_lock_irq: spin until the exchange finds 0.
spin_acquire(t, from, to) ==
  /\ pc[t] = from
  /\ wlock = NULL
  /\ wlock' = t
  /\ pc' = [pc EXCEPT ![t] = to]
  /\ UNCHANGED <<status, mlock, owner, wq>>

\* spin_unlock_irq and spin_unlock_irqrestore
spin_release(t, to) ==
  /\ wlock' = NULL
  /\ pc' = [pc EXCEPT ![t] = to]

InWq(t) == \E i \in 1 .. Len(wq) : wq[i] = t

\* mutant: list_add instead of list_add_tail
mutex_add_to_wq_head(t) == wq' = IF InWq(t) THEN wq ELSE <<t>> \o wq

\* An entry that is on the list already is not added again.
mutex_add_to_wq(t) == wq' = IF InWq(t) THEN wq ELSE Append(wq, t)

Without(s, i) ==
  [k \in 1 .. Len(s) - 1 |-> IF k < i THEN s[k] ELSE s[k + 1]]

mutex_remove_from_wq(t) ==
  wq' = IF InWq(t)
        THEN Without(wq, CHOOSE i \in 1 .. Len(wq) : wq[i] = t)
        ELSE wq

\* a thread calls mutex_lock
lock_call(t) ==
  /\ pc[t] = "out"
  /\ pc' = [pc EXCEPT ![t] = "spin"]
  /\ UNCHANGED <<status, wlock, mlock, owner, wq>>

lock_enter(t) == spin_acquire(t, "spin", "try")

\* mutex_lock when the exchange on mlock finds it free
lock_fast(t) ==
  /\ pc[t] = "try" /\ mlock = 0
  /\ mlock' = 1
  /\ owner' = t
  /\ spin_release(t, "cs")
  /\ UNCHANGED <<status, wq>>

\* mutex_lock when mlock is taken: the exchange writes 1 over 1
lock_wait(t) ==
  /\ pc[t] = "try" /\ mlock = 1
  /\ mutex_add_to_wq(t)
  /\ make_sleep(t)
  /\ spin_release(t, "sched")
  /\ UNCHANGED <<mlock, owner>>

\* schedule(): it returns once the thread has been picked again, which the
\* scheduler does only for a thread that is READY.
schedule(t) ==
  /\ pc[t] = "sched" /\ status[t] = "READY"
  /\ status' = [status EXCEPT ![t] = "RUNNING"]
  /\ pc' = [pc EXCEPT ![t] = "relock"]
  /\ UNCHANGED <<wlock, mlock, owner, wq>>

lock_again(t) == spin_acquire(t, "relock", "check")

\* back from schedule() as the owner: leave the queue
lock_granted(t) ==
  /\ pc[t] = "check" /\ owner = t
  /\ mutex_remove_from_wq(t)
  /\ spin_release(t, "cs")
  /\ UNCHANGED <<status, mlock, owner>>

\* back from schedule() for another reason: sleep again
lock_retry(t) ==
  /\ pc[t] = "check" /\ owner # t
  /\ mutex_add_to_wq(t)
  /\ make_sleep(t)
  /\ spin_release(t, "sched")
  /\ UNCHANGED <<mlock, owner>>

unlock_enter(t) == spin_acquire(t, "cs", "unlock")

unlock_free(t) ==
  /\ pc[t] = "unlock" /\ wq = <<>>
  /\ owner' = NULL
  /\ mlock' = 0
  /\ spin_release(t, "out")
  /\ UNCHANGED <<status, wq>>

unlock_pass(t) ==
  /\ pc[t] = "unlock" /\ wq # <<>>
  /\ owner' = Head(wq)
  /\ wake_up(Head(wq))
  /\ spin_release(t, "out")
  /\ UNCHANGED <<mlock, wq>>

\* wake_up is exported by sched.h and takes any thread: a sleeper may be woken
\* by code that knows nothing of the mutex.
stray_wake_up(t) ==
  /\ pc[t] = "sched" /\ status[t] = "BLOCKED"
  /\ wake_up(t)
  /\ UNCHANGED <<pc, wlock, mlock, owner, wq>>

Lock(t) ==
  \/ lock_call(t) \/ lock_enter(t) \/ lock_fast(t) \/ lock_wait(t)
  \/ schedule(t) \/ lock_again(t) \/ lock_granted(t) \/ lock_retry(t)

Unlock(t) == unlock_enter(t) \/ unlock_free(t) \/ unlock_pass(t)

Next == \E t \in Threads : Lock(t) \/ Unlock(t) \/ stray_wake_up(t)

Spec == Init /\ [][Next]_vars

\* A thread that can go on does: the scheduler is round robin and a holder
\* gives the mutex back.  The spinlock keeps no queue, so a thread that spins
\* gets through only if its exchange is not beaten by another one for ever
\* (strong fairness).  Nothing makes a thread call mutex_lock.
Fairness ==
  \A t \in Threads :
    /\ WF_vars(lock_fast(t) \/ lock_wait(t) \/ lock_granted(t) \/ lock_retry(t)
               \/ unlock_free(t) \/ unlock_pass(t) \/ schedule(t))
    /\ SF_vars(lock_enter(t))
    /\ SF_vars(lock_again(t))
    /\ SF_vars(unlock_enter(t))

FairSpec == Spec /\ Fairness
-----------------------------------------------------------------------------
TypeOK ==
  /\ pc \in [Threads -> Locations]
  /\ status \in [Threads -> Statuses]
  /\ wlock \in Threads \cup {NULL}
  /\ mlock \in {0, 1}
  /\ owner \in Threads \cup {NULL}
  /\ wq \in Seq(Threads)

\* Two threads are never both between mutex_lock's return and the end of
\* mutex_unlock, whatever wakes the sleepers.
MutualExclusion ==
  \A t, u \in Threads :
    pc[t] \in {"cs", "unlock"} /\ pc[u] \in {"cs", "unlock"} => t = u

\* No lost wake-up: a thread that mutex_unlock made the owner is never left
\* asleep in schedule(), however its own make_sleep and the waker interleave.
OwnerIsAwake ==
  \A t \in Threads :
    owner = t /\ pc[t] = "sched" => status[t] # "BLOCKED"

\* ASSERT(lock->owner == NULL) on the fast path of mutex_lock never fails.
FastPathAssert ==
  \A t \in Threads : pc[t] = "try" /\ mlock = 0 => owner = NULL

\* The waiters proper: a thread that has been made owner stays on wq until it
\* runs, but no longer waits.
Fifo ==
  INSTANCE FifoLock
    WITH NoThread <- NULL,
         holder <- owner,
         queue <- IF wq # <<>> /\ Head(wq) = owner THEN Tail(wq) ELSE wq

\* The mutex is passed on in the order in which threads queued, and a thread
\* that finds it free has overtaken nobody.
ImplementsFifoLock == Fifo!Spec

\* Every thread that calls mutex_lock gets the mutex.
LockIsGranted == \A t \in Threads : pc[t] = "spin" ~> pc[t] = "cs"
=============================================================================
