------------------------------ MODULE MCLocks ------------------------------
(***************************************************************************)
(* Instance of Mutex and Semaphore for TLC: three threads and one unit, so *)
(* that two threads can wait.  There is one lock of each kind, and a       *)
(* thread uses either of them, one at a time.                              *)
(***************************************************************************)
EXTENDS Mutex, Semaphore

CONSTANTS t1, t2, t3

MCThreads == {t1, t2, t3}

MCInit == Init /\ SemInit

OnMutex(A)     == A /\ UNCHANGED <<semlock, count, swq>>
OnSemaphore(A) == A /\ UNCHANGED <<wlock, mlock, owner, wq>>

MCNext == OnMutex(Next) \/ OnSemaphore(SemNext)

all == <<vars, semvars>>

\* Fairness and SemFairness, taken together thread by thread: a thread is in
\* the code of one lock.
MCFairness ==
  \A t \in Threads :
    /\ WF_all(\/ OnSemaphore(\/ down_take(t) \/ down_wait(t) \/ sem_schedule(t)
                             \/ down_granted(t) \/ up_count(t) \/ up_pass(t))
              \/ OnMutex(\/ lock_fast(t) \/ lock_wait(t) \/ schedule(t)
                         \/ lock_granted(t) \/ lock_retry(t)
                         \/ unlock_free(t) \/ unlock_pass(t)))
    /\ SF_all(OnSemaphore(down_enter(t)) \/ OnMutex(lock_enter(t)))
    /\ SF_all(OnSemaphore(down_again(t)) \/ OnMutex(lock_again(t)))
    /\ SF_all(OnSemaphore(up_enter(t)) \/ OnMutex(unlock_enter(t)))

MCSpec == MCInit /\ [][MCNext]_all /\ MCFairness
=============================================================================
