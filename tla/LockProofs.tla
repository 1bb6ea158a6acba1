---------------------------- MODULE LockProofs ----------------------------
(***************************************************************************)
(* Proofs about the sleeping locks: Mutex, for every set of threads, and   *)
(* Semaphore, for every finite set of threads and every initial count.     *)
(***************************************************************************)
EXTENDS Mutex, Semaphore, SequenceTheorems, FiniteSetTheorems, TLAPS
-----------------------------------------------------------------------------
(* The mutex.                                                              *)

InCS(t)     == pc[t] \in {"cs", "unlock"}
HasSpin(t)  == pc[t] \in {"try", "check", "unlock"}
IsWaiter(t) == pc[t] \in {"sched", "relock", "check"}

\* A thread that owns the mutex without being inside is the first on the queue
\* and is not asleep.
Passed(t) ==
  /\ wq # <<>> /\ wq[1] = t
  /\ pc[t] = "sched" => status[t] # "BLOCKED"

\* The inductive invariant: the spinlock, mlock, owner and the queue each
\* agree with where the threads are.
IInv ==
  /\ TypeOK
  /\ mlock = 0 <=> owner = NULL
  /\ wq # <<>> => mlock = 1
  /\ \A t \in Threads : InCS(t) => owner = t
  /\ \A t \in Threads : HasSpin(t) <=> wlock = t
  /\ \A t \in Threads : IsWaiter(t) <=> InWq(t)
  /\ \A i, j \in 1 .. Len(wq) : wq[i] = wq[j] => i = j
  /\ \A t \in Threads : owner = t /\ ~ InCS(t) => Passed(t)

\* list_del of the first entry leaves the tail of the list.
LEMMA WithoutFirst ==
  ASSUME NEW S, NEW s \in Seq(S), s # <<>>
  PROVE  Without(s, 1) = Tail(s)
<1> DEFINE n == Len(s) - 1
           w == Without(s, 1)
<1>1. Len(s) \in Nat \ {0} /\ n \in Nat
  BY EmptySeq, LenProperties
<1>2. \A k \in 1 .. n : s[k + 1] \in S
  BY <1>1, ElementOfSeq
<1>3. w = [k \in 1 .. n |-> s[k + 1]]
  BY <1>1 DEF Without
<1>4. w \in [1 .. n -> S]
  BY <1>2, <1>3
<1>5. w \in Seq(S) /\ Len(w) = n
  BY <1>1, <1>4
<1>6. /\ Tail(s) \in Seq(S)
      /\ Len(Tail(s)) = n
      /\ \A k \in 1 .. n : Tail(s)[k] = s[k + 1]
  BY HeadTailProperties
<1> QED
  BY <1>3, <1>5, <1>6, SeqEqual

\* The mutex starts free.
LEMMA InitIInv == Init => IInv
BY NullAssumption DEF Init, IInv, TypeOK, Locations, Statuses, InCS, HasSpin,
  IsWaiter, InWq, Passed

\* The actions that only move the spinlock or a thread between locations.
LEMMA SpinIInv ==
  ASSUME IInv, NEW t \in Threads,
         lock_call(t) \/ lock_enter(t) \/ lock_again(t) \/ unlock_enter(t)
  PROVE  IInv'
<1>1. \A u \in Threads : u # NULL
  BY NullAssumption
<1>2. CASE lock_call(t)
  BY <1>1, <1>2 DEF IInv, TypeOK, lock_call, Locations, InCS, HasSpin,
    IsWaiter, InWq, Passed
<1>3. CASE lock_enter(t)
  BY <1>1, <1>3 DEF IInv, TypeOK, lock_enter, spin_acquire, Locations, InCS,
    HasSpin, IsWaiter, InWq, Passed
<1>4. CASE lock_again(t)
  BY <1>1, <1>4 DEF IInv, TypeOK, lock_again, spin_acquire, Locations, InCS,
    HasSpin, IsWaiter, InWq, Passed
<1>5. CASE unlock_enter(t)
  BY <1>1, <1>5 DEF IInv, TypeOK, unlock_enter, spin_acquire, Locations, InCS,
    HasSpin, IsWaiter, InWq, Passed
<1> QED
  BY <1>2, <1>3, <1>4, <1>5

\* mutex_lock finds the mutex free.
LEMMA FastIInv ==
  ASSUME IInv, NEW t \in Threads, lock_fast(t)
  PROVE  IInv'
<1>1. \A u \in Threads : u # NULL
  BY NullAssumption
<1>2. wq = <<>> /\ wq' = <<>>
  BY DEF lock_fast, IInv
<1>3. owner = NULL /\ \A u \in Threads : ~ InCS(u)
  BY <1>1 DEF IInv, lock_fast
<1>4. pc' = [pc EXCEPT ![t] = "cs"] /\ wlock' = NULL
  BY DEF lock_fast, spin_release
<1> QED
  BY <1>1, <1>2, <1>3, <1>4 DEF IInv, TypeOK, lock_fast, Locations, InCS,
    HasSpin, IsWaiter, InWq, Passed

\* mutex_lock finds the mutex taken and queues.
LEMMA WaitIInv ==
  ASSUME IInv, NEW t \in Threads, lock_wait(t)
  PROVE  IInv'
<1>1. \A u \in Threads : u # NULL
  BY NullAssumption
<1>2. ~ InWq(t) /\ ~ InCS(t) /\ owner # t
  BY DEF lock_wait, IInv, InCS, IsWaiter, Passed, InWq, TypeOK
<1>3. wq' = Append(wq, t)
  BY <1>2 DEF lock_wait, mutex_add_to_wq
<1>4. /\ wq \in Seq(Threads) /\ wq' \in Seq(Threads) /\ wq' # <<>>
      /\ Len(wq) \in Nat /\ Len(wq') = Len(wq) + 1
      /\ \A i \in 1 .. Len(wq) : wq'[i] = wq[i]
      /\ wq'[Len(wq) + 1] = t
  BY <1>3, AppendProperties DEF IInv, TypeOK
<1>5. pc' = [pc EXCEPT ![t] = "sched"] /\ wlock' = NULL
  BY DEF lock_wait, spin_release
<1>6. \A u \in Threads : InWq(u)' <=> InWq(u) \/ u = t
  BY <1>4 DEF InWq
<1>7. TypeOK'
  BY <1>4, <1>5 DEF IInv, TypeOK, lock_wait, make_sleep, Locations, Statuses
<1>8. \A i, j \in 1 .. Len(wq') : wq'[i] = wq'[j] => i = j
  BY <1>2, <1>4 DEF IInv, InWq
<1>9. \A u \in Threads : /\ InCS(u)' => owner' = u
                         /\ HasSpin(u)' <=> wlock' = u
                         /\ IsWaiter(u)' <=> InWq(u)'
  BY <1>1, <1>5, <1>6 DEF IInv, TypeOK, InCS, HasSpin, IsWaiter, lock_wait
<1>10. ASSUME NEW u \in Threads, owner' = u, ~ InCS(u)'
       PROVE  Passed(u)'
  <2>1. u # t /\ owner = u /\ ~ InCS(u)
    BY <1>2, <1>5, <1>10 DEF lock_wait, InCS, IInv, TypeOK
  <2>2. Passed(u) /\ wq'[1] = wq[1]
    BY <1>4, <2>1 DEF IInv, Passed
  <2> QED
    BY <1>4, <1>5, <2>1, <2>2 DEF Passed, lock_wait, make_sleep, IInv, TypeOK
<1> QED
  BY <1>7, <1>8, <1>9, <1>10 DEF IInv, lock_wait

\* schedule() returns, or something else wakes a sleeper.
LEMMA WakeIInv ==
  ASSUME IInv, NEW t \in Threads, schedule(t) \/ stray_wake_up(t)
  PROVE  IInv'
<1>1. CASE schedule(t)
  BY <1>1 DEF IInv, TypeOK, schedule, Locations, Statuses, InCS, HasSpin,
    IsWaiter, InWq, Passed
<1>2. CASE stray_wake_up(t)
  BY <1>2 DEF IInv, TypeOK, stray_wake_up, wake_up, Locations, Statuses, InCS,
    HasSpin, IsWaiter, InWq, Passed
<1> QED
  BY <1>1, <1>2

\* A thread that finds itself the owner is the first on the queue: it leaves
\* the tail behind.
LEMMA GrantedTail ==
  ASSUME IInv, NEW t \in Threads, lock_granted(t)
  PROVE  wq # <<>> /\ wq[1] = t /\ wq' = Tail(wq)
<1>1. wq # <<>> /\ wq[1] = t
  BY DEF lock_granted, IInv, InCS, Passed
<1>2. 1 \in 1 .. Len(wq)
  BY <1>1, EmptySeq DEF IInv, TypeOK
<1>3. InWq(t)
  BY <1>1, <1>2 DEF InWq
<1>4. (CHOOSE i \in 1 .. Len(wq) : wq[i] = t) = 1
  BY <1>1, <1>2 DEF IInv
<1>5. wq' = Without(wq, 1)
  BY <1>3, <1>4 DEF lock_granted, mutex_remove_from_wq
<1> QED
  BY <1>1, <1>5, WithoutFirst DEF IInv, TypeOK

\* The thread that was passed the mutex leaves the queue.
LEMMA GrantedIInv ==
  ASSUME IInv, NEW t \in Threads, lock_granted(t)
  PROVE  IInv'
<1>1. \A u \in Threads : u # NULL
  BY NullAssumption
<1>2. wq # <<>> /\ wq[1] = t /\ wq' = Tail(wq)
  BY GrantedTail
<1>3. /\ wq \in Seq(Threads) /\ wq' \in Seq(Threads)
      /\ Len(wq) \in Nat \ {0} /\ Len(wq') = Len(wq) - 1
      /\ \A i \in 1 .. Len(wq') : wq'[i] = wq[i + 1]
  BY <1>2, HeadTailProperties, EmptySeq DEF IInv, TypeOK
<1>4. pc' = [pc EXCEPT ![t] = "cs"] /\ wlock' = NULL
  BY DEF lock_granted, spin_release
<1>5. \A u \in Threads : InWq(u)' <=> InWq(u) /\ u # t
  <2> TAKE u \in Threads
  <2>1. ASSUME InWq(u)' PROVE InWq(u) /\ u # t
    <3>1. PICK i \in 1 .. Len(wq') : wq'[i] = u
      BY <2>1 DEF InWq
    <3>2. i + 1 \in 1 .. Len(wq) /\ wq[i + 1] = u /\ i + 1 # 1
      BY <1>3, <3>1
    <3>3. 1 \in 1 .. Len(wq)
      BY <1>3
    <3> QED
      BY <1>2, <3>2, <3>3 DEF InWq, IInv
  <2>2. ASSUME InWq(u), u # t PROVE InWq(u)'
    <3>1. PICK i \in 1 .. Len(wq) : wq[i] = u
      BY <2>2 DEF InWq
    <3>2. i # 1
      BY <1>2, <2>2, <3>1
    <3>3. i - 1 \in 1 .. Len(wq') /\ wq'[i - 1] = u
      BY <1>3, <3>1, <3>2
    <3> QED
      BY <3>3 DEF InWq
  <2> QED
    BY <2>1, <2>2
<1>6. TypeOK'
  BY <1>3, <1>4 DEF IInv, TypeOK, lock_granted, Locations
<1>7. \A i, j \in 1 .. Len(wq') : wq'[i] = wq'[j] => i = j
  BY <1>3 DEF IInv
<1>8. \A u \in Threads : /\ InCS(u)' => owner' = u
                         /\ HasSpin(u)' <=> wlock' = u
                         /\ IsWaiter(u)' <=> InWq(u)'
                         /\ owner' = u => InCS(u)'
  BY <1>1, <1>4, <1>5 DEF IInv, TypeOK, InCS, HasSpin, IsWaiter, lock_granted
<1> QED
  BY <1>2, <1>6, <1>7, <1>8 DEF IInv, lock_granted

\* A thread woken without being the owner goes back to sleep; it cannot have
\* been handed the mutex in between, because it holds the spinlock.
LEMMA RetryIInv ==
  ASSUME IInv, NEW t \in Threads, lock_retry(t)
  PROVE  IInv'
<1>1. \A u \in Threads : u # NULL
  BY NullAssumption
<1>2. wq' = wq
  BY DEF lock_retry, mutex_add_to_wq, IInv, IsWaiter
<1>3. pc' = [pc EXCEPT ![t] = "sched"] /\ wlock' = NULL
  BY DEF lock_retry, spin_release
<1> QED
  BY <1>1, <1>2, <1>3 DEF IInv, TypeOK, lock_retry, make_sleep, Locations,
    Statuses, InCS, HasSpin, IsWaiter, InWq, Passed

\* mutex_unlock without waiters.
LEMMA FreeIInv ==
  ASSUME IInv, NEW t \in Threads, unlock_free(t)
  PROVE  IInv'
<1>1. \A u \in Threads : u # NULL
  BY NullAssumption
<1>2. pc' = [pc EXCEPT ![t] = "out"] /\ wlock' = NULL
  BY DEF unlock_free, spin_release
<1>3. \A u \in Threads : ~ InCS(u)'
  BY <1>2 DEF IInv, TypeOK, InCS, unlock_free
<1> QED
  BY <1>1, <1>2, <1>3 DEF IInv, TypeOK, unlock_free, Locations, InCS, HasSpin,
    IsWaiter, InWq, Passed

\* The thread that gets the mutex is the first on the queue and is awake
\* afterwards.
LEMMA PassIInv ==
  ASSUME IInv, NEW t \in Threads, unlock_pass(t)
  PROVE  IInv'
<1>1. \A u \in Threads : u # NULL
  BY NullAssumption
<1>2. PICK p \in Threads : p = Head(wq) /\ p = wq[1] /\ 1 \in 1 .. Len(wq)
  BY HeadTailProperties, EmptySeq DEF IInv, TypeOK, unlock_pass
<1>3. IsWaiter(p) /\ p # t
  BY <1>2 DEF IInv, InWq, IsWaiter, unlock_pass
<1>4. /\ pc' = [pc EXCEPT ![t] = "out"] /\ wlock' = NULL
      /\ owner' = p /\ wq' = wq /\ mlock' = mlock
      /\ status' = [status EXCEPT ![p] = IF @ = "BLOCKED" THEN "READY" ELSE @]
  BY <1>2 DEF unlock_pass, spin_release, wake_up
<1>5. \A u \in Threads : ~ InCS(u)'
  BY <1>4 DEF IInv, TypeOK, InCS, unlock_pass
<1>6. TypeOK'
  BY <1>2, <1>4 DEF IInv, TypeOK, Locations, Statuses
<1>7. Passed(p)'
  BY <1>2, <1>4 DEF Passed, IInv, TypeOK, unlock_pass
<1>8. \A u \in Threads : /\ HasSpin(u)' <=> wlock' = u
                         /\ IsWaiter(u)' <=> InWq(u)'
  BY <1>1, <1>4 DEF IInv, TypeOK, HasSpin, IsWaiter, InWq, unlock_pass
<1>9. mlock = 1
  BY DEF IInv, unlock_pass
<1> QED
  BY <1>1, <1>2, <1>4, <1>5, <1>6, <1>7, <1>8, <1>9 DEF IInv

\* Every step of the mutex keeps the invariant.
LEMMA Invariance == Spec => []IInv
<1>1. IInv /\ [Next]_vars => IInv'
  <2> SUFFICES ASSUME IInv, [Next]_vars PROVE IInv'
    OBVIOUS
  <2>1. ASSUME NEW t \in Threads, Lock(t) PROVE IInv'
    BY <2>1, SpinIInv, FastIInv, WaitIInv, WakeIInv, GrantedIInv, RetryIInv
      DEF Lock
  <2>2. ASSUME NEW t \in Threads, Unlock(t) PROVE IInv'
    BY <2>2, SpinIInv, FreeIInv, PassIInv DEF Unlock
  <2>3. ASSUME NEW t \in Threads, stray_wake_up(t) PROVE IInv'
    BY <2>3, WakeIInv
  <2>4. CASE UNCHANGED vars
    BY <2>4 DEF vars, IInv, TypeOK, InCS, HasSpin, IsWaiter, InWq, Passed
  <2> QED
    BY <2>1, <2>2, <2>3, <2>4 DEF Next
<1> QED
  BY <1>1, InitIInv, PTL DEF Spec

\* Every variable of the mutex keeps its type.
THEOREM TypeCorrect == Spec => []TypeOK
<1>1. IInv => TypeOK
  BY DEF IInv
<1> QED
  BY <1>1, Invariance, PTL

\* The mutex excludes, for every number of threads and any stray wake-up.
THEOREM MutexExcludes == Spec => []MutualExclusion
<1>1. IInv => MutualExclusion
  BY DEF IInv, MutualExclusion, InCS
<1> QED
  BY <1>1, Invariance, PTL

\* A hand-off is never lost: the new owner is never left asleep.
THEOREM NoLostWakeUp == Spec => []OwnerIsAwake
<1>1. IInv => OwnerIsAwake
  BY DEF IInv, OwnerIsAwake, InCS, Passed
<1> QED
  BY <1>1, Invariance, PTL

\* The assertion on the fast path of mutex_lock never fails.
THEOREM FastPathAssertHolds == Spec => []FastPathAssert
<1>1. IInv => FastPathAssert
  BY DEF IInv, FastPathAssert
<1> QED
  BY <1>1, Invariance, PTL
-----------------------------------------------------------------------------
(* The refinement of FifoLock.                                             *)

waiters == IF wq # <<>> /\ Head(wq) = owner THEN Tail(wq) ELSE wq

\* The thread that is woken is the first of the queue.
LEMMA HeadIsFirst ==
  ASSUME IInv, wq # <<>>
  PROVE  Head(wq) = wq[1] /\ Head(wq) \in Threads /\ 1 \in 1 .. Len(wq)
BY HeadTailProperties, EmptySeq DEF IInv, TypeOK

\* A thread that queues itself enters the abstract queue.
LEMMA WaitRefines ==
  ASSUME IInv, NEW t \in Threads, lock_wait(t)
  PROVE  Fifo!Enqueue(t)
<1>1. ~ InWq(t) /\ owner # t /\ owner # NULL
  BY DEF lock_wait, IInv, InCS, IsWaiter, Passed, InWq, TypeOK
<1>2. wq' = Append(wq, t) /\ owner' = owner
  BY <1>1 DEF lock_wait, mutex_add_to_wq
<1>3. wq \in Seq(Threads)
  BY DEF IInv, TypeOK
<1>4. /\ Head(wq') = IF wq = <<>> THEN t ELSE Head(wq)
      /\ Tail(wq') = IF wq = <<>> THEN <<>> ELSE Append(Tail(wq), t)
  BY <1>2, <1>3, HeadTailAppend
<1>5. wq' # <<>>
  BY <1>2, <1>3, AppendProperties
<1>6. waiters' = Append(waiters, t)
  BY <1>1, <1>2, <1>4, <1>5 DEF waiters
<1>7. \A i \in 1 .. Len(waiters) : waiters[i] # t
  <2>1. CASE wq # <<>> /\ Head(wq) = owner
    <3>1. \A i \in 1 .. Len(Tail(wq)) : i + 1 \in 1 .. Len(wq) /\ Tail(wq)[i] = wq[i + 1]
      BY <1>3, <2>1, HeadTailProperties, LenProperties
    <3> QED
      BY <1>1, <2>1, <3>1 DEF waiters, InWq
  <2>2. CASE ~ (wq # <<>> /\ Head(wq) = owner)
    BY <1>1, <2>2 DEF waiters, InWq
  <2> QED
    BY <2>1, <2>2
<1> QED
  BY <1>1, <1>2, <1>6, <1>7 DEF Fifo!Enqueue, Fifo!Waiting, waiters

\* mutex_lock of a free mutex takes the abstract lock.
LEMMA FastRefines ==
  ASSUME IInv, NEW t \in Threads, lock_fast(t)
  PROVE  Fifo!Take(t)
<1>1. wq = <<>> /\ wq' = <<>> /\ owner = NULL /\ owner' = t
  BY DEF lock_fast, IInv
<1> QED
  BY <1>1 DEF Fifo!Take

\* mutex_unlock with waiters grants the abstract lock to the first of them.
LEMMA PassRefines ==
  ASSUME IInv, NEW t \in Threads, unlock_pass(t)
  PROVE  Fifo!Release(t)
<1>1. wq # <<>> /\ wq' = wq /\ owner' = Head(wq) /\ owner = t
  BY DEF unlock_pass, IInv, InCS
<1>2. Head(wq) # t
  BY <1>1, HeadIsFirst DEF IInv, InWq, IsWaiter, unlock_pass
<1> QED
  BY <1>1, <1>2 DEF Fifo!Release

\* mutex_unlock without waiters frees the abstract lock.
LEMMA FreeRefines ==
  ASSUME IInv, NEW t \in Threads, unlock_free(t)
  PROVE  Fifo!Release(t)
<1>1. wq = <<>> /\ wq' = <<>> /\ owner' = NULL /\ owner = t
  BY DEF unlock_free, IInv, InCS
<1> QED
  BY <1>1 DEF Fifo!Release

\* A thread that leaves the queue as the owner was no longer waiting.
LEMMA GrantedRefines ==
  ASSUME IInv, NEW t \in Threads, lock_granted(t)
  PROVE  owner' = owner /\ waiters' = waiters
<1>1. wq # <<>> /\ wq[1] = t /\ wq' = Tail(wq) /\ owner = t /\ owner' = owner
  BY GrantedTail DEF lock_granted
<1>2. Head(wq) = t /\ 1 \in 1 .. Len(wq)
  BY <1>1, HeadIsFirst
<1>3. wq' # <<>> => Head(wq') # t
  <2> SUFFICES ASSUME wq' # <<>> PROVE Head(wq') # t
    OBVIOUS
  <2>1. Tail(wq) \in Seq(Threads) /\ Len(Tail(wq)) = Len(wq) - 1
        /\ Len(Tail(wq)) \in Nat \ {0}
    BY <1>1, HeadTailProperties, EmptySeq DEF IInv, TypeOK
  <2>2. Head(wq') = Tail(wq)[1] /\ Tail(wq)[1] = wq[2] /\ 2 \in 1 .. Len(wq)
    BY <1>1, <2>1, HeadTailProperties DEF IInv, TypeOK
  <2> QED
    BY <1>1, <1>2, <2>2 DEF IInv
<1> QED
  BY <1>1, <1>2, <1>3 DEF waiters

\* The mutex implements the first-come first-served lock.
THEOREM Refinement == Spec => ImplementsFifoLock
<1>1. Init => Fifo!Init
  BY DEF Init, Fifo!Init
<1>2. IInv /\ [Next]_vars => [Fifo!Next]_<<owner, waiters>>
  <2> SUFFICES ASSUME IInv, [Next]_vars
               PROVE  Fifo!Next \/ (owner' = owner /\ waiters' = waiters)
    OBVIOUS
  <2>1. ASSUME NEW t \in Threads,
               \/ lock_call(t) \/ lock_enter(t) \/ lock_again(t)
               \/ unlock_enter(t) \/ schedule(t) \/ stray_wake_up(t)
        PROVE  owner' = owner /\ waiters' = waiters
    BY <2>1 DEF lock_call, lock_enter, lock_again, unlock_enter, spin_acquire,
      schedule, stray_wake_up, waiters
  <2>2. ASSUME NEW t \in Threads, lock_retry(t)
        PROVE  owner' = owner /\ waiters' = waiters
    <3>1. owner' = owner /\ wq' = wq
      BY <2>2 DEF lock_retry, mutex_add_to_wq, IInv, IsWaiter
    <3> QED
      BY <3>1 DEF waiters
  <2>3. CASE UNCHANGED vars
    BY <2>3 DEF vars, waiters
  <2> QED
    BY <2>1, <2>2, <2>3, WaitRefines, FastRefines, PassRefines, FreeRefines,
      GrantedRefines DEF Next, Lock, Unlock, Fifo!Next
<1> QED
  BY <1>1, <1>2, Invariance, PTL
    DEF Spec, ImplementsFifoLock, Fifo!Spec, waiters

-----------------------------------------------------------------------------
(* The semaphore.                                                          *)

HasSemlock(t) == pc[t] \in {"down", "woken", "up"}

\* What ties the queue, the statuses and the locations together.
SemShape ==
  /\ \A t \in Threads : HasSemlock(t) <=> semlock = t
  /\ \A t \in Threads : InSwq(t) => pc[t] = "down_sched" /\ status[t] = "BLOCKED"
  /\ \A t \in Threads : pc[t] = "down_sched" /\ ~ InSwq(t) => status[t] # "BLOCKED"
  /\ \A i, j \in 1 .. Len(swq) : swq[i] = swq[j] => i = j
  /\ swq # <<>> => count = 0

SemTypes ==
  /\ pc \in [Threads -> SemLocations]
  /\ status \in [Threads -> Statuses]
  /\ semlock \in Threads \cup {NULL}
  /\ count \in Nat
  /\ swq \in Seq(Threads)

\* The inductive invariant.
SemIInv == SemTypes /\ SemShape /\ UnitsConserved

\* The threads that hold a unit can be counted.
LEMMA HoldersFinite ==
  /\ IsFiniteSet(Holders) /\ Cardinality(Holders) \in Nat
  /\ IsFiniteSet(Holders') /\ Cardinality(Holders') \in Nat
<1>1. Holders \subseteq Threads /\ Holders' \subseteq Threads
  BY DEF Holders
<1> QED BY <1>1, FiniteThreads, FS_Subset, FS_CardinalityType

\* The semaphore starts with all its units.
LEMMA SemInitIInv == SemInit => SemIInv
<1> SUFFICES ASSUME SemInit PROVE SemIInv
  OBVIOUS
<1>1. SemTypes /\ SemShape
  BY NullAssumption, UnitsAssumption DEF SemInit, SemTypes, SemShape, SemLocations, Statuses,
    HasSemlock, InSwq
<1>2. Holders = {}
  BY DEF SemInit, Holders, Granted
<1> QED
  BY <1>1, <1>2, FS_EmptySet, UnitsAssumption DEF SemInit, SemIInv, UnitsConserved

\* The actions that only move the spinlock or a thread between locations.
LEMMA SemMoveIInv ==
  ASSUME SemIInv, NEW t \in Threads,
         \/ down_call(t) \/ down_enter(t) \/ sem_schedule(t) \/ down_again(t)
         \/ down_granted(t) \/ up_enter(t)
  PROVE  SemIInv'
<1>1. \A u \in Threads : u # NULL
  BY NullAssumption
<1>2. swq' = swq /\ count' = count /\ \A u \in Threads : InSwq(u)' <=> InSwq(u)
  BY DEF down_call, down_enter, sem_schedule, down_again, down_granted, up_enter,
    sem_acquire, InSwq
<1>3. SemTypes'
  BY <1>2 DEF SemIInv, SemTypes, SemLocations, Statuses, down_call, down_enter, sem_schedule,
    down_again, down_granted, up_enter, sem_acquire, sem_release
<1>4. SemShape'
  BY <1>1, <1>2 DEF SemIInv, SemTypes, SemShape, HasSemlock, down_call, down_enter, sem_schedule,
    down_again, down_granted, up_enter, sem_acquire, sem_release
<1>5. Holders' = Holders
  <2>1. \A u \in Threads : /\ pc'[u] \in {"in", "up"} \/ Granted(u)'
                              <=> pc[u] \in {"in", "up"} \/ Granted(u)
    BY <1>2 DEF SemIInv, SemTypes, SemShape, Granted, down_call, down_enter, sem_schedule,
      down_again, down_granted, up_enter, sem_acquire, sem_release
  <2> QED BY <2>1 DEF Holders
<1> QED BY <1>2, <1>3, <1>4, <1>5 DEF SemIInv, UnitsConserved

\* sem_down takes a unit from the count.
LEMMA SemTakeIInv ==
  ASSUME SemIInv, NEW t \in Threads, down_take(t)
  PROVE  SemIInv'
<1>1. \A u \in Threads : u # NULL
  BY NullAssumption
<1>2. /\ swq' = swq /\ status' = status /\ count' = count - 1 /\ count' \in Nat
      /\ pc' = [pc EXCEPT ![t] = "in"] /\ semlock' = NULL /\ pc[t] = "down"
      /\ swq = <<>>
  BY DEF SemIInv, SemTypes, SemShape, down_take, sem_release
<1>3. \A u \in Threads : ~ InSwq(u) /\ ~ InSwq(u)'
  BY <1>2 DEF InSwq
<1>4. SemTypes' /\ SemShape'
  BY <1>1, <1>2, <1>3 DEF SemIInv, SemTypes, SemShape, SemLocations, HasSemlock
<1>5. Holders' = Holders \cup {t} /\ t \notin Holders
  BY <1>2, <1>3 DEF SemIInv, SemTypes, Holders, Granted
<1>6. Cardinality(Holders') = Cardinality(Holders) + 1
  BY <1>5, HoldersFinite, FS_AddElement
<1> QED
  BY <1>2, <1>4, <1>6, HoldersFinite, UnitsAssumption DEF SemIInv, SemTypes, UnitsConserved

\* sem_down finds no unit and queues.
LEMMA SemWaitIInv ==
  ASSUME SemIInv, NEW t \in Threads, down_wait(t)
  PROVE  SemIInv'
<1>1. \A u \in Threads : u # NULL
  BY NullAssumption
<1>2. ~ InSwq(t) /\ pc[t] = "down" /\ count = 0 /\ count' = 0
  BY DEF down_wait, SemIInv, SemShape
<1>3. swq' = Append(swq, t)
  BY <1>2 DEF down_wait, sem_add_to_wq
<1>4. /\ swq \in Seq(Threads) /\ swq' \in Seq(Threads)
      /\ Len(swq) \in Nat /\ Len(swq') = Len(swq) + 1
      /\ \A i \in 1 .. Len(swq) : swq'[i] = swq[i]
      /\ swq'[Len(swq) + 1] = t
  BY <1>3, AppendProperties DEF SemIInv, SemTypes
<1>5. /\ pc' = [pc EXCEPT ![t] = "down_sched"] /\ semlock' = NULL
      /\ status' = [status EXCEPT ![t] = "BLOCKED"]
  BY DEF down_wait, sem_release, make_sleep
<1>6. \A u \in Threads : InSwq(u)' <=> InSwq(u) \/ u = t
  BY <1>4 DEF InSwq
<1>7. SemTypes'
  BY <1>2, <1>4, <1>5 DEF SemIInv, SemTypes, SemLocations, Statuses
<1>8. \A i, j \in 1 .. Len(swq') : swq'[i] = swq'[j] => i = j
  BY <1>2, <1>4 DEF SemIInv, SemShape, InSwq
<1>9. SemShape'
  BY <1>1, <1>2, <1>5, <1>6, <1>8 DEF SemIInv, SemTypes, SemShape, HasSemlock
<1>10. Holders' = Holders
  <2>1. \A u \in Threads : /\ pc'[u] \in {"in", "up"} \/ Granted(u)'
                              <=> pc[u] \in {"in", "up"} \/ Granted(u)
    BY <1>2, <1>5, <1>6 DEF SemIInv, SemTypes, Granted
  <2> QED BY <2>1 DEF Holders
<1> QED BY <1>2, <1>7, <1>9, <1>10 DEF SemIInv, UnitsConserved

\* sem_up with nobody waiting gives the unit back to the count.
LEMMA SemCountIInv ==
  ASSUME SemIInv, NEW t \in Threads, up_count(t)
  PROVE  SemIInv'
<1>1. \A u \in Threads : u # NULL
  BY NullAssumption
<1>2. /\ swq' = <<>> /\ swq = <<>> /\ status' = status /\ count' = count + 1
      /\ pc' = [pc EXCEPT ![t] = "out"] /\ semlock' = NULL /\ pc[t] = "up"
  BY DEF up_count, sem_release
<1>3. \A u \in Threads : ~ InSwq(u) /\ ~ InSwq(u)'
  BY <1>2 DEF InSwq
<1>4. SemTypes' /\ SemShape'
  BY <1>1, <1>2, <1>3 DEF SemIInv, SemTypes, SemShape, SemLocations, HasSemlock
<1>5. Holders' = Holders \ {t} /\ t \in Holders
  BY <1>2, <1>3 DEF SemIInv, SemTypes, Holders, Granted
<1>6. Cardinality(Holders') = Cardinality(Holders) - 1
  BY <1>5, HoldersFinite, FS_RemoveElement
<1> QED
  BY <1>2, <1>4, <1>6, HoldersFinite, UnitsAssumption DEF SemIInv, SemTypes, UnitsConserved

\* __sem_up: the first waiter p leaves the queue awake and with t's unit.
LEMMA SemPassIInv ==
  ASSUME SemIInv, NEW t \in Threads, up_pass(t)
  PROVE  SemIInv'
<1>1. \A u \in Threads : u # NULL
  BY NullAssumption
<1>2. /\ swq \in Seq(Threads) /\ swq' \in Seq(Threads) /\ swq # <<>>
      /\ Len(swq) \in Nat \ {0} /\ Len(swq') = Len(swq) - 1
      /\ \A i \in 1 .. Len(swq') : swq'[i] = swq[i + 1]
  BY HeadTailProperties, EmptySeq DEF SemIInv, SemTypes, up_pass, sem_remove_first
<1>3. PICK p \in Threads : p = Head(swq) /\ p = swq[1] /\ 1 \in 1 .. Len(swq)
  BY <1>2, HeadTailProperties
<1>4. InSwq(p) /\ pc[p] = "down_sched" /\ status[p] = "BLOCKED"
  BY <1>3 DEF SemIInv, SemShape, InSwq
<1>5. /\ pc' = [pc EXCEPT ![t] = "out"] /\ semlock' = NULL /\ count' = count
      /\ status' = [status EXCEPT ![p] = "READY"] /\ pc[t] = "up" /\ p # t
  BY <1>3, <1>4 DEF up_pass, sem_release, wake_up, SemIInv, SemTypes
<1>6. \A u \in Threads : InSwq(u)' <=> InSwq(u) /\ u # p
  <2> TAKE u \in Threads
  <2>1. ASSUME InSwq(u)' PROVE InSwq(u) /\ u # p
    <3>1. PICK i \in 1 .. Len(swq') : swq'[i] = u
      BY <2>1 DEF InSwq
    <3>2. i + 1 \in 1 .. Len(swq) /\ swq[i + 1] = u /\ i + 1 # 1
      BY <1>2, <3>1
    <3> QED BY <1>3, <3>2 DEF InSwq, SemIInv, SemShape
  <2>2. ASSUME InSwq(u), u # p PROVE InSwq(u)'
    <3>1. PICK i \in 1 .. Len(swq) : swq[i] = u
      BY <2>2 DEF InSwq
    <3>2. i - 1 \in 1 .. Len(swq') /\ swq'[i - 1] = u
      BY <1>2, <1>3, <2>2, <3>1
    <3> QED BY <3>2 DEF InSwq
  <2> QED BY <2>1, <2>2
<1>7. SemTypes'
  BY <1>2, <1>5 DEF SemIInv, SemTypes, SemLocations, Statuses
<1>8. \A i, j \in 1 .. Len(swq') : swq'[i] = swq'[j] => i = j
  <2>1. \A i, j \in 1 .. Len(swq) : swq[i] = swq[j] => i = j
    BY DEF SemIInv, SemShape
  <2>2. \A i \in 1 .. Len(swq') : i \in Int /\ i + 1 \in 1 .. Len(swq)
    BY <1>2
  <2> QED BY <1>2, <2>1, <2>2
<1>9. SemShape'
  <2>1. \A u \in Threads : HasSemlock(u)' <=> semlock' = u
    BY <1>1, <1>5 DEF SemIInv, SemTypes, SemShape, HasSemlock
  <2>2. \A u \in Threads : InSwq(u)' => pc'[u] = "down_sched" /\ status'[u] = "BLOCKED"
    BY <1>5, <1>6 DEF SemIInv, SemTypes, SemShape
  <2>3. \A u \in Threads : pc'[u] = "down_sched" /\ ~ InSwq(u)' => status'[u] # "BLOCKED"
    BY <1>4, <1>5, <1>6 DEF SemIInv, SemTypes, SemShape
  <2>4. count' = 0
    BY <1>2, <1>5 DEF SemIInv, SemShape
  <2> QED BY <1>8, <2>1, <2>2, <2>3, <2>4 DEF SemShape
<1>10. /\ Holders' = (Holders \ {t}) \cup {p}
       /\ t \in Holders /\ p \notin Holders
  <2>1. \A u \in Threads \ {p, t} :
          /\ pc'[u] \in {"in", "up"} \/ Granted(u)'
             <=> pc[u] \in {"in", "up"} \/ Granted(u)
    BY <1>5, <1>6 DEF SemIInv, SemTypes, Granted
  <2>2. /\ Granted(p)' /\ ~ Granted(p) /\ pc[p] \notin {"in", "up"}
        /\ ~ (pc'[t] \in {"in", "up"} \/ Granted(t)')
    BY <1>4, <1>5, <1>6 DEF SemIInv, SemTypes, Granted
  <2> QED BY <1>5, <2>1, <2>2 DEF Holders
<1>11. /\ IsFiniteSet(Holders \ {t})
       /\ Cardinality(Holders \ {t}) = Cardinality(Holders) - 1
  BY <1>10, HoldersFinite, FS_RemoveElement
<1>12. Cardinality(Holders') = Cardinality(Holders \ {t}) + 1
  BY <1>10, <1>11, FS_AddElement
<1> QED
  BY <1>5, <1>7, <1>9, <1>11, <1>12, HoldersFinite DEF SemIInv, UnitsConserved

\* Every step of the semaphore keeps the invariant.
LEMMA SemInvariance == SemSpec => []SemIInv
<1>1. SemIInv /\ [SemNext]_semvars => SemIInv'
  <2> SUFFICES ASSUME SemIInv, [SemNext]_semvars PROVE SemIInv'
    OBVIOUS
  <2>1. ASSUME NEW t \in Threads, Down(t) PROVE SemIInv'
    BY <2>1, SemMoveIInv, SemTakeIInv, SemWaitIInv DEF Down
  <2>2. ASSUME NEW t \in Threads, Up(t) PROVE SemIInv'
    BY <2>2, SemMoveIInv, SemCountIInv, SemPassIInv DEF Up
  <2>3. CASE UNCHANGED semvars
    BY <2>3 DEF semvars, SemIInv, SemTypes, SemShape, UnitsConserved, Holders, Granted,
      HasSemlock, InSwq
  <2> QED
    BY <2>1, <2>2, <2>3 DEF SemNext
<1> QED
  BY <1>1, SemInitIInv, PTL DEF SemSpec

\* Every variable keeps its type; in particular sem->count stays between zero
\* and the initial count, however sem_down and sem_up interleave.
THEOREM SemTypeCorrect == SemSpec => []SemTypeOK
<1>1. SemIInv => SemTypeOK
  BY HoldersFinite, UnitsAssumption DEF SemIInv, SemTypes, UnitsConserved, SemTypeOK
<1> QED BY <1>1, SemInvariance, PTL

\* Units are neither lost nor made up, for every number of threads.
THEOREM UnitsAreConserved == SemSpec => []UnitsConserved
<1>1. SemIInv => UnitsConserved
  BY DEF SemIInv
<1> QED BY <1>1, SemInvariance, PTL

\* The waiter that __sem_up takes off the queue is never left asleep.
THEOREM SemNoLostWakeUp == SemSpec => []GrantedIsAwake
<1>1. SemIInv => GrantedIsAwake
  BY DEF SemIInv, SemShape, GrantedIsAwake, Granted
<1> QED BY <1>1, SemInvariance, PTL

\* A thread never waits while sem->count says that a unit is there.
THEOREM NoUnitIsIdle == SemSpec => []NoIdleUnit
<1>1. SemIInv => NoIdleUnit
  BY DEF SemIInv, SemShape, NoIdleUnit
<1> QED BY <1>1, SemInvariance, PTL
=============================================================================
