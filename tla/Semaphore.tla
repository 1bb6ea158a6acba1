----------------------------- MODULE Semaphore -----------------------------
(***************************************************************************)
(* The counting semaphore of src/semaphore.c with the spinlock that guards *)
(* it (src/spinlock.c) and schedule of src/sched.c.  Threads use it the    *)
(* way src/init.c does: sem_down, a section, sem_up.  As in Mutex every    *)
(* thread moves on its own.                                                *)
(*                                                                         *)
(* sem_up with a waiter does not touch the count: it removes the waiter    *)
(* and wakes it, and the unit travels with the wake-up.                    *)
(***************************************************************************)
EXTENDS Integers, Sequences, FiniteSets, SleepWake

CONSTANT Units    \* the count given to sem_init

ASSUME UnitsAssumption == Units \in Nat
ASSUME FiniteThreads   == IsFiniteSet(Threads)

VARIABLES
  semlock,        \* sem->semlock: the thread that holds the spinlock, or NULL
  count,          \* sem->count
  swq             \* sem->wq

semvars == <<pc, status, semlock, count, swq>>

SemLocations ==
  {"out", "down_spin", "down", "down_sched", "down_relock", "woken", "in", "up"}

\* sem_init
SemInit ==
  /\ pc      = [t \in Threads |-> "out"]
  /\ status  = [t \in Threads |-> "RUNNING"]
  /\ semlock = NULL
  /\ count   = Units
  /\ swq     = <<>>

sem_acquire(t, from, to) ==
  /\ pc[t] = from
  /\ semlock = NULL
  /\ semlock' = t
  /\ pc' = [pc EXCEPT ![t] = to]
  /\ UNCHANGED <<status, count, swq>>

sem_release(t, to) ==
  /\ semlock' = NULL
  /\ pc' = [pc EXCEPT ![t] = to]

InSwq(t) == \E i \in 1 .. Len(swq) : swq[i] = t

\* mutant: list_add instead of list_add_tail
sem_add_to_wq_head(t) == swq' = IF InSwq(t) THEN swq ELSE <<t>> \o swq

sem_add_to_wq(t) == swq' = IF InSwq(t) THEN swq ELSE Append(swq, t)

\* sem_remove_from_wq is only called for the first entry
sem_remove_first == swq' = Tail(swq)

\* a thread calls sem_down
down_call(t) ==
  /\ pc[t] = "out"
  /\ pc' = [pc EXCEPT ![t] = "down_spin"]
  /\ UNCHANGED <<status, semlock, count, swq>>

down_enter(t) == sem_acquire(t, "down_spin", "down")

\* sem_down with a unit left
down_take(t) ==
  /\ pc[t] = "down" /\ count > 0
  /\ count' = count - 1
  /\ sem_release(t, "in")
  /\ UNCHANGED <<status, swq>>

\* __sem_down up to schedule()
down_wait(t) ==
  /\ pc[t] = "down" /\ count = 0
  /\ sem_add_to_wq(t)
  /\ make_sleep(t)
  /\ sem_release(t, "down_sched")
  /\ UNCHANGED count

\* schedule() returns once the thread is READY and picked again
sem_schedule(t) ==
  /\ pc[t] = "down_sched" /\ status[t] = "READY"
  /\ status' = [status EXCEPT ![t] = "RUNNING"]
  /\ pc' = [pc EXCEPT ![t] = "down_relock"]
  /\ UNCHANGED <<semlock, count, swq>>

down_again(t) == sem_acquire(t, "down_relock", "woken")

\* __sem_down returns OK, so sem_down returns without looking at the count
down_granted(t) ==
  /\ pc[t] = "woken"
  /\ sem_release(t, "in")
  /\ UNCHANGED <<status, count, swq>>

up_enter(t) == sem_acquire(t, "in", "up")

up_count(t) ==
  /\ pc[t] = "up" /\ swq = <<>>
  /\ count' = count + 1
  /\ sem_release(t, "out")
  /\ UNCHANGED <<status, swq>>

\* mutant: the waiter is taken off the queue and not woken
up_pass_asleep(t) ==
  /\ pc[t] = "up" /\ swq # <<>>
  /\ sem_remove_first
  /\ sem_release(t, "out")
  /\ UNCHANGED <<status, count>>

\* __sem_up
up_pass(t) ==
  /\ pc[t] = "up" /\ swq # <<>>
  /\ wake_up(Head(swq))
  /\ sem_remove_first
  /\ sem_release(t, "out")
  /\ UNCHANGED count

Down(t) ==
  \/ down_call(t) \/ down_enter(t) \/ down_take(t) \/ down_wait(t)
  \/ sem_schedule(t) \/ down_again(t) \/ down_granted(t)

Up(t) == up_enter(t) \/ up_count(t) \/ up_pass(t)

SemNext == \E t \in Threads : Down(t) \/ Up(t)

SemSpec == SemInit /\ [][SemNext]_semvars

\* As for the mutex: round-robin scheduling, sections end, and an exchange on
\* the spinlock is not beaten for ever.  Nothing makes a thread call sem_down.
SemFairness ==
  \A t \in Threads :
    /\ WF_semvars(down_take(t) \/ down_wait(t) \/ sem_schedule(t) \/ down_granted(t)
               \/ up_count(t) \/ up_pass(t))
    /\ SF_semvars(down_enter(t))
    /\ SF_semvars(down_again(t))
    /\ SF_semvars(up_enter(t))

SemFairSpec == SemSpec /\ SemFairness
-----------------------------------------------------------------------------
SemTypeOK ==
  /\ pc \in [Threads -> SemLocations]
  /\ status \in [Threads -> Statuses]
  /\ semlock \in Threads \cup {NULL}
  /\ count \in 0 .. Units
  /\ swq \in Seq(Threads)

\* A thread that has been woken by __sem_up and carries a unit that it has not
\* yet noticed.
Granted(t) == pc[t] \in {"down_sched", "down_relock", "woken"} /\ ~ InSwq(t)

Holders == {t \in Threads : pc[t] \in {"in", "up"} \/ Granted(t)}

\* No unit is lost or made up: the count, the threads inside and the threads
\* on their way in with a unit handed over by __sem_up add up to the initial
\* count after any interleaving.
UnitsConserved == count + Cardinality(Holders) = Units

\* No lost wake-up: a thread that __sem_up took off the queue is never left
\* asleep, although wake_up only acts on a thread that is already BLOCKED.
GrantedIsAwake ==
  \A t \in Threads : Granted(t) /\ pc[t] = "down_sched" => status[t] # "BLOCKED"

\* A unit is never left in the count while a thread waits for one: the early
\* removal from the queue in __sem_up does not strand a waiter.
NoIdleUnit == swq # <<>> => count = 0

\* Every thread that calls sem_down gets through, when there is a unit at all.
DownIsGranted ==
  Units > 0 => \A t \in Threads : pc[t] = "down_spin" ~> pc[t] = "in"
=============================================================================
