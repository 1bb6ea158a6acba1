------------------------------- MODULE Sched -------------------------------
(***************************************************************************)
(* The life of the threads of one task on several processors: create_thread*)
(* and __finish_thread of src/task.c, the run-queue operations of          *)
(* src/sched.c and pause, on top of CpuSched.                              *)
(*                                                                         *)
(* The new thread goes to any processor (PickCpu has the choice itself).   *)
(* kmalloc of the thread and its stack succeeds; that of the run-queue     *)
(* entry may fail.                                                         *)
(***************************************************************************)
EXTENDS CpuSched

CONSTANTS
  BSP,            \* the boot processor
  InitThread      \* main thread of the initial task

ASSUME BootAssumption == BSP \in CPUs /\ InitThread \in Threads

VARIABLES
  new,            \* the thread and the processor create_thread works on
  task_status     \* task_t.status of the task

vars == <<cpuvars, pc, new, task_status>>

Nothing == [th |-> NULL, cpu |-> BSP]

\* setup_init_task has put the main thread on the queue of the boot processor,
\* whose preemption the unlock in add_thread_to_rq has turned on.
Init ==
  /\ status      = [t \in Threads |-> IF t = InitThread THEN "READY" ELSE "NONE"]
  /\ ctx         = [t \in Threads |-> TRUE]
  /\ alarms      = {}
  /\ runq        = [c \in CPUs |-> IF c = BSP THEN <<InitThread>> ELSE <<>>]
  /\ rthread     = [c \in CPUs |-> NULL]
  /\ preempt_on  = [c \in CPUs |-> c = BSP]
  /\ saved_flags = [c \in CPUs |-> c = BSP]
  /\ irq_on      = [c \in CPUs |-> TRUE]
  /\ exec        = [c \in CPUs |-> [mode |-> "boot", th |-> NULL, at |-> NULL,
                                    irq |-> FALSE]]
  /\ pc          = [t \in Threads |-> "body"]
  /\ new         = [t \in Threads |-> Nothing]
  /\ task_status = "READY"

\* create_thread: __create_thread makes thread u, add_thread_to_rq picks a
\* processor d for it.
create_thread(c, t) ==
  /\ At(c, t, "body")
  /\ \E u \in Threads, d \in CPUs :
       /\ status[u] = "NONE"
       /\ status' = Set(status, u, "INIT")
       /\ ctx'    = Set(ctx, u, TRUE)
       /\ new'    = Set(new, t, [th |-> u, cpu |-> d])
  /\ Goto(t, "queue")
  /\ UNCHANGED <<alarms, runq, rthread, preempt_on, saved_flags, irq_on, exec,
                 task_status>>

\* Mutant: the thread goes on every queue.
add_thread_to_rq_twice(c, t) ==
  /\ At(c, t, "queue")
  /\ runq' = [d \in CPUs |-> Append(runq[d], new[t].th)]
  /\ irqsave_section(c)
  /\ Goto(t, "ready")
  /\ UNCHANGED <<status, ctx, alarms, rthread, exec, new, task_status>>

\* add_thread_to_rq: the entry goes to the tail of the other queue under its
\* rq_lock.
add_thread_to_rq(c, t) ==
  /\ At(c, t, "queue")
  /\ runq' = [runq EXCEPT ![new[t].cpu] = Append(@, new[t].th)]
  /\ irqsave_section(c)
  /\ Goto(t, "ready")
  /\ UNCHANGED <<status, ctx, alarms, rthread, exec, new, task_status>>

\* ... and only then the thread becomes READY.
add_thread_ready(c, t) ==
  /\ At(c, t, "ready")
  /\ status' = Set(status, new[t].th, "READY")
  /\ new' = Set(new, t, Nothing)
  /\ Goto(t, "body")
  /\ UNCHANGED <<ctx, alarms, runq, rthread, preempt_on, saved_flags, irq_on,
                 exec, task_status>>

\* No memory for the entry: the thread stays INIT for ever.
add_thread_nomem(c, t) ==
  /\ At(c, t, "queue")
  /\ new' = Set(new, t, Nothing)
  /\ Goto(t, "body")
  /\ UNCHANGED <<cpuvars, task_status>>

\* pause up to make_sleep ...
pause(c, t) ==
  /\ At(c, t, "body")
  /\ alarms' = alarms \cup {t}
  /\ status' = Set(status, t, "BLOCKED")
  /\ Goto(t, "sched")
  /\ UNCHANGED <<ctx, runq, rthread, preempt_on, saved_flags, irq_on, exec,
                 new, task_status>>

\* ... and its schedule(), which returns to the body.
pause_schedule(c, t) ==
  /\ At(c, t, "sched")
  /\ call_schedule(c)
  /\ Goto(t, "body")
  /\ UNCHANGED <<new, task_status>>

\* __finish_thread: preempt_disable, then __remove_thread_from_rq, whose
\* unlock turns preemption on again.
finish_remove(c, t) ==
  /\ At(c, t, "body")
  /\ runq' = [runq EXCEPT ![c] = Without(@, t)]
  /\ irqsave_section(c)
  /\ Goto(t, "fin_status")
  /\ UNCHANGED <<status, ctx, alarms, rthread, exec, new, task_status>>

finish_status(c, t) ==
  /\ At(c, t, "fin_status")
  /\ status' = Set(status, t, "COMPLETE")
  /\ Goto(t, "fin_check")
  /\ UNCHANGED <<ctx, alarms, runq, rthread, preempt_on, saved_flags, irq_on,
                 exec, new, task_status>>

\* check_runnable_threads and clean_task_sched
finish_check(c, t) ==
  /\ At(c, t, "fin_check")
  /\ \/ /\ \E u \in Threads : status[u] \notin {"NONE", "COMPLETE"}
        /\ UNCHANGED <<task_status, rthread>>
     \/ /\ \A u \in Threads : status[u] \in {"NONE", "COMPLETE"}
        /\ task_status' = "COMPLETE"
        /\ rthread' = Set(rthread, c, NULL)
  /\ Goto(t, "fin_sched")
  /\ UNCHANGED <<status, ctx, alarms, runq, preempt_on, saved_flags, irq_on,
                 exec, new>>

finish_schedule(c, t) ==
  /\ At(c, t, "fin_sched")
  /\ call_schedule(c)
  /\ Goto(t, "dead")
  /\ UNCHANGED <<new, task_status>>

Finish(c, t) ==
  \/ finish_remove(c, t) \/ finish_status(c, t)
  \/ finish_check(c, t) \/ finish_schedule(c, t)

Thread(c, t) ==
  \/ create_thread(c, t) \/ add_thread_to_rq(c, t) \/ add_thread_ready(c, t)
  \/ add_thread_nomem(c, t)
  \/ pause(c, t) \/ pause_schedule(c, t)
  \/ Finish(c, t)

Next ==
  \/ \E c \in CPUs : Processor(c) /\ UNCHANGED <<pc, new, task_status>>
  \/ \E c \in CPUs, t \in Threads : Thread(c, t)

Spec == Init /\ [][Next]_vars

\* A processor executes its instructions and its timer goes on ticking: an
\* interrupt that stays enabled is taken, and one tick in ten schedules.
\* An alarm that is set goes off.  A processor that may not switch goes on with
\* the call its thread has begun.
Fairness ==
  /\ \A c \in CPUs :
       /\ WF_vars((init_sched(c) \/ scan(c)) /\ UNCHANGED <<pc, new, task_status>>)
       /\ WF_vars(tick(c, TRUE) /\ exec[c].mode = "run" /\ preempt_on[c]
                  /\ UNCHANGED <<pc, new, task_status>>)
       /\ \A t \in Threads :
            WF_vars(/\ \E W \in SUBSET Expirable(c), sched \in BOOLEAN :
                         t \in W /\ timer_callback(c, W, sched)
                    /\ UNCHANGED <<pc, new, task_status>>)
       /\ WF_vars(\E t \in Threads : pc[t] # "body" /\ Thread(c, t))

FairSpec == Spec /\ Fairness

\* A thread that is given the processor again and again gets on with its call.
CallFairness == \A c \in CPUs, t \in Threads : SF_vars(pc[t] # "body" /\ Thread(c, t))
CallFairSpec == FairSpec /\ CallFairness
-----------------------------------------------------------------------------
Finishing(t) == pc[t] \in {"fin_status", "fin_check", "fin_sched", "dead"}

\* Thread code always runs with interrupts on: without locks, every path
\* through schedule() gives a thread its interrupts back.
InterruptsOn == \A c \in CPUs : exec[c].mode = "run" => irq_on[c]

\* The loop of __do_sched_rr leaves the entries of the queue only after a thread
\* has finished: PANIC("Running thread is not in RQ") is the check for it, and
\* cannot fire because the cursor of find_thread_in_rq is never NULL.
StrayOnlyAfterFinish ==
  \A c \in CPUs :
    \/ exec[c].mode = "wild"
    \/ exec[c].mode = "scan" /\ exec[c].at = HEAD
    => Finishing(exec[c].th)

Astray(c) == exec[c].mode = "wild"

\* A READY thread on a run queue, and one that sleeps in pause, runs again,
\* unless its processor has gone astray: round robin passes over nobody and no
\* alarm is missed, also when threads come and go.
RunsAgain ==
  \A t \in Threads :
    status[t] \in {"READY", "BLOCKED"} /\ (\E c \in CPUs : InQ(t, runq[c]))
      ~> status[t] = "RUNNING" \/ \E c \in CPUs : Astray(c) /\ InQ(t, runq[c])

\* "thread exits here also checks if task should be cleaned up": once every
\* thread of the task has left its function the task completes (or a processor
\* has gone astray on an empty queue).
TaskCompletes ==
  (\A t \in Threads : status[t] # "NONE" => Finishing(t))
    ~> \/ task_status = "COMPLETE"
       \/ \E c \in CPUs : Astray(c)
=============================================================================
