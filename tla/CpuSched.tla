------------------------------ MODULE CpuSched ------------------------------
(***************************************************************************)
(* The processor side of the scheduler: schedule() and __do_sched_rr of    *)
(* src/sched.c, switch_to of src/switch.s, the timer interrupt of          *)
(* src/timer.c, preempt_enable/disable of src/cpu.c and                    *)
(* local_irq_save/restore of src/idt.c.  Sched and SchedLocks add what     *)
(* threads do.                                                             *)
(*                                                                         *)
(* Time is left out: any tick may find any enabled alarm expired and may   *)
(* be one on which timer_callback schedules.  The flags register is its    *)
(* interrupt bit.  A thread keeps to the queue it was put on, so an entry  *)
(* of a run queue is its thread.                                           *)
(***************************************************************************)
EXTENDS Integers, Sequences

CONSTANTS
  CPUs,
  Threads,
  NULL,           \* no thread
  HEAD            \* the list head of a run queue, taken for an entry

ASSUME SchedAssumption == NULL \notin Threads /\ HEAD \notin Threads /\ NULL # HEAD

VARIABLES
  status,         \* thread_t.status, "NONE" before the thread is created
  ctx,            \* thread_t.context: interrupts on when the thread goes on
  alarms,         \* threads whose alarm is enabled
  runq,           \* cpu_state_t.runq
  rthread,        \* cpu_state_t.rthread
  preempt_on,     \* cpu_state_t.preempt_on
  saved_flags,    \* cpu_state_t.saved_flags (one slot per processor)
  irq_on,         \* interrupt flag of the processor
  exec,           \* what the processor executes, see Execs
  pc              \* where a thread is in its own code

cpuvars == <<status, ctx, alarms, runq, rthread, preempt_on, saved_flags,
             irq_on, exec>>

Statuses == {"NONE", "INIT", "READY", "RUNNING", "BLOCKED", "COMPLETE"}

\* mode: "boot"  before the first schedule(),
\*       "run"   the code of thread th,
\*       "scan"  the loop of __do_sched_rr at entry at, called from an
\*               interrupt or not; th is the thread to switch away from,
\*       "wild"  switched to something that is not a thread.
Execs == [mode : {"boot", "run", "scan", "wild"},
          th   : Threads \cup {NULL},
          at   : Threads \cup {NULL, HEAD},
          irq  : BOOLEAN]

InQ(t, q) == \E i \in 1 .. Len(q) : q[i] = t

Set(f, c, v) == [f EXCEPT ![c] = v]

\* list_del of the entry of t, which is on the list
Without(q, t) ==
  LET i == CHOOSE i \in 1 .. Len(q) : q[i] = t
  IN [k \in 1 .. Len(q) - 1 |-> IF k < i THEN q[k] ELSE q[k + 1]]

\* Mutant: the loop ends before the last entry.
find_thread_in_rq_short(t, q) ==
  IF \E i \in 1 .. Len(q) - 1 : q[i] = t THEN t ELSE HEAD

\* find_thread_in_rq: the loop cursor runs out at the list head, it is never
\* NULL.
find_thread_in_rq(t, q) == IF InQ(t, q) THEN t ELSE HEAD

\* Mutant: the scan always starts over.
next_entry_first(q, x) ==
  IF q = <<>> THEN HEAD
  ELSE q[1]

\* One iteration of the round robin: the entry after x, or the first one.
next_entry(q, x) ==
  IF q = <<>> THEN HEAD
  ELSE IF x = HEAD \/ x = q[Len(q)] THEN q[1]
  ELSE q[1 + CHOOSE i \in 1 .. Len(q) : q[i] = x]

preempt_enable(c)  == preempt_on' = Set(preempt_on, c, TRUE)
preempt_disable(c) == preempt_on' = Set(preempt_on, c, FALSE)
local_irq_save(c, flags) == saved_flags' = Set(saved_flags, c, flags)

\* Mutant: preemption stays on.
enter_schedule_preemptible(c, irq, st) ==
  LET r == rthread[c] IN
  /\ preempt_on'  = preempt_on
  /\ status'      = IF r # NULL /\ st[r] = "RUNNING" THEN Set(st, r, "READY")
                    ELSE st
  /\ saved_flags' = Set(saved_flags, c, ~ irq /\ irq_on[c])
  /\ irq_on'      = Set(irq_on, c, TRUE)
  /\ exec'        = Set(exec, c,
                        [mode |-> "scan", th |-> r, irq |-> irq,
                         at |-> IF r = NULL THEN NULL
                                ELSE find_thread_in_rq(r, runq[c])])
  /\ UNCHANGED <<ctx, runq, rthread>>

\* Mutant: the old thread is left RUNNING.
enter_schedule_running(c, irq, st) ==
  LET r == rthread[c] IN
  /\ preempt_on'  = Set(preempt_on, c, FALSE)
  /\ status'      = st
  /\ saved_flags' = Set(saved_flags, c, ~ irq /\ irq_on[c])
  /\ irq_on'      = Set(irq_on, c, TRUE)
  /\ exec'        = Set(exec, c,
                        [mode |-> "scan", th |-> r, irq |-> irq,
                         at |-> IF r = NULL THEN NULL
                                ELSE find_thread_in_rq(r, runq[c])])
  /\ UNCHANGED <<ctx, runq, rthread>>

\* schedule() up to the loop of __do_sched_rr.  st is the status of the
\* threads when it is called; an interrupt handler runs with interrupts off.
enter_schedule(c, irq, st) ==
  LET r == rthread[c] IN
  /\ preempt_disable(c)
  /\ status'      = IF r # NULL /\ st[r] = "RUNNING" THEN Set(st, r, "READY")
                    ELSE st
  /\ local_irq_save(c, ~ irq /\ irq_on[c])
  /\ irq_on'      = Set(irq_on, c, TRUE)
  /\ exec'        = Set(exec, c,
                        [mode |-> "scan", th |-> r, irq |-> irq,
                         at |-> IF r = NULL THEN NULL
                                ELSE find_thread_in_rq(r, runq[c])])
  /\ UNCHANGED <<ctx, runq, rthread>>

\* Mutant: an interrupted thread gets the flags in the slot.
switch_to_slot(c, nextp) ==
  LET old    == exec[c].th
      newctx == IF old = NULL THEN ctx
                ELSE Set(ctx, old, saved_flags[c])
  IN /\ status'     = Set(status, nextp, "RUNNING")
     /\ rthread'    = Set(rthread, c, nextp)
     /\ ctx'        = newctx
     /\ irq_on'     = Set(irq_on, c, newctx[nextp])
     /\ preempt_on' = Set(preempt_on, c, TRUE)
     /\ exec'       = Set(exec, c, [mode |-> "run", th |-> nextp, at |-> NULL,
                                    irq |-> FALSE])
     /\ UNCHANGED <<alarms, runq, saved_flags>>

\* The rest of schedule() and switch_to.  The flags saved for the old thread
\* are those local_irq_restore has just set; one that was interrupted gets
\* its interrupts back from iret.
switch_to(c, nextp) ==
  LET old    == exec[c].th
      newctx == IF old = NULL THEN ctx
                ELSE Set(ctx, old, exec[c].irq \/ saved_flags[c])
  IN /\ status'     = Set(status, nextp, "RUNNING")
     /\ rthread'    = Set(rthread, c, nextp)
     /\ ctx'        = newctx
     /\ irq_on'     = Set(irq_on, c, newctx[nextp])
     /\ preempt_enable(c)
     /\ exec'       = Set(exec, c, [mode |-> "run", th |-> nextp, at |-> NULL,
                                    irq |-> FALSE])
     /\ UNCHANGED <<alarms, runq, saved_flags>>

\* One turn of the loop of __do_sched_rr.  With no current thread it polls an
\* empty queue and takes the first entry as the current one.
scan(c) ==
  LET nxt == IF rthread[c] # NULL THEN next_entry(runq[c], exec[c].at)
             ELSE IF runq[c] = <<>> THEN NULL ELSE runq[c][1]
  IN /\ exec[c].mode = "scan"
     /\ nxt \in Threads
     /\ \/ status[nxt] = "READY" /\ switch_to(c, nxt)
        \/ /\ status[nxt] # "READY"
           /\ exec' = [exec EXCEPT ![c].at = nxt]
           /\ rthread' = IF rthread[c] = NULL THEN Set(rthread, c, nxt)
                         ELSE rthread
           /\ UNCHANGED <<status, ctx, alarms, runq, preempt_on, saved_flags,
                          irq_on>>

\* The queue is empty and there is a current thread: the head of the list is
\* taken for an entry, and the word found where its thread would be (the
\* field saved_flags) for a thread.  It passes for READY or it does not.
scan_head(c) ==
  /\ exec[c].mode = "scan" /\ rthread[c] # NULL /\ runq[c] = <<>>
  /\ \/ exec' = [exec EXCEPT ![c].at = HEAD]
     \/ exec' = [exec EXCEPT ![c].mode = "wild"]
  /\ UNCHANGED <<status, ctx, alarms, runq, rthread, preempt_on, saved_flags,
                 irq_on>>

\* timer_callback: check_thread_alarms finds the alarms of W expired, then
\* schedule() on a scheduling tick unless preemption is off.
Expirable(c) == {t \in alarms : InQ(t, runq[c]) /\ status[t] = "BLOCKED"}

timer_callback(c, W, sched) ==
  LET st == [t \in Threads |-> IF t \in W THEN "READY" ELSE status[t]] IN
  /\ irq_on[c] /\ exec[c].mode # "wild"
  /\ alarms' = alarms \ W
  /\ \/ sched /\ preempt_on[c] /\ enter_schedule(c, TRUE, st)
     \/ /\ ~ (sched /\ preempt_on[c])
        /\ status' = st
        /\ UNCHANGED <<ctx, runq, rthread, preempt_on, saved_flags, irq_on,
                       exec>>

tick(c, sched) == \E W \in SUBSET Expirable(c) : timer_callback(c, W, sched)

\* init_sched, at the end of main or of __main.
init_sched(c) ==
  /\ exec[c].mode = "boot"
  /\ enter_schedule(c, FALSE, status)
  /\ UNCHANGED alarms

Processor(c) ==
  \/ init_sched(c) \/ scan(c) \/ scan_head(c)
  \/ \E sched \in BOOLEAN : tick(c, sched)

\* Thread t executes its own code on processor c.
Runs(c, t) == exec[c].mode = "run" /\ exec[c].th = t

At(c, t, loc) == Runs(c, t) /\ pc[t] = loc
Goto(t, loc)  == pc' = Set(pc, t, loc)

\* schedule() called by a thread.
call_schedule(c) == enter_schedule(c, FALSE, status) /\ UNCHANGED alarms

\* A section guarded by spin_lock_irqsave .. spin_unlock_irqrestore, as far as
\* the processor is concerned: the flags pass through the one slot, and
\* preemption ends up enabled whatever it was before.
irqsave_section(c) ==
  /\ local_irq_save(c, irq_on[c])
  /\ preempt_enable(c)
  /\ UNCHANGED irq_on
-----------------------------------------------------------------------------
\* A RUNNING thread is the current thread of one processor and its code runs
\* there: schedule() never leaves a stale RUNNING behind when it is entered
\* from a tick, from a sleeping or from a finishing thread.
RunningIsCurrent ==
  \A t \in Threads : status[t] = "RUNNING" =>
    \E c \in CPUs : Runs(c, t) /\ rthread[c] = t

\* No two processors use the stack of one thread, neither running its code nor
\* looping in schedule() on it, although the loop runs with interrupts on and
\* the thread it leaves is READY already.
NoSharedStack ==
  \A c, d \in CPUs :
    c # d /\ exec[c].th # NULL => exec[c].th # exec[d].th

\* The loop of __do_sched_rr enables interrupts, and a tick there must not
\* enter schedule() again.
NoNestedSchedule ==
  \A c \in CPUs : exec[c].mode = "scan" => ~ preempt_on[c]
=============================================================================
