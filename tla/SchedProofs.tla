---------------------------- MODULE SchedProofs ----------------------------
(***************************************************************************)
(* Proofs about Sched, for every set of processors and threads.            *)
(***************************************************************************)
EXTENDS Sched, CpuSchedProofs

Locations ==
  {"body", "queue", "ready", "sched", "fin_status", "fin_check", "fin_sched", "dead"}

TypeOK ==
  /\ pc \in [Threads -> Locations]
  /\ new \in [Threads -> [th : Threads \cup {NULL}, cpu : CPUs]]

\* The threads that have left their run queue for good.
Gone == {t \in Threads : Finishing(t)}

Creating(t) == pc[t] \in {"queue", "ready"}

\* A thread that is being created belongs to one creator, who has not queued it
\* before add_thread_to_rq.
Creation ==
  /\ \A t \in Threads : status[t] \in {"NONE", "INIT"} => pc[t] = "body"
  /\ \A t \in Threads, c \in CPUs : status[t] = "NONE" => ~ InQ(t, runq[c])
  /\ \A t \in Threads :
       Creating(t) => new[t].th \in Threads /\ status[new[t].th] = "INIT"
  /\ \A t \in Threads, c \in CPUs : pc[t] = "queue" => ~ InQ(new[t].th, runq[c])
  /\ \A t, u \in Threads :
       Creating(t) /\ Creating(u) /\ new[t].th = new[u].th => t = u

\* No thread that is done is RUNNING again.
Completed ==
  \A t \in Threads :
    pc[t] \in {"fin_check", "fin_sched", "dead"} => status[t] = "COMPLETE"

\* The inductive invariant of Sched.
IInv == CpuInv(Gone) /\ TypeOK /\ Creation /\ Completed /\ FlagsKept({})

\* A step that creates nobody and leaves the queues alone.
LEMMA CreationKept ==
  ASSUME Creation, runq' = runq, new' = new,
         \A v \in Threads : Creating(v)' => Creating(v) /\ status'[new[v].th] = "INIT",
         \A v \in Threads : pc'[v] = "queue" => pc[v] = "queue",
         \A v \in Threads : status'[v] \in {"NONE", "INIT"} => pc'[v] = "body",
         \A v \in Threads : status'[v] = "NONE" => status[v] = "NONE"
  PROVE  Creation'
<1>1. \A t \in Threads, c \in CPUs : status'[t] = "NONE" => ~ InQ(t, runq'[c])
  BY DEF Creation
<1>2. \A t \in Threads :
        Creating(t)' => new'[t].th \in Threads /\ status'[new'[t].th] = "INIT"
  BY DEF Creation
<1>3. \A t \in Threads, c \in CPUs : pc'[t] = "queue" => ~ InQ(new'[t].th, runq'[c])
  BY DEF Creation
<1>4. \A t, u \in Threads :
        Creating(t)' /\ Creating(u)' /\ new'[t].th = new'[u].th => t = u
  BY DEF Creation
<1> QED
  BY <1>1, <1>2, <1>3, <1>4 DEF Creation, InQ

\* Before init_sched nothing runs.
LEMMA InitIInv == Init => IInv
<1> SUFFICES ASSUME Init PROVE IInv
  OBVIOUS
<1>1. NULL \notin Threads /\ HEAD \notin Threads /\ NULL # HEAD /\ BSP \in CPUs
      /\ InitThread \in Threads
  BY SchedAssumption, BootAssumption
<1>2. <<InitThread>> \in Seq(Threads) /\ <<>> \in Seq(Threads)
  BY <1>1
<1>3. CpuTypeOK
  BY <1>1, <1>2 DEF Init, CpuTypeOK, Statuses, Execs
<1>4. \A t \in Threads, c \in CPUs : InQ(t, runq[c]) <=> t = InitThread /\ c = BSP
  <2>1. runq[BSP] = <<InitThread>> /\ \A c \in CPUs \ {BSP} : runq[c] = <<>>
    BY <1>1 DEF Init
  <2>2. \A t \in Threads : InQ(t, <<InitThread>>) <=> t = InitThread
    BY DEF InQ
  <2>3. \A t \in Threads : ~ InQ(t, <<>>)
    BY DEF InQ
  <2> QED
    BY <2>1, <2>2, <2>3
<1>5. OneQueue
  BY <1>4 DEF OneQueue, Distinct, Init
<1>6. Gone = {}
  BY DEF Gone, Finishing, Init
<1>7. Homes(Gone) /\ Current(Gone) /\ Born
  BY <1>1, <1>6 DEF Homes, Current, Born, Init
<1>8. RunningIsCurrent /\ NoNestedSchedule /\ NoSharedStack
  BY DEF RunningIsCurrent, NoNestedSchedule, NoSharedStack, Init
<1>9. TypeOK
  BY <1>1 DEF TypeOK, Init, Locations, Nothing
<1>10. Creation /\ Completed /\ FlagsKept({})
  BY <1>1, <1>4 DEF Creation, Creating, Completed, FlagsKept, Runs, Init
<1> QED
  BY <1>3, <1>5, <1>7, <1>8, <1>9, <1>10 DEF IInv, CpuInv

\* What a processor does on its own keeps the invariant of threads that come
\* and go.
LEMMA ProcessorIInv ==
  ASSUME IInv, NEW c \in CPUs, Processor(c), UNCHANGED <<pc, new, task_status>>
  PROVE  IInv'
<1>1. PICK F : F = Gone
  OBVIOUS
<1>2. F = Gone'
  BY <1>1 DEF Gone, Finishing
<1>3. CpuInv(F)
  BY <1>1 DEF IInv
<1>4. CpuInv(F)'
  BY <1>3, ProcessorCpuInv
<1>5. CpuInv(Gone)'
  BY <1>2, <1>4
<1>6. /\ runq' = runq
      /\ \A t \in Threads :
           \/ status'[t] = status[t]
           \/ status[t] = "RUNNING" /\ status'[t] = "READY"
           \/ status[t] = "READY" /\ status'[t] = "RUNNING"
           \/ status[t] = "BLOCKED" /\ status'[t] = "READY"
  BY <1>3, ProcessorStatus
<1>7. \A t \in Threads : \A s \in {"NONE", "INIT", "COMPLETE"} : status'[t] = s <=> status[t] = s
  BY <1>6
<1>8. TypeOK'
  BY DEF IInv, TypeOK
<1>9. Creation'
  BY <1>6, <1>7 DEF IInv, Creation, Creating, InQ
<1>10. Completed'
  BY <1>7 DEF IInv, Completed
<1>11. FlagsKept({})'
  BY <1>3, ProcessorFlags DEF IInv
<1> QED
  BY <1>5, <1>8, <1>9, <1>10, <1>11 DEF IInv
-----------------------------------------------------------------------------
\* The steps of the threads.

\* A thread that moves within its life, or within its end, is gone as much as
\* before.
LEMMA GoneSame ==
  ASSUME TypeOK, NEW t \in Threads, NEW loc, Goto(t, loc),
         pc[t] \in {"fin_status", "fin_check", "fin_sched", "dead"}
           <=> loc \in {"fin_status", "fin_check", "fin_sched", "dead"}
  PROVE  Gone' = Gone
<1>1. \A u \in Threads : Finishing(u)' <=> Finishing(u)
  BY DEF Goto, Set, TypeOK, Finishing
<1> QED
  BY <1>1 DEF Gone

\* A step that wakes nobody and leaves the processors alone.
LEMMA QuietGone ==
  ASSUME CpuInv(Gone), Gone' = Gone, CpuTypeOK', UNCHANGED <<exec, rthread, runq>>,
         \A d \in CPUs : exec[d].mode = "scan" => preempt_on'[d] = preempt_on[d],
         \A t \in Threads : status'[t] = "RUNNING" => status[t] = "RUNNING",
         \A t \in Threads :
           status'[t] \in {"NONE", "INIT"} => status[t] \in {"NONE", "INIT"}
  PROVE  CpuInv(Gone)'
<1>1. PICK F : F = Gone
  OBVIOUS
<1>2. CpuInv(F)'
  BY <1>1, QuietCpuInv
<1> QED
  BY <1>1, <1>2

\* What is known of a thread whose code runs.
LEMMA RunsFacts ==
  ASSUME IInv, NEW c \in CPUs, NEW t \in Threads, Runs(c, t)
  PROVE  /\ exec[c].mode = "run" /\ exec[c].th = t
         /\ status[t] \notin {"NONE", "INIT"}
         /\ ~ Finishing(t) => InQ(t, runq[c])
         /\ rthread[c] = t \/ (rthread[c] = NULL /\ status[t] # "RUNNING")
BY DEF Runs, IInv, CpuInv, Born, Homes, Current, Gone

\* create_thread makes a thread that is not queued yet.
LEMMA CreateIInv ==
  ASSUME IInv, NEW c \in CPUs, NEW t \in Threads, create_thread(c, t)
  PROVE  IInv'
<1>1. PICK u \in Threads, d \in CPUs :
        /\ status[u] = "NONE"
        /\ status' = [status EXCEPT ![u] = "INIT"]
        /\ ctx' = [ctx EXCEPT ![u] = TRUE]
        /\ new' = [new EXCEPT ![t] = [th |-> u, cpu |-> d]]
  BY DEF create_thread, Set
<1>2. /\ Runs(c, t) /\ pc[t] = "body" /\ pc' = [pc EXCEPT ![t] = "queue"]
      /\ UNCHANGED <<alarms, runq, rthread, preempt_on, saved_flags, irq_on, exec,
                     task_status>>
  BY DEF create_thread, At, Goto, Set
<1>3. u # t
  BY <1>1, <1>2, RunsFacts
<1>4. TypeOK /\ CpuTypeOK
  BY DEF IInv, CpuInv
<1>5. TypeOK' /\ CpuTypeOK'
  BY <1>1, <1>2, <1>4 DEF TypeOK, CpuTypeOK, Locations, Statuses
<1>6. Gone' = Gone
  BY <1>2, <1>4, GoneSame DEF create_thread
<1>7. CpuInv(Gone)'
  BY <1>1, <1>2, <1>4, <1>5, <1>6, QuietGone DEF IInv, CpuTypeOK
<1>8. /\ \A v \in Threads : status'[v] = IF v = u THEN "INIT" ELSE status[v]
      /\ \A v \in Threads : pc'[v] = IF v = t THEN "queue" ELSE pc[v]
      /\ \A v \in Threads : new'[v] = IF v = t THEN [th |-> u, cpu |-> d] ELSE new[v]
  BY <1>1, <1>2, <1>4 DEF TypeOK, CpuTypeOK
<1>9. Creation'
  <2>1. \A v \in Threads : status'[v] \in {"NONE", "INIT"} => pc'[v] = "body"
    <3>1. status[t] \notin {"NONE", "INIT"}
      BY <1>2, RunsFacts
    <3> QED
      BY <1>1, <1>3, <1>8, <3>1 DEF IInv, Creation
  <2>2. \A v \in Threads, e \in CPUs : status'[v] = "NONE" => ~ InQ(v, runq'[e])
    BY <1>2, <1>8 DEF IInv, Creation
  <2>3. \A v \in Threads : v # t => (Creating(v)' <=> Creating(v)) /\ new'[v] = new[v]
                                    /\ pc'[v] = pc[v]
    BY <1>8 DEF Creating
  <2>4. \A v \in Threads : Creating(v) => new[v].th # u
    BY <1>1 DEF IInv, Creation
  <2>5. \A v \in Threads :
          Creating(v)' => new'[v].th \in Threads /\ status'[new'[v].th] = "INIT"
    <3> SUFFICES ASSUME NEW v \in Threads, Creating(v)'
                 PROVE  new'[v].th \in Threads /\ status'[new'[v].th] = "INIT"
      OBVIOUS
    <3>1. CASE v = t
      BY <1>8, <3>1
    <3>2. CASE v # t
      <4>1. new[v].th \in Threads /\ status[new[v].th] = "INIT" /\ new'[v] = new[v]
        BY <2>3, <3>2 DEF IInv, Creation
      <4> QED
        BY <1>8, <4>1
    <3> QED
      BY <3>1, <3>2
  <2>6. \A v \in Threads, e \in CPUs : pc'[v] = "queue" => ~ InQ(new'[v].th, runq'[e])
    BY <1>1, <1>2, <1>8, <2>3 DEF IInv, Creation
  <2>7. \A v, w \in Threads :
          Creating(v)' /\ Creating(w)' /\ new'[v].th = new'[w].th => v = w
    BY <1>8, <2>3, <2>4 DEF IInv, Creation
  <2> QED
    BY <2>1, <2>2, <2>5, <2>6, <2>7 DEF Creation, InQ
<1>10. Completed'
  BY <1>1, <1>8 DEF IInv, Completed
<1>11. FlagsKept({})'
  BY <1>1, <1>2, <1>4 DEF IInv, FlagsKept, Runs, CpuTypeOK
<1> QED
  BY <1>5, <1>7, <1>9, <1>10, <1>11 DEF IInv

\* add_thread_to_rq after it has queued the thread, or without memory for that.
LEMMA ReadyIInv ==
  ASSUME IInv, NEW c \in CPUs, NEW t \in Threads,
         add_thread_ready(c, t) \/ add_thread_nomem(c, t)
  PROVE  IInv'
<1> DEFINE u == new[t].th
<1>1. /\ Runs(c, t) /\ Creating(t) /\ pc' = [pc EXCEPT ![t] = "body"]
      /\ pc[t] \in {"queue", "ready"}
      /\ new' = [new EXCEPT ![t] = Nothing]
      /\ status' = status \/ status' = [status EXCEPT ![u] = "READY"]
      /\ UNCHANGED <<ctx, alarms, runq, rthread, preempt_on, saved_flags, irq_on, exec>>
  BY DEF add_thread_ready, add_thread_nomem, At, Goto, Set, Creating, cpuvars
<1>2. u \in Threads /\ status[u] = "INIT" /\ u # t
  BY <1>1, RunsFacts DEF IInv, Creation
<1>3. TypeOK /\ CpuTypeOK
  BY DEF IInv, CpuInv
<1>4. Nothing \in [th : Threads \cup {NULL}, cpu : CPUs]
  BY BootAssumption DEF Nothing
<1>5. TypeOK' /\ CpuTypeOK'
  BY <1>1, <1>2, <1>3, <1>4 DEF TypeOK, CpuTypeOK, Locations, Statuses
<1>6. /\ \A v \in Threads : status'[v] = status[v] \/ (v = u /\ status'[v] = "READY")
      /\ \A v \in Threads : pc'[v] = IF v = t THEN "body" ELSE pc[v]
      /\ \A v \in Threads : v # t => new'[v] = new[v]
  BY <1>1, <1>2, <1>3 DEF TypeOK, CpuTypeOK
<1>7. Gone' = Gone
  BY <1>1, <1>3, GoneSame DEF Goto, Set
<1>8. CpuInv(Gone)'
  <2>1. \A v \in Threads :
          /\ status'[v] = "RUNNING" => status[v] = "RUNNING"
          /\ status'[v] \in {"NONE", "INIT"} => status[v] \in {"NONE", "INIT"}
    BY <1>6
  <2> QED
    BY <1>1, <1>5, <1>7, <2>1, QuietGone DEF IInv
<1>9. Creation'
  <2>1. \A v \in Threads : status'[v] \in {"NONE", "INIT"} => status'[v] = status[v]
    BY <1>6
  <2>2. \A v \in Threads : status'[v] \in {"NONE", "INIT"} => pc'[v] = "body"
    BY <1>6, <2>1 DEF IInv, Creation
  <2>3. \A v \in Threads, d \in CPUs : status'[v] = "NONE" => ~ InQ(v, runq'[d])
    BY <1>1, <2>1 DEF IInv, Creation
  <2>4. \A v \in Threads : Creating(v)' => Creating(v) /\ v # t /\ new'[v] = new[v]
                                           /\ pc'[v] = pc[v]
    BY <1>6 DEF Creating
  <2>5. \A v \in Threads :
          Creating(v)' => new'[v].th \in Threads /\ status'[new'[v].th] = "INIT"
    <3> SUFFICES ASSUME NEW v \in Threads, Creating(v)'
                 PROVE  new'[v].th \in Threads /\ status'[new'[v].th] = "INIT"
      OBVIOUS
    <3>1. new[v].th \in Threads /\ status[new[v].th] = "INIT" /\ new[v].th # u
      BY <1>1, <2>4 DEF IInv, Creation
    <3> QED
      BY <1>6, <2>4, <3>1
  <2>6. \A v \in Threads, d \in CPUs : pc'[v] = "queue" => ~ InQ(new'[v].th, runq'[d])
    BY <1>1, <1>6 DEF IInv, Creation
  <2>7. \A v, w \in Threads :
          Creating(v)' /\ Creating(w)' /\ new'[v].th = new'[w].th => v = w
    BY <2>4 DEF IInv, Creation
  <2> QED
    BY <2>2, <2>3, <2>5, <2>6, <2>7 DEF Creation, InQ
<1>10. Completed'
  BY <1>2, <1>6 DEF IInv, Completed
<1>11. FlagsKept({})'
  BY <1>1 DEF IInv, FlagsKept, Runs
<1> QED
  BY <1>5, <1>8, <1>9, <1>10, <1>11 DEF IInv

\* The two actions that only change the status of the running thread.
LEMMA OwnStatusIInv ==
  ASSUME IInv, NEW c \in CPUs, NEW t \in Threads, pause(c, t) \/ finish_status(c, t)
  PROVE  IInv'
<1>1. PICK s \in {"BLOCKED", "COMPLETE"}, loc \in {"sched", "fin_check"} :
        /\ status' = [status EXCEPT ![t] = s] /\ pc' = [pc EXCEPT ![t] = loc]
        /\ loc = "fin_check" => s = "COMPLETE"
        /\ loc = "fin_check" <=> pc[t] = "fin_status"
        /\ Runs(c, t) /\ pc[t] \in {"body", "fin_status"}
        /\ alarms' \in {alarms, alarms \cup {t}}
        /\ UNCHANGED <<ctx, runq, rthread, preempt_on, saved_flags, irq_on, exec, new>>
  <2>1. CASE pause(c, t)
    <3> WITNESS "BLOCKED" \in {"BLOCKED", "COMPLETE"}, "sched" \in {"sched", "fin_check"}
    <3> QED
      BY <2>1 DEF pause, At, Goto, Set
  <2>2. CASE finish_status(c, t)
    <3> WITNESS "COMPLETE" \in {"BLOCKED", "COMPLETE"}, "fin_check" \in {"sched", "fin_check"}
    <3> QED
      BY <2>2 DEF finish_status, At, Goto, Set
  <2> QED
    BY <2>1, <2>2
<1>2. TypeOK /\ CpuTypeOK
  BY DEF IInv, CpuInv
<1>3. TypeOK' /\ CpuTypeOK'
  BY <1>1, <1>2 DEF TypeOK, CpuTypeOK, Locations, Statuses
<1>4. /\ \A v \in Threads : status'[v] = IF v = t THEN s ELSE status[v]
      /\ \A v \in Threads : pc'[v] = IF v = t THEN loc ELSE pc[v]
  BY <1>1, <1>2 DEF TypeOK, CpuTypeOK
<1>5. Gone' = Gone
  BY <1>1, <1>2, GoneSame DEF Goto, Set
<1>6. CpuInv(Gone)'
  BY <1>1, <1>3, <1>4, <1>5, QuietGone DEF IInv
<1>7. status[t] \notin {"NONE", "INIT"}
  BY <1>1, RunsFacts
<1>8. Creation'
  <2>1. \A v \in Threads : Creating(v)' <=> Creating(v) /\ v # t
    BY <1>1, <1>4 DEF Creating
  <2>2. \A v \in Threads : Creating(v)' => new[v].th \in Threads /\ new[v].th # t
                                           /\ status[new[v].th] = "INIT"
    BY <1>7, <2>1 DEF IInv, Creation
  <2>3. \A v \in Threads : pc'[v] = "queue" => pc[v] = "queue"
    BY <1>1, <1>4
  <2>4. \A v \in Threads : status'[v] \in {"NONE", "INIT"} => pc'[v] = "body"
    BY <1>1, <1>4, <1>7 DEF IInv, Creation
  <2>5. \A v \in Threads : status'[v] = "NONE" => status[v] = "NONE"
    BY <1>1, <1>4
  <2>6. \A v \in Threads : Creating(v)' => status'[new[v].th] = "INIT"
    BY <1>1, <1>4, <2>2
  <2> QED
    BY <1>1, <2>1, <2>3, <2>4, <2>5, <2>6, CreationKept DEF IInv
<1>9. Completed'
  BY <1>1, <1>4 DEF IInv, Completed
<1>10. FlagsKept({})'
  BY <1>1 DEF IInv, FlagsKept, Runs
<1> QED
  BY <1>3, <1>6, <1>8, <1>9, <1>10 DEF IInv

\* add_thread_to_rq puts the new thread on a queue.
LEMMA QueueIInv ==
  ASSUME IInv, NEW c \in CPUs, NEW t \in Threads, add_thread_to_rq(c, t)
  PROVE  IInv'
<1> DEFINE u == new[t].th
           e == new[t].cpu
<1>1. /\ Runs(c, t) /\ pc[t] = "queue" /\ Creating(t)
      /\ pc' = [pc EXCEPT ![t] = "ready"]
      /\ runq' = [runq EXCEPT ![e] = Append(runq[e], u)]
      /\ saved_flags' = [saved_flags EXCEPT ![c] = irq_on[c]]
      /\ preempt_on' = [preempt_on EXCEPT ![c] = TRUE]
      /\ UNCHANGED <<irq_on, status, ctx, alarms, rthread, exec, new>>
  BY DEF add_thread_to_rq, irqsave_section, local_irq_save, preempt_enable, At, Goto, Set,
         Creating
<1>2. TypeOK /\ CpuTypeOK /\ OneQueue
  BY DEF IInv, CpuInv
<1>3. /\ u \in Threads /\ e \in CPUs /\ status[u] = "INIT" /\ pc[u] = "body"
      /\ \A d \in CPUs : ~ InQ(u, runq[d])
  BY <1>1, <1>2 DEF IInv, Creation, TypeOK
<1>4. /\ exec[c].mode = "run" /\ exec[c].th = t
  BY <1>1 DEF Runs
<1> HIDE DEF u, e
<1>5. /\ Append(runq[e], u) \in Seq(Threads)
      /\ \A v : InQ(v, Append(runq[e], u)) <=> InQ(v, runq[e]) \/ v = u
      /\ Distinct(Append(runq[e], u))
  BY <1>2, <1>3, AppendInQ DEF CpuTypeOK, OneQueue
<1>6. /\ runq' \in [CPUs -> Seq(Threads)] /\ runq'[e] = Append(runq[e], u)
      /\ \A d \in CPUs \ {e} : runq'[d] = runq[d]
  BY <1>1, <1>2, <1>3, <1>5 DEF CpuTypeOK
<1>7. \A v \in Threads, d \in CPUs : InQ(v, runq'[d]) <=> InQ(v, runq[d]) \/ (v = u /\ d = e)
  BY <1>3, <1>5, <1>6
<1>8. TypeOK' /\ CpuTypeOK'
  BY <1>1, <1>2, <1>6 DEF TypeOK, CpuTypeOK, Locations
<1>9. PICK F : F = Gone
  OBVIOUS
<1>10. Gone' = Gone
  BY <1>1, <1>2, GoneSame DEF Goto, Set
<1>11. OneQueue'
  <2>1. \A d \in CPUs : Distinct(runq'[d])
    BY <1>2, <1>5, <1>6 DEF OneQueue
  <2>2. \A d1, d2 \in CPUs, v \in Threads : InQ(v, runq'[d1]) /\ InQ(v, runq'[d2]) => d1 = d2
    BY <1>2, <1>3, <1>7 DEF OneQueue
  <2> QED
    BY <2>1, <2>2 DEF OneQueue, InQ, Distinct
<1>12. u \notin F
  BY <1>3, <1>9 DEF Gone, Finishing
<1>13. Homes(F)'
  <2>1. \A d \in CPUs, v \in Threads : exec'[d].th = v => v \in F \/ InQ(v, runq'[d])
    BY <1>1, <1>7, <1>9 DEF IInv, CpuInv, Homes
  <2>2. \A d \in CPUs, v \in F : ~ InQ(v, runq'[d])
    <3>1. F \subseteq Threads
      BY <1>9 DEF Gone
    <3> QED
      BY <1>7, <1>9, <1>12, <3>1 DEF IInv, CpuInv, Homes
  <2> QED
    BY <2>1, <2>2 DEF Homes, InQ
<1>14. Current(F)'
  <2>1. \A d \in CPUs, v \in Threads : InQ(v, runq[d]) => InQ(v, runq'[d])
    BY <1>7
  <2>2. Current(F)
    BY <1>9 DEF IInv, CpuInv
  <2>3. \A d \in CPUs :
          /\ exec[d].mode = "boot" => rthread[d] = NULL /\ exec[d].th = NULL
          /\ exec[d].mode = "run" =>
               /\ exec[d].th \in Threads
               /\ \/ rthread[d] = exec[d].th
                  \/ /\ rthread[d] = NULL /\ exec[d].th \in F
                     /\ status[exec[d].th] # "RUNNING"
          /\ exec[d].mode = "scan" =>
               /\ exec[d].at = NULL <=> rthread[d] = NULL
               /\ exec[d].at \in Threads => InQ(exec[d].at, runq'[d])
               /\ exec[d].at = HEAD => exec[d].th \in F
          /\ exec[d].mode = "wild" => exec[d].th \in F
    BY <2>1, <2>2 DEF Current
  <2>4. UNCHANGED <<exec, rthread, status>>
    BY <1>1
  <2> QED
    BY <2>3, <2>4 DEF Current, InQ
<1>15. Born'
  BY <1>1 DEF IInv, CpuInv, Born
<1>16. RunningIsCurrent' /\ NoSharedStack'
  BY <1>1 DEF IInv, CpuInv, RunningIsCurrent, Runs, NoSharedStack
<1>17. NoNestedSchedule'
  BY <1>1, <1>2, <1>4 DEF IInv, CpuInv, NoNestedSchedule, CpuTypeOK
<1>18. CpuInv(F)'
  BY <1>8, <1>11, <1>13, <1>14, <1>15, <1>16, <1>17 DEF CpuInv
<1>19. CpuInv(Gone)'
  BY <1>9, <1>10, <1>18
<1>20. Creation'
  <2>1. \A v \in Threads : pc'[v] = IF v = t THEN "ready" ELSE pc[v]
    BY <1>1, <1>2 DEF TypeOK
  <2>2. \A v \in Threads : Creating(v)' <=> Creating(v)
    BY <1>1, <2>1 DEF Creating
  <2>3. \A v \in Threads : status'[v] \in {"NONE", "INIT"} => pc'[v] = "body"
    <3>1. status[t] \notin {"NONE", "INIT"}
      BY <1>1, RunsFacts
    <3> QED
      BY <1>1, <2>1, <3>1 DEF IInv, Creation
  <2>4. \A v \in Threads, d \in CPUs : status'[v] = "NONE" => ~ InQ(v, runq'[d])
    BY <1>1, <1>3, <1>7 DEF IInv, Creation
  <2>5. \A v \in Threads, d \in CPUs : pc'[v] = "queue" => ~ InQ(new'[v].th, runq'[d])
    <3> SUFFICES ASSUME NEW v \in Threads, NEW d \in CPUs, pc'[v] = "queue"
                 PROVE  ~ InQ(new'[v].th, runq'[d])
      OBVIOUS
    <3>1. v # t /\ Creating(v) /\ pc[v] = "queue"
      BY <2>1 DEF Creating
    <3>2. new[v].th \in Threads /\ new[v].th # u
      BY <1>1, <3>1 DEF IInv, Creation, u
    <3>3. ~ InQ(new[v].th, runq[d])
      BY <3>1 DEF IInv, Creation
    <3> QED
      BY <1>1, <1>7, <3>2, <3>3
  <2>6. /\ \A v \in Threads :
             Creating(v)' => new'[v].th \in Threads /\ status'[new'[v].th] = "INIT"
        /\ \A v, w \in Threads :
             Creating(v)' /\ Creating(w)' /\ new'[v].th = new'[w].th => v = w
    BY <1>1, <2>2 DEF IInv, Creation
  <2> QED
    BY <2>3, <2>4, <2>5, <2>6 DEF Creation, InQ
<1>21. Completed'
  BY <1>1, <1>2 DEF IInv, Completed, TypeOK
<1>22. FlagsKept({})'
  BY <1>1, <1>2, <1>4 DEF IInv, FlagsKept, Runs, CpuTypeOK
<1> QED
  BY <1>8, <1>19, <1>20, <1>21, <1>22 DEF IInv

\* schedule() called by a thread that pauses or that has finished.
LEMMA ScheduleIInv ==
  ASSUME IInv, NEW c \in CPUs, NEW t \in Threads,
         pause_schedule(c, t) \/ finish_schedule(c, t)
  PROVE  IInv'
<1>1. PICK loc \in {"body", "dead"} :
        /\ pc' = [pc EXCEPT ![t] = loc]
        /\ (pc[t] = "sched" /\ loc = "body") \/ (pc[t] = "fin_sched" /\ loc = "dead")
  BY DEF pause_schedule, finish_schedule, At, Goto, Set
<1>2. /\ Runs(c, t) /\ enter_schedule(c, FALSE, status) /\ alarms' = alarms /\ new' = new
  BY DEF pause_schedule, finish_schedule, call_schedule, At
<1>3. TypeOK /\ CpuTypeOK
  BY DEF IInv, CpuInv
<1>4. Woken(status) /\ alarms' \in SUBSET Threads /\ exec[c].mode \in {"boot", "run"}
  BY <1>2, <1>3 DEF Woken, CpuTypeOK, Runs
<1>5. PICK F : F = Gone
  OBVIOUS
<1>6. CpuInv(F)
  BY <1>5 DEF IInv
<1>7. Gone' = Gone
  BY <1>1, <1>3, GoneSame DEF Goto, Set
<1>8. CpuInv(F)'
  BY <1>2, <1>4, <1>6, EnterCpuInv
<1>9. CpuInv(Gone)'
  BY <1>5, <1>7, <1>8
<1>10. /\ runq' = runq
       /\ \A v \in Threads :
            status'[v] = IF v = rthread[c] /\ status[v] = "RUNNING" THEN "READY" ELSE status[v]
  BY <1>2, <1>4, <1>6, EnterStatus
<1>11. FlagsKept({})'
  BY <1>2, <1>4, <1>6, EnterFlags DEF IInv
<1>12. TypeOK'
  BY <1>1, <1>2, <1>3 DEF TypeOK, Locations
<1>13. /\ \A v \in Threads : pc'[v] = IF v = t THEN loc ELSE pc[v]
       /\ \A v \in Threads : \A s \in {"NONE", "INIT", "COMPLETE"} : status'[v] = s <=> status[v] = s
  BY <1>1, <1>3, <1>10 DEF TypeOK
<1>14. status[t] \notin {"NONE", "INIT"}
  BY <1>2, RunsFacts
<1>15. Creation'
  <2>1. \A v \in Threads : Creating(v)' <=> Creating(v)
    BY <1>1, <1>13 DEF Creating
  <2>2. \A v \in Threads : pc'[v] = "queue" => pc[v] = "queue"
    BY <1>1, <1>13
  <2>3. \A v \in Threads : status'[v] \in {"NONE", "INIT"} => pc'[v] = "body"
    BY <1>13, <1>14 DEF IInv, Creation
  <2>4. \A v \in Threads : Creating(v)' => status'[new[v].th] = "INIT"
    BY <1>13, <2>1 DEF IInv, Creation
  <2>5. \A v \in Threads : status'[v] = "NONE" => status[v] = "NONE"
    BY <1>13
  <2> QED
    BY <1>2, <1>10, <2>1, <2>2, <2>3, <2>4, <2>5, CreationKept DEF IInv
<1>16. Completed'
  BY <1>1, <1>13 DEF IInv, Completed
<1> QED
  BY <1>9, <1>11, <1>12, <1>15, <1>16 DEF IInv

\* __finish_thread takes the thread off its queue.
LEMMA RemoveIInv ==
  ASSUME IInv, NEW c \in CPUs, NEW t \in Threads, finish_remove(c, t)
  PROVE  IInv'
<1> DEFINE q == Without(runq[c], t)
<1>1. /\ Runs(c, t) /\ pc[t] = "body" /\ pc' = [pc EXCEPT ![t] = "fin_status"]
      /\ runq' = [runq EXCEPT ![c] = q]
      /\ saved_flags' = [saved_flags EXCEPT ![c] = irq_on[c]]
      /\ preempt_on' = [preempt_on EXCEPT ![c] = TRUE]
      /\ UNCHANGED <<irq_on, status, ctx, alarms, rthread, exec, new>>
  BY DEF finish_remove, irqsave_section, local_irq_save, preempt_enable, At, Goto, Set
<1>2. TypeOK /\ CpuTypeOK /\ OneQueue
  BY DEF IInv, CpuInv
<1>3. /\ exec[c].mode = "run" /\ exec[c].th = t /\ InQ(t, runq[c])
      /\ status[t] \notin {"NONE", "INIT"}
  BY <1>1, RunsFacts DEF Finishing
<1>4. /\ q \in Seq(Threads)
      /\ \A v : InQ(v, q) <=> InQ(v, runq[c]) /\ v # t
      /\ Distinct(q)
  BY <1>2, <1>3, WithoutInQ DEF CpuTypeOK, OneQueue
<1> HIDE DEF q
<1>5. /\ runq' \in [CPUs -> Seq(Threads)] /\ runq'[c] = q
      /\ \A d \in CPUs \ {c} : runq'[d] = runq[d]
  BY <1>1, <1>2, <1>4 DEF CpuTypeOK
<1>6. \A v \in Threads, d \in CPUs : InQ(v, runq'[d]) <=> InQ(v, runq[d]) /\ v # t
  <2>1. \A d \in CPUs \ {c} : ~ InQ(t, runq[d])
    BY <1>2, <1>3 DEF OneQueue
  <2> QED
    BY <1>4, <1>5, <2>1
<1>7. TypeOK' /\ CpuTypeOK'
  BY <1>1, <1>2, <1>5 DEF TypeOK, CpuTypeOK, Locations
<1>8. \A v \in Threads : pc'[v] = IF v = t THEN "fin_status" ELSE pc[v]
  BY <1>1, <1>2 DEF TypeOK
<1>9. PICK F : F = Gone \cup {t}
  OBVIOUS
<1>10. Gone' = F
  BY <1>8, <1>9 DEF Gone, Finishing
<1>11. OneQueue'
  <2>1. \A d \in CPUs : Distinct(runq'[d])
    BY <1>2, <1>4, <1>5 DEF OneQueue
  <2>2. \A d1, d2 \in CPUs, v \in Threads : InQ(v, runq'[d1]) /\ InQ(v, runq'[d2]) => d1 = d2
    BY <1>2, <1>6 DEF OneQueue
  <2> QED
    BY <2>1, <2>2 DEF OneQueue, InQ, Distinct
<1>12. Homes(F)'
  <2>1. \A d \in CPUs, v \in Threads : exec'[d].th = v => v \in F \/ InQ(v, runq'[d])
    BY <1>1, <1>6, <1>9 DEF IInv, CpuInv, Homes
  <2>2. \A d \in CPUs, v \in F : ~ InQ(v, runq'[d])
    <3>1. F \subseteq Threads
      BY <1>9 DEF Gone
    <3> QED
      BY <1>6, <1>9, <3>1 DEF IInv, CpuInv, Homes
  <2> QED
    BY <2>1, <2>2 DEF Homes, InQ
<1>13. Current(F)'
  <2>1. \A d \in CPUs : exec[d].mode = "scan" => d # c /\ runq'[d] = runq[d]
    BY <1>3, <1>5
  <2>2. Current(Gone) /\ Gone \subseteq F
    BY <1>9 DEF IInv, CpuInv
  <2>3. \A d \in CPUs :
          /\ exec[d].mode = "boot" => rthread[d] = NULL /\ exec[d].th = NULL
          /\ exec[d].mode = "run" =>
               /\ exec[d].th \in Threads
               /\ \/ rthread[d] = exec[d].th
                  \/ /\ rthread[d] = NULL /\ exec[d].th \in F
                     /\ status[exec[d].th] # "RUNNING"
          /\ exec[d].mode = "scan" =>
               /\ exec[d].at = NULL <=> rthread[d] = NULL
               /\ exec[d].at \in Threads => InQ(exec[d].at, runq'[d])
               /\ exec[d].at = HEAD => exec[d].th \in F
          /\ exec[d].mode = "wild" => exec[d].th \in F
    BY <2>1, <2>2 DEF Current
  <2>4. UNCHANGED <<exec, rthread, status>>
    BY <1>1
  <2> QED
    BY <2>3, <2>4 DEF Current, InQ
<1>14. Born'
  BY <1>1 DEF IInv, CpuInv, Born
<1>15. RunningIsCurrent' /\ NoSharedStack'
  BY <1>1 DEF IInv, CpuInv, RunningIsCurrent, Runs, NoSharedStack
<1>16. NoNestedSchedule'
  BY <1>1, <1>2, <1>3 DEF IInv, CpuInv, NoNestedSchedule, CpuTypeOK
<1>17. CpuInv(F)'
  BY <1>7, <1>11, <1>12, <1>13, <1>14, <1>15, <1>16 DEF CpuInv
<1>18. CpuInv(Gone)'
  BY <1>10, <1>17
<1>19. Creation'
  <2>1. \A v \in Threads : Creating(v)' <=> Creating(v)
    BY <1>1, <1>8 DEF Creating
  <2>2. \A v \in Threads : pc'[v] = "queue" => pc[v] = "queue" /\ new[v].th \in Threads
    BY <1>8 DEF IInv, Creation, Creating
  <2>3. \A v \in Threads : status'[v] \in {"NONE", "INIT"} => pc'[v] = "body"
    BY <1>1, <1>3, <1>8 DEF IInv, Creation
  <2>4. \A v \in Threads, d \in CPUs : status'[v] = "NONE" => ~ InQ(v, runq'[d])
    BY <1>1, <1>6 DEF IInv, Creation
  <2>5. \A v \in Threads, d \in CPUs : pc'[v] = "queue" => ~ InQ(new'[v].th, runq'[d])
    BY <1>1, <1>6, <2>2 DEF IInv, Creation
  <2>6. /\ \A v \in Threads :
             Creating(v)' => new'[v].th \in Threads /\ status'[new'[v].th] = "INIT"
        /\ \A v, w \in Threads :
             Creating(v)' /\ Creating(w)' /\ new'[v].th = new'[w].th => v = w
    BY <1>1, <2>1 DEF IInv, Creation
  <2> QED
    BY <2>3, <2>4, <2>5, <2>6 DEF Creation, InQ
<1>20. Completed'
  BY <1>1, <1>8 DEF IInv, Completed
<1>21. FlagsKept({})'
  BY <1>1, <1>2, <1>3 DEF IInv, FlagsKept, Runs, CpuTypeOK
<1> QED
  BY <1>7, <1>18, <1>19, <1>20, <1>21 DEF IInv

\* check_runnable_threads: the last thread leaves its processor without a
\* current thread.
LEMMA CheckIInv ==
  ASSUME IInv, NEW c \in CPUs, NEW t \in Threads, finish_check(c, t)
  PROVE  IInv'
<1>1. /\ Runs(c, t) /\ pc[t] = "fin_check" /\ pc' = [pc EXCEPT ![t] = "fin_sched"]
      /\ \/ rthread' = rthread
         \/ /\ \A u \in Threads : status[u] \in {"NONE", "COMPLETE"}
            /\ rthread' = [rthread EXCEPT ![c] = NULL]
      /\ UNCHANGED <<status, ctx, alarms, runq, preempt_on, saved_flags, irq_on, exec, new>>
  BY DEF finish_check, At, Goto, Set
<1>2. TypeOK /\ CpuTypeOK
  BY DEF IInv, CpuInv
<1>3. \A v \in Threads : pc'[v] = IF v = t THEN "fin_sched" ELSE pc[v]
  BY <1>1, <1>2 DEF TypeOK
<1>4. PICK F : F = Gone
  OBVIOUS
<1>5. Gone' = Gone
  BY <1>1, <1>2, GoneSame DEF Goto, Set
<1>6. /\ exec[c].mode = "run" /\ exec[c].th = t /\ t \in F
      /\ status[t] = "COMPLETE"
  BY <1>1, <1>4 DEF Runs, Gone, Finishing, IInv, Completed
<1>7. TypeOK' /\ CpuTypeOK'
  BY <1>1, <1>2 DEF TypeOK, CpuTypeOK, Locations
<1>8. CpuInv(F)'
  <2>1. CpuInv(F)
    BY <1>4 DEF IInv
  <2>2. OneQueue'
    BY <1>1, <2>1, QueuesKept DEF CpuInv
  <2>3. Homes(F)'
    <3>1. /\ \A d \in CPUs, v \in Threads : exec[d].th = v => v \in F \/ InQ(v, runq[d])
          /\ \A d \in CPUs, v \in F : ~ InQ(v, runq[d])
      BY <2>1 DEF CpuInv, Homes
    <3> QED
      BY <1>1, <3>1 DEF Homes, InQ
  <2>4. \A d \in CPUs \ {c} : rthread'[d] = rthread[d]
    BY <1>1, <1>2 DEF CpuTypeOK
  <2>5. rthread'[c] = rthread[c] \/ rthread'[c] = NULL
    BY <1>1, <1>2 DEF CpuTypeOK
  <2>6. Current(F)'
    <3>1. Current(F)
      BY <2>1 DEF CpuInv
    <3>2. \A d \in CPUs :
            \/ rthread'[d] = rthread[d]
            \/ exec[d].mode = "run" /\ exec[d].th \in F /\ exec[d].th \in Threads
               /\ rthread'[d] = NULL /\ status[exec[d].th] # "RUNNING"
      BY <1>6, <2>4, <2>5
    <3> QED
      BY <1>1, <3>1, <3>2 DEF Current, InQ
  <2>7. Born' /\ NoNestedSchedule' /\ NoSharedStack'
    BY <1>1, <2>1 DEF CpuInv, Born, NoNestedSchedule, NoSharedStack
  <2>8. RunningIsCurrent'
    BY <1>1, <2>1 DEF CpuInv, RunningIsCurrent, Runs
  <2> QED
    BY <1>7, <2>2, <2>3, <2>6, <2>7, <2>8 DEF CpuInv
<1>9. CpuInv(Gone)'
  BY <1>4, <1>5, <1>8
<1>10. Creation'
  <2>1. \A v \in Threads : Creating(v)' <=> Creating(v)
    BY <1>1, <1>3 DEF Creating
  <2>2. \A v \in Threads : pc'[v] = "queue" => pc[v] = "queue"
    BY <1>3
  <2>3. \A v \in Threads : status'[v] \in {"NONE", "INIT"} => pc'[v] = "body"
    BY <1>1, <1>3, <1>6 DEF IInv, Creation
  <2>4. \A v \in Threads : Creating(v)' => status'[new[v].th] = "INIT"
    BY <1>1, <2>1 DEF IInv, Creation
  <2> QED
    BY <1>1, <2>1, <2>2, <2>3, <2>4, CreationKept DEF IInv
<1>11. Completed'
  BY <1>1, <1>3, <1>6 DEF IInv, Completed
<1>12. FlagsKept({})'
  BY <1>1 DEF IInv, FlagsKept, Runs
<1> QED
  BY <1>7, <1>9, <1>10, <1>11, <1>12 DEF IInv

\* A step that changes nothing.
LEMMA StutterIInv ==
  ASSUME IInv, UNCHANGED vars
  PROVE  IInv'
<1>1. CpuTypeOK' /\ TypeOK'
  BY DEF IInv, CpuInv, CpuTypeOK, TypeOK, vars, cpuvars
<1>2. Gone' = Gone
  BY DEF Gone, Finishing, vars
<1>3. CpuInv(Gone)'
  BY <1>1, <1>2, QuietGone DEF IInv, vars, cpuvars
<1>4. Creation'
  <2>1. UNCHANGED <<status, pc, new, runq>> /\ \A v \in Threads : Creating(v)' <=> Creating(v)
    BY DEF vars, cpuvars, Creating
  <2> QED
    BY <2>1, CreationKept DEF IInv, Creation
<1>5. Completed' /\ FlagsKept({})'
  BY DEF IInv, Completed, FlagsKept, Runs, vars, cpuvars
<1> QED
  BY <1>1, <1>3, <1>4, <1>5 DEF IInv

\* The inductive invariant holds in every state of Sched.
THEOREM SchedInvariant == Spec => []IInv
<1>1. IInv /\ [Next]_vars => IInv'
  <2> SUFFICES ASSUME IInv, [Next]_vars PROVE IInv'
    OBVIOUS
  <2>1. ASSUME NEW c \in CPUs, Processor(c) /\ UNCHANGED <<pc, new, task_status>>
        PROVE  IInv'
    BY <2>1, ProcessorIInv
  <2>2. ASSUME NEW c \in CPUs, NEW t \in Threads, Thread(c, t)
        PROVE  IInv'
    BY <2>2, CreateIInv, QueueIInv, ReadyIInv, OwnStatusIInv, ScheduleIInv, RemoveIInv,
       CheckIInv DEF Thread, Finish
  <2> QED
    BY <2>1, <2>2, StutterIInv DEF Next
<1> QED
  BY <1>1, InitIInv, PTL DEF Spec

\* A RUNNING thread is the current thread of a processor that runs its code, in
\* every interleaving of ticks, pauses, creations and exits.
THEOREM RunningCurrent == Spec => []RunningIsCurrent
<1>1. IInv => RunningIsCurrent
  BY DEF IInv, CpuInv
<1> QED
  BY <1>1, SchedInvariant, PTL

\* No two processors ever use the stack of one thread: the thread that
\* schedule() leaves READY before its loop stays on its own queue, and a
\* thread that has left its queue is found by nobody.
THEOREM StacksApart == Spec => []NoSharedStack
<1>1. IInv => NoSharedStack
  BY DEF IInv, CpuInv
<1> QED
  BY <1>1, SchedInvariant, PTL

\* The loop of __do_sched_rr is never entered from within itself.
THEOREM NotNested == Spec => []NoNestedSchedule
<1>1. IInv => NoNestedSchedule
  BY DEF IInv, CpuInv
<1> QED
  BY <1>1, SchedInvariant, PTL

\* Without locks, thread code always runs with interrupts on, although every
\* processor has one slot for the flags of all its critical sections.
THEOREM AlwaysInterruptible == Spec => []InterruptsOn
<1>1. IInv => InterruptsOn
  BY DEF IInv, CpuInv, Current, FlagsKept, Runs, InterruptsOn
<1> QED
  BY <1>1, SchedInvariant, PTL

\* The loop of __do_sched_rr leaves its queue only for a thread that has
\* finished.
THEOREM StrayFinished == Spec => []StrayOnlyAfterFinish
<1>1. IInv => StrayOnlyAfterFinish
  BY DEF IInv, CpuInv, Current, Gone, StrayOnlyAfterFinish
<1> QED
  BY <1>1, SchedInvariant, PTL
=============================================================================
