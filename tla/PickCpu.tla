------------------------------ MODULE PickCpu ------------------------------
(***************************************************************************)
(* __pick_processor_fsr of src/sched.c, the choice of a processor for a    *)
(* new thread.  The loop indexes from cpu, which is also its result: once  *)
(* cpu has moved, &cpu[i] is not processor i, and may be an entry of       *)
(* cpuset that no processor fills.  What rq_calc_len_and_ready finds there *)
(* is any pair of numbers.                                                 *)
(***************************************************************************)
EXTENDS Integers

CONSTANTS
  NCpu,           \* mpinfo.ncpu
  MaxLen          \* longest run queue

VARIABLES
  runq,           \* length and number of READY threads of every queue
  i, cpu,         \* the locals of the loop; cpu as an index into cpuset
  prev            \* prev_len and prev_ready

vars == <<runq, i, cpu, prev>>

CpuIds == 0 .. NCpu - 1
Queues == {q \in [len : 0 .. MaxLen, ready : 0 .. MaxLen] : q.ready <= q.len}

Init ==
  /\ runq \in [CpuIds -> Queues]
  /\ i = 0 /\ cpu = 0
  /\ prev = [len |-> 0, ready |-> 0]

Better(q) ==
  i = 0 \/ q.len < prev.len \/ (q.len = prev.len /\ q.ready < prev.ready)

\* rq_calc_len_and_ready(&cpu[i], ...)
rq_calc_len_and_ready(q) ==
  IF cpu + i \in CpuIds THEN q = runq[cpu + i] ELSE q \in Queues

\* one turn of the loop
pick_step ==
  /\ i < NCpu
  /\ \E q \in Queues :
       /\ rq_calc_len_and_ready(q)
       /\ cpu' = IF Better(q) THEN i ELSE cpu
       /\ prev' = IF Better(q) THEN q ELSE prev
  /\ i' = i + 1
  /\ UNCHANGED runq

Next == pick_step

Spec == Init /\ [][Next]_vars
-----------------------------------------------------------------------------
Shorter(q, r) == q.len < r.len \/ (q.len = r.len /\ q.ready < r.ready)

=============================================================================
