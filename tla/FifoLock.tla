----------------------------- MODULE FifoLock -----------------------------
(***************************************************************************)
(* What mutex_lock and mutex_unlock of src/mutex.c promise: at most one    *)
(* holder, the holder passes the lock straight to the thread that has      *)
(* waited longest, and a thread that comes later never overtakes one that  *)
(* waits.                                                                  *)
(***************************************************************************)
EXTENDS Sequences, Integers

CONSTANTS Threads, NoThread

VARIABLES holder, queue

Waiting(t) == \E i \in 1 .. Len(queue) : queue[i] = t

Init == holder = NoThread /\ queue = <<>>

Take(t) ==
  /\ holder = NoThread /\ queue = <<>>
  /\ holder' = t
  /\ UNCHANGED queue

Enqueue(t) ==
  /\ holder # NoThread /\ holder # t /\ ~ Waiting(t)
  /\ queue' = Append(queue, t)
  /\ UNCHANGED holder

Release(t) ==
  /\ holder = t
  /\ \/ queue = <<>> /\ holder' = NoThread /\ UNCHANGED queue
     \/ queue # <<>> /\ holder' = Head(queue) /\ queue' = Tail(queue)

Next == \E t \in Threads : Take(t) \/ Enqueue(t) \/ Release(t)

Spec == Init /\ [][Next]_<<holder, queue>>
=============================================================================
