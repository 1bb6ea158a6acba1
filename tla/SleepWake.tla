---------------------------- MODULE SleepWake ----------------------------
(***************************************************************************)
(* make_sleep and wake_up of src/sched.c, which Mutex and Semaphore build  *)
(* on, as the status changes of the threads that sleep on a lock.          *)
(***************************************************************************)
CONSTANTS
  Threads,
  NULL            \* no thread

ASSUME NullAssumption == NULL \notin Threads

VARIABLES
  status,         \* thread_t.status
  pc              \* where each thread is in the code of a lock

Statuses == {"READY", "RUNNING", "BLOCKED"}

make_sleep(t) == status' = [status EXCEPT ![t] = "BLOCKED"]

\* Waking a thread that does not sleep only logs a warning.
wake_up(t) ==
  status' = [status EXCEPT ![t] = IF @ = "BLOCKED" THEN "READY" ELSE @]
=============================================================================
