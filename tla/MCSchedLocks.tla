---------------------------- MODULE MCSchedLocks ----------------------------
(* Instances of SchedLocks for TLC: the three workers of init.c. *)
EXTENDS SchedLocks

CONSTANTS c1, c2, v1, v2, v3

MCCpus    == {c1, c2}
MCThreads == {v1, v2, v3}

\* One distribution of the workers: two of them share a processor and the third
\* has its own.  Renaming gives the others that use both processors.
MCInit == Init /\ runq = [c \in CPUs |-> IF c = c1 THEN <<v1, v2>> ELSE <<v3>>]

MCSpec == MCInit /\ [][Next]_vars
=============================================================================
