------------------------------ MODULE MCSched ------------------------------
(* Instances of Sched for TLC. *)
EXTENDS Sched

CONSTANTS c1, c2, t1, t2, t3

MCCpus    == {c1, c2}
MCOneCpu  == {c1}
MCThreads == {t1, t2, t3}
MCTwo     == {t1, t2}
=============================================================================
