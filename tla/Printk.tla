------------------------------- MODULE Printk -------------------------------
(***************************************************************************)
(* printk of src/printk.c: vsprintf writes into a buffer that is static,   *)
(* so shared by all processors and by interrupt handlers, and c80_write    *)
(* reads it up to the first NUL.  Nothing is locked and nothing checks the *)
(* length.  A step is one access to one byte of the buffer; a byte is NUL  *)
(* or not.                                                                 *)
(***************************************************************************)
EXTENDS Integers

CONSTANTS
  Callers,     \* processors, and handlers on them
  SIZE,        \* 1024
  Lengths      \* of the messages

\* The longest message leaves room for its NUL.
ASSUME MessageAssumption == SIZE \in Nat \ {0} /\ Lengths \subseteq 0 .. SIZE - 1

VARIABLES
  buff,        \* bytes that are not NUL
  at,          \* where every caller is
  len,         \* the length of its message
  pos            \* the next byte it accesses

pvars == <<buff, at, len, pos>>

PrintkInit ==
  /\ buff = {}                                  \* static, so zero
  /\ at = [p \in Callers |-> "out"]
  /\ len = [p \in Callers |-> 0]
  /\ pos = [p \in Callers |-> 0]

printk(p, n) ==
  /\ at[p] = "out"
  /\ at' = [at EXCEPT ![p] = "vsprintf"]
  /\ len' = [len EXCEPT ![p] = n]
  /\ pos' = [pos EXCEPT ![p] = 0]
  /\ UNCHANGED buff

\* *str++ = ...
vsprintf_put(p) ==
  /\ at[p] = "vsprintf" /\ pos[p] < len[p]
  /\ buff' = buff \cup {pos[p]}
  /\ pos' = [pos EXCEPT ![p] = @ + 1]
  /\ UNCHANGED <<at, len>>

\* Mutant: the NUL comes one byte too late.
vsprintf_end_late(p) ==
  /\ at[p] = "vsprintf" /\ pos[p] = len[p]
  /\ buff' = (buff \cup {pos[p]}) \ {pos[p] + 1}
  /\ at' = [at EXCEPT ![p] = "c80_write"]
  /\ pos' = [pos EXCEPT ![p] = 0]
  /\ UNCHANGED len

\* *str = '\0', and buff[i] = '\0' again
vsprintf_end(p) ==
  /\ at[p] = "vsprintf" /\ pos[p] = len[p]
  /\ buff' = buff \ {pos[p]}
  /\ at' = [at EXCEPT ![p] = "c80_write"]
  /\ pos' = [pos EXCEPT ![p] = 0]
  /\ UNCHANGED len

\* c80_write: the next character goes to c80_put (C80), until a NUL
c80_write(p) ==
  /\ at[p] = "c80_write"
  /\ IF pos[p] \in buff
     THEN pos' = [pos EXCEPT ![p] = @ + 1] /\ UNCHANGED at
     ELSE at' = [at EXCEPT ![p] = "out"] /\ UNCHANGED pos
  /\ UNCHANGED <<buff, len>>

PrintkNext ==
  \E p \in Callers :
    \/ \E n \in Lengths : printk(p, n)
    \/ vsprintf_put(p) \/ vsprintf_end(p) \/ c80_write(p)

PrintkSpec == PrintkInit /\ [][PrintkNext]_pvars
-----------------------------------------------------------------------------
\* A caller that reads what others write over may miss its own NUL and print
\* parts of older messages, but it never runs out of the buffer: the byte after
\* the longest message stays NUL.
StaysInBuffer ==
  \A p \in Callers : at[p] # "out" => pos[p] < SIZE
=============================================================================
