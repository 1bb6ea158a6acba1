----------------------------- MODULE MCConsole -----------------------------
(***************************************************************************)
(* Instance of C80, Printk and Format for TLC, the three parts of the      *)
(* console; a behaviour is about one of them.                              *)
(***************************************************************************)
EXTENDS C80, Printk

CONSTANTS BITS, Widths, Precisions, Texts

VARIABLES
  part,                  \* "C80", "Printk" or "Format"
  d, arg, field          \* the state of Format

F == INSTANCE Format

fvars == <<d, arg, field>>

MCWidths     == {-1, 0, 3, 7}
MCPrecisions == {-1, 0, 2, 4}

Directive == [conv |-> "c", flags |-> {}, width |-> -1, prec |-> -1]

MCInit ==
  /\ C80Init /\ PrintkInit
  /\ part \in {"C80", "Printk", "Format"}
  /\ F!Init
  /\ part # "Format" => d = Directive /\ arg = 0

MCNext ==
  \/ part = "C80" /\ C80Next /\ UNCHANGED <<pvars, fvars, part>>
  \/ part = "Printk" /\ PrintkNext /\ UNCHANGED <<cvars, fvars, part>>
  \/ part = "Format" /\ F!Next /\ UNCHANGED <<cvars, pvars, part>>

MCSpec == MCInit /\ [][MCNext]_<<cvars, pvars, fvars, part>>
-----------------------------------------------------------------------------
=============================================================================
