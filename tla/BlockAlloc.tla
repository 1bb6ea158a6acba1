---------------------------- MODULE BlockAlloc ----------------------------
(***************************************************************************)
(* What an allocator of contiguous blocks promises its callers, whatever   *)
(* its bookkeeping: a block handed out shares no unit with a block that is *)
(* still live, a release takes back exactly one live block, and no other   *)
(* live block changes.  FrameAlloc (src/mm.c, units are page frames) and   *)
(* KHeap (src/kmalloc.c, units are bytes) both implement it.               *)
(***************************************************************************)
EXTENDS Integers

CONSTANT Units          \* the units that can be handed out

VARIABLE live           \* live blocks, as pairs <<first unit, last unit>>

Apart(b, c) == b[2] < c[1] \/ c[2] < b[1]

Init == live = {}

Allocate ==
  \E lo, hi \in Units :
    /\ lo <= hi
    /\ lo .. hi \subseteq Units
    /\ \A b \in live : Apart(<<lo, hi>>, b)
    /\ live' = live \cup {<<lo, hi>>}

Release == \E b \in live : live' = live \ {b}

Next == Allocate \/ Release

Spec == Init /\ [][Next]_live
=============================================================================
