--------------------------- MODULE MCBufferCache ---------------------------
(* Instances of BufferCache for TLC: block 2 is out of range. *)
EXTENDS BufferCache, TLC

CONSTANTS t1, t2, b1, b2

MCThreads == {t1, t2}
MCBufs    == {b1, b2}
MCOneBuf  == {b1}
MCVals    == 0 .. 1
MCTwo     == {0, 1}
MCThree   == {0, 1, 2}
MCBad     == {2}
MCNoBad   == {}

\* Neither threads nor buffers are told apart.
Perms == Permutations(MCThreads) \cup Permutations(MCBufs)
=============================================================================
