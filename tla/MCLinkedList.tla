---------------------------- MODULE MCLinkedList ----------------------------
(* Instance of LinkedList for TLC: two heads, three entries. *)
EXTENDS LinkedList, TLC

CONSTANTS h1, h2, e1, e2, e3

MCHeads   == {h1, h2}
MCEntries == {e1, e2, e3}
Perms     == Permutations(MCHeads) \cup Permutations(MCEntries)
=============================================================================
