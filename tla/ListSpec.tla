------------------------------ MODULE ListSpec ------------------------------
(***************************************************************************)
(* What the comments of include/list.h promise, on sequences: each         *)
(* operator relates the contents L of all heads before a call to the       *)
(* contents N after it.  The contents of a head that is not in use are     *)
(* NULL.                                                                   *)
(***************************************************************************)
EXTENDS Integers, Sequences

CONSTANTS Heads, Entries, NULL

Without(q, e) == IF q = NULL THEN NULL ELSE SelectSeq(q, LAMBDA x : x # e)

Exchange(q, old, new) ==
  IF q = NULL THEN NULL
  ELSE [i \in DOMAIN q |-> IF q[i] = old THEN new ELSE q[i]]

Others(L, N, S) == \A g \in Heads \ S : N[g] = L[g]

Added(L, N, e, h)     == N[h] = <<e>> \o L[h] /\ Others(L, N, {h})
AddedTail(L, N, e, h) == N[h] = Append(L[h], e) /\ Others(L, N, {h})
Deleted(L, N, e)      == \A g \in Heads : N[g] = Without(L[g], e)

Moved(L, N, e, h) ==
  /\ N[h] = <<e>> \o Without(L[h], e)
  /\ \A g \in Heads \ {h} : N[g] = Without(L[g], e)

MovedTail(L, N, e, h) ==
  /\ N[h] = Append(Without(L[h], e), e)
  /\ \A g \in Heads \ {h} : N[g] = Without(L[g], e)

\* rest: what is left of a head that another takes the list from
Replaced(L, N, old, new, rest) ==
  IF old \in Heads
  THEN N[new] = L[old] /\ N[old] = rest /\ Others(L, N, {old, new})
  ELSE \A g \in Heads : N[g] = Exchange(L[g], old, new)

Rotated(L, N, h) ==
  /\ N[h] = Append(Tail(L[h]), Head(L[h]))
  /\ Others(L, N, {h})

\* The part of h up to e goes to list, nothing when e is the head itself.
CutUpTo(L, N, list, h, e) ==
  /\ Others(L, N, {list, h})
  /\ \E k \in 0 .. Len(L[h]) :
       /\ IF e = h THEN k = 0 ELSE k > 0 /\ L[h][k] = e
       /\ N[list] = SubSeq(L[h], 1, k)
       /\ N[h] = SubSeq(L[h], k + 1, Len(L[h]))

Spliced(L, N, list, h, rest) ==
  N[h] = L[list] \o L[h] /\ N[list] = rest /\ Others(L, N, {list, h})

SplicedTail(L, N, list, h, rest) ==
  N[h] = L[h] \o L[list] /\ N[list] = rest /\ Others(L, N, {list, h})
=============================================================================
