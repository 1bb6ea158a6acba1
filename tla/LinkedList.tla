----------------------------- MODULE LinkedList -----------------------------
(***************************************************************************)
(* The doubly linked lists of include/list.h, as stores to the next and    *)
(* prev pointers of heads and entries.  An operation is called the way its *)
(* comment asks for; live is the set of nodes whose pointers then mean     *)
(* something.  An operation that takes a memory (next, prev) returns the   *)
(* memory after its stores, in the order of the code.                      *)
(*                                                                         *)
(* walk is one list_for_each_entry_safe loop (sync_buffer of src/bbuf.c),  *)
(* whose body may take the current entry off its list.                     *)
(***************************************************************************)
EXTENDS ListSpec, FiniteSets

CONSTANTS POISON1, POISON2    \* LIST_POISON1, LIST_POISON2

Nodes == Heads \cup Entries

ASSUME ListAssumption ==
  /\ Heads \cap Entries = {}
  /\ {POISON1, POISON2, NULL} \cap Nodes = {}
  /\ IsFiniteSet(Entries)

VARIABLES
  next, prev,     \* list_head_t of every node
  live,           \* nodes that are initialised or on a list
  walk            \* the loop: head, cursors pos and n; the list it began
                  \* with (todo) and the entries its body has seen

vars == <<next, prev, live, walk>>

Pointers == Nodes \cup {POISON1, POISON2}
NoWalk == [head |-> NULL, pos |-> NULL, n |-> NULL, todo |-> <<>>, seen |-> <<>>]

mem == [next |-> next, prev |-> prev]
Store(m) == next' = m.next /\ prev' = m.prev

\* The heads are initialised, the entries not yet on a list.
Init ==
  /\ next = [x \in Nodes |-> IF x \in Heads THEN x ELSE POISON1]
  /\ prev = [x \in Nodes |-> IF x \in Heads THEN x ELSE POISON2]
  /\ live = Heads
  /\ walk = NoWalk
-----------------------------------------------------------------------------
Self(m, x) == [next |-> [m.next EXCEPT ![x] = x],
               prev |-> [m.prev EXCEPT ![x] = x]]

Between(m, new, p, n) ==
  [next |-> [m.next EXCEPT ![new] = n, ![p] = new],
   prev |-> [m.prev EXCEPT ![n] = new, ![new] = p]]

Bypass(m, p, n) == [next |-> [m.next EXCEPT ![p] = n],
                    prev |-> [m.prev EXCEPT ![n] = p]]

Unlink(m, x) == Bypass(m, m.prev[x], m.next[x])

AddAfter(m, new, h) == Between(m, new, h, m.next[h])

\* Mutant: the node goes to the other end.
AddBefore_after(m, new, h) == Between(m, new, h, m.next[h])

AddBefore(m, new, h) == Between(m, new, m.prev[h], h)

\* The third store reads old->prev after the second, which has changed it when
\* old is alone.
Substitute(m, old, new) ==
  LET next1 == [m.next EXCEPT ![new] = m.next[old]]
      prev1 == [m.prev EXCEPT ![m.next[old]] = new]
      prev2 == [prev1 EXCEPT ![new] = prev1[old]]
  IN [next |-> [next1 EXCEPT ![prev2[new]] = new], prev |-> prev2]

CutAfter(m, list, h, e) ==
  LET first == m.next[e] IN
  [next |-> [m.next EXCEPT ![list] = m.next[h], ![e] = list, ![h] = first],
   prev |-> [m.prev EXCEPT ![m.next[h]] = list, ![list] = e, ![first] = h]]

Join(m, list, p, n) ==
  LET first == m.next[list]
      last  == m.prev[list]
  IN [next |-> [m.next EXCEPT ![p] = first, ![last] = n],
      prev |-> [m.prev EXCEPT ![first] = p, ![n] = last]]

list_empty(x) == next[x] = x
list_is_singular(h) == ~ list_empty(h) /\ next[h] = prev[h]

\* An entry that may be put on a list.
Addable(e) == e \notin live \/ list_empty(e)

\* Sequences of different entries.
Orders == {q \in UNION {[1 .. n -> Entries] : n \in 0 .. Cardinality(Entries)} :
             \A i, j \in DOMAIN q : q[i] = q[j] => i = j}

\* A walk along next from h to h meets the entries of q, all in use.
Leads(h, q) ==
  /\ next[h] = IF q = <<>> THEN h ELSE q[1]
  /\ \A i \in DOMAIN q :
       q[i] \in live /\ next[q[i]] = IF i = Len(q) THEN h ELSE q[i + 1]

\* The entries of head h, as list_for_each meets them; POISON1 when it does not
\* come back to h.
list_for_each(h) ==
  IF \E q \in Orders : Leads(h, q) THEN CHOOSE q \in Orders : Leads(h, q)
  ELSE POISON1

On(e, h) == \E q \in Orders : Leads(h, q) /\ \E i \in DOMAIN q : q[i] = e
Idle == walk.head = NULL

\* Outside of a loop any entry may be taken off its list, in a loop the
\* current one.
Removable(e) == e \in live /\ (Idle \/ e = walk.pos)
-----------------------------------------------------------------------------
INIT_LIST_HEAD(x) ==
  /\ Idle /\ x \notin live
  /\ Store(Self(mem, x))
  /\ live' = live \cup {x}
  /\ UNCHANGED walk

list_add(e, h) ==
  /\ Idle /\ Addable(e) /\ h \in live
  /\ Store(AddAfter(mem, e, h))
  /\ live' = live \cup {e}
  /\ UNCHANGED walk

list_add_tail(e, h) ==
  /\ Idle /\ Addable(e) /\ h \in live
  /\ Store(AddBefore(mem, e, h))
  /\ live' = live \cup {e}
  /\ UNCHANGED walk

list_del(e) ==
  /\ Removable(e)
  /\ LET m == Unlink(mem, e) IN
     Store([next |-> [m.next EXCEPT ![e] = POISON1],
            prev |-> [m.prev EXCEPT ![e] = POISON2]])
  /\ live' = live \ {e}
  /\ UNCHANGED walk

list_del_init(e) ==
  /\ Removable(e)
  /\ Store(Self(Unlink(mem, e), e))
  /\ UNCHANGED <<live, walk>>

list_move(e, h) ==
  /\ Removable(e) /\ h \in live \ {walk.head}
  /\ Store(AddAfter(Unlink(mem, e), e, h))
  /\ UNCHANGED <<live, walk>>

list_move_tail(e, h) ==
  /\ Removable(e) /\ h \in live \ {walk.head}
  /\ Store(AddBefore(Unlink(mem, e), e, h))
  /\ UNCHANGED <<live, walk>>

\* An entry for an entry or a head for a head; old is left as it is.
list_replace(old, new) ==
  /\ Idle /\ old \in live /\ new \notin live
  /\ \/ {old, new} \subseteq Heads
     \/ {old, new} \subseteq Entries /\ ~ list_empty(old)
  /\ Store(Substitute(mem, old, new))
  /\ live' = (live \ {old}) \cup {new}
  /\ UNCHANGED walk

list_replace_init(old, new) ==
  /\ Idle /\ old \in live /\ new \notin live
  /\ \/ {old, new} \subseteq Heads
     \/ {old, new} \subseteq Entries /\ ~ list_empty(old)
  /\ Store(Self(Substitute(mem, old, new), old))
  /\ live' = live \cup {new}
  /\ UNCHANGED walk

list_rotate_left(h) ==
  /\ Idle /\ h \in live /\ ~ list_empty(h)
  /\ Store(AddBefore(Unlink(mem, next[h]), next[h], h))
  /\ UNCHANGED <<live, walk>>

\* e is on the list h or is h itself; list is empty or not in use.
list_cut_position(list, h, e) ==
  /\ Idle /\ h \in live \ {list}
  /\ list \notin live \/ list_empty(list)
  /\ e = h \/ On(e, h)
  /\ ~ list_empty(h)
  /\ ~ (list_is_singular(h) /\ next[h] # e /\ h # e)
  /\ Store(IF e = h THEN Self(mem, list) ELSE CutAfter(mem, list, h, e))
  /\ live' = live \cup {list}
  /\ UNCHANGED walk

CanSplice(list, h) ==
  Idle /\ list \in live /\ h \in live \ {list} /\ ~ list_empty(list)

\* list is left as it is, pointing into the list h.
list_splice(list, h) ==
  /\ CanSplice(list, h)
  /\ Store(Join(mem, list, h, next[h]))
  /\ live' = live \ {list}
  /\ UNCHANGED walk

list_splice_tail(list, h) ==
  /\ CanSplice(list, h)
  /\ Store(Join(mem, list, prev[h], h))
  /\ live' = live \ {list}
  /\ UNCHANGED walk

list_splice_init(list, h) ==
  /\ CanSplice(list, h)
  /\ Store(Self(Join(mem, list, h, next[h]), list))
  /\ UNCHANGED <<live, walk>>

list_splice_tail_init(list, h) ==
  /\ CanSplice(list, h)
  /\ Store(Self(Join(mem, list, prev[h], h), list))
  /\ UNCHANGED <<live, walk>>
-----------------------------------------------------------------------------
\* list_for_each_entry_safe(pos, n, head): n is read before the body runs.
Deref(x) == IF x \in Nodes THEN next[x] ELSE POISON1

for_each_begin(h) ==
  /\ Idle /\ h \in live
  /\ walk' = [head |-> h, pos |-> next[h], n |-> Deref(next[h]),
              todo |-> list_for_each(h), seen |-> <<>>]
  /\ UNCHANGED <<next, prev, live>>

\* Mutant: the next entry is read after the body, as list_for_each_entry does.
for_each_step_unsafe ==
  /\ ~ Idle /\ walk.pos # walk.head
  /\ walk' = [walk EXCEPT !.pos = Deref(walk.pos), !.seen = Append(@, walk.pos)]
  /\ UNCHANGED <<next, prev, live>>

for_each_step ==
  /\ ~ Idle /\ walk.pos # walk.head
  /\ walk' = [walk EXCEPT !.pos = walk.n, !.n = Deref(walk.n),
                          !.seen = Append(@, walk.pos)]
  /\ UNCHANGED <<next, prev, live>>

for_each_end ==
  /\ ~ Idle /\ walk.pos = walk.head
  /\ walk' = NoWalk
  /\ UNCHANGED <<next, prev, live>>

Next ==
  \/ \E x \in Nodes : INIT_LIST_HEAD(x)
  \/ \E e \in Entries, h \in Heads :
       \/ list_add(e, h) \/ list_add_tail(e, h)
       \/ list_move(e, h) \/ list_move_tail(e, h)
  \/ \E e \in Entries : list_del(e) \/ list_del_init(e)
  \/ \E old, new \in Nodes : list_replace(old, new) \/ list_replace_init(old, new)
  \/ \E h \in Heads : list_rotate_left(h) \/ for_each_begin(h)
  \/ \E list, h \in Heads :
       \/ list_splice(list, h) \/ list_splice_tail(list, h)
       \/ list_splice_init(list, h) \/ list_splice_tail_init(list, h)
       \/ \E e \in Nodes : list_cut_position(list, h, e)
  \/ for_each_step \/ for_each_end

Spec == Init /\ [][Next]_vars
-----------------------------------------------------------------------------
TypeOK ==
  /\ next \in [Nodes -> Pointers]
  /\ prev \in [Nodes -> Pointers]
  /\ live \subseteq Nodes
  /\ walk \in [head : Heads \cup {NULL}, pos : Pointers \cup {NULL},
               n : Pointers \cup {NULL}, todo : Seq(Entries) \cup {POISON1},
               seen : Seq(Pointers \cup {NULL})]

RingOn(m, L) ==
  \A x \in L :
    /\ m.next[x] \in L /\ m.prev[x] \in L
    /\ m.prev[m.next[x]] = x /\ m.next[m.prev[x]] = x

\* The nodes in use form rings: next and prev are inverse to each other and
\* lead to nodes in use only, never to a poisoned entry, one that was deleted,
\* or a head that was given up, whatever the sequence of operations.
Rings == RingOn(mem, live)

\* No node is on two lists and no head on the list of another: every node can
\* be given an owner that its ring agrees on, a head owning itself.
Apart ==
  \E own \in [Nodes -> Heads \cup {NULL}] :
    /\ \A h \in live \cap Heads : own[h] = h
    /\ \A x \in live : own[next[x]] = own[x]

\* A list_for_each_entry_safe loop sees the entries the list had when it
\* began, each once and in order, and all of them when it ends, while its body
\* deletes and moves the entries it is at.
WalkSeesAll ==
  /\ Len(walk.seen) <= Len(walk.todo)
  /\ walk.seen = SubSeq(walk.todo, 1, Len(walk.seen))
  /\ walk.pos = walk.head => walk.seen = walk.todo

Contents == [h \in Heads |-> IF h \in live THEN list_for_each(h) ELSE NULL]

\* Every operation does to the sequences of entries what its comment says, and
\* nothing else: list_replace of an empty head, cutting at the last entry and
\* moving the first entry of a list to its front included.
OnSequences ==
  [][LET L == Contents
         N == Contents'
     IN /\ \A e \in Entries :
             list_del(e) \/ list_del_init(e) => Deleted(L, N, e)
        /\ \A e \in Entries, h \in Heads :
             /\ list_add(e, h) => Added(L, N, e, h)
             /\ list_add_tail(e, h) => AddedTail(L, N, e, h)
             /\ list_move(e, h) => Moved(L, N, e, h)
             /\ list_move_tail(e, h) => MovedTail(L, N, e, h)
        /\ \A old, new \in Nodes :
             /\ list_replace(old, new) => Replaced(L, N, old, new, NULL)
             /\ list_replace_init(old, new) => Replaced(L, N, old, new, <<>>)
        /\ \A h \in Heads :
             /\ INIT_LIST_HEAD(h) => N[h] = <<>> /\ Others(L, N, {h})
             /\ list_rotate_left(h) => Rotated(L, N, h)
        /\ \A list, h \in Heads :
             /\ list_splice(list, h) => Spliced(L, N, list, h, NULL)
             /\ list_splice_tail(list, h) => SplicedTail(L, N, list, h, NULL)
             /\ list_splice_init(list, h) => Spliced(L, N, list, h, <<>>)
             /\ list_splice_tail_init(list, h) => SplicedTail(L, N, list, h, <<>>)
             /\ \A e \in Nodes :
                  list_cut_position(list, h, e) => CutUpTo(L, N, list, h, e)
    ]_vars
=============================================================================
