----------------------------- MODULE LibProofs -----------------------------
(***************************************************************************)
(* Proofs about what the rest of the kernel is built on: the lists of      *)
(* list.h (LinkedList), the text console (C80), printk (Printk) and the    *)
(* alarms of timer.c (Alarm).                                              *)
(***************************************************************************)
EXTENDS LinkedList, C80, Printk, Alarm, FiniteSetTheorems, SequenceTheorems, TLAPS
-----------------------------------------------------------------------------
(***************************************************************************)
(* LinkedList, for any sets of heads and entries: next and prev of the     *)
(* nodes in use are inverse to each other, and no two heads are on one     *)
(* ring.  Each needs the other: joining two lists keeps the pointers       *)
(* inverse only if the heads are on different rings.                       *)
(***************************************************************************)

Memory == [next : [Nodes -> Pointers], prev : [Nodes -> Pointers]]

\* INIT_LIST_HEAD makes a ring of a node that is not in use.
LEMMA SelfRing ==
  ASSUME NEW m \in Memory, NEW L \in SUBSET Nodes, RingOn(m, L),
         NEW x \in Nodes, x \notin L
  PROVE  Self(m, x) \in Memory /\ RingOn(Self(m, x), L \cup {x})
BY DEF Self, Memory, RingOn, Pointers

\* __list_add puts a node that is not in use behind p.
LEMMA BetweenRing ==
  ASSUME NEW m \in Memory, NEW L \in SUBSET Nodes, RingOn(m, L),
         NEW p \in L, NEW x \in Nodes, x \notin L
  PROVE  /\ Between(m, x, p, m.next[p]) \in Memory
         /\ RingOn(Between(m, x, p, m.next[p]), L \cup {x})
BY DEF Between, Memory, RingOn, Pointers

\* __list_del_entry closes the ring behind the node.
LEMMA UnlinkRing ==
  ASSUME NEW m \in Memory, NEW L \in SUBSET Nodes, RingOn(m, L), NEW x \in L
  PROVE  Unlink(m, x) \in Memory /\ RingOn(Unlink(m, x), L \ {x})
BY DEF Unlink, Bypass, Memory, RingOn, Pointers

\* A node alone on its ring can be left out.
LEMMA AloneRing ==
  ASSUME NEW m \in Memory, NEW L \in SUBSET Nodes, RingOn(m, L),
         NEW x \in L, m.next[x] = x
  PROVE  RingOn(m, L \ {x})
BY DEF Memory, RingOn

\* list_replace, of a node alone on its ring too.
LEMMA SubstituteRing ==
  ASSUME NEW m \in Memory, NEW L \in SUBSET Nodes, RingOn(m, L),
         NEW old \in L, NEW new \in Nodes, new \notin L
  PROVE  /\ Substitute(m, old, new) \in Memory
         /\ RingOn(Substitute(m, old, new), (L \ {old}) \cup {new})
BY DEF Substitute, Memory, RingOn, Pointers

\* __list_cut_position
LEMMA CutRing ==
  ASSUME NEW m \in Memory, NEW L \in SUBSET Nodes, RingOn(m, L),
         NEW h \in L, NEW e \in L, e # h, NEW list \in Nodes, list \notin L
  PROVE  /\ CutAfter(m, list, h, e) \in Memory
         /\ RingOn(CutAfter(m, list, h, e), L \cup {list})
BY DEF CutAfter, Memory, RingOn, Pointers

\* __list_splice behind p, where list is not next to p.
LEMMA JoinRing ==
  ASSUME NEW m \in Memory, NEW L \in SUBSET Nodes, RingOn(m, L),
         NEW list \in L, m.next[list] # list,
         NEW p \in L \ {list}, m.next[p] # list
  PROVE  /\ Join(m, list, p, m.next[p]) \in Memory
         /\ RingOn(Join(m, list, p, m.next[p]), L \ {list})
BY DEF Join, Memory, RingOn, Pointers
-----------------------------------------------------------------------------
(* Apart, for a memory and an owner given. *)
Owners == [Nodes -> Heads \cup {NULL}]

Owned(m, L, own) ==
  /\ own \in Owners
  /\ \A h \in L \cap Heads : own[h] = h
  /\ \A x \in L : own[m.next[x]] = own[x]

\* INIT_LIST_HEAD makes a list of its own.
LEMMA SelfOwned ==
  ASSUME NEW m \in Memory, NEW L \in SUBSET Nodes, RingOn(m, L),
         NEW own, Owned(m, L, own), NEW x \in Nodes, x \notin L
  PROVE  \E o : Owned(Self(m, x), L \cup {x}, o)
<1> DEFINE o == [own EXCEPT ![x] = IF x \in Heads THEN x ELSE NULL]
<1>1. Owned(Self(m, x), L \cup {x}, o)
  BY DEF Self, Memory, RingOn, Owned, Owners
<1> QED BY <1>1

\* list_add puts the entry on the list of its neighbour.
LEMMA BetweenOwned ==
  ASSUME NEW m \in Memory, NEW L \in SUBSET Nodes, RingOn(m, L),
         NEW own, Owned(m, L, own), NEW p \in L, NEW x \in Entries, x \notin L
  PROVE  \E o : Owned(Between(m, x, p, m.next[p]), L \cup {x}, o)
<1> DEFINE o == [own EXCEPT ![x] = own[p]]
<1>1. Owned(Between(m, x, p, m.next[p]), L \cup {x}, o)
  BY ListAssumption DEF Between, Memory, RingOn, Owned, Owners, Nodes
<1> QED BY <1>1

\* list_del leaves all others on their lists.
LEMMA UnlinkOwned ==
  ASSUME NEW m \in Memory, NEW L \in SUBSET Nodes, RingOn(m, L),
         NEW own, Owned(m, L, own), NEW x \in L
  PROVE  Owned(Unlink(m, x), L \ {x}, own)
BY DEF Unlink, Bypass, Memory, RingOn, Owned

\* list_replace takes over the place, and a head the list.
LEMMA SubstituteOwned ==
  ASSUME NEW m \in Memory, NEW L \in SUBSET Nodes, RingOn(m, L),
         NEW own, Owned(m, L, own), NEW old \in L, NEW new \in Nodes, new \notin L,
         {old, new} \subseteq Heads \/ {old, new} \subseteq Entries
  PROVE  \E o : Owned(Substitute(m, old, new), (L \ {old}) \cup {new}, o)
<1> DEFINE s == Substitute(m, old, new)
<1>0. /\ s.next[new] = IF m.next[old] = old THEN new ELSE m.next[old]
      /\ \A x \in L \ {old} :
           s.next[x] = IF m.next[x] = old THEN new ELSE m.next[x]
  BY DEF Substitute, Memory, RingOn
<1> HIDE DEF s
<1>1. CASE {old, new} \subseteq Heads
  <2> DEFINE o == [y \in Nodes |-> IF y = new \/ own[y] = old THEN new ELSE own[y]]
  <2>1. own[old] = old /\ old # new
    BY <1>1 DEF Owned
  <2>2. o \in Owners /\ \A h \in ((L \ {old}) \cup {new}) \cap Heads : o[h] = h
    BY <1>1, <2>1 DEF Owned, Owners, Nodes
  <2>3. o[s.next[new]] = o[new]
    BY <1>0, <2>1 DEF RingOn, Owned
  <2>4. \A x \in L \ {old} : o[s.next[x]] = o[x]
    BY <1>0, <2>1 DEF RingOn, Owned
  <2>5. Owned(s, (L \ {old}) \cup {new}, o)
    BY <2>2, <2>3, <2>4 DEF Owned
  <2> QED BY <2>5 DEF s
<1>2. CASE {old, new} \subseteq Entries
  <2> DEFINE o == [own EXCEPT ![new] = own[old]]
  <2>1. Owned(s, (L \ {old}) \cup {new}, o)
    BY <1>0, <1>2, ListAssumption DEF RingOn, Owned, Owners, Nodes
  <2> QED BY <2>1 DEF s
<1> QED BY <1>1, <1>2

\* list_splice moves every entry of one list to the other.
LEMMA JoinOwned ==
  ASSUME NEW m \in Memory, NEW L \in SUBSET Nodes, RingOn(m, L),
         NEW own, Owned(m, L, own), NEW list \in L \cap Heads,
         NEW h \in (L \cap Heads) \ {list}, m.next[list] # list,
         NEW p \in L, own[p] = h
  PROVE  \E o : Owned(Join(m, list, p, m.next[p]), L \ {list}, o)
<1> DEFINE o == [y \in Nodes |-> IF own[y] = list THEN h ELSE own[y]]
           j == Join(m, list, p, m.next[p])
<1>1. own[list] = list /\ own[m.prev[list]] = list /\ own[m.next[list]] = list
  BY DEF RingOn, Owned
<1>2. \A x \in L \ {list} :
        j.next[x] = IF x = p THEN m.next[list]
                    ELSE IF x = m.prev[list] THEN m.next[p] ELSE m.next[x]
  BY <1>1 DEF Join, Memory, RingOn
<1> HIDE DEF j
<1>3. o \in Owners /\ \A g \in (L \ {list}) \cap Heads : o[g] = g
  BY DEF Owned, Owners, Nodes
<1>4. \A x \in L \ {list} : o[j.next[x]] = o[x]
  BY <1>1, <1>2 DEF RingOn, Owned
<1>5. Owned(j, L \ {list}, o)
  BY <1>3, <1>4 DEF Owned
<1> QED BY <1>5 DEF j

\* The entries of the list h up to e go to the new owner, the others keep h.
LEMMA CutOwned ==
  ASSUME NEW m \in Memory, NEW L \in SUBSET Nodes, RingOn(m, L),
         NEW own, Owned(m, L, own), NEW h \in L \cap Heads,
         NEW list \in Heads, list \notin L,
         NEW q \in Seq(Entries), NEW k \in 1 .. Len(q),
         \A i, j \in 1 .. Len(q) : q[i] = q[j] => i = j,
         m.next[h] = q[1],
         \A i \in 1 .. Len(q) :
           q[i] \in L /\ m.next[q[i]] = IF i = Len(q) THEN h ELSE q[i + 1]
  PROVE  \E o : Owned(CutAfter(m, list, h, q[k]), L \cup {list}, o)
<1> DEFINE P == {q[i] : i \in 1 .. k}
           Q == {q[i] : i \in 1 .. Len(q)}
           o == [y \in Nodes |-> IF y \in P \cup {list} THEN list
                                 ELSE IF y \in Q THEN h ELSE own[y]]
           c == CutAfter(m, list, h, q[k])
<1>1. /\ P \subseteq Q /\ Q \subseteq Entries /\ q[k] \in P
      /\ h \notin Q /\ list \notin Q /\ h # list
  BY ListAssumption
<1>2. \A x \in P : x # q[k] => m.next[x] \in P
  <2> SUFFICES ASSUME NEW i \in 1 .. k, q[i] # q[k] PROVE m.next[q[i]] \in P
    BY Zenon
  <2>1. i # k /\ i + 1 \in 1 .. k /\ i # Len(q)
    OBVIOUS
  <2> QED BY <2>1
<1>3. \A x \in Q \ P : m.next[x] \in (Q \ P) \cup {h}
  <2> SUFFICES ASSUME NEW i \in 1 .. Len(q), i \notin 1 .. k
               PROVE  m.next[q[i]] \in (Q \ P) \cup {h}
    OBVIOUS
  <2>1. CASE i = Len(q)
    BY <2>1
  <2>2. CASE i # Len(q)
    <3>1. i + 1 \in 1 .. Len(q) /\ \A j \in 1 .. k : j \in 1 .. Len(q) /\ j # i + 1
      BY <2>2
    <3>2. m.next[q[i]] = q[i + 1] /\ q[i + 1] \in Q
      BY <2>2, <3>1
    <3>3. \A j \in 1 .. k : q[j] # q[i + 1]
      BY <3>1
    <3> QED BY <3>2, <3>3
  <2> QED BY <2>1, <2>2
<1>4. \A x \in L : x \notin Q /\ x # h => m.next[x] \notin Q \cup {h}
  <2> SUFFICES ASSUME NEW x \in L, x \notin Q, x # h
               PROVE  m.next[x] # h /\ \A i \in 1 .. Len(q) : m.next[x] # q[i]
    OBVIOUS
  <2>1. m.next[x] # h
    <3>1. Len(q) \in 1 .. Len(q)
      OBVIOUS
    <3> QED BY <3>1 DEF RingOn
  <2>2. ASSUME NEW i \in 1 .. Len(q), m.next[x] = q[i] PROVE FALSE
    <3>1. CASE i = 1
      BY <2>2, <3>1 DEF RingOn
    <3>2. CASE i # 1
      <4>1. i - 1 \in 1 .. Len(q) /\ i - 1 # Len(q) /\ (i - 1) + 1 = i
        BY <3>2
      <4>2. q[i - 1] \in L /\ m.next[q[i - 1]] = q[i] /\ q[i - 1] \in Q
        BY <4>1
      <4>3. m.prev[q[i]] = x
        BY <2>2 DEF RingOn
      <4>4. m.prev[q[i]] = q[i - 1]
        BY <4>2 DEF RingOn
      <4> QED BY <4>2, <4>3, <4>4
    <3> QED BY <3>1, <3>2
  <2> QED BY <2>1, <2>2
<1>5. m.next[h] \in P
  OBVIOUS
<1>6. m.next[q[k]] \in (Q \ P) \cup {h}
  <2>1. CASE k = Len(q)
    BY <2>1
  <2>2. CASE k # Len(q)
    <3>1. k + 1 \in 1 .. Len(q) /\ \A j \in 1 .. k : j \in 1 .. Len(q) /\ j # k + 1
      BY <2>2
    <3> QED BY <2>2, <3>1
  <2> QED BY <2>1, <2>2
<1>7. /\ c.next[list] = m.next[h] /\ c.next[q[k]] = list /\ c.next[h] = m.next[q[k]]
      /\ \A x \in L \ {h, q[k]} : c.next[x] = m.next[x]
  BY <1>1, ListAssumption DEF CutAfter, Memory, Nodes
<1> HIDE DEF c, P, Q
<1>8. o \in Owners /\ \A g \in (L \cup {list}) \cap Heads : o[g] = g
  BY <1>1, ListAssumption DEF Owned, Owners, Nodes
<1>9. /\ o[list] = list /\ o[h] = h
      /\ \A x \in P : o[x] = list
      /\ \A x \in Q \ P : o[x] = h
      /\ \A x \in L \ Q : o[x] = own[x]
  BY <1>1, <1>8, Zenon DEF Nodes
<1> HIDE DEF o
<1>10. o[c.next[list]] = o[list]
  BY <1>5, <1>7, <1>9
<1>11. \A x \in L : o[c.next[x]] = o[x]
  <2> SUFFICES ASSUME NEW x \in L, x # h, x # q[k] PROVE o[c.next[x]] = o[x]
    BY <1>1, <1>6, <1>7, <1>9
  <2>1. m.next[x] \in L /\ own[m.next[x]] = own[x] /\ m.next[x] # list
    BY DEF RingOn, Owned
  <2>2. CASE x \in P
    BY <1>2, <1>7, <1>9, <2>2
  <2>3. CASE x \in Q \ P
    BY <1>3, <1>7, <1>9, <2>3
  <2>4. CASE x \notin Q
    BY <1>4, <1>7, <1>9, <2>1, <2>4
  <2> QED BY <2>2, <2>3, <2>4
<1>12. Owned(c, L \cup {list}, o)
  BY <1>8, <1>10, <1>11 DEF Owned
<1> QED BY <1>12 DEF c
-----------------------------------------------------------------------------
(* Both together, for the memory and the nodes in use. *)
Good(m, L) ==
  /\ m \in Memory /\ L \in SUBSET Nodes
  /\ RingOn(m, L)
  /\ \E own : Owned(m, L, own)

\* INIT_LIST_HEAD keeps rings and lists.
LEMMA GoodSelf ==
  ASSUME NEW m, NEW L, Good(m, L), NEW x \in Nodes, x \notin L
  PROVE  Good(Self(m, x), L \cup {x})
BY SelfRing, SelfOwned DEF Good

\* list_del keeps rings and lists.
LEMMA GoodUnlink ==
  ASSUME NEW m, NEW L, Good(m, L), NEW x \in L
  PROVE  Good(Unlink(m, x), L \ {x})
BY UnlinkRing, UnlinkOwned DEF Good

\* list_add and list_add_tail
LEMMA GoodAdd ==
  ASSUME NEW m, NEW L, Good(m, L), NEW h \in L, NEW x \in Entries, x \notin L
  PROVE  /\ Good(AddAfter(m, x, h), L \cup {x})
         /\ Good(AddBefore(m, x, h), L \cup {x})
<1>1. x \in Nodes
  BY DEF Nodes
<1>2. \A p \in L : Good(Between(m, x, p, m.next[p]), L \cup {x})
  BY <1>1, BetweenRing, BetweenOwned DEF Good
<1>3. m.prev[h] \in L /\ m.next[m.prev[h]] = h
  BY DEF Good, RingOn
<1> QED BY <1>2, <1>3 DEF AddAfter, AddBefore

\* list_replace keeps rings and lists.
LEMMA GoodSubstitute ==
  ASSUME NEW m, NEW L, Good(m, L), NEW old \in L, NEW new \in Nodes, new \notin L,
         {old, new} \subseteq Heads \/ {old, new} \subseteq Entries
  PROVE  Good(Substitute(m, old, new), (L \ {old}) \cup {new})
<1>1. (L \ {old}) \cup {new} \in SUBSET Nodes
  BY DEF Good
<1> QED BY <1>1, SubstituteRing, SubstituteOwned DEF Good

\* list_splice and list_splice_tail
LEMMA GoodJoin ==
  ASSUME NEW m, NEW L, Good(m, L), NEW list \in L \cap Heads, m.next[list] # list,
         NEW h \in (L \cap Heads) \ {list}
  PROVE  /\ Good(Join(m, list, h, m.next[h]), L \ {list})
         /\ Good(Join(m, list, m.prev[h], h), L \ {list})
<1>1. PICK own : Owned(m, L, own)
  BY DEF Good
<1>2. ASSUME NEW p \in L, own[p] = h
      PROVE  Good(Join(m, list, p, m.next[p]), L \ {list})
  <2>1. p # list /\ m.next[p] # list
    BY <1>1, <1>2 DEF Owned
  <2>2. RingOn(m, L) /\ m \in Memory /\ L \in SUBSET Nodes
    BY DEF Good
  <2>3. \E o : Owned(Join(m, list, p, m.next[p]), L \ {list}, o)
    BY <1>1, <1>2, <2>2, JoinOwned
  <2>4. /\ Join(m, list, p, m.next[p]) \in Memory
        /\ RingOn(Join(m, list, p, m.next[p]), L \ {list})
    BY <2>1, <2>2, JoinRing
  <2> QED BY <2>2, <2>3, <2>4 DEF Good
<1>3. /\ own[h] = h /\ m.prev[h] \in L /\ m.next[m.prev[h]] = h
      /\ own[m.prev[h]] = h
  BY <1>1 DEF Good, RingOn, Owned
<1> QED BY <1>2, <1>3

\* A node that is alone, or not in use, can be left out.
LEMMA GoodWithout ==
  ASSUME NEW m, NEW L, Good(m, L), NEW x \in Nodes, x \notin L \/ m.next[x] = x
  PROVE  Good(m, L \ {x})
<1>1. CASE x \notin L
  <2>1. L \ {x} = L
    BY <1>1
  <2> QED BY <2>1
<1>2. CASE x \in L /\ m.next[x] = x
  <2>1. RingOn(m, L \ {x})
    BY <1>2, AloneRing DEF Good
  <2>2. \A own : Owned(m, L, own) => Owned(m, L \ {x}, own)
    BY DEF Owned
  <2> QED BY <2>1, <2>2 DEF Good
<1> QED BY <1>1, <1>2

\* What an operation stores is the memory after it.
LEMMA StoreIs ==
  ASSUME NEW m \in Memory, Store(m)
  PROVE  mem' = m
BY DEF Store, mem, Memory

\* list_for_each yields entries.
LEMMA WalkType ==
  ASSUME NEW h
  PROVE  list_for_each(h) \in Seq(Entries) \cup {POISON1}
<1>1. Cardinality(Entries) \in Nat
  BY ListAssumption, FS_CardinalityType
<1>2. Orders \subseteq Seq(Entries)
  BY <1>1, SeqDef DEF Orders
<1> QED BY <1>2 DEF list_for_each
-----------------------------------------------------------------------------
WalkTypes == [head : Heads \cup {NULL}, pos : Pointers \cup {NULL},
              n : Pointers \cup {NULL}, todo : Seq(Entries) \cup {POISON1},
              seen : Seq(Pointers \cup {NULL})]

\* The inductive invariant.
IInv == Good(mem, live) /\ walk \in WalkTypes

\* Before the first INIT_LIST_HEAD there is no list.
LEMMA InitIInv == Init => IInv
<1> SUFFICES ASSUME Init PROVE IInv
  OBVIOUS
<1>1. mem \in Memory /\ live \in SUBSET Nodes /\ RingOn(mem, live)
  BY ListAssumption DEF Init, mem, Memory, Nodes, Pointers, RingOn
<1>2. Owned(mem, live, [x \in Nodes |-> IF x \in Heads THEN x ELSE NULL])
  BY ListAssumption DEF Init, mem, Nodes, Owned, Owners
<1>3. walk \in WalkTypes
  BY DEF Init, NoWalk, WalkTypes
<1> QED BY <1>1, <1>2, <1>3 DEF IInv, Good

\* A step that stores a good memory keeps the invariant.
LEMMA StoreGood ==
  ASSUME IInv, NEW m, Store(m), Good(m, live'), UNCHANGED walk
  PROVE  IInv'
<1>1. mem' = m
  BY StoreIs DEF Good
<1>2. Good(mem', live')
  BY <1>1
<1>3. Good(mem, live)'
  BY <1>2, Zenon DEF Good, RingOn, Owned, Memory, Owners, Nodes, Pointers
<1> QED BY <1>3 DEF IInv, WalkTypes, Nodes, Pointers

\* Addable entries and heads that may be overwritten can be left out.
LEMMA LeaveOut ==
  ASSUME IInv, NEW x \in Nodes, x \notin live \/ list_empty(x)
  PROVE  Good(mem, live \ {x})
<1>1. x \notin live \/ mem.next[x] = x
  BY DEF list_empty, mem
<1> QED BY <1>1, GoodWithout DEF IInv

\* Every operation of list.h keeps the invariant.
LEMMA NextIInv == IInv /\ [Next]_vars => IInv'
<1> SUFFICES ASSUME IInv, [Next]_vars PROVE IInv'
  OBVIOUS
<1>0. Good(mem, live) /\ live \in SUBSET Nodes /\ walk \in WalkTypes
  BY DEF IInv, Good
<1>1. ASSUME NEW x \in Nodes, INIT_LIST_HEAD(x) PROVE IInv'
  <2>1. Good(Self(mem, x), live')
    BY <1>0, <1>1, GoodSelf DEF INIT_LIST_HEAD
  <2> QED BY <1>1, <2>1, StoreGood DEF INIT_LIST_HEAD
<1>2. ASSUME NEW e \in Entries, NEW h \in Heads,
             list_add(e, h) \/ list_add_tail(e, h)
      PROVE  IInv'
  <2>1. h \in live /\ h # e /\ live' = (live \ {e}) \cup {e} /\ UNCHANGED walk
    BY <1>2, ListAssumption DEF list_add, list_add_tail
  <2>2. Good(mem, live \ {e})
    BY <1>2, LeaveOut DEF list_add, list_add_tail, Addable, Nodes
  <2>3. Good(AddAfter(mem, e, h), live') /\ Good(AddBefore(mem, e, h), live')
    BY <2>1, <2>2, GoodAdd
  <2> QED BY <1>2, <2>1, <2>3, StoreGood DEF list_add, list_add_tail
<1>3. ASSUME NEW e \in Entries, list_del(e) PROVE IInv'
  <2> DEFINE m == Unlink(mem, e)
             d == [next |-> [m.next EXCEPT ![e] = POISON1],
                   prev |-> [m.prev EXCEPT ![e] = POISON2]]
  <2>1. e \in live /\ live' = live \ {e} /\ UNCHANGED walk /\ Store(d)
    BY <1>3 DEF list_del, Removable
  <2>2. Good(m, live')
    BY <1>0, <2>1, GoodUnlink
  <2> HIDE DEF m
  <2>3. d \in Memory /\ RingOn(d, live')
    <3>1. m \in Memory /\ RingOn(m, live') /\ e \notin live' /\ live' \subseteq Nodes
      BY <2>1, <2>2 DEF Good
    <3>2. POISON1 \in Pointers /\ POISON2 \in Pointers
      BY DEF Pointers
    <3>3. d \in Memory
      BY <3>1, <3>2, Zenon DEF Memory
    <3>4. \A x \in live' : d.next[x] = m.next[x] /\ d.prev[x] = m.prev[x]
      BY <3>1 DEF Memory
    <3> HIDE DEF d
    <3>5. RingOn(d, live')
      BY <3>1, <3>4 DEF RingOn
    <3> QED BY <3>3, <3>5
  <2>4. \A own : Owned(m, live', own) => Owned(d, live', own)
    BY <2>1, <2>2, Zenon DEF Good, Memory, Owned
  <2>5. Good(d, live')
    BY <2>2, <2>3, <2>4 DEF Good
  <2> QED BY <2>1, <2>5, StoreGood, Zenon
<1>4. ASSUME NEW e \in Entries, list_del_init(e) PROVE IInv'
  <2>1. e \in live /\ e \in Nodes /\ live' = (live \ {e}) \cup {e}
    BY <1>0, <1>4 DEF list_del_init, Removable
  <2>2. Good(Self(Unlink(mem, e), e), live')
    BY <1>0, <2>1, GoodUnlink, GoodSelf, Zenon
  <2> QED BY <1>4, <2>2, StoreGood DEF list_del_init
<1>5. ASSUME NEW e \in Entries, NEW h \in Heads,
             list_move(e, h) \/ list_move_tail(e, h)
      PROVE  IInv'
  <2>1. e \in live /\ h \in live \ {e} /\ live' = (live \ {e}) \cup {e} /\ UNCHANGED walk
    BY <1>5, ListAssumption DEF list_move, list_move_tail, Removable
  <2>2. /\ Good(AddAfter(Unlink(mem, e), e, h), live')
        /\ Good(AddBefore(Unlink(mem, e), e, h), live')
    BY <1>0, <2>1, GoodUnlink, GoodAdd, Zenon
  <2> QED BY <1>5, <2>1, <2>2, StoreGood DEF list_move, list_move_tail
<1>6. ASSUME NEW old \in Nodes, NEW new \in Nodes, list_replace(old, new)
      PROVE  IInv'
  <2>1. Good(Substitute(mem, old, new), live')
    BY <1>0, <1>6, GoodSubstitute DEF list_replace
  <2> QED BY <1>6, <2>1, StoreGood DEF list_replace
<1>7. ASSUME NEW old \in Nodes, NEW new \in Nodes, list_replace_init(old, new)
      PROVE  IInv'
  <2>1. /\ old \in live /\ new \notin live /\ UNCHANGED walk
        /\ live' = ((live \ {old}) \cup {new}) \cup {old}
        /\ old \notin (live \ {old}) \cup {new}
    BY <1>7 DEF list_replace_init
  <2>2. Good(Substitute(mem, old, new), (live \ {old}) \cup {new})
    BY <1>0, <1>7, GoodSubstitute DEF list_replace_init
  <2>3. Good(Self(Substitute(mem, old, new), old), live')
    BY <2>1, <2>2, GoodSelf
  <2> QED BY <1>7, <2>3, StoreGood DEF list_replace_init
<1>8. ASSUME NEW h \in Heads, list_rotate_left(h) PROVE IInv'
  <2>1. h \in live /\ next[h] # h /\ live' = live /\ UNCHANGED walk
    BY <1>8 DEF list_rotate_left, list_empty
  <2>2. next[h] \in live
    BY <1>0, <2>1 DEF Good, RingOn, mem
  <2>3. next[h] \in Entries
    <3>1. PICK own : Owned(mem, live, own)
      BY <1>0 DEF Good
    <3> QED BY <1>0, <2>1, <2>2, <3>1 DEF Owned, mem, Nodes
  <2>4. live' = (live \ {next[h]}) \cup {next[h]}
    BY <2>1, <2>2
  <2>5. Good(AddBefore(Unlink(mem, next[h]), next[h], h), live')
    <3>1. Good(Unlink(mem, next[h]), live \ {next[h]})
      BY <1>0, <2>2, GoodUnlink
    <3>2. h \in live \ {next[h]} /\ next[h] \notin live \ {next[h]}
      BY <2>1
    <3> QED BY <2>3, <2>4, <3>1, <3>2, GoodAdd
  <2> QED BY <1>8, <2>5, StoreGood DEF list_rotate_left
<1>9. ASSUME NEW list \in Heads, NEW h \in Heads, NEW e \in Nodes,
             list_cut_position(list, h, e)
      PROVE  IInv'
  <2>1. /\ h \in live \ {list} /\ live' = (live \ {list}) \cup {list}
        /\ UNCHANGED walk /\ list \in Nodes
        /\ Store(IF e = h THEN Self(mem, list) ELSE CutAfter(mem, list, h, e))
    BY <1>9, Zenon DEF list_cut_position, Nodes
  <2>2. Good(mem, live \ {list})
    BY <1>9, <2>1, LeaveOut DEF list_cut_position
  <2>3. CASE e = h
    <3>1. Good(Self(mem, list), live')
      BY <2>1, <2>2, GoodSelf
    <3> QED BY <2>1, <2>3, <3>1, StoreGood
  <2>4. CASE e # h
    <3>1. PICK q \in Orders : Leads(h, q) /\ \E i \in DOMAIN q : q[i] = e
      BY <1>9, <2>4, Zenon DEF list_cut_position, On
    <3>2. Cardinality(Entries) \in Nat
      BY ListAssumption, FS_CardinalityType
    <3>3. q \in Seq(Entries) /\ DOMAIN q = 1 .. Len(q) /\ Len(q) \in Nat
      BY <3>2, SeqDef DEF Orders
    <3>4. PICK k \in 1 .. Len(q) : q[k] = e
      BY <3>1, <3>3
    <3>5. \A i, j \in 1 .. Len(q) : q[i] = q[j] => i = j
      BY <3>3 DEF Orders
    <3>6. \A i \in 1 .. Len(q) : q[i] \in Entries
      BY <3>3
    <3>7. /\ mem.next[h] = q[1]
          /\ \A i \in 1 .. Len(q) :
               /\ q[i] \in live \ {list}
               /\ mem.next[q[i]] = IF i = Len(q) THEN h ELSE q[i + 1]
      <4>1. q # <<>>
        BY <3>3, <3>4
      <4>2. mem.next = next
        BY DEF mem
      <4>3. next[h] = q[1]
        BY <3>1, <4>1 DEF Leads
      <4>4. \A i \in 1 .. Len(q) :
              q[i] \in live /\ next[q[i]] = IF i = Len(q) THEN h ELSE q[i + 1]
        BY <3>1, <3>3 DEF Leads
      <4>5. \A i \in 1 .. Len(q) : q[i] # list
        BY <3>6, ListAssumption
      <4> QED BY <4>2, <4>3, <4>4, <4>5
    <3>8. /\ mem \in Memory /\ live \ {list} \in SUBSET Nodes
          /\ RingOn(mem, live \ {list})
      BY <2>2 DEF Good
    <3>9. PICK own : Owned(mem, live \ {list}, own)
      BY <2>2 DEF Good
    <3>10. \E o : Owned(CutAfter(mem, list, h, q[k]), live', o)
      <4>1. h \in (live \ {list}) \cap Heads /\ list \notin live \ {list}
        BY <2>1
      <4> QED BY <2>1, <3>3, <3>5, <3>7, <3>8, <3>9, <4>1, CutOwned, Zenon
    <3>11. /\ CutAfter(mem, list, h, e) \in Memory
           /\ RingOn(CutAfter(mem, list, h, e), live')
      BY <2>1, <2>4, <3>4, <3>7, <3>8, CutRing, Zenon
    <3>12. Good(CutAfter(mem, list, h, e), live')
      BY <2>1, <3>4, <3>8, <3>10, <3>11, Zenon DEF Good
    <3> QED BY <2>1, <2>4, <3>12, StoreGood, Zenon
  <2> QED BY <2>3, <2>4
<1>10. ASSUME NEW list \in Heads, NEW h \in Heads, CanSplice(list, h)
       PROVE  /\ Good(Join(mem, list, h, next[h]), live \ {list})
              /\ Good(Join(mem, list, prev[h], h), live \ {list})
              /\ list \in Nodes /\ list \notin live \ {list}
              /\ (live \ {list}) \cup {list} = live
  <2>1. /\ list \in live \cap Heads /\ h \in (live \cap Heads) \ {list}
        /\ mem.next[list] # list
    BY <1>10 DEF CanSplice, list_empty, mem
  <2>2. mem.next = next /\ mem.prev = prev
    BY DEF mem
  <2>3. /\ Good(Join(mem, list, h, mem.next[h]), live \ {list})
        /\ Good(Join(mem, list, mem.prev[h], h), live \ {list})
    BY <1>0, <2>1, GoodJoin, Zenon
  <2> QED BY <2>1, <2>2, <2>3 DEF Nodes
<1>11. ASSUME NEW list \in Heads, NEW h \in Heads,
              list_splice(list, h) \/ list_splice_tail(list, h)
       PROVE  IInv'
  BY <1>10, <1>11, StoreGood DEF list_splice, list_splice_tail
<1>12. ASSUME NEW list \in Heads, NEW h \in Heads,
              list_splice_init(list, h) \/ list_splice_tail_init(list, h)
       PROVE  IInv'
  <2>1. CanSplice(list, h) /\ live' = live /\ UNCHANGED walk
    BY <1>12 DEF list_splice_init, list_splice_tail_init
  <2>2. /\ Good(Self(Join(mem, list, h, next[h]), list), live')
        /\ Good(Self(Join(mem, list, prev[h], h), list), live')
    <3>1. /\ Good(Join(mem, list, h, next[h]), live \ {list})
          /\ Good(Join(mem, list, prev[h], h), live \ {list})
          /\ list \in Nodes /\ list \notin live \ {list}
          /\ (live \ {list}) \cup {list} = live
      BY <1>10, <2>1, Zenon
    <3>2. /\ Good(Self(Join(mem, list, h, next[h]), list), (live \ {list}) \cup {list})
          /\ Good(Self(Join(mem, list, prev[h], h), list), (live \ {list}) \cup {list})
      BY <3>1, GoodSelf
    <3> QED BY <2>1, <3>1, <3>2, Zenon
  <2> QED BY <1>12, <2>1, <2>2, StoreGood DEF list_splice_init, list_splice_tail_init
<1>13. ASSUME walk' \in WalkTypes, UNCHANGED <<next, prev, live>> PROVE IInv'
  <2>1. mem' = mem /\ live' = live
    BY <1>13 DEF mem
  <2>2. Good(mem', live')
    BY <1>0, <2>1
  <2>3. Good(mem, live)'
    BY <2>2 DEF Good, RingOn, Owned, Memory, Owners, Nodes, Pointers
  <2> QED BY <1>13, <2>3 DEF IInv, WalkTypes, Nodes, Pointers
<1>14. next \in [Nodes -> Pointers]
  BY <1>0 DEF Good, Memory, mem
<1>15. \A x \in Nodes : Deref(next[x]) \in Pointers
  BY <1>14 DEF Deref, Pointers
<1>16. ASSUME NEW h \in Heads, for_each_begin(h) PROVE IInv'
  <2>1. next[h] \in Pointers /\ Deref(next[h]) \in Pointers
    BY <1>14, <1>15 DEF Nodes
  <2>2. list_for_each(h) \in Seq(Entries) \cup {POISON1}
    BY WalkType
  <2>3. << >> \in Seq(Pointers \cup {NULL})
    OBVIOUS
  <2>4. walk' = [head |-> h, pos |-> next[h], n |-> Deref(next[h]),
                 todo |-> list_for_each(h), seen |-> << >>]
    BY <1>16 DEF for_each_begin
  <2>5. walk' \in WalkTypes
    BY <2>1, <2>2, <2>3, <2>4, Zenon DEF WalkTypes
  <2> QED BY <1>13, <1>16, <2>5 DEF for_each_begin
<1>17. ASSUME for_each_step PROVE IInv'
  <2>1. Deref(walk.n) \in Pointers
    BY <1>14 DEF Deref, Pointers
  <2>2. walk.pos \in Pointers \cup {NULL} /\ walk.n \in Pointers \cup {NULL}
    BY <1>0 DEF WalkTypes
  <2>3. Append(walk.seen, walk.pos) \in Seq(Pointers \cup {NULL})
    BY <1>0, <2>2 DEF WalkTypes
  <2>4. walk' \in WalkTypes
    BY <1>0, <1>17, <2>1, <2>2, <2>3, Zenon DEF for_each_step, WalkTypes
  <2> QED BY <1>13, <1>17, <2>4 DEF for_each_step
<1>18. ASSUME for_each_end PROVE IInv'
  <2>1. walk' \in WalkTypes
    BY <1>18 DEF for_each_end, NoWalk, WalkTypes
  <2> QED BY <1>13, <1>18, <2>1 DEF for_each_end
<1>19. ASSUME UNCHANGED vars PROVE IInv'
  BY <1>0, <1>13, <1>19 DEF vars
<1> QED
  BY <1>1, <1>2, <1>3, <1>4, <1>5, <1>6, <1>7, <1>8, <1>9, <1>11, <1>12, <1>16,
     <1>17, <1>18, <1>19 DEF Next

\* The invariant gives the properties of the run.
LEMMA IInvImplies == IInv => TypeOK /\ Rings /\ Apart
<1> SUFFICES ASSUME IInv PROVE TypeOK /\ Rings /\ Apart
  OBVIOUS
<1>1. TypeOK
  BY DEF IInv, Good, Memory, mem, TypeOK, WalkTypes
<1>2. Rings
  BY DEF IInv, Good, Rings
<1>3. Apart
  BY DEF IInv, Good, Owned, Owners, mem, Apart
<1> QED BY <1>1, <1>2, <1>3

\* The invariant holds in every state.
LEMMA Invariance == Spec => []IInv
BY InitIInv, NextIInv, PTL DEF Spec

\* Pointers of list.h always are nodes or poison, for any heads and entries.
THEOREM TypeCorrect == Spec => []TypeOK
BY Invariance, IInvImplies, PTL

\* Whatever operations are called the way their comments ask for, the nodes in
\* use form rings on which next and prev are inverse to each other.
THEOREM AlwaysRings == Spec => []Rings
BY Invariance, IInvImplies, PTL

\* No node is ever on two lists.
THEOREM AlwaysApart == Spec => []Apart
BY Invariance, IInvImplies, PTL

-----------------------------------------------------------------------------
(***************************************************************************)
(* C80, for any number of writers and any size of the screen.  A cursor    *)
(* that is off the screen has someone to bring it back: a writer that has  *)
(* yet to check the coordinate.                                            *)
(***************************************************************************)

Places == {"out", "load_x", "store_x", "zero_x", "newline_load", "newline_store",
           "wrap", "wrap_x", "wrap_load", "wrap_store", "scroll", "scroll_y"}

CursorTypes ==
  /\ cursor_x \in Nat /\ cursor_y \in Nat
  /\ pc \in [Writers -> Places]
  /\ chr \in [Writers -> Chars]
  /\ tmp \in [Writers -> Nat]

\* Someone will look at cursor_x, someone at cursor_y.
WatchesX(w) == pc[w] \in {"wrap", "wrap_x"}
WatchesY(w) ==
  pc[w] \in {"wrap", "wrap_x", "wrap_load", "wrap_store", "scroll", "scroll_y"}

CursorInv ==
  /\ CursorTypes
  /\ cursor_x >= COLS => \E w \in Writers : WatchesX(w)
  /\ cursor_y >= ROWS => \E w \in Writers : WatchesY(w)

\* The initial state of the console, after c80_clear.
LEMMA InitCursor == C80Init => CursorInv
  BY ScreenAssumption DEF C80Init, CursorInv, CursorTypes, Places, Chars

\* cursor_x++ and its kin give a number.
LEMMA AdvancedType ==
  ASSUME NEW ch, NEW x \in Nat PROVE Advanced(ch, x) \in Nat
<1>1. BYTE \in Nat /\ BYTE > 0 /\ TAB \in Nat /\ TAB > 0
  BY ScreenAssumption
<1>2. x + BYTE - 1 \in Nat /\ x + 1 \in Nat
  BY <1>1
<1>3. \A n \in Nat : n % BYTE \in Nat
  BY <1>1
<1>4. ((x + TAB) \div TAB) \in Nat
  BY <1>1
<1>5. ((x + TAB) \div TAB) * TAB \in Nat
  <2>1. \A m, n \in Nat : m * n \in Nat
    OBVIOUS
  <2> QED BY <1>1, <1>4, <2>1
<1> QED
  <2>1. CASE ch = "backspace"
    BY <2>1, <1>2, <1>3 DEF Advanced
  <2>2. CASE ch = "tab" /\ ch # "backspace"
    BY <2>2, <1>5, <1>3 DEF Advanced
  <2>3. CASE ch # "tab" /\ ch # "backspace"
    BY <2>3, <1>2, <1>3 DEF Advanced
  <2> QED BY <2>1, <2>2, <2>3

\* One step of one writer.
LEMMA NextCursor == CursorInv /\ [C80Next]_cvars => CursorInv'
<1> SUFFICES ASSUME CursorInv, [C80Next]_cvars PROVE CursorInv'
  OBVIOUS
<1> USE DEF CursorInv, WatchesX, WatchesY, Go
<1>1. CASE UNCHANGED cvars
  BY <1>1 DEF cvars, CursorTypes
<1>2. ASSUME NEW w \in Writers, NEW ch \in Chars, put(w, ch) PROVE CursorInv'
  <2>1. CursorTypes'
    BY <1>2 DEF put, CursorTypes, Places
  <2>2. \A v \in Writers : pc[v] # "out" => pc'[v] = pc[v]
    BY <1>2 DEF put, CursorTypes
  <2>3. UNCHANGED <<cursor_x, cursor_y>>
    BY <1>2 DEF put
  <2> QED BY <2>1, <2>2, <2>3
<1>3. ASSUME NEW w \in Writers, load_x(w) PROVE CursorInv'
  <2>1. CursorTypes'
    BY <1>3, AdvancedType DEF load_x, CursorTypes, Places
  <2>2. \A v \in Writers : pc[v] # "load_x" => pc'[v] = pc[v]
    BY <1>3 DEF load_x, CursorTypes
  <2> QED BY <1>3, <2>1, <2>2 DEF load_x
<1>4. ASSUME NEW w \in Writers, store_x(w) PROVE CursorInv'
  <2>1. CursorTypes'
    BY <1>4 DEF store_x, CursorTypes, Places
  <2>2. pc'[w] = "wrap" /\ \A v \in Writers : v # w => pc'[v] = pc[v]
    BY <1>4 DEF store_x, CursorTypes
  <2> QED BY <2>1, <2>2
<1>5. ASSUME NEW w \in Writers, zero_x(w) PROVE CursorInv'
  <2>1. CursorTypes'
    BY <1>5 DEF zero_x, CursorTypes, Places
  <2>2. \A v \in Writers : pc[v] # "zero_x" => pc'[v] = pc[v]
    BY <1>5 DEF zero_x, CursorTypes
  <2>3. ~ (cursor_x' >= COLS)
    BY <1>5, ScreenAssumption DEF zero_x
  <2> QED BY <1>5, <2>1, <2>2, <2>3 DEF zero_x
<1>6. ASSUME NEW w \in Writers, load_y(w) PROVE CursorInv'
  <2>1. (cursor_y + 1) % BYTE \in Nat
    BY ScreenAssumption DEF CursorTypes
  <2>2. CursorTypes'
    BY <1>6, <2>1 DEF load_y, CursorTypes, Places
  <2>3. /\ pc[w] \in {"newline_load", "wrap_load"}
        /\ pc[w] = "wrap_load" => pc'[w] = "wrap_store"
        /\ \A v \in Writers : v # w => pc'[v] = pc[v]
    BY <1>6 DEF load_y, CursorTypes
  <2> QED BY <1>6, <2>2, <2>3 DEF load_y
<1>7. ASSUME NEW w \in Writers, store_y(w) PROVE CursorInv'
  <2>1. CursorTypes'
    BY <1>7 DEF store_y, CursorTypes, Places
  <2>2. /\ pc[w] \in {"newline_store", "wrap_store"}
        /\ pc'[w] \in {"wrap", "scroll"}
        /\ \A v \in Writers : v # w => pc'[v] = pc[v]
    BY <1>7 DEF store_y, CursorTypes
  <2> QED BY <1>7, <2>1, <2>2 DEF store_y
<1>8. ASSUME NEW w \in Writers, wrap(w) PROVE CursorInv'
  <2>1. CursorTypes'
    BY <1>8 DEF wrap, CursorTypes, Places
  <2>2. /\ pc'[w] = IF cursor_x >= COLS THEN "wrap_x" ELSE "scroll"
        /\ \A v \in Writers : v # w => pc'[v] = pc[v]
    BY <1>8 DEF wrap, CursorTypes
  <2> QED BY <1>8, <2>1, <2>2 DEF wrap
<1>9. ASSUME NEW w \in Writers, wrap_x(w) PROVE CursorInv'
  <2>1. CursorTypes'
    BY <1>9 DEF wrap_x, CursorTypes, Places
  <2>2. pc'[w] = "wrap_load" /\ \A v \in Writers : v # w => pc'[v] = pc[v]
    BY <1>9 DEF wrap_x, CursorTypes
  <2>3. ~ (cursor_x' >= COLS)
    BY <1>9, ScreenAssumption DEF wrap_x
  <2> QED BY <1>9, <2>1, <2>2, <2>3 DEF wrap_x
<1>10. ASSUME NEW w \in Writers, scroll(w) PROVE CursorInv'
  <2>1. CursorTypes'
    BY <1>10 DEF scroll, CursorTypes, Places
  <2>2. /\ pc[w] = "scroll"
        /\ pc'[w] = IF cursor_y >= ROWS THEN "scroll_y" ELSE "out"
        /\ \A v \in Writers : v # w => pc'[v] = pc[v]
    BY <1>10 DEF scroll, CursorTypes
  <2> QED BY <1>10, <2>1, <2>2 DEF scroll
<1>11. ASSUME NEW w \in Writers, scroll_y(w) PROVE CursorInv'
  <2>1. ROWS - 1 \in Nat /\ ~ (ROWS - 1 >= ROWS)
    BY ScreenAssumption
  <2>2. CursorTypes'
    BY <1>11, <2>1 DEF scroll_y, CursorTypes, Places
  <2>3. pc[w] = "scroll_y" /\ \A v \in Writers : v # w => pc'[v] = pc[v]
    BY <1>11 DEF scroll_y, CursorTypes
  <2> QED BY <1>11, <2>1, <2>2, <2>3 DEF scroll_y
<1> QED
  BY <1>1, <1>2, <1>3, <1>4, <1>5, <1>6, <1>7, <1>8, <1>9, <1>10, <1>11, Zenon
  DEF C80Next

\* Writers that share the cursor without a lock always leave it on the screen.
THEOREM ConsoleRecovers == C80Spec => []CursorOnScreen
<1>1. CursorInv => CursorOnScreen
  BY ScreenAssumption DEF CursorInv, CursorTypes, WatchesX, WatchesY, CursorOnScreen
<1> QED BY InitCursor, NextCursor, <1>1, PTL DEF C80Spec

-----------------------------------------------------------------------------
(***************************************************************************)
(* Printk, for any number of callers and any size of the buffer.           *)
(***************************************************************************)

\* No caller ever puts anything but NUL into the last byte.
PrintkInv ==
  /\ buff \subseteq 0 .. SIZE - 2
  /\ at \in [Callers -> {"out", "vsprintf", "c80_write"}]
  /\ len \in [Callers -> 0 .. SIZE - 1]
  /\ pos \in [Callers -> Nat]
  /\ \A p \in Callers :
       /\ at[p] = "vsprintf" => pos[p] <= len[p]
       /\ at[p] = "c80_write" => pos[p] <= SIZE - 1

\* For any number of callers and any size of the buffer, printk's readers stay
\* inside it.
THEOREM ReadersStayInBuffer == PrintkSpec => []StaysInBuffer
<1>1. PrintkInit => PrintkInv
  BY MessageAssumption DEF PrintkInit, PrintkInv
<1>2. PrintkInv /\ [PrintkNext]_pvars => PrintkInv'
  <2> SUFFICES ASSUME PrintkInv, [PrintkNext]_pvars PROVE PrintkInv'
    OBVIOUS
  <2> USE MessageAssumption DEF PrintkInv
  <2>1. ASSUME NEW p \in Callers, NEW n \in Lengths, printk(p, n)
        PROVE PrintkInv'
    BY <2>1 DEF printk
  <2>2. ASSUME NEW p \in Callers, vsprintf_put(p) PROVE PrintkInv'
    <3>1. pos[p] \in 0 .. SIZE - 2 /\ pos[p] + 1 <= len[p]
      BY <2>2 DEF vsprintf_put
    <3>2. buff' \subseteq 0 .. SIZE - 2
      BY <2>2, <3>1, Zenon DEF vsprintf_put
    <3>3. pos' \in [Callers -> Nat] /\ pos'[p] = pos[p] + 1
          /\ \A q \in Callers : q # p => pos'[q] = pos[q]
      BY <2>2 DEF vsprintf_put
    <3> QED BY <2>2, <3>1, <3>2, <3>3 DEF vsprintf_put
  <2>3. ASSUME NEW p \in Callers, vsprintf_end(p) PROVE PrintkInv'
    <3>1. buff' \subseteq 0 .. SIZE - 2
      BY <2>3, Zenon DEF vsprintf_end
    <3>2. at' \in [Callers -> {"out", "vsprintf", "c80_write"}]
          /\ at'[p] = "c80_write"
          /\ \A q \in Callers : q # p => at'[q] = at[q]
      BY <2>3 DEF vsprintf_end
    <3>3. pos' \in [Callers -> Nat] /\ pos'[p] = 0
          /\ \A q \in Callers : q # p => pos'[q] = pos[q]
      BY <2>3 DEF vsprintf_end
    <3>4. SIZE - 1 >= 0 /\ len' = len
      BY <2>3 DEF vsprintf_end
    <3> QED BY <3>1, <3>2, <3>3, <3>4
  <2>4. ASSUME NEW p \in Callers, c80_write(p) PROVE PrintkInv'
    <3>1. CASE pos[p] \in buff
      <4>1. pos[p] \in 0 .. SIZE - 2
        BY <3>1
      <4>2. pos' \in [Callers -> Nat] /\ pos'[p] = pos[p] + 1
            /\ \A q \in Callers : q # p => pos'[q] = pos[q]
        BY <2>4, <3>1 DEF c80_write
      <4> QED BY <2>4, <3>1, <4>1, <4>2 DEF c80_write
    <3>2. CASE pos[p] \notin buff
      BY <2>4, <3>2 DEF c80_write
    <3> QED BY <3>1, <3>2
  <2>5. CASE UNCHANGED pvars
    BY <2>5 DEF pvars
  <2> QED BY <2>1, <2>2, <2>3, <2>4, <2>5, Zenon DEF PrintkNext
<1>3. PrintkInv => StaysInBuffer
  BY MessageAssumption DEF PrintkInv, StaysInBuffer
<1> QED BY <1>1, <1>2, <1>3, PTL DEF PrintkSpec
-----------------------------------------------------------------------------
(***************************************************************************)
(* Alarm, for any width of the tick counter, any number of ticks in a      *)
(* second and any durations below half of the range.                       *)
(***************************************************************************)

\* Laps of a counter of finite width.
LEMMA Laps ==
  ASSUME NEW m \in Nat \ {0}, NEW a \in 0 .. m - 1
  PROVE  a % m = a /\ (a + m) % m = a /\ (a - m) % m = a /\ (a - 2 * m) % m = a
OBVIOUS

AlarmTypes ==
  /\ home \in {"bsp", "ap"} /\ ticks \in 0 .. TickRange - 1 /\ pending \in BOOLEAN
  /\ thread \in {"run", "set", "sleep"} /\ asked \in Nat /\ slept \in Nat
  /\ alarm \in [enabled : BOOLEAN, start : 0 .. TickRange - 1,
                duration : 0 .. TickRange - 1]

\* While the thread pauses, ticks is where the time it has slept leads to from
\* start, and that is less than a lap.
Paused ==
  /\ alarm.enabled /\ alarm.duration = asked /\ asked < HalfRange
  /\ slept <= asked + MaxLate
  /\ ticks = (alarm.start + slept) % TickRange

AlarmInv == AlarmTypes /\ (thread # "run" => Paused)

\* The range of ticks is twice its half, and not empty.
LEMMA TickRangeType ==
  /\ HalfRange \in Nat \ {0} /\ MaxLate \in 1 .. HalfRange
  /\ TickRange \in Nat \ {0} /\ TickRange = 2 * HalfRange
BY AlarmAssumption DEF TickRange

\* The distance of two times less than half of the range apart tells which one
\* is later, wherever the counter has wrapped.
LEMMA TimeAfter ==
  ASSUME NEW s \in 0 .. TickRange - 1, NEW d \in Nat, d < HalfRange,
         NEW n \in Nat, n <= d + HalfRange
  PROVE  time_after((s + n) % TickRange, (s + d) % TickRange) <=> n > d
<1> DEFINE a == (s + n) % TickRange
           b == (s + d) % TickRange
<1>0. HalfRange \in Nat \ {0} /\ TickRange \in Nat \ {0} /\ TickRange = 2 * HalfRange
  BY TickRangeType
<1>1. a = s + n \/ a = s + n - TickRange
  <2>1. CASE s + n < TickRange
    BY <1>0, <2>1, Laps
  <2>2. CASE s + n >= TickRange
    <3> DEFINE r == s + n - TickRange
    <3>1. r \in 0 .. TickRange - 1 /\ s + n = r + TickRange
      BY <1>0, <2>2
    <3> HIDE DEF r
    <3>2. (s + n) % TickRange = r
      BY <1>0, <3>1, Laps
    <3> QED
      BY <3>2 DEF r
  <2> QED
    BY <1>0, <2>1, <2>2
<1>2. b = s + d \/ b = s + d - TickRange
  <2>1. CASE s + d < TickRange
    BY <1>0, <2>1, Laps
  <2>2. CASE s + d >= TickRange
    <3> DEFINE r == s + d - TickRange
    <3>1. r \in 0 .. TickRange - 1 /\ s + d = r + TickRange
      BY <1>0, <2>2
    <3> HIDE DEF r
    <3>2. (s + d) % TickRange = r
      BY <1>0, <3>1, Laps
    <3> QED
      BY <3>2 DEF r
  <2> QED
    BY <1>0, <2>1, <2>2
<1> HIDE DEF a, b
<1>3. b - a = d - n \/ b - a = d - n - TickRange \/ b - a = d - n + TickRange
  BY <1>0, <1>1, <1>2
<1>4. CASE n > d
  <2> DEFINE r == d - n + TickRange
  <2>1. r \in 0 .. TickRange - 1 /\ r >= HalfRange
    BY <1>0, <1>4
  <2>2. b - a = r - TickRange \/ b - a = r - 2 * TickRange \/ b - a = r
    BY <1>0, <1>3
  <2> HIDE DEF r
  <2>3. (b - a) % TickRange = r
    BY <1>0, <2>1, <2>2, Laps, Zenon
  <2> QED
    BY <1>4, <2>1, <2>3 DEF time_after, a, b
<1>5. CASE ~ n > d
  <2> DEFINE r == d - n
  <2>1. r \in 0 .. TickRange - 1 /\ ~ r >= HalfRange
    BY <1>0, <1>5
  <2>2. b - a = r \/ b - a = r - TickRange \/ b - a = r + TickRange
    BY <1>0, <1>3
  <2> HIDE DEF r
  <2>3. (b - a) % TickRange = r
    BY <1>0, <2>1, <2>2, Laps, Zenon
  <2> QED
    BY <1>5, <2>1, <2>3 DEF time_after, a, b
<1> QED
  BY <1>4, <1>5

\* The counter goes on with the time slept.
LEMMA TickOn ==
  ASSUME NEW m \in Nat \ {0}, NEW x \in 0 .. 2 * m - 2
  PROVE  ((x % m) + 1) % m = (x + 1) % m
<1>1. CASE x < m
  BY <1>1, Laps
<1>2. CASE x >= m
  <2> DEFINE r == x - m
  <2>1. r \in 0 .. m - 2 /\ r \in 0 .. m - 1 /\ r + 1 \in 0 .. m - 1
        /\ x = r + m /\ x + 1 = (r + 1) + m
    BY <1>2
  <2> HIDE DEF r
  <2>2. x % m = r /\ (x + 1) % m = r + 1 /\ (r + 1) % m = r + 1
    BY <2>1, Laps
  <2> QED
    BY <2>2
<1> QED
  BY <1>1, <1>2

\* check_thread_alarms wakes a sleeping thread when its time is over, and then only.
LEMMA DueIsOver ==
  ASSUME AlarmTypes, Paused, NEW n \in Nat, n <= asked + MaxLate
  PROVE  alarm_check((alarm.start + n) % TickRange) <=> n > asked
<1>1. alarm.start \in 0 .. TickRange - 1 /\ asked \in Nat /\ asked < HalfRange
  BY DEF AlarmTypes, Paused
<1>2. n <= asked + HalfRange
  BY <1>1, TickRangeType
<1>3. time_after((alarm.start + n) % TickRange, (alarm.start + asked) % TickRange)
        <=> n > asked
  BY <1>1, <1>2, TimeAfter
<1> QED
  BY <1>3, Zenon DEF alarm_check, Paused

\* A step keeps the invariant, wakes the thread only when its time is over, and
\* wakes it if its processor handles a tick then.
LEMMA AlarmStep ==
  ASSUME AlarmInv, AlarmNext
  PROVE  /\ AlarmInv'
         /\ thread = "sleep" /\ thread' = "run" => slept' > asked
         /\ thread = "sleep" /\ Handled /\ slept' > asked => thread' = "run"
<1>0. AlarmTypes /\ (thread # "run" => Paused)
  BY DEF AlarmInv
<1>1. CASE alarm_set
  <2>1. PICK sec \in Secs : /\ alarm' = [enabled |-> TRUE, start |-> ticks,
                                         duration |-> (TICK_SEC * sec) % TickRange]
                            /\ asked' = TICK_SEC * sec
    BY <1>1, Zenon DEF alarm_set
  <2>2. asked' \in Nat /\ asked' < HalfRange /\ asked' \in 0 .. TickRange - 1
    BY <2>1, AlarmAssumption, TickRangeType
  <2>3. alarm'.duration = asked' /\ alarm'.start = ticks /\ alarm'.enabled = TRUE
    BY <2>1, <2>2, Laps, TickRangeType
  <2>4. ticks = (ticks + 0) % TickRange
    BY <1>0, Laps, TickRangeType DEF AlarmTypes
  <2>5. AlarmTypes'
    BY <1>0, <1>1, <2>1, <2>2, <2>3 DEF alarm_set, AlarmTypes
  <2>6. Paused'
    BY <1>1, <2>2, <2>3, <2>4, TickRangeType DEF alarm_set, Paused
  <2> QED
    BY <1>1, <2>5, <2>6 DEF alarm_set, AlarmInv
<1>2. CASE make_sleep
  BY <1>0, <1>2 DEF make_sleep, AlarmInv, AlarmTypes, Paused
<1>3. CASE timer_callback_bsp
  <2>1. ticks' \in 0 .. TickRange - 1 /\ ticks' # ticks
    BY <1>0, <1>3, TickRangeType DEF timer_callback_bsp, AlarmTypes
  <2>2. CASE thread = "run"
    BY <1>0, <1>3, <2>1, <2>2 DEF timer_callback_bsp, AlarmTypes, AlarmInv,
       check_thread_alarms
  <2>3. CASE thread # "run"
    <3>1. slept' = slept + 1 /\ asked' = asked /\ slept' <= asked + MaxLate
      BY <1>0, <1>3, <2>3, TickRangeType DEF timer_callback_bsp, WithinBound, AlarmTypes
    <3>2. ticks' = (alarm.start + slept') % TickRange
      <4>1. alarm.start + slept \in 0 .. 2 * TickRange - 2
        BY <1>0, <2>3, <3>1, TickRangeType DEF AlarmTypes, Paused
      <4>2. ticks' = (((alarm.start + slept) % TickRange) + 1) % TickRange
        BY <1>0, <1>3, <2>3 DEF timer_callback_bsp, Paused
      <4>3. (((alarm.start + slept) % TickRange) + 1) % TickRange
              = ((alarm.start + slept) + 1) % TickRange
        BY <4>1, TickOn, TickRangeType
      <4>4. (alarm.start + slept) + 1 = alarm.start + slept'
        BY <1>0, <3>1 DEF AlarmTypes
      <4> QED
        BY <4>2, <4>3, <4>4
    <3>3. alarm_check(ticks') <=> slept' > asked
      <4>1. slept' \in Nat
        BY <1>0, <3>1 DEF AlarmTypes
      <4> QED
        BY <1>0, <2>3, <3>1, <3>2, <4>1, DueIsOver, Zenon
    <3>4. AlarmTypes'
      <4>1. slept' \in Nat /\ asked' \in Nat
        BY <1>0, <3>1 DEF AlarmTypes
      <4>2. /\ alarm' = alarm \/ alarm' = [alarm EXCEPT !.enabled = FALSE]
            /\ thread' \in {thread, "run"} /\ home' = home /\ pending' = TRUE
        BY <1>3, Zenon DEF timer_callback_bsp, check_thread_alarms
      <4> QED
        BY <1>0, <2>1, <4>1, <4>2, Zenon DEF AlarmTypes
    <3>5. thread' # "run" => Paused'
      BY <1>0, <1>3, <2>3, <3>1, <3>2
         DEF timer_callback_bsp, check_thread_alarms, Paused
    <3> QED
      BY <1>3, <3>1, <3>3, <3>4, <3>5
         DEF timer_callback_bsp, check_thread_alarms, AlarmInv, Handled
  <2> QED
    BY <2>2, <2>3
<1>4. CASE timer_callback_ap
  <2>1. thread = "sleep" => (alarm_check(ticks) <=> slept > asked)
    <3>1. thread = "sleep" => /\ Paused /\ slept \in Nat /\ slept <= asked + MaxLate
                              /\ ticks = (alarm.start + slept) % TickRange
      BY <1>0 DEF AlarmTypes, Paused
    <3> QED
      BY <1>0, <3>1, DueIsOver, Zenon
  <2>2. AlarmTypes' /\ (thread' # "run" => Paused')
    BY <1>0, <1>4, Zenon DEF timer_callback_ap, check_thread_alarms, AlarmTypes, Paused
  <2> QED
    BY <1>0, <1>4, <2>1, <2>2
       DEF timer_callback_ap, check_thread_alarms, AlarmInv, Handled, AlarmTypes
<1> QED
  BY <1>1, <1>2, <1>3, <1>4 DEF AlarmNext

\* The invariant of the alarm.
LEMMA AlarmInvariance == AlarmSpec => []AlarmInv
<1>1. AlarmInit => AlarmInv
  <2>1. 0 \in 0 .. TickRange - 1 /\ 0 \in Nat
    BY TickRangeType
  <2>2. [enabled |-> FALSE, start |-> 0, duration |-> 0]
          \in [enabled : BOOLEAN, start : 0 .. TickRange - 1,
               duration : 0 .. TickRange - 1]
    BY <2>1
  <2> QED
    BY <2>1, <2>2, Zenon DEF AlarmInit, AlarmInv, AlarmTypes
<1>2. AlarmInv /\ [AlarmNext]_avars => AlarmInv'
  <2>1. ASSUME AlarmInv, UNCHANGED avars PROVE AlarmInv'
    BY <2>1 DEF AlarmInv, AlarmTypes, Paused, avars
  <2> QED
    BY <2>1, AlarmStep
<1> QED
  BY <1>1, <1>2, PTL DEF AlarmSpec

\* pause never returns before its time is over: check_thread_alarms finds the
\* alarm due only after the time asked for, wherever ticks has wrapped.
THEOREM PauseIsNeverShort == AlarmSpec => NeverEarly
<1>1. AlarmInv /\ [AlarmNext]_avars
        => [thread = "sleep" /\ thread' = "run" => slept' > asked]_avars
  BY AlarmStep
<1> QED
  BY <1>1, AlarmInvariance, PTL DEF AlarmSpec, NeverEarly

\* The first tick that the processor of the thread handles after that time wakes
\* it, even if the time was over before make_sleep.
THEOREM TickAfterPauseWakes == AlarmSpec => NeverMissed
<1>1. AlarmInv /\ [AlarmNext]_avars
        => [thread = "sleep" /\ Handled /\ slept' > asked => thread' = "run"]_avars
  BY AlarmStep
<1> QED
  BY <1>1, AlarmInvariance, PTL DEF AlarmSpec, NeverMissed
=============================================================================
