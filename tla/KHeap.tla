------------------------------- MODULE KHeap -------------------------------
(***************************************************************************)
(* The kernel heap of src/kmalloc.c (HEAP_FB, "first-best").  The heap is  *)
(* one byte range cut into blocks.  A block is described by an entry       *)
(* (heap_block_t) on the free or the res list; unused entries are on the   *)
(* avail list, and a page of new ones is taken when it runs dry.           *)
(*                                                                         *)
(* The lists are sets: their order only decides between free blocks of the *)
(* same size, and the model allows either.  Unused entries are alike, so   *)
(* avail is their number.  Operations are atomic (one caller at a time:    *)
(* the code takes no lock).                                                *)
(***************************************************************************)
EXTENDS Integers, FiniteSets

CONSTANTS
  HeapStart,      \* heap->start
  HeapSize,       \* heap->end - heap->start
  EntPerPage,     \* entries in one page (PAGE_SIZE / sizeof(heap_block_t))
  MaxMeta,        \* bound on the pages of entries
  Sizes           \* sizes callers ask for

ASSUME HeapAssumption  == HeapStart \in Nat /\ HeapSize \in Nat \ {0}
ASSUME EntAssumption   == EntPerPage \in Nat /\ EntPerPage >= 4
ASSUME MetaAssumption  == MaxMeta \in Nat
\* every caller passes the size of a type or of a stack, which is not 0
ASSUME SizesAssumption == Sizes \subseteq Nat \ {0}

VARIABLES
  free, res,      \* heap->free, heap->res: blocks [base, size]
  avail,          \* length of heap->avail
  meta            \* pages of entries taken from the frame allocator

vars == <<free, res, avail, meta>>

HeapEnd   == HeapStart + HeapSize
Bytes     == HeapStart .. HeapEnd - 1
Blk(b, s) == [base |-> b, size |-> s]
Blocks    == [base : Nat, size : Nat \ {0}]
End(b)    == b.base + b.size

\* HEAP_FB: three entries are the list heads, one is the whole heap.
Init ==
  /\ free  = {Blk(HeapStart, HeapSize)}
  /\ res   = {}
  /\ avail = EntPerPage - 4
  /\ meta  = 1

\* A free block of exactly the size asked for wins, wherever it is.
Exact(size) == {b \in free : b.size = size}

\* Otherwise the smallest block that is larger is split.
Best(size) ==
  {b \in free : /\ b.size > size
                /\ \A c \in free : c.size > size => b.size <= c.size}

\* mutant: the loop goes on after the first match
kmalloc_exact_all(size) ==
  /\ Exact(size) # {}
  /\ free' = free \ Exact(size)
  /\ res'  = res \cup Exact(size)
  /\ UNCHANGED <<avail, meta>>

kmalloc_exact(size) ==
  \E hbp \in Exact(size) :
    /\ free' = free \ {hbp}
    /\ res'  = res \cup {hbp}
    /\ UNCHANGED <<avail, meta>>

\* mutant: the entry taken from a new page stays on avail
take_entry_twice ==
  \/ avail > 0 /\ avail' = avail - 1 /\ UNCHANGED meta
  \/ /\ avail = 0 /\ meta < MaxMeta
     /\ avail' = EntPerPage
     /\ meta'  = meta + 1

\* An entry for the new block, from avail or from a page just taken.
take_entry ==
  \/ avail > 0 /\ avail' = avail - 1 /\ UNCHANGED meta
  \/ /\ avail = 0 /\ meta < MaxMeta
     /\ avail' = EntPerPage - 1
     /\ meta'  = meta + 1

kmalloc_split(size) ==
  /\ Exact(size) = {}
  /\ \E found \in Best(size) :
       /\ take_entry
       /\ res'  = res \cup {Blk(found.base, size)}
       /\ free' = (free \ {found})
                    \cup {Blk(found.base + size, found.size - size)}

\* NULL: no block is large enough, or alloc_frame found no page for entries
\* (other users share the frames, so it may fail at any time).
kmalloc_null(size) ==
  /\ Exact(size) = {}
  /\ Best(size) = {} \/ avail = 0
  /\ UNCHANGED vars

RightOf_none(found) == {}              \* mutant: no merge to the right

\* The free neighbours that __kfree merges with the block it releases.
LeftOf(found)  == {b \in free : End(b) = found.base}
RightOf(found) == {b \in free : b.base = End(found)}

kfree(p) ==
  \/ /\ \A b \in res : b.base # p
     /\ UNCHANGED vars
  \/ \E found \in res :
       LET L == LeftOf(found)
           R == RightOf(found)
       IN /\ found.base = p
          /\ \E lo \in IF L = {} THEN {found.base} ELSE {lp.base : lp \in L} :
             \E hi \in IF R = {} THEN {End(found)} ELSE {End(rp) : rp \in R} :
               free' = (free \ (L \cup R)) \cup {Blk(lo, hi - lo)}
          /\ res' = res \ {found}
          /\ avail' = avail + (IF L = {} THEN 0 ELSE 1)
                            + (IF R = {} THEN 0 ELSE 1)
          /\ UNCHANGED meta

kmalloc(size) == kmalloc_exact(size) \/ kmalloc_split(size) \/ kmalloc_null(size)

Next ==
  \/ \E size \in Sizes : kmalloc(size)
  \/ \E p \in Bytes : kfree(p)

Spec == Init /\ [][Next]_vars
-----------------------------------------------------------------------------
TypeOK ==
  /\ free \subseteq Blocks
  /\ res \subseteq Blocks
  /\ avail \in Nat
  /\ meta \in Nat

Apart(b, c) == End(b) <= c.base \/ End(c) <= b.base

\* The free and the reserved blocks tile the heap: no byte is in two blocks
\* and none is lost, however blocks are split and merged.
Tiling ==
  /\ free \cap res = {}
  /\ \A b \in free \cup res : HeapStart <= b.base /\ End(b) <= HeapEnd
  /\ \A b, c \in free \cup res : b # c => Apart(b, c)
  /\ \A a \in Bytes : \E b \in free \cup res : b.base <= a /\ a < End(b)

\* Free neighbours are always merged, so the largest free block is as large
\* as it can be.
Coalesced == \A b, c \in free : End(b) # c.base

\* When every block has been released the heap is one free block again.
Restored == res = {} => free = {Blk(HeapStart, HeapSize)}

\* Every entry ever taken is a list head, on a list, or on avail: splitting
\* and merging leak no entry.
EntriesConserved ==
  Cardinality(free) + Cardinality(res) + avail + 3 = EntPerPage * meta

Live == {<<b.base, End(b) - 1>> : b \in res}

Alloc == INSTANCE BlockAlloc WITH Units <- Bytes, live <- Live

\* The heap implements the abstract block allocator: kmalloc returns memory
\* nobody else holds, and kfree releases one block and moves no other.
ImplementsBlocks == Alloc!Spec
=============================================================================
