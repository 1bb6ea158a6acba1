---------------------------- MODULE KHeapProofs ----------------------------
(***************************************************************************)
(* Proofs about KHeap, for every heap range, every page capacity and every *)
(* set of request sizes.  The geometry of the blocks (Geometry) and the    *)
(* count of the entries (Counting) are separate inductive invariants; the  *)
(* second needs the first, since a released block has at most one free     *)
(* neighbour on each side only because blocks do not overlap.              *)
(***************************************************************************)
EXTENDS KHeap, FiniteSetTheorems, TLAPS

Geometry == TypeOK /\ Tiling /\ Coalesced

\* A block is the record of its base and its size.
LEMMA BlkType ==
  ASSUME NEW b \in Nat, NEW s \in Nat \ {0}
  PROVE  Blk(b, s) \in Blocks /\ Blk(b, s).base = b /\ Blk(b, s).size = s
BY DEF Blk, Blocks

\* Two blocks with the same bounds are the same block.
LEMMA BlkEqual ==
  ASSUME NEW b \in Blocks, NEW c \in Blocks, b.base = c.base, b.size = c.size
  PROVE  b = c
BY DEF Blocks

\* At the start the whole heap is one free block.
LEMMA InitGeometry == Init => Geometry
<1> SUFFICES ASSUME Init PROVE Geometry
  OBVIOUS
<1> DEFINE w == Blk(HeapStart, HeapSize)
<1>1. w \in Blocks /\ w.base = HeapStart /\ w.size = HeapSize
  BY HeapAssumption, BlkType
<1>2. free = {w} /\ res = {} /\ avail \in Nat /\ meta \in Nat
  BY EntAssumption DEF Init
<1> HIDE DEF w
<1>3. TypeOK
  BY <1>1, <1>2 DEF TypeOK
<1>4. Tiling
  BY <1>1, <1>2, HeapAssumption DEF Tiling, End, HeapEnd, Bytes
<1>5. Coalesced
  BY <1>1, <1>2, HeapAssumption DEF Coalesced, End
<1> QED
  BY <1>3, <1>4, <1>5 DEF Geometry

\* kmalloc of a free block of just the right size only moves it to the other
\* list.
LEMMA ExactGeometry ==
  ASSUME Geometry, NEW size \in Sizes, kmalloc_exact(size)
  PROVE  Geometry'
<1>1. PICK hbp \in free : /\ free' = free \ {hbp} /\ res' = res \cup {hbp}
                          /\ avail' = avail /\ meta' = meta
  BY DEF kmalloc_exact, Exact
<1>2. TypeOK'
  BY <1>1 DEF Geometry, TypeOK
<1>3. free' \cup res' = free \cup res /\ free' \cap res' = {}
  BY <1>1 DEF Geometry, Tiling
<1>4. Tiling'
  BY <1>3 DEF Geometry, Tiling
<1>5. Coalesced'
  BY <1>1 DEF Geometry, Coalesced
<1> QED
  BY <1>2, <1>4, <1>5 DEF Geometry

\* Cutting a free block in two keeps the tiling.
LEMMA SplitGeometry ==
  ASSUME Geometry, NEW size \in Sizes, kmalloc_split(size)
  PROVE  Geometry'
<1>1. PICK found \in free :
        /\ found.size > size
        /\ take_entry
        /\ res'  = res \cup {Blk(found.base, size)}
        /\ free' = (free \ {found})
                     \cup {Blk(found.base + size, found.size - size)}
  BY DEF kmalloc_split, Best
<1> DEFINE r == Blk(found.base, size)
           n == Blk(found.base + size, found.size - size)
<1>2. /\ found \in Blocks /\ found.base \in Nat /\ found.size \in Nat
      /\ size \in Nat \ {0}
  BY <1>1, SizesAssumption DEF Geometry, TypeOK, Blocks
<1>3. r \in Blocks /\ r.base = found.base /\ r.size = size
  BY <1>2, BlkType
<1>4. n \in Blocks /\ n.base = found.base + size /\ n.size = found.size - size
  BY <1>1, <1>2, BlkType
<1>5. free' = (free \ {found}) \cup {n} /\ res' = res \cup {r}
  BY <1>1
<1> HIDE DEF r, n
<1>6. TypeOK'
  <2>1. avail' \in Nat /\ meta' \in Nat
    BY <1>1, EntAssumption DEF take_entry, Geometry, TypeOK
  <2> QED
    BY <1>3, <1>4, <1>5, <2>1 DEF Geometry, TypeOK
<1>7. \A b \in free \cup res : b \in Blocks /\ b.base \in Nat /\ b.size \in Nat \ {0}
  BY DEF Geometry, TypeOK, Blocks
<1>8. \A b \in free \cup res : b # found => Apart(b, found)
  BY <1>1 DEF Geometry, Tiling
<1>9. \A b \in free \cup res :
        b # found => /\ Apart(b, r) /\ Apart(r, b) /\ b # r
                     /\ Apart(b, n) /\ Apart(n, b) /\ b # n
  BY <1>1, <1>2, <1>3, <1>4, <1>7, <1>8 DEF Apart, End
<1>10. found \notin res /\ r # n /\ Apart(r, n) /\ Apart(n, r)
  BY <1>1, <1>2, <1>3, <1>4 DEF Geometry, Tiling, Apart, End
<1>11. Tiling'
  <2>1. free' \cap res' = {}
    BY <1>1, <1>5, <1>9, <1>10 DEF Geometry, Tiling
  <2>2. \A b \in free' \cup res' : HeapStart <= b.base /\ End(b) <= HeapEnd
    <3>1. HeapStart <= found.base /\ End(found) <= HeapEnd
      BY <1>1 DEF Geometry, Tiling
    <3>2. HeapStart <= r.base /\ End(r) <= HeapEnd
          /\ HeapStart <= n.base /\ End(n) <= HeapEnd
      BY <1>1, <1>2, <1>3, <1>4, <3>1, HeapAssumption DEF End, HeapEnd
    <3> QED
      BY <1>5, <3>2 DEF Geometry, Tiling
  <2>3. \A b, c \in free' \cup res' : b # c => Apart(b, c)
    BY <1>5, <1>9, <1>10 DEF Geometry, Tiling
  <2>4. ASSUME NEW a \in Bytes
        PROVE  \E b \in free' \cup res' : b.base <= a /\ a < End(b)
    <3>1. PICK b \in free \cup res : b.base <= a /\ a < End(b)
      BY DEF Geometry, Tiling
    <3>2. CASE b # found
      BY <1>5, <3>1, <3>2
    <3>3. CASE b = found
      <4>1. a \in Int
        BY HeapAssumption DEF Bytes, HeapEnd
      <4>2. (r.base <= a /\ a < End(r)) \/ (n.base <= a /\ a < End(n))
        BY <1>1, <1>2, <1>3, <1>4, <3>1, <3>3, <4>1 DEF End
      <4> QED
        BY <1>5, <4>2
    <3> QED
      BY <3>2, <3>3
  <2> QED
    BY <2>1, <2>2, <2>3, <2>4 DEF Tiling
<1>12. Coalesced'
  <2>1. \A c \in free : End(found) # c.base
    BY <1>1 DEF Geometry, Coalesced
  <2>2. \A c \in free : c # found => End(n) # c.base /\ End(c) # n.base
    BY <1>1, <1>2, <1>3, <1>4, <1>7, <1>9, <2>1 DEF End, Apart
  <2>3. End(n) # n.base
    BY <1>1, <1>2, <1>4 DEF End
  <2> QED
    BY <1>5, <2>2, <2>3 DEF Geometry, Coalesced
<1> QED
  BY <1>6, <1>11, <1>12 DEF Geometry
-----------------------------------------------------------------------------
\* Because blocks do not overlap, a block has at most one free neighbour on
\* each side: __kfree's loop cannot match twice on one side.
LEMMA Neighbours ==
  ASSUME Geometry, NEW found \in res
  PROVE  /\ \A b, c \in LeftOf(found) : b = c
         /\ \A b, c \in RightOf(found) : b = c
         /\ LeftOf(found) \cap RightOf(found) = {}
         /\ found \notin free
<1>1. \A b \in free \cup res : b \in Blocks /\ b.base \in Nat /\ b.size \in Nat \ {0}
  BY DEF Geometry, TypeOK, Blocks
<1>2. \A b, c \in free \cup res : b # c => Apart(b, c)
  BY DEF Geometry, Tiling
<1>3. found \notin free
  BY DEF Geometry, Tiling
<1>4. ASSUME NEW b \in LeftOf(found), NEW c \in LeftOf(found) PROVE b = c
  BY <1>1, <1>2, <1>4 DEF LeftOf, End, Apart
<1>5. ASSUME NEW b \in RightOf(found), NEW c \in RightOf(found) PROVE b = c
  BY <1>1, <1>2, <1>5 DEF RightOf, End, Apart
<1>6. LeftOf(found) \cap RightOf(found) = {}
  BY <1>1 DEF LeftOf, RightOf, End
<1> QED
  BY <1>3, <1>4, <1>5, <1>6

\* What a successful __kfree does, with the merged block named.  Everything
\* that is not the block or one of its free neighbours is apart from it.
LEMMA FreeStep ==
  ASSUME Geometry, NEW p \in Bytes, kfree(p), ~ UNCHANGED vars
  PROVE  \E found \in res, m \in Blocks :
           LET Gone == LeftOf(found) \cup RightOf(found) IN
           /\ res' = res \ {found}
           /\ free' = (free \ Gone) \cup {m}
           /\ m.base <= found.base /\ End(found) <= End(m)
           /\ LeftOf(found) = {} => m.base = found.base
           /\ RightOf(found) = {} => End(m) = End(found)
           /\ \A b \in LeftOf(found) : m.base = b.base
           /\ \A b \in RightOf(found) : End(m) = End(b)
           /\ avail' = avail + (IF LeftOf(found) = {} THEN 0 ELSE 1)
                             + (IF RightOf(found) = {} THEN 0 ELSE 1)
           /\ meta' = meta
<1>1. PICK found \in res :
        LET L == LeftOf(found)
            R == RightOf(found)
        IN /\ \E lo \in IF L = {} THEN {found.base} ELSE {lp.base : lp \in L} :
              \E hi \in IF R = {} THEN {End(found)} ELSE {End(rp) : rp \in R} :
                free' = (free \ (L \cup R)) \cup {Blk(lo, hi - lo)}
           /\ res' = res \ {found}
           /\ avail' = avail + (IF L = {} THEN 0 ELSE 1)
                             + (IF R = {} THEN 0 ELSE 1)
           /\ UNCHANGED meta
  BY DEF kfree
<1> DEFINE L == LeftOf(found)
           R == RightOf(found)
<1>2. PICK lo \in IF L = {} THEN {found.base} ELSE {lp.base : lp \in L} :
      \E hi \in IF R = {} THEN {End(found)} ELSE {End(rp) : rp \in R} :
         free' = (free \ (L \cup R)) \cup {Blk(lo, hi - lo)}
  BY <1>1
<1>3. PICK hi \in IF R = {} THEN {End(found)} ELSE {End(rp) : rp \in R} :
         free' = (free \ (L \cup R)) \cup {Blk(lo, hi - lo)}
  BY <1>2
<1>4. \A b \in free \cup res : b \in Blocks /\ b.base \in Nat /\ b.size \in Nat \ {0}
  BY DEF Geometry, TypeOK, Blocks
<1>5. /\ lo \in Nat /\ lo <= found.base
      /\ L = {} => lo = found.base
      /\ \A b \in L : lo = b.base
  <2>1. CASE L = {}
    BY <1>2, <1>4, <2>1
  <2>2. CASE L # {}
    <3>1. PICK lp \in L : lo = lp.base
      BY <1>2, <2>2
    <3>2. \A b \in L : b = lp
      BY Neighbours
    <3> QED
      BY <1>4, <2>2, <3>1, <3>2 DEF LeftOf, End
  <2> QED
    BY <2>1, <2>2
<1>6. /\ hi \in Nat /\ End(found) <= hi
      /\ R = {} => hi = End(found)
      /\ \A b \in R : hi = End(b)
  <2>1. CASE R = {}
    BY <1>3, <1>4, <2>1 DEF End
  <2>2. CASE R # {}
    <3>1. PICK rp \in R : hi = End(rp)
      BY <1>3, <2>2
    <3>2. \A b \in R : b = rp
      BY Neighbours
    <3> QED
      BY <1>4, <2>2, <3>1, <3>2 DEF RightOf, End
  <2> QED
    BY <2>1, <2>2
<1>7. hi - lo \in Nat \ {0}
  BY <1>4, <1>5, <1>6 DEF End
<1>8. PICK m \in Blocks : m = Blk(lo, hi - lo) /\ m.base = lo /\ End(m) = hi
  BY <1>5, <1>6, <1>7, BlkType DEF End
<1> WITNESS found \in res, m \in Blocks
<1> QED
  BY <1>1, <1>3, <1>5, <1>6, <1>8

\* kfree merges the block with its free neighbours.
LEMMA FreeGeometry ==
  ASSUME Geometry, NEW p \in Bytes, kfree(p)
  PROVE  Geometry'
<1>1. CASE UNCHANGED vars
  BY <1>1 DEF Geometry, TypeOK, Tiling, Coalesced, vars
<1>2. CASE ~ UNCHANGED vars
  <2>1. PICK found \in res, m \in Blocks :
          /\ res' = res \ {found}
          /\ free' = (free \ (LeftOf(found) \cup RightOf(found))) \cup {m}
          /\ m.base <= found.base /\ End(found) <= End(m)
          /\ LeftOf(found) = {} => m.base = found.base
          /\ RightOf(found) = {} => End(m) = End(found)
          /\ \A b \in LeftOf(found) : m.base = b.base
          /\ \A b \in RightOf(found) : End(m) = End(b)
          /\ avail' \in Nat /\ meta' \in Nat
    BY <1>2, FreeStep DEF Geometry, TypeOK
  <2> DEFINE L == LeftOf(found)
             R == RightOf(found)
             Gone == L \cup R \cup {found}
             All == free \cup res
  <2>2. /\ \A b \in All : b \in Blocks /\ b.base \in Nat /\ b.size \in Nat \ {0}
        /\ m.base \in Nat /\ m.size \in Nat \ {0}
    BY DEF Geometry, TypeOK, Blocks
  <2>3. free' \cup res' = (All \ Gone) \cup {m}
    BY <2>1, Neighbours DEF LeftOf, RightOf, Geometry, Tiling
  <2>4. TypeOK'
    BY <2>1 DEF Geometry, TypeOK
  <2>5. \A b \in All \ Gone : Apart(b, m) /\ Apart(m, b) /\ b # m
    <3> SUFFICES ASSUME NEW b \in All \ Gone
                 PROVE  Apart(b, m) /\ Apart(m, b) /\ b # m
      OBVIOUS
    <3>1. Apart(b, found)
      BY DEF Geometry, Tiling
    <3>2. CASE End(b) <= found.base
      <4>1. CASE L = {}
        BY <2>1, <2>2, <3>2, <4>1 DEF Apart, End
      <4>2. CASE L # {}
        <5>1. PICK lp \in L : TRUE
          BY <4>2
        <5>2. /\ lp \in free /\ End(lp) = found.base /\ m.base = lp.base
              /\ Apart(b, lp)
          BY <2>1, <5>1 DEF LeftOf, Geometry, Tiling
        <5> QED
          BY <2>1, <2>2, <3>2, <5>2 DEF Apart, End
      <4> QED
        BY <4>1, <4>2
    <3>3. CASE End(found) <= b.base
      <4>1. CASE R = {}
        BY <2>1, <2>2, <3>3, <4>1 DEF Apart, End
      <4>2. CASE R # {}
        <5>1. PICK rp \in R : TRUE
          BY <4>2
        <5>2. /\ rp \in free /\ End(found) = rp.base /\ End(m) = End(rp)
              /\ Apart(b, rp)
          BY <2>1, <5>1 DEF RightOf, Geometry, Tiling
        <5> QED
          BY <2>1, <2>2, <3>3, <5>2 DEF Apart, End
      <4> QED
        BY <4>1, <4>2
    <3> QED
      BY <3>1, <3>2, <3>3 DEF Apart
  <2>6. Tiling'
    <3>1. free' \cap res' = {}
      BY <2>1, <2>5 DEF Geometry, Tiling, LeftOf, RightOf
    <3>2. HeapStart <= m.base /\ End(m) <= HeapEnd
      <4>1. HeapStart <= found.base /\ End(found) <= HeapEnd
        BY DEF Geometry, Tiling
      <4>2. HeapStart <= m.base
        BY <2>1, <4>1 DEF Geometry, Tiling, LeftOf
      <4>3. End(m) <= HeapEnd
        BY <2>1, <4>1 DEF Geometry, Tiling, RightOf
      <4> QED
        BY <4>2, <4>3
    <3>3. \A b \in free' \cup res' : HeapStart <= b.base /\ End(b) <= HeapEnd
      BY <2>3, <3>2 DEF Geometry, Tiling
    <3>4. \A b, c \in free' \cup res' : b # c => Apart(b, c)
      BY <2>3, <2>5 DEF Geometry, Tiling
    <3>5. ASSUME NEW a \in Bytes
          PROVE  \E b \in free' \cup res' : b.base <= a /\ a < End(b)
      <4>1. PICK b \in All : b.base <= a /\ a < End(b)
        BY DEF Geometry, Tiling
      <4>2. CASE b \notin Gone
        BY <2>3, <4>1, <4>2
      <4>3. CASE b \in Gone
        <5>1. a \in Int
          BY HeapAssumption DEF Bytes, HeapEnd
        <5>2. m.base <= a /\ a < End(m)
          BY <2>1, <2>2, <4>1, <4>3, <5>1 DEF LeftOf, RightOf, End
        <5> QED
          BY <2>3, <5>2
      <4> QED
        BY <4>2, <4>3
    <3> QED
      BY <3>1, <3>3, <3>4, <3>5 DEF Tiling
  <2>7. Coalesced'
    <3>1. ASSUME NEW b \in free \ (L \cup R)
          PROVE  End(b) # m.base /\ End(m) # b.base
      <4>1. End(b) # m.base
        <5>1. CASE L = {}
          BY <2>1, <3>1, <5>1 DEF LeftOf
        <5>2. CASE L # {}
          BY <2>1, <3>1, <5>2 DEF LeftOf, Geometry, Coalesced
        <5> QED
          BY <5>1, <5>2
      <4>2. End(m) # b.base
        <5>1. CASE R = {}
          BY <2>1, <3>1, <5>1 DEF RightOf
        <5>2. CASE R # {}
          BY <2>1, <3>1, <5>2 DEF RightOf, Geometry, Coalesced
        <5> QED
          BY <5>1, <5>2
      <4> QED
        BY <4>1, <4>2
    <3>2. End(m) # m.base
      BY <2>2 DEF End
    <3> QED
      BY <2>1, <3>1, <3>2 DEF Geometry, Coalesced
  <2> QED
    BY <2>4, <2>6, <2>7 DEF Geometry
<1> QED
  BY <1>1, <1>2
-----------------------------------------------------------------------------
\* The blocks tile the heap at all times.
LEMMA GeometryInvariant == Spec => []Geometry
<1>1. Init => Geometry
  BY InitGeometry
<1>2. Geometry /\ [Next]_vars => Geometry'
  <2> SUFFICES ASSUME Geometry, [Next]_vars PROVE Geometry'
    OBVIOUS
  <2>1. ASSUME NEW size \in Sizes, kmalloc_exact(size) PROVE Geometry'
    BY <2>1, ExactGeometry
  <2>2. ASSUME NEW size \in Sizes, kmalloc_split(size) PROVE Geometry'
    BY <2>2, SplitGeometry
  <2>3. ASSUME NEW p \in Bytes, kfree(p) PROVE Geometry'
    BY <2>3, FreeGeometry
  <2>4. CASE UNCHANGED vars
    BY <2>4 DEF Geometry, TypeOK, Tiling, Coalesced, vars
  <2> QED
    BY <2>1, <2>2, <2>3, <2>4 DEF Next, kmalloc, kmalloc_null
<1> QED
  BY <1>1, <1>2, PTL DEF Spec

\* The lists hold blocks and the counters are naturals.
THEOREM TypeCorrect == Spec => []TypeOK
<1>1. Geometry => TypeOK
  BY DEF Geometry
<1> QED
  BY <1>1, GeometryInvariant, PTL

\* Free and reserved blocks tile the heap after any sequence of kmalloc and
\* kfree calls.
THEOREM AlwaysTiled == Spec => []Tiling
<1>1. Geometry => Tiling
  BY DEF Geometry
<1> QED
  BY <1>1, GeometryInvariant, PTL

\* kfree never leaves two adjacent free blocks.
THEOREM AlwaysCoalesced == Spec => []Coalesced
<1>1. Geometry => Coalesced
  BY DEF Geometry
<1> QED
  BY <1>1, GeometryInvariant, PTL

\* Releasing everything gives the whole heap back as one block.
THEOREM AlwaysRestored == Spec => []Restored
<1>1. Geometry => Restored
  <2> SUFFICES ASSUME Geometry, res = {}
               PROVE  free = {Blk(HeapStart, HeapSize)}
    BY DEF Restored
  <2>1. \A b \in free : b \in Blocks /\ b.base \in Nat /\ b.size \in Nat \ {0}
    BY DEF Geometry, TypeOK, Blocks
  <2>2. HeapStart \in Bytes /\ HeapStart \in Nat /\ HeapEnd \in Nat
    BY HeapAssumption DEF Bytes, HeapEnd
  <2>3. PICK b \in free : b.base <= HeapStart /\ HeapStart < End(b)
    BY <2>2 DEF Geometry, Tiling
  <2>4. b.base = HeapStart /\ End(b) <= HeapEnd /\ b.size \in Nat
    BY <2>1, <2>2, <2>3 DEF Geometry, Tiling
  <2>5. End(b) = HeapEnd
    <3> SUFFICES ASSUME End(b) # HeapEnd PROVE FALSE
      OBVIOUS
    <3>1. End(b) \in Bytes /\ End(b) \in Nat
      BY <2>1, <2>2, <2>4 DEF Bytes, End
    <3>2. PICK c \in free : c.base <= End(b) /\ End(b) < End(c)
      BY <3>1 DEF Geometry, Tiling
    <3>3. c # b /\ Apart(b, c)
      BY <2>1, <3>1, <3>2 DEF Geometry, Tiling
    <3>4. End(b) = c.base
      BY <2>1, <2>3, <2>4, <3>1, <3>2, <3>3 DEF Apart, End
    <3> QED
      BY <3>4 DEF Geometry, Coalesced
  <2>6. b = Blk(HeapStart, HeapSize)
    <3>1. b.size = HeapSize
      BY <2>1, <2>4, <2>5, HeapAssumption DEF End, HeapEnd
    <3> QED
      BY <2>1, <2>4, <3>1, BlkEqual, BlkType, HeapAssumption
  <2>7. \A c \in free : c = b
    <3> SUFFICES ASSUME NEW c \in free, c # b PROVE FALSE
      OBVIOUS
    <3>1. HeapStart <= c.base /\ End(c) <= HeapEnd /\ Apart(b, c)
      BY DEF Geometry, Tiling
    <3> QED
      BY <2>1, <2>2, <2>4, <2>5, <3>1 DEF Apart, End
  <2> QED
    BY <2>6, <2>7
<1> QED
  BY <1>1, GeometryInvariant, PTL
-----------------------------------------------------------------------------
\* Entries are conserved: the count of each list after every operation.
Counting == IsFiniteSet(free) /\ IsFiniteSet(res) /\ EntriesConserved

\* Exchanging an element for a new one keeps the count.
LEMMA SwapElement ==
  ASSUME NEW S, IsFiniteSet(S), NEW x \in S, NEW y, y \notin S \ {x}
  PROVE  /\ IsFiniteSet((S \ {x}) \cup {y})
         /\ Cardinality((S \ {x}) \cup {y}) = Cardinality(S)
<1>1. /\ IsFiniteSet(S \ {x}) /\ Cardinality(S \ {x}) = Cardinality(S) - 1
      /\ Cardinality(S) \in Nat
  BY FS_RemoveElement, FS_CardinalityType
<1>2. /\ IsFiniteSet((S \ {x}) \cup {y})
      /\ Cardinality((S \ {x}) \cup {y}) = Cardinality(S \ {x}) + 1
  BY <1>1, FS_AddElement
<1> QED
  BY <1>1, <1>2

\* kmalloc takes entries from avail, or a page of new ones, and loses none.
LEMMA MallocCounting ==
  ASSUME Geometry, Counting, NEW size \in Sizes,
         kmalloc_exact(size) \/ kmalloc_split(size)
  PROVE  Counting'
<1>1. CASE kmalloc_exact(size)
  <2>1. PICK hbp \in free : /\ free' = free \ {hbp} /\ res' = res \cup {hbp}
                            /\ avail' = avail /\ meta' = meta
    BY <1>1 DEF kmalloc_exact, Exact
  <2>2. hbp \notin res
    BY DEF Geometry, Tiling
  <2>3. /\ IsFiniteSet(free') /\ Cardinality(free') = Cardinality(free) - 1
        /\ Cardinality(free) \in Nat
    BY <2>1, FS_RemoveElement, FS_CardinalityType DEF Counting
  <2>4. /\ IsFiniteSet(res') /\ Cardinality(res') = Cardinality(res) + 1
        /\ Cardinality(res) \in Nat
    BY <2>1, <2>2, FS_AddElement, FS_CardinalityType DEF Counting
  <2> QED
    BY <2>1, <2>3, <2>4, EntAssumption
    DEF Counting, EntriesConserved, Geometry, TypeOK
<1>2. CASE kmalloc_split(size)
  <2>1. PICK found \in free :
          /\ found.size > size
          /\ take_entry
          /\ res'  = res \cup {Blk(found.base, size)}
          /\ free' = (free \ {found})
                       \cup {Blk(found.base + size, found.size - size)}
    BY <1>2 DEF kmalloc_split, Best
  <2>2. /\ \A b \in free \cup res : b.base \in Nat /\ b.size \in Nat \ {0}
        /\ size \in Nat \ {0}
    BY SizesAssumption DEF Geometry, TypeOK, Blocks
  <2>3. PICK r : r = Blk(found.base, size)
    OBVIOUS
  <2>4. PICK n : n = Blk(found.base + size, found.size - size)
    OBVIOUS
  <2>5. /\ r.base = found.base /\ r.size = size
        /\ n.base = found.base + size /\ n.size = found.size - size
    BY <2>3, <2>4 DEF Blk
  <2>6. n \notin free \ {found}
    <3> SUFFICES ASSUME n \in free, n # found PROVE FALSE
      OBVIOUS
    <3>1. Apart(n, found)
      BY DEF Geometry, Tiling
    <3> QED
      BY <2>1, <2>2, <2>5, <3>1 DEF Apart, End
  <2>7. r \notin res
    <3> SUFFICES ASSUME r \in res PROVE FALSE
      OBVIOUS
    <3>1. Apart(r, found)
      BY DEF Geometry, Tiling
    <3> QED
      BY <2>1, <2>2, <2>5, <3>1 DEF Apart, End
  <2>8. /\ IsFiniteSet(free') /\ Cardinality(free') = Cardinality(free)
        /\ Cardinality(free) \in Nat
    BY <2>1, <2>4, <2>6, SwapElement, FS_CardinalityType DEF Counting
  <2>9. /\ IsFiniteSet(res') /\ Cardinality(res') = Cardinality(res) + 1
        /\ Cardinality(res) \in Nat
    BY <2>1, <2>3, <2>7, FS_AddElement, FS_CardinalityType DEF Counting
  <2>10. Cardinality(free) + Cardinality(res) + avail + 3 = EntPerPage * meta
    BY DEF Counting, EntriesConserved
  <2>11. avail \in Nat /\ meta \in Nat /\ EntPerPage \in Nat
    BY EntAssumption DEF Geometry, TypeOK
  <2>12. Cardinality(free') + Cardinality(res') + avail' + 3 = EntPerPage * meta'
    <3>1. CASE avail' = avail - 1 /\ meta' = meta
      BY <2>8, <2>9, <2>10, <2>11, <3>1
    <3>2. CASE avail = 0 /\ avail' = EntPerPage - 1 /\ meta' = meta + 1
      <4>1. EntPerPage * meta' = EntPerPage * meta + EntPerPage
        BY <2>11, <3>2
      <4> QED
        BY <2>8, <2>9, <2>10, <2>11, <3>2, <4>1
    <3> QED
      BY <2>1, <3>1, <3>2 DEF take_entry
  <2> QED
    BY <2>8, <2>9, <2>12 DEF Counting, EntriesConserved
<1> QED
  BY <1>1, <1>2

\* Removing a set with at most one element.
LEMMA RemoveAtMostOne ==
  ASSUME NEW S, IsFiniteSet(S), NEW T, T \subseteq S, \A b, c \in T : b = c
  PROVE  /\ IsFiniteSet(S \ T)
         /\ Cardinality(S \ T) = Cardinality(S) - (IF T = {} THEN 0 ELSE 1)
         /\ Cardinality(S) \in Nat
<1>1. Cardinality(S) \in Nat
  BY FS_CardinalityType
<1>2. CASE T = {}
  <2>1. S \ T = S
    BY <1>2
  <2> QED
    BY <1>1, <1>2, <2>1
<1>3. CASE T # {}
  <2>1. PICK x \in T : T = {x}
    BY <1>3
  <2>2. x \in S /\ S \ T = S \ {x}
    BY <2>1
  <2>3. IsFiniteSet(S \ {x}) /\ Cardinality(S \ {x}) = Cardinality(S) - 1
    BY <2>2, FS_RemoveElement
  <2> QED
    BY <1>1, <1>3, <2>2, <2>3
<1> QED
  BY <1>2, <1>3

\* kfree puts the entries that merging leaves over on avail.
LEMMA FreeCounting ==
  ASSUME Geometry, Counting, NEW p \in Bytes, kfree(p)
  PROVE  Counting'
<1>1. CASE UNCHANGED vars
  BY <1>1 DEF Counting, EntriesConserved, vars
<1>2. CASE ~ UNCHANGED vars
  <2>1. PICK found \in res, m \in Blocks :
          /\ res' = res \ {found}
          /\ free' = (free \ (LeftOf(found) \cup RightOf(found))) \cup {m}
          /\ m.base <= found.base /\ End(found) <= End(m)
          /\ avail' = avail + (IF LeftOf(found) = {} THEN 0 ELSE 1)
                            + (IF RightOf(found) = {} THEN 0 ELSE 1)
          /\ meta' = meta
    BY <1>2, FreeStep
  <2>2. PICK L, R : L = LeftOf(found) /\ R = RightOf(found)
    OBVIOUS
  <2>3. PICK dl, dr \in 0 .. 1 : /\ dl = IF L = {} THEN 0 ELSE 1
                                 /\ dr = IF R = {} THEN 0 ELSE 1
    OBVIOUS
  <2>4. /\ \A b, c \in L : b = c
        /\ \A b, c \in R : b = c
        /\ L \cap R = {} /\ L \subseteq free /\ R \subseteq free \ L
        /\ found \notin free
    BY <2>2, Neighbours DEF LeftOf, RightOf
  <2>5. /\ IsFiniteSet(free \ L) /\ Cardinality(free \ L) = Cardinality(free) - dl
        /\ Cardinality(free) \in Nat
    BY <2>3, <2>4, RemoveAtMostOne DEF Counting
  <2>6. /\ IsFiniteSet((free \ L) \ R)
        /\ Cardinality((free \ L) \ R) = Cardinality(free \ L) - dr
    BY <2>3, <2>4, <2>5, RemoveAtMostOne
  <2>7. free' = ((free \ L) \ R) \cup {m}
    BY <2>1, <2>2
  <2>8. m \notin free
    <3> SUFFICES ASSUME m \in free PROVE FALSE
      OBVIOUS
    <3>1. Apart(m, found)
      BY <2>4 DEF Geometry, Tiling
    <3>2. /\ m.base \in Nat /\ m.size \in Nat \ {0}
          /\ found.base \in Nat /\ found.size \in Nat \ {0}
      BY DEF Geometry, TypeOK, Blocks
    <3> QED
      BY <2>1, <3>1, <3>2 DEF Apart, End
  <2>9. IsFiniteSet(free') /\ Cardinality(free') = Cardinality(free) - dl - dr + 1
    <3>1. /\ IsFiniteSet(free')
          /\ Cardinality(free') = Cardinality((free \ L) \ R) + 1
      BY <2>6, <2>7, <2>8, FS_AddElement
    <3> QED
      BY <2>5, <2>6, <3>1
  <2>10. /\ IsFiniteSet(res') /\ Cardinality(res') = Cardinality(res) - 1
         /\ Cardinality(res) \in Nat
    BY <2>1, FS_RemoveElement, FS_CardinalityType DEF Counting
  <2>11. avail' = avail + dl + dr /\ avail \in Nat
    BY <2>1, <2>2, <2>3 DEF Geometry, TypeOK
  <2> QED
    BY <2>1, <2>3, <2>5, <2>9, <2>10, <2>11 DEF Counting, EntriesConserved
<1> QED
  BY <1>1, <1>2

\* No sequence of kmalloc and kfree calls loses or duplicates an entry.
THEOREM EntriesAlwaysConserved == Spec => []EntriesConserved
<1>1. Init => Counting
  <2> SUFFICES ASSUME Init PROVE Counting
    OBVIOUS
  <2>1. PICK w : free = {w}
    BY DEF Init
  <2>2. IsFiniteSet(free) /\ Cardinality(free) = 1
    BY <2>1, FS_Singleton
  <2>3. IsFiniteSet(res) /\ Cardinality(res) = 0
    BY FS_EmptySet DEF Init
  <2> QED
    BY <2>2, <2>3, EntAssumption DEF Init, Counting, EntriesConserved
<1>2. Geometry /\ Counting /\ [Next]_vars => Counting'
  <2> SUFFICES ASSUME Geometry, Counting, [Next]_vars PROVE Counting'
    OBVIOUS
  <2>1. ASSUME NEW size \in Sizes, kmalloc_exact(size) \/ kmalloc_split(size)
        PROVE  Counting'
    BY <2>1, MallocCounting
  <2>2. ASSUME NEW p \in Bytes, kfree(p) PROVE Counting'
    BY <2>2, FreeCounting
  <2>3. CASE UNCHANGED vars
    BY <2>3 DEF Counting, EntriesConserved, vars
  <2> QED
    BY <2>1, <2>2, <2>3 DEF Next, kmalloc, kmalloc_null
<1>3. Counting => EntriesConserved
  BY DEF Counting
<1> QED
  BY <1>1, <1>2, <1>3, GeometryInvariant, PTL DEF Spec
-----------------------------------------------------------------------------
\* A block moved to res that is apart from every reserved block is a step of
\* the abstract allocator.
LEMMA ReserveRefines ==
  ASSUME Geometry, NEW r \in Blocks, res' = res \cup {r},
         HeapStart <= r.base, End(r) <= HeapEnd,
         \A b \in res : Apart(b, r)
  PROVE  Alloc!Allocate
<1>1. \A b \in res : b.base \in Nat /\ b.size \in Nat \ {0}
  BY DEF Geometry, TypeOK, Blocks
<1>2. r.base \in Nat /\ r.size \in Nat \ {0} /\ HeapStart \in Nat /\ HeapEnd \in Nat
  BY HeapAssumption DEF Blocks, HeapEnd
<1>3. PICK lo, hi : lo = r.base /\ hi = End(r) - 1
  OBVIOUS
<1>4. /\ lo \in Bytes /\ hi \in Bytes /\ lo <= hi
      /\ lo .. hi \subseteq Bytes
  BY <1>2, <1>3 DEF Bytes, End
<1>5. \A b \in Live : Alloc!Apart(<<lo, hi>>, b)
  <2> SUFFICES ASSUME NEW c \in res
               PROVE  Alloc!Apart(<<lo, hi>>, <<c.base, End(c) - 1>>)
    BY DEF Live
  <2>1. Apart(c, r)
    OBVIOUS
  <2> QED
    BY <1>1, <1>2, <1>3, <2>1 DEF Apart, End, Alloc!Apart
<1>6. Live' = Live \cup {<<lo, hi>>}
  BY <1>3 DEF Live
<1> QED
  BY <1>4, <1>5, <1>6 DEF Alloc!Allocate

\* kmalloc hands out bytes that were nobody's.
LEMMA MallocRefines ==
  ASSUME Geometry, NEW size \in Sizes,
         kmalloc_exact(size) \/ kmalloc_split(size)
  PROVE  Alloc!Allocate
<1>1. CASE kmalloc_exact(size)
  <2>1. PICK hbp \in free : res' = res \cup {hbp}
    BY <1>1 DEF kmalloc_exact, Exact
  <2>2. /\ hbp \in Blocks /\ HeapStart <= hbp.base /\ End(hbp) <= HeapEnd
        /\ \A b \in res : Apart(b, hbp)
    BY <2>1 DEF Geometry, TypeOK, Tiling
  <2> QED
    BY <2>1, <2>2, ReserveRefines
<1>2. CASE kmalloc_split(size)
  <2>1. PICK found \in free : /\ found.size > size
                              /\ res'  = res \cup {Blk(found.base, size)}
    BY <1>2 DEF kmalloc_split, Best
  <2>2. /\ \A b \in free \cup res : b.base \in Nat /\ b.size \in Nat \ {0}
        /\ size \in Nat \ {0}
    BY SizesAssumption DEF Geometry, TypeOK, Blocks
  <2>3. PICK r \in Blocks : /\ r = Blk(found.base, size)
                            /\ r.base = found.base /\ r.size = size
    BY <2>2, BlkType
  <2>4. /\ HeapStart <= found.base /\ End(found) <= HeapEnd
        /\ \A b \in res : Apart(b, found)
    BY DEF Geometry, Tiling
  <2>5. HeapStart <= r.base /\ End(r) <= HeapEnd /\ \A b \in res : Apart(b, r)
    BY <2>1, <2>2, <2>3, <2>4, HeapAssumption DEF Apart, End, HeapEnd
  <2> QED
    BY <2>1, <2>3, <2>5, ReserveRefines
<1> QED
  BY <1>1, <1>2

\* kfree takes back one live block, or nothing.
LEMMA FreeRefines ==
  ASSUME Geometry, NEW p \in Bytes, kfree(p)
  PROVE  Alloc!Release \/ Live' = Live
<1>1. CASE UNCHANGED vars
  BY <1>1 DEF vars, Live
<1>2. CASE ~ UNCHANGED vars
  <2>1. PICK found \in res : res' = res \ {found}
    BY <1>2, FreeStep
  <2>2. PICK f : f = <<found.base, End(found) - 1>>
    OBVIOUS
  <2>3. f \in Live
    BY <2>2 DEF Live
  <2>4. \A b \in res : b # found => <<b.base, End(b) - 1>> # f
    <3> SUFFICES ASSUME NEW b \in res, b # found PROVE b.base # found.base
      BY <2>2
    <3>1. Apart(b, found)
      BY DEF Geometry, Tiling
    <3>2. /\ b.base \in Nat /\ b.size \in Nat \ {0}
          /\ found.base \in Nat /\ found.size \in Nat \ {0}
      BY DEF Geometry, TypeOK, Blocks
    <3> QED
      BY <3>1, <3>2 DEF Apart, End
  <2>5. Live' = Live \ {f}
    BY <2>1, <2>2, <2>4 DEF Live
  <2> QED
    BY <2>3, <2>5 DEF Alloc!Release
<1> QED
  BY <1>1, <1>2

\* The heap implements the abstract block allocator: memory handed out is
\* held by nobody else, and a release takes back exactly one block.
THEOREM Refinement == Spec => ImplementsBlocks
<1>1. Init => Alloc!Init
  BY DEF Init, Alloc!Init, Live
<1>2. Geometry /\ [Next]_vars => [Alloc!Next]_Live
  <2> SUFFICES ASSUME Geometry, [Next]_vars PROVE Alloc!Next \/ Live' = Live
    OBVIOUS
  <2>1. ASSUME NEW size \in Sizes, kmalloc_exact(size) \/ kmalloc_split(size)
        PROVE  Alloc!Next
    BY <2>1, MallocRefines DEF Alloc!Next
  <2>2. ASSUME NEW p \in Bytes, kfree(p) PROVE Alloc!Next \/ Live' = Live
    BY <2>2, FreeRefines DEF Alloc!Next
  <2>3. CASE UNCHANGED vars
    BY <2>3 DEF Live, vars
  <2> QED
    BY <2>1, <2>2, <2>3 DEF Next, kmalloc, kmalloc_null
<1> QED
  BY <1>1, <1>2, GeometryInvariant, PTL DEF Spec, ImplementsBlocks, Alloc!Spec
=============================================================================
