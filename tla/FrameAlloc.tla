---------------------------- MODULE FrameAlloc ----------------------------
(***************************************************************************)
(* The page-frame allocator of src/mm.c (MM_PAGE_TABLE).  An allocator     *)
(* keeps one table entry per frame and nothing else: no block list and no  *)
(* lengths.  A free frame is white; alloc_frames paints the frames of a    *)
(* block with one of three colours, chosen to differ from both neighbours, *)
(* and free_frames finds the extent of a block by walking over the frames  *)
(* of equal colour.  The address bits of an entry never change and are     *)
(* left out: an entry is its colour and a frame is its index.              *)
(*                                                                         *)
(* Operations are atomic: this is the allocator used by one caller at a    *)
(* time (the code takes no lock).                                          *)
(***************************************************************************)
EXTENDS Integers, FiniteSets

CONSTANTS
  Pages,              \* whole pages of the area given to MM_PAGE_TABLE
  META_ENT_NUM_P_PG,  \* table entries in one page (1024)
  Requests            \* values of npages callers ask for

ASSUME PagesAssumption    == Pages \in Nat /\ Pages >= 2
ASSUME MetaAssumption     == META_ENT_NUM_P_PG \in Nat \ {0}
ASSUME RequestsAssumption == Requests \subseteq Nat

VARIABLES
  color,              \* colour of the table entry of every frame
  nfree               \* mmcp->nfree

vars == <<color, nfree>>

PG_WHITE == 0
PG_RED   == 1
Colors   == 0 .. 3

\* The macros of include/mm.h.  XOR is taken on two bits.
PGCOLOR_SHIFT(a)  == (a % 3) + 1
PGCOLOR_XOR(a, b) == ((a + b) % 2) + 2 * (((a \div 2) + (b \div 2)) % 2)

\* MM_PAGE_TABLE: how the area is divided into table pages and frames.
npg     == (Pages * META_ENT_NUM_P_PG) \div (META_ENT_NUM_P_PG + 1)
mpg     == Pages - npg
nframes == npg
Frames  == 0 .. nframes - 1

\* find_seq_pages: the first run of npages white entries.
Fits(npages) ==
  {tp \in Frames : /\ npages > 0
                   /\ tp + npages <= nframes
                   /\ \A i \in tp .. tp + npages - 1 : color[i] = PG_WHITE}

find_seq_pages(npages, tp) ==
  /\ npages <= nfree
  /\ tp \in Fits(npages)
  /\ \A s \in Fits(npages) : tp <= s

no_seq_pages(npages) == npages > nfree \/ Fits(npages) = {}

Marker_red(tp, npages) == PG_RED       \* mutant: neighbours are ignored

\* The colour alloc_frames gives to the block of npages frames at tp.
Marker(tp, npages) ==
  LET atLeft  == tp = 0
      atRight == tp + npages = nframes
      right   == color[tp + npages]
      left    == color[tp - 1]
  IN  IF atLeft /\ atRight THEN PG_RED
      ELSE IF atLeft THEN PGCOLOR_SHIFT(right)
      ELSE IF atRight THEN PGCOLOR_SHIFT(left)
      ELSE IF right = left \/ right = PG_WHITE THEN PGCOLOR_SHIFT(left)
      ELSE PGCOLOR_XOR(left, right)

Paint(tp, npages, marker) ==
  [i \in Frames |-> IF i \in tp .. tp + npages - 1 THEN marker ELSE color[i]]

\* alloc_frames returns NULL and changes nothing when no run is found.
alloc_frames(npages) ==
  \/ /\ no_seq_pages(npages)
     /\ UNCHANGED vars
  \/ \E tp \in Frames :
       /\ find_seq_pages(npages, tp)
       /\ color' = Paint(tp, npages, Marker(tp, npages))
       /\ nfree' = nfree - npages

\* The walk of free_frames from tp to the left and to the right edge.
LeftEdge(tp, l) ==
  /\ l \in 0 .. tp
  /\ \A i \in l .. tp : color[i] = color[tp]
  /\ l > 0 => color[l - 1] # color[tp]

RightEdge(tp, r) ==
  /\ r \in tp .. nframes - 1
  /\ \A i \in tp .. r : color[i] = color[tp]
  /\ r < nframes - 1 => color[r + 1] # color[tp]

\* free_frames(mp), for any frame mp of the block; it returns 1 and changes
\* nothing for an address outside the table or a frame that is free already.
free_frames(mp) ==
  \/ /\ mp \in Frames => color[mp] = PG_WHITE
     /\ UNCHANGED vars
  \/ /\ mp \in Frames /\ color[mp] # PG_WHITE
     /\ \E left, right \in Frames :
          /\ LeftEdge(mp, left)
          /\ RightEdge(mp, right)
          /\ color' = [i \in Frames |->
                         IF i \in left .. right THEN PG_WHITE ELSE color[i]]
          /\ nfree' = nfree + (right - left + 1)

Init ==
  /\ color = [i \in Frames |-> PG_WHITE]
  /\ nfree = npg

Next ==
  \/ \E npages \in Requests : alloc_frames(npages)
  \/ \E mp \in -1 .. nframes : free_frames(mp)

Spec == Init /\ [][Next]_vars
-----------------------------------------------------------------------------
TypeOK ==
  /\ color \in [Frames -> Colors]
  /\ nfree \in 0 .. nframes

\* The assertion of MM_PAGE_TABLE: the entry of every frame lies in the table
\* pages, however the area divides.
MetaFits == \A i \in DOMAIN color : i < mpg * META_ENT_NUM_P_PG

\* mmcp->nfree, which callers and find_seq_pages trust, is exactly the number
\* of white entries after any sequence of allocations and releases.
NfreeExact == nfree = Cardinality({i \in Frames : color[i] = PG_WHITE})

\* The assertion "left is PG_WHITE...not suppose to happen" of alloc_frames:
\* the entry before the run that find_seq_pages returns is never white.
LeftIsColored ==
  \A npages \in Requests, tp \in Frames :
    find_seq_pages(npages, tp) /\ tp > 0 => color[tp - 1] # PG_WHITE

\* The blocks the table encodes: the maximal runs of one colour.
IsRun(l, r) ==
  /\ l <= r
  /\ color[l] # PG_WHITE
  /\ \A i \in l .. r : color[i] = color[l]
  /\ l > 0 => color[l - 1] # color[l]
  /\ r < nframes - 1 => color[r + 1] # color[l]

Runs == {b \in Frames \X Frames : IsRun(b[1], b[2])}

Blocks == INSTANCE BlockAlloc WITH Units <- Frames, live <- Runs

\* Colours alone implement a block allocator: painting a block never joins it
\* to a neighbour, and free_frames takes back exactly the block that holds the
\* given frame, also when it is given a frame in the middle.
ImplementsBlocks == Blocks!Spec
=============================================================================
