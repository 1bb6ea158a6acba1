------------------------- MODULE FrameAllocProofs -------------------------
(***************************************************************************)
(* Proofs about FrameAlloc, for every size of the managed area, every      *)
(* table-page capacity and every set of requests.                          *)
(***************************************************************************)
EXTENDS FrameAlloc, FiniteSetTheorems, TLAPS

\* Integer division as MM_PAGE_TABLE uses it.
LEMMA DivBounds ==
  ASSUME NEW a \in Nat, NEW d \in Nat \ {0}
  PROVE  /\ a \div d \in Nat
         /\ d * (a \div d) <= a
         /\ a < d * (a \div d) + d
OBVIOUS

\* MM_PAGE_TABLE leaves at least one frame, and the table pages hold as many
\* entries, for every area of two pages or more.
LEMMA TableFits == npg \in Nat \ {0} /\ mpg \in Int /\ mpg * META_ENT_NUM_P_PG >= npg
<1> DEFINE P == Pages
           M == META_ENT_NUM_P_PG
           q == (P * M) \div (M + 1)
<1>1. P \in Nat /\ P >= 2 /\ M \in Nat \ {0}
  BY PagesAssumption, MetaAssumption
<1>2. P * M \in Nat /\ M + 1 \in Nat \ {0}
  BY <1>1
<1>3. q \in Nat /\ (M + 1) * q <= P * M /\ P * M < (M + 1) * q + (M + 1)
  BY <1>2, DivBounds
<1> HIDE DEF q
<1>4. P * M >= M + 1
  BY <1>1
<1>5. q # 0
  BY <1>1, <1>3, <1>4
<1>6. (P - q) * M >= q
  BY <1>1, <1>3
<1> QED
  BY <1>1, <1>3, <1>5, <1>6 DEF npg, mpg, q
-----------------------------------------------------------------------------
\* mem_map has at least one frame.
LEMMA NframesType == nframes \in Nat \ {0}
BY TableFits DEF nframes

\* The colour alloc_frames chooses is one of the three colours and differs
\* from the colour of both neighbours of the new block.
LEMMA MarkerSeparates ==
  ASSUME color \in [Frames -> Colors],
         NEW npages \in Nat, NEW tp \in Frames, find_seq_pages(npages, tp)
  PROVE  /\ Marker(tp, npages) \in 1 .. 3
         /\ tp > 0 => Marker(tp, npages) # color[tp - 1]
         /\ tp + npages < nframes => Marker(tp, npages) # color[tp + npages]
         /\ tp > 0 => color[tp - 1] # PG_WHITE
<1> DEFINE left == color[tp - 1]
           right == color[tp + npages]
<1>1. /\ npages > 0 /\ tp + npages <= nframes
      /\ \A i \in tp .. tp + npages - 1 : color[i] = PG_WHITE
      /\ \A s \in Fits(npages) : tp <= s
  BY DEF find_seq_pages, Fits
<1>2. ASSUME tp > 0 PROVE left \in 1 .. 3
  <2>1. tp - 1 \in Frames /\ left \in Colors
    BY <1>2, NframesType DEF Frames
  <2>2. tp - 1 \notin Fits(npages)
    BY <1>1, <2>1, NframesType DEF Frames
  <2>3. left # PG_WHITE
    BY <1>1, <2>1, <2>2, NframesType DEF Fits, Frames
  <2> QED
    BY <2>1, <2>3 DEF Colors, PG_WHITE
<1>3. ASSUME tp + npages < nframes PROVE right \in 0 .. 3
  BY <1>1, <1>3, NframesType DEF Frames, Colors
<1>4. \A a \in 0 .. 3 : PGCOLOR_SHIFT(a) \in 1 .. 3 /\ PGCOLOR_SHIFT(a) # a
  BY DEF PGCOLOR_SHIFT
<1>5. \A a, b \in 1 .. 3 :
        a # b => /\ PGCOLOR_XOR(a, b) \in 1 .. 3
                 /\ PGCOLOR_XOR(a, b) # a
                 /\ PGCOLOR_XOR(a, b) # b
  BY DEF PGCOLOR_XOR
<1>6. CASE tp = 0 /\ tp + npages = nframes
  BY <1>6, NframesType DEF Marker, PG_RED, Frames
<1>7. CASE tp = 0 /\ tp + npages # nframes
  BY <1>1, <1>3, <1>4, <1>7, NframesType DEF Marker, Frames
<1>8. CASE tp # 0 /\ tp + npages = nframes
  BY <1>1, <1>2, <1>4, <1>8, NframesType DEF Marker, Frames, PG_WHITE
<1>9. CASE tp # 0 /\ tp + npages # nframes
  <2>1. tp > 0 /\ tp + npages < nframes
    BY <1>1, <1>9, NframesType DEF Frames
  <2>2. left \in 1 .. 3 /\ right \in 0 .. 3
    BY <1>2, <1>3, <2>1
  <2>3. Marker(tp, npages) = IF right = left \/ right = PG_WHITE
                             THEN PGCOLOR_SHIFT(left)
                             ELSE PGCOLOR_XOR(left, right)
    BY <1>9 DEF Marker
  <2> HIDE DEF left, right
  <2>4. CASE right = left \/ right = PG_WHITE
    <3>1. Marker(tp, npages) = PGCOLOR_SHIFT(left)
      BY <2>3, <2>4
    <3> QED
      BY <1>4, <2>2, <2>4, <3>1 DEF PG_WHITE, left, right
  <2>5. CASE ~(right = left \/ right = PG_WHITE)
    <3>1. Marker(tp, npages) = PGCOLOR_XOR(left, right)
      BY <2>3, <2>5
    <3> QED
      BY <1>5, <2>2, <2>5, <3>1 DEF PG_WHITE, left, right
  <2> QED
    BY <2>4, <2>5
<1> QED
  BY <1>6, <1>7, <1>8, <1>9
-----------------------------------------------------------------------------
(* The invariant: nfree counts the white entries.                          *)

White == {i \in Frames : color[i] = PG_WHITE}

IInv == color \in [Frames -> Colors] /\ NfreeExact

\* The free frames can be counted.
LEMMA WhiteFinite ==
  /\ IsFiniteSet(White)
  /\ Cardinality(White) \in 0 .. nframes
<1>1. IsFiniteSet(Frames) /\ Cardinality(Frames) = nframes
  BY FS_Interval, NframesType DEF Frames
<1>2. White \in SUBSET Frames
  BY DEF White
<1>3. IsFiniteSet(White) /\ Cardinality(White) <= nframes
  BY <1>1, <1>2, FS_Subset
<1> QED
  BY <1>3, FS_CardinalityType, NframesType

\* Taking an interval out of a finite set of which it is a part.
LEMMA RemoveInterval ==
  ASSUME NEW S, IsFiniteSet(S), NEW lo \in Int, NEW hi \in Int, lo <= hi,
         lo .. hi \subseteq S
  PROVE  /\ IsFiniteSet(S \ (lo .. hi))
         /\ Cardinality(S \ (lo .. hi)) = Cardinality(S) - (hi - lo + 1)
<1> DEFINE I == lo .. hi
           R == S \ I
<1>1. IsFiniteSet(I) /\ Cardinality(I) = hi - lo + 1
  BY FS_Interval
<1>2. IsFiniteSet(R)
  BY FS_Subset
<1>3. R \cup I = S /\ R \cap I = {}
  OBVIOUS
<1>4. Cardinality(R \cup I) = Cardinality(R) + Cardinality(I) - Cardinality(R \cap I)
  BY <1>1, <1>2, FS_Union
<1>5. Cardinality(R) \in Nat /\ Cardinality(S) \in Nat
  BY <1>2, FS_CardinalityType
<1>6. Cardinality(S) = Cardinality(R) + Cardinality(I) - 0
  BY <1>3, <1>4, FS_EmptySet
<1> HIDE DEF I, R
<1>7. Cardinality(R) = Cardinality(S) - (hi - lo + 1)
  BY <1>1, <1>5, <1>6
<1> QED
  BY <1>2, <1>7 DEF R, I

\* alloc_frames keeps the invariant, found or not.
LEMMA AllocPreserves ==
  ASSUME IInv, NEW npages \in Nat, alloc_frames(npages)
  PROVE  IInv'
<1>1. CASE UNCHANGED vars
  BY <1>1 DEF IInv, NfreeExact, vars
<1>2. CASE ~ UNCHANGED vars
  <2>1. PICK tp \in Frames :
          /\ find_seq_pages(npages, tp)
          /\ color' = Paint(tp, npages, Marker(tp, npages))
          /\ nfree' = nfree - npages
    BY <1>2 DEF alloc_frames
  <2>2. Marker(tp, npages) \in 1 .. 3
    BY <2>1, MarkerSeparates DEF IInv
  <2>3. /\ npages > 0 /\ tp + npages <= nframes
        /\ \A i \in tp .. tp + npages - 1 : color[i] = PG_WHITE
    BY <2>1 DEF find_seq_pages, Fits
  <2>4. color' \in [Frames -> Colors]
    BY <2>1, <2>2 DEF IInv, Paint, Colors
  <2>5. White' = White \ (tp .. tp + npages - 1)
    BY <2>1, <2>2, <2>3 DEF White, Paint, PG_WHITE
  <2>6. tp .. tp + npages - 1 \subseteq White
    BY <2>3, NframesType DEF White, Frames
  <2>7. tp \in Int /\ tp + npages - 1 \in Int /\ tp <= tp + npages - 1
    BY <2>3, NframesType DEF Frames
  <2>8. Cardinality(White') = Cardinality(White) - ((tp + npages - 1) - tp + 1)
    BY <2>5, <2>6, <2>7, WhiteFinite, RemoveInterval
  <2>9. nfree' = Cardinality(White')
    BY <2>1, <2>3, <2>7, <2>8, WhiteFinite DEF IInv, NfreeExact, White
  <2> QED
    BY <2>4, <2>9 DEF IInv, NfreeExact, White
<1> QED
  BY <1>1, <1>2

\* free_frames keeps the invariant, whatever it is passed.
LEMMA FreePreserves ==
  ASSUME IInv, NEW mp \in -1 .. nframes, free_frames(mp)
  PROVE  IInv'
<1>1. CASE UNCHANGED vars
  BY <1>1 DEF IInv, NfreeExact, vars
<1>2. CASE ~ UNCHANGED vars
  <2>1. mp \in Frames /\ color[mp] # PG_WHITE
    BY <1>2 DEF free_frames
  <2>2. PICK left, right \in Frames :
          /\ LeftEdge(mp, left)
          /\ RightEdge(mp, right)
          /\ color' = [i \in Frames |->
                         IF i \in left .. right THEN PG_WHITE ELSE color[i]]
          /\ nfree' = nfree + (right - left + 1)
    BY <1>2 DEF free_frames
  <2>3. /\ left \in Int /\ right \in Int /\ mp \in Int
        /\ left <= mp /\ mp <= right
        /\ left .. right \subseteq Frames
        /\ \A i \in left .. right : color[i] # PG_WHITE
    BY <2>1, <2>2, NframesType DEF LeftEdge, RightEdge, Frames
  <2>4. color' \in [Frames -> Colors]
    BY <2>2 DEF IInv, Colors, PG_WHITE
  <2>5. left .. right \subseteq White' /\ White = White' \ (left .. right)
    BY <2>2, <2>3 DEF White
  <2>6. IsFiniteSet(White') /\ Cardinality(White') \in Nat
    <3>1. White' \in SUBSET Frames /\ IsFiniteSet(Frames)
      BY FS_Interval, NframesType DEF Frames, White
    <3> QED
      BY <3>1, FS_Subset, FS_CardinalityType
  <2>7. Cardinality(White) = Cardinality(White') - (right - left + 1)
    <3> DEFINE W == White'
    <3>1. W = White' /\ IsFiniteSet(W) /\ left .. right \subseteq W
      BY <2>5, <2>6
    <3>2. White = W \ (left .. right)
      BY <2>5
    <3> HIDE DEF W
    <3>3. Cardinality(W \ (left .. right)) = Cardinality(W) - (right - left + 1)
      BY <2>3, <3>1, RemoveInterval
    <3> QED
      BY <3>1, <3>2, <3>3
  <2>8. nfree' = Cardinality(White')
    BY <2>2, <2>3, <2>6, <2>7, WhiteFinite DEF IInv, NfreeExact, White
  <2> QED
    BY <2>4, <2>8 DEF IInv, NfreeExact, White
<1> QED
  BY <1>1, <1>2

\* The invariant of the allocator.
LEMMA Invariance == Spec => []IInv
<1>1. Init => IInv
  <2> SUFFICES ASSUME Init PROVE IInv
    OBVIOUS
  <2>1. White = Frames
    BY DEF Init, White
  <2>2. Cardinality(Frames) = nframes
    BY FS_Interval, NframesType DEF Frames
  <2>3. color \in [Frames -> Colors]
    BY DEF Init, Colors, PG_WHITE
  <2>4. nfree = Cardinality(White)
    BY <2>1, <2>2 DEF Init, nframes
  <2> QED
    BY <2>3, <2>4 DEF IInv, NfreeExact, White
<1>2. IInv /\ [Next]_vars => IInv'
  <2> SUFFICES ASSUME IInv, [Next]_vars PROVE IInv'
    OBVIOUS
  <2>1. ASSUME NEW npages \in Requests, alloc_frames(npages) PROVE IInv'
    BY <2>1, AllocPreserves, RequestsAssumption
  <2>2. ASSUME NEW mp \in -1 .. nframes, free_frames(mp) PROVE IInv'
    BY <2>2, FreePreserves
  <2>3. CASE UNCHANGED vars
    BY <2>3 DEF IInv, NfreeExact, vars
  <2> QED
    BY <2>1, <2>2, <2>3 DEF Next
<1> QED
  BY <1>1, <1>2, PTL DEF Spec

\* The colours and the free counter keep their types.
THEOREM TypeCorrect == Spec => []TypeOK
<1>1. IInv => TypeOK
  BY WhiteFinite DEF IInv, NfreeExact, TypeOK, White
<1> QED
  BY <1>1, Invariance, PTL

\* The entry of every frame lies in the table pages: the assertion that
\* MM_PAGE_TABLE makes, for every size of the area and of a table page.
THEOREM MetaFitsAlways == Spec => []MetaFits
<1>1. IInv => MetaFits
  BY TableFits, MetaAssumption DEF IInv, MetaFits, Frames, nframes
<1> QED
  BY <1>1, Invariance, PTL

\* The free counter is exact after any sequence of calls.
THEOREM NfreeAlwaysExact == Spec => []NfreeExact
<1>1. IInv => NfreeExact
  BY DEF IInv
<1> QED
  BY <1>1, Invariance, PTL

\* The assertion of alloc_frames on its left neighbour never fails.
THEOREM LeftAlwaysColored == Spec => []LeftIsColored
<1>1. IInv => LeftIsColored
  BY MarkerSeparates, RequestsAssumption DEF IInv, LeftIsColored
<1> QED
  BY <1>1, Invariance, PTL
-----------------------------------------------------------------------------
(* The refinement: the maximal runs of one colour are the live blocks.     *)

\* alloc_frames adds exactly one run and changes no other.
LEMMA AllocRefines ==
  ASSUME IInv, NEW npages \in Nat, alloc_frames(npages)
  PROVE  Blocks!Allocate \/ Runs' = Runs
<1>1. CASE UNCHANGED vars
  BY <1>1 DEF vars, Runs, IsRun
<1>2. CASE ~ UNCHANGED vars
  <2>1. PICK tp \in Frames :
          /\ find_seq_pages(npages, tp)
          /\ color' = Paint(tp, npages, Marker(tp, npages))
    BY <1>2 DEF alloc_frames
  <2> DEFINE m == Marker(tp, npages)
             hi == tp + npages - 1
  <2>2. /\ m \in 1 .. 3
        /\ tp > 0 => m # color[tp - 1]
        /\ tp + npages < nframes => m # color[tp + npages]
    BY <2>1, MarkerSeparates DEF IInv
  <2>3. /\ tp \in Int /\ hi \in Int /\ 0 <= tp /\ tp <= hi /\ hi < nframes
        /\ nframes \in Nat
        /\ \A i \in tp .. hi : color[i] = PG_WHITE
    BY <2>1, NframesType DEF find_seq_pages, Fits, Frames
  <2>4. \A i \in Frames : color'[i] = IF i \in tp .. hi THEN m ELSE color[i]
    BY <2>1 DEF Paint
  <2>5. /\ tp > 0 => m # color[tp - 1]
        /\ hi < nframes - 1 => m # color[hi + 1]
    BY <2>2, <2>3, NframesType DEF Frames
  <2>6. hi \in Frames /\ tp .. hi \subseteq Frames
    BY <2>3 DEF Frames
  <2> HIDE DEF m, hi
  <2>7. ASSUME NEW l \in Frames, NEW r \in Frames, IsRun(l, r)
        PROVE  IsRun(l, r)' /\ (hi < l \/ r < tp)
    <3>1. hi < l \/ r < tp
      BY <2>3, <2>7, NframesType DEF IsRun, Frames
    <3>2. l <= r /\ \A i \in l .. r : i \in Frames /\ color'[i] = color[i]
      BY <2>3, <2>4, <2>7, <3>1, NframesType DEF IsRun, Frames
    <3>3. l > 0 => color'[l - 1] # color'[l]
      BY <2>3, <2>4, <2>5, <2>7, <3>1, <3>2, NframesType DEF IsRun, Frames
    <3>4. r < nframes - 1 => color'[r + 1] # color'[l]
      BY <2>3, <2>4, <2>5, <2>7, <3>1, <3>2, NframesType DEF IsRun, Frames
    <3> QED
      BY <2>7, <3>1, <3>2, <3>3, <3>4, NframesType DEF IsRun, Frames
  <2>8. IsRun(tp, hi)'
    BY <2>2, <2>3, <2>4, <2>5, NframesType DEF IsRun, Frames, PG_WHITE
  <2>9. ASSUME NEW l \in Frames, NEW r \in Frames, IsRun(l, r)',
               <<l, r>> # <<tp, hi>>
        PROVE  IsRun(l, r)
    <3>1. hi < l \/ r < tp
      <4>1. SUFFICES ASSUME ~(hi < l), ~(r < tp) PROVE FALSE
        OBVIOUS
      <4>2. color'[l] = m
        BY <2>3, <2>4, <2>9, <4>1, NframesType DEF IsRun, Frames
      <4>3. tp <= l /\ r <= hi
        BY <2>3, <2>4, <2>5, <2>9, <4>1, <4>2, NframesType DEF IsRun, Frames
      <4>4. l <= tp /\ hi <= r
        BY <2>3, <2>4, <2>9, <4>1, <4>2, <4>3, NframesType DEF IsRun, Frames
      <4> QED
        BY <2>3, <2>9, <4>3, <4>4, NframesType DEF Frames
    <3>2. l <= r /\ \A i \in l .. r : i \in Frames /\ color'[i] = color[i]
      BY <2>3, <2>4, <2>9, <3>1, NframesType DEF IsRun, Frames
    <3>3. l > 0 => color[l - 1] # color[l]
      BY <2>3, <2>4, <2>9, <3>1, <3>2, NframesType DEF IsRun, Frames
    <3>4. r < nframes - 1 => color[r + 1] # color[l]
      BY <2>3, <2>4, <2>9, <3>1, <3>2, NframesType DEF IsRun, Frames
    <3> QED
      BY <2>9, <3>1, <3>2, <3>3, <3>4, NframesType DEF IsRun, Frames
  <2>10. Runs' = Runs \cup {<<tp, hi>>}
    BY <2>1, <2>6, <2>7, <2>8, <2>9 DEF Runs
  <2>11. \A b \in Runs : Blocks!Apart(<<tp, hi>>, b)
    BY <2>7 DEF Runs, Blocks!Apart
  <2> QED
    BY <2>1, <2>3, <2>6, <2>10, <2>11 DEF Blocks!Allocate
<1> QED
  BY <1>1, <1>2

\* free_frames removes exactly one run and changes no other.
LEMMA FreeRefines ==
  ASSUME IInv, NEW mp \in -1 .. nframes, free_frames(mp)
  PROVE  Blocks!Release \/ Runs' = Runs
<1>1. CASE UNCHANGED vars
  BY <1>1 DEF vars, Runs, IsRun
<1>2. CASE ~ UNCHANGED vars
  <2>1. mp \in Frames /\ color[mp] # PG_WHITE
    BY <1>2 DEF free_frames
  <2>2. PICK left, right \in Frames :
          /\ LeftEdge(mp, left)
          /\ RightEdge(mp, right)
          /\ color' = [i \in Frames |->
                         IF i \in left .. right THEN PG_WHITE ELSE color[i]]
    BY <1>2 DEF free_frames
  <2>3. /\ nframes \in Nat
        /\ left \in Int /\ right \in Int /\ mp \in Int
        /\ 0 <= left /\ left <= mp /\ mp <= right /\ right < nframes
    BY <2>1, <2>2, NframesType DEF LeftEdge, RightEdge, Frames
  <2>4. IsRun(left, right)
    BY <2>1, <2>2, <2>3 DEF LeftEdge, RightEdge, IsRun, Frames
  <2>5. \A i \in Frames :
          color'[i] = IF i \in left .. right THEN PG_WHITE ELSE color[i]
    BY <2>2
  <2>6. ASSUME NEW l \in Frames, NEW r \in Frames, IsRun(l, r),
               <<l, r>> # <<left, right>>
        PROVE  IsRun(l, r)'
    <3>1. right < l \/ r < left
      <4>1. SUFFICES ASSUME ~(right < l), ~(r < left) PROVE FALSE
        OBVIOUS
      <4>2. color[l] = color[left]
        BY <2>3, <2>4, <2>6, <4>1, NframesType DEF IsRun, Frames
      <4>3. left <= l /\ r <= right
        BY <2>3, <2>4, <2>6, <4>1, <4>2, NframesType DEF IsRun, Frames
      <4>4. l <= left /\ right <= r
        BY <2>3, <2>4, <2>6, <4>1, <4>2, <4>3, NframesType DEF IsRun, Frames
      <4> QED
        BY <2>3, <2>6, <4>3, <4>4, NframesType DEF Frames
    <3>2. l <= r /\ \A i \in l .. r : i \in Frames /\ color'[i] = color[i]
      BY <2>3, <2>5, <2>6, <3>1, NframesType DEF IsRun, Frames
    <3>3. l > 0 => color'[l - 1] # color'[l]
      BY <2>3, <2>5, <2>6, <3>1, <3>2, NframesType DEF IsRun, Frames
    <3>4. r < nframes - 1 => color'[r + 1] # color'[l]
      BY <2>3, <2>5, <2>6, <3>1, <3>2, NframesType DEF IsRun, Frames
    <3> QED
      BY <2>6, <3>1, <3>2, <3>3, <3>4, NframesType DEF IsRun, Frames
  <2>7. ASSUME NEW l \in Frames, NEW r \in Frames, IsRun(l, r)'
        PROVE  IsRun(l, r) /\ <<l, r>> # <<left, right>>
    <3>1. right < l \/ r < left
      BY <2>3, <2>5, <2>7, NframesType DEF IsRun, Frames
    <3>2. l <= r /\ \A i \in l .. r : i \in Frames /\ color'[i] = color[i]
      BY <2>3, <2>5, <2>7, <3>1, NframesType DEF IsRun, Frames
    <3>3. l > 0 => color[l - 1] # color[l]
      BY <2>3, <2>4, <2>5, <2>7, <3>1, <3>2, NframesType DEF IsRun, Frames
    <3>4. r < nframes - 1 => color[r + 1] # color[l]
      BY <2>3, <2>4, <2>5, <2>7, <3>1, <3>2, NframesType DEF IsRun, Frames
    <3> QED
      BY <2>3, <2>7, <3>1, <3>2, <3>3, <3>4, NframesType DEF IsRun, Frames
  <2>8. <<left, right>> \in Runs /\ Runs' = Runs \ {<<left, right>>}
    BY <2>2, <2>4, <2>6, <2>7 DEF Runs
  <2> QED
    BY <2>8 DEF Blocks!Release
<1> QED
  BY <1>1, <1>2

\* The colour table implements the abstract block allocator.
THEOREM Refinement == Spec => ImplementsBlocks
<1>1. Init => Blocks!Init
  BY NframesType DEF Init, Blocks!Init, Runs, IsRun, Frames
<1>2. IInv /\ [Next]_vars => [Blocks!Next]_Runs
  <2> SUFFICES ASSUME IInv, [Next]_vars PROVE Blocks!Next \/ Runs' = Runs
    OBVIOUS
  <2>1. ASSUME NEW npages \in Requests, alloc_frames(npages)
        PROVE  Blocks!Next \/ Runs' = Runs
    BY <2>1, AllocRefines, RequestsAssumption DEF Blocks!Next
  <2>2. ASSUME NEW mp \in -1 .. nframes, free_frames(mp)
        PROVE  Blocks!Next \/ Runs' = Runs
    BY <2>2, FreeRefines DEF Blocks!Next
  <2>3. CASE UNCHANGED vars
    BY <2>3 DEF vars, Runs, IsRun
  <2> QED
    BY <2>1, <2>2, <2>3 DEF Next
<1> QED
  BY <1>1, <1>2, Invariance, PTL DEF Spec, ImplementsBlocks, Blocks!Spec
=============================================================================
