------------------------------ MODULE MCMemory ------------------------------
(***************************************************************************)
(* Instances of FrameAlloc and Paging for TLC.  The frame table: 6 frames  *)
(* behind 2 table pages.  The address space: two pages in a table, two     *)
(* tables of kernel space, and memory maps of up to three ranges that do   *)
(* not overlap, in any order, aligned or not, with reserved ranges and     *)
(* ranges above 4G.  The two share no state here and a behaviour is about  *)
(* one or the other.                                                       *)
(***************************************************************************)
EXTENDS FrameAlloc, Sequences

CONSTANTS PAGE_SIZE, Entries, Directory, K_SPACE_END, ApicBase, NTables,
          MAX_ARDS_ENT, ARDS_SIZE

VARIABLES
  part,                                    \* "frames" or "paging"
  minfo, kdir, tables, nused, phase, entry, p, map_end, va, high_mem,
  taken                                    \* the state of Paging

MCRequests == 0 .. 4

Ranges ==
  [base : {0, 7, 8, 12, 13, 17}, length : {3, 5, 9}, high : {0}, avail : {TRUE}]
  \cup [base : {0, 13}, length : {5, 9}, high : {0}, avail : {FALSE}]
  \cup [base : {0}, length : {9, 13}, high : {1}, avail : {TRUE}]
  \cup [base : {30}, length : {10}, high : {0}, avail : {TRUE}]

Disjoint(r, s) ==
  \/ r.high # s.high
  \/ r.base + r.length <= s.base \/ s.base + s.length <= r.base

MCMaps ==
  {m \in UNION {[1 .. n -> Ranges] : n \in 0 .. MAX_ARDS_ENT} :
     \A i, j \in DOMAIN m : i # j => Disjoint(m[i], m[j])}

V == INSTANCE Paging WITH Maps <- MCMaps, META_ENT_NUM_P_PG <- 2

ASSUME PagingInstance == V!SizeAssumption /\ V!MapsFit

pgvars == <<minfo, kdir, tables, nused, phase, entry, p, map_end, va, high_mem,
            taken>>

MCInit == part \in {"frames", "paging"} /\ Init /\ V!Init

MCNext ==
  \/ part = "frames" /\ Next /\ UNCHANGED <<pgvars, part>>
  \/ part = "paging" /\ V!Next /\ UNCHANGED <<vars, part>>

MCSpec == MCInit /\ [][MCNext]_<<vars, pgvars, part>>
-----------------------------------------------------------------------------
\* No two pages of the kernel share memory.
NoAlias == V!NoAlias

\* Every page of mm_phys is backed by memory the map calls available.
BackedByRam == V!BackedByRam

\* The table of mm_phys is at the same place with paging off and on.
MetaInPlace == V!MetaInPlace

\* Only the local APIC's page faults, and is mapped to itself.
OnlyApicFaults == V!OnlyApicFaults
=============================================================================
