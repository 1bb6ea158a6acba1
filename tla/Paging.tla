------------------------------ MODULE Paging ------------------------------
(***************************************************************************)
(* The kernel's address space: init_paging, __page_map and the page-fault  *)
(* handler of src/mm.c.  One page directory, k_pdir, serves every          *)
(* processor.  Table pages come from mm_pgtbls, one at a time and never    *)
(* given back, so the n-th one handed out is its n-th frame; when none is  *)
(* left alloc_frame returns NULL and __page_map takes page 0 for a table.  *)
(* mm_phys hands out the lowest free page (FrameAlloc); pages are given    *)
(* back on one error path of init_ramfs only, which is left out.           *)
(*                                                                         *)
(* init_paging runs on the boot processor before there is any other.  It   *)
(* runs with paging off: INIT_MM writes the table of mm_phys through the   *)
(* addresses that callers later use with paging on.                        *)
(***************************************************************************)
EXTENDS Integers, Sequences, FiniteSets

CONSTANTS
  PAGE_SIZE,          \* bytes in a page
  Entries,            \* entries of a table and pages it maps (1024)
  META_ENT_NUM_P_PG,  \* entries in a table page of mm_phys (1024)
  Directory,          \* entries of the directory (1024)
  K_SPACE_END,        \* end of the identity map
  ApicBase,           \* 0xfee00000
  NTables,            \* frames of mm_pgtbls
  MAX_ARDS_ENT,       \* ranges that minfo has room for
  ARDS_SIZE,          \* bytes of a range in the boot loader's map
  Maps                \* memory maps the boot loader may pass on

\* Addresses have a low word below 2^32, here Limit, and a high word.
Limit == Directory * Entries * PAGE_SIZE

SizeAssumption ==
  /\ PAGE_SIZE \in Nat \ {0} /\ Entries \in Nat \ {0}
  /\ META_ENT_NUM_P_PG \in Nat \ {0} /\ Directory \in Nat \ {0}
  /\ NTables \in Nat /\ MAX_ARDS_ENT \in Nat /\ ARDS_SIZE \in Nat
  /\ K_SPACE_END \in 1 .. Limit /\ K_SPACE_END % (Entries * PAGE_SIZE) = 0
  /\ ApicBase \in K_SPACE_END .. Limit - 1 /\ ApicBase % PAGE_SIZE = 0

\* The code copies the map without looking at the room for it; the instances
\* assume that it fits.
MapsFit == \A m \in Maps : Len(m) <= MAX_ARDS_ENT

VARIABLES
  minfo,          \* the memory map that was copied from the boot loader
  kdir,           \* k_pdir: the table of every directory entry
  tables,         \* the pages that every table maps
  nused,          \* frames taken from mm_pgtbls
  phase,          \* where init_paging is
  entry,          \* the range of minfo the loop is at
  p, map_end, va, \* its locals
  high_mem,       \* get_high_mem_start()
  taken           \* frames taken from mm_phys

ptvars  == <<kdir, tables, nused>>
locals  == <<entry, p, map_end, va>>
vars    == <<minfo, ptvars, phase, locals, high_mem, taken>>

None       == -1
PageZero   == 0                       \* the table at NULL
Tables     == 0 .. NTables
Blank      == [i \in 0 .. Entries - 1 |-> None]

PAGE_ALIGN(a) == ((a + PAGE_SIZE - 1) \div PAGE_SIZE) * PAGE_SIZE
PageDown(a)   == (a \div PAGE_SIZE) * PAGE_SIZE           \* a & PAGE_MASK
PDE_INDEX(a)  == (a \div PAGE_SIZE) \div Entries
PTE_INDEX(a)  == (a \div PAGE_SIZE) % Entries

Init ==
  /\ minfo = <<>>
  /\ kdir = [d \in 0 .. Directory - 1 |-> None]
  /\ tables = [t \in Tables |-> Blank]
  /\ nused = 0
  /\ phase = "start"
  /\ entry = 1 /\ p = 0 /\ map_end = 0 /\ va = PAGE_ALIGN(K_SPACE_END)
  /\ high_mem = 0 /\ taken = 0
-----------------------------------------------------------------------------
\* get_mem_info_from_multiboot: the assertion is on the bytes of the map.
get_mem_info_from_multiboot ==
  /\ phase = "start"
  /\ \E m \in Maps :
       IF MAX_ARDS_ENT < Len(m) * ARDS_SIZE
       THEN minfo' = m /\ phase' = "kspace"
       ELSE phase' = "panic" /\ UNCHANGED minfo
  /\ UNCHANGED <<ptvars, locals, high_mem, taken>>

\* Mutant: the frame is not taken from mm_pgtbls for good.
alloc_frame_again(t) == t = IF nused < NTables THEN 1 ELSE PageZero

\* alloc_frame(&mm_pgtbls)
alloc_frame(t) == t = IF nused < NTables THEN nused + 1 ELSE PageZero

\* One turn of the loop over the kernel space: a table that maps its pages to
\* themselves from p on.
init_kspace ==
  /\ phase = "kspace" /\ p < PAGE_ALIGN(K_SPACE_END)
  /\ \E t \in Tables :
       /\ alloc_frame(t)
       /\ IF t = PageZero
          THEN phase' = "panic" /\ UNCHANGED <<ptvars, p>>
          ELSE /\ kdir' = [kdir EXCEPT ![PDE_INDEX(p)] = t]
               /\ tables' = [tables EXCEPT ![t] =
                    [i \in 0 .. Entries - 1 |->
                       IF i < PTE_INDEX(p) THEN None
                       ELSE p + (i - PTE_INDEX(p)) * PAGE_SIZE]]
               /\ nused' = nused + 1
               /\ p' = p + (Entries - PTE_INDEX(p)) * PAGE_SIZE
               /\ UNCHANGED phase
  /\ UNCHANGED <<minfo, entry, map_end, va, high_mem, taken>>

kspace_done ==
  /\ phase = "kspace" /\ p >= PAGE_ALIGN(K_SPACE_END)
  /\ phase' = "range"
  /\ UNCHANGED <<minfo, ptvars, locals, high_mem, taken>>

\* The memory of a range as init_paging reads it: the low words only.
RangeEnd(r) == (r.base + r.length) % Limit

\* Mutant: a range of any type is mapped.
wanted_any_type(r) == RangeEnd(r) >= va

wanted(r) == r.avail /\ RangeEnd(r) >= va

\* Mutant: the map is walked from its end.
next_range_backwards ==
  /\ phase = "range" /\ entry <= Len(minfo)
  /\ LET r == minfo[Len(minfo) + 1 - entry] IN
       IF wanted(r)
       THEN /\ p' = PAGE_ALIGN(IF r.base < va THEN va ELSE r.base)
            /\ map_end' = RangeEnd(r)
            /\ phase' = "page"
            /\ UNCHANGED entry
       ELSE entry' = entry + 1 /\ UNCHANGED <<p, map_end, phase>>
  /\ UNCHANGED <<minfo, ptvars, va, high_mem, taken>>

\* The loop over the memory map takes the next range ...
next_range ==
  /\ phase = "range" /\ entry <= Len(minfo)
  /\ LET r == minfo[entry] IN
       IF wanted(r)
       THEN /\ p' = PAGE_ALIGN(IF r.base < va THEN va ELSE r.base)
            /\ map_end' = RangeEnd(r)
            /\ phase' = "page"
            /\ UNCHANGED entry
       ELSE entry' = entry + 1 /\ UNCHANGED <<p, map_end, phase>>
  /\ UNCHANGED <<minfo, ptvars, va, high_mem, taken>>

\* __page_map: a directory entry without a table gets one, cleared; nobody
\* looks whether alloc_frame found a frame.
page_map(v, ph) ==
  LET d == PDE_INDEX(v) IN
  \E t \in Tables :
    IF kdir[d] = None
    THEN /\ alloc_frame(t)
         /\ kdir' = [kdir EXCEPT ![d] = t]
         /\ tables' = [tables EXCEPT ![t] = [Blank EXCEPT ![PTE_INDEX(v)] = ph]]
         /\ nused' = IF t = PageZero THEN nused ELSE nused + 1
    ELSE /\ t = kdir[d]
         /\ tables' = [tables EXCEPT ![t] = [@ EXCEPT ![PTE_INDEX(v)] = ph]]
         /\ UNCHANGED <<kdir, nused>>

\* ... and maps it page by page, the virtual pages one after the other ...
map_page ==
  /\ phase = "page" /\ p < PageDown(map_end)
  /\ page_map(va, p)
  /\ p' = p + PAGE_SIZE
  /\ va' = va + PAGE_SIZE
  /\ UNCHANGED <<minfo, phase, entry, map_end, high_mem, taken>>

range_done ==
  /\ phase = "page" /\ p >= PageDown(map_end)
  /\ phase' = "range"
  /\ entry' = entry + 1
  /\ UNCHANGED <<minfo, ptvars, p, map_end, va, high_mem, taken>>

\* ... until the map ends.
ranges_done ==
  /\ phase = "range" /\ entry > Len(minfo)
  /\ phase' = "mm_phys"
  /\ UNCHANGED <<minfo, ptvars, locals, high_mem, taken>>

\* MM_PAGE_TABLE for mm_phys: pages of its table and frames behind it
PhysPages == (va - K_SPACE_END) \div PAGE_SIZE
npg       == (PhysPages * META_ENT_NUM_P_PG) \div (META_ENT_NUM_P_PG + 1)
mpg       == PhysPages - npg

\* INIT_MM of mm_phys, set_high_mem and switch_page_directory
init_mm_phys ==
  /\ phase = "mm_phys"
  /\ IF PhysPages < 2
     THEN phase' = "panic" /\ UNCHANGED high_mem
     ELSE phase' = "on" /\ high_mem' = va
  /\ UNCHANGED <<minfo, ptvars, locals, taken>>
-----------------------------------------------------------------------------
\* The processor's walk through the tables.
Translate(v) ==
  LET t == kdir[PDE_INDEX(v)] IN
  IF t = None THEN None ELSE tables[t][PTE_INDEX(v)]

\* __virt_to_phys: an entry that is not there reads as 0
virt_to_phys(v) == IF Translate(v) = None THEN 0 ELSE Translate(v)

Frame(i) == K_SPACE_END + (mpg + i) * PAGE_SIZE

\* get_free_page, get_zeroed_page: the lowest free frame of mm_phys
get_free_page ==
  /\ phase = "on" /\ taken < npg
  /\ taken' = taken + 1
  /\ UNCHANGED <<minfo, ptvars, phase, locals, high_mem>>

\* Mutant: a device page is given memory.
page_fault_handler_no_device(v) ==
  /\ phase = "on" /\ Translate(v) = None /\ taken < npg
  /\ taken' = taken + 1
  /\ page_map(v, virt_to_phys(Frame(taken)))
  /\ UNCHANGED <<minfo, phase, locals, high_mem>>

\* page_fault_handler: a device page is mapped to itself, other pages below
\* the high memory get a page of mm_phys, high memory fails the assertion
page_fault_handler(v) ==
  /\ phase = "on" /\ Translate(v) = None
  /\ \/ /\ v >= ApicBase
        /\ page_map(v, v)
        /\ UNCHANGED <<phase, taken>>
     \/ /\ v < high_mem /\ v < ApicBase /\ taken < npg
        /\ taken' = taken + 1
        /\ page_map(v, virt_to_phys(Frame(taken)))
        /\ UNCHANGED phase
     \/ /\ v < ApicBase /\ (v >= high_mem \/ taken >= npg)
        /\ phase' = "panic"
        /\ UNCHANGED <<ptvars, taken>>
  /\ UNCHANGED <<minfo, locals, high_mem>>

VPages == {i * PAGE_SIZE : i \in 0 .. Directory * Entries - 1}

\* The kernel uses the pages it knows of: its own, those of mm_phys and the
\* local APIC's.
Used == {v \in VPages : v < high_mem \/ v = ApicBase}

Next ==
  \/ get_mem_info_from_multiboot
  \/ init_kspace \/ kspace_done \/ next_range \/ map_page \/ range_done
  \/ ranges_done \/ init_mm_phys
  \/ get_free_page
  \/ \E v \in Used : page_fault_handler(v)

Spec == Init /\ [][Next]_vars
-----------------------------------------------------------------------------
\* The tables ran out: some directory entry uses page 0.
Exhausted == \E d \in DOMAIN kdir : kdir[d] = PageZero

\* A range above 4G, which init_paging reads as one below.
HasHighRange == \E i \in DOMAIN minfo : minfo[i].avail /\ minfo[i].high # 0

Ok == phase = "on" /\ ~ Exhausted

\* No two pages of the kernel share memory: neither the tables of two directory
\* entries nor two ranges of the map, in whatever order the boot loader lists
\* them, ever lead to the same physical page.
NoAlias ==
  Ok /\ ~ HasHighRange =>
    \A v, w \in {x \in VPages : x < high_mem} :
      Translate(v) = Translate(w) => v = w

\* Every page of mm_phys is backed, and by memory that the map calls available:
\* rounding never takes in a page that is only partly so.
BackedByRam ==
  Ok /\ ~ HasHighRange =>
    \A v \in {x \in VPages : K_SPACE_END <= x /\ x < high_mem} :
      \E i \in DOMAIN minfo :
        /\ minfo[i].avail
        /\ minfo[i].base <= Translate(v)
        /\ Translate(v) + PAGE_SIZE <= minfo[i].base + minfo[i].length

\* The first range that init_paging maps begins at or below K_SPACE_END.
StartsPlain ==
  \E i \in DOMAIN minfo :
    /\ minfo[i].avail /\ minfo[i].base <= K_SPACE_END
    /\ minfo[i].base + minfo[i].length >= K_SPACE_END + mpg * PAGE_SIZE
    /\ \A j \in 1 .. i - 1 :
         ~ minfo[j].avail \/ RangeEnd(minfo[j]) < K_SPACE_END

\* The table of mm_phys, written by INIT_MM with paging off, is where callers
\* find it with paging on.  That needs a memory map whose first usable range
\* goes through K_SPACE_END; the code does not check for one.
MetaInPlace ==
  Ok /\ StartsPlain =>
    \A i \in 0 .. mpg - 1 :
      Translate(K_SPACE_END + i * PAGE_SIZE) = K_SPACE_END + i * PAGE_SIZE

\* A fault below the high memory never happens (the code that would map such a
\* page is never needed), and the local APIC is mapped to itself once touched.
OnlyApicFaults ==
  Ok =>
    /\ \A v \in VPages : v < high_mem => Translate(v) # None
    /\ Translate(ApicBase) \in {None, ApicBase}
=============================================================================
