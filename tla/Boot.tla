-------------------------------- MODULE Boot --------------------------------
(***************************************************************************)
(* From main to the first schedule() on every processor: init_mp reads the *)
(* firmware's table, start_smp starts the other processors one after the   *)
(* other, the timer is started (Rtc has the loops of lapic_init_timer) and *)
(* setup_init_task queues the first thread.                                *)
(*                                                                         *)
(* A started processor finds its stack and its cpu_state_t in two words    *)
(* below ADDR_AP_REAL.  The boot processor writes them again for the next  *)
(* one; nothing makes it wait until they have been read.  All processors   *)
(* share one interrupt descriptor table, and each of them clears it and    *)
(* fills it in again.                                                      *)
(*                                                                         *)
(* Processors are named by the id of their local APIC.  Memory, heap and   *)
(* devices are set up in one step here (Paging, FrameAlloc, KHeap).        *)
(***************************************************************************)
EXTENDS Integers, Sequences, FiniteSets

CONSTANTS
  Ids,          \* ids of local APICs
  MAX_CPUS,     \* entries of cpuset
  IoApicId,     \* the id the I/O APIC itself reports
  Firmware      \* what the firmware may have left in memory

\* Where search_mpfp looks; a floating pointer elsewhere is not found.
Places == {"ebda", "base", "rom", "elsewhere"}

Procs(entries) == {k \in DOMAIN entries : entries[k].type = "proc"}

\* The code does not compare the number of processors with the room for them.
ASSUME FirmwareAssumption ==
  \A f \in Firmware : Cardinality(Procs(f.entries)) <= MAX_CPUS

VARIABLES
  fw,           \* the firmware's data
  pc,           \* where the boot processor is
  i, ncpu, ismp,\* locals of init_mp; i is also the n of start_smp
  mpinfo, lapic_regp, ioapic_id,
  cpuset,       \* flag_bsp, proc_id and whether runq has a thread
  box,          \* the words below ADDR_AP_REAL
  npages,       \* stacks allocated
  apc,          \* where every other processor is
  stack, percpu,\* what it has read
  idt,          \* the gates in place
  overtaken     \* processors whose words were written again too early

mpvars == <<i, ncpu, ismp, mpinfo, lapic_regp, ioapic_id>>
apvars == <<apc, stack, percpu, overtaken>>
vars   == <<fw, pc, mpvars, cpuset, box, npages, apvars, idt>>

None   == -1
Gates  == {"exceptions", "irqs", "smp"}
Slots  == 0 .. MAX_CPUS - 1
Self   == fw.self                          \* the boot processor's own id

Init ==
  /\ fw \in Firmware
  /\ pc = "init_mp" /\ i = 1 /\ ncpu = 0 /\ ismp = TRUE
  /\ mpinfo = [ncpu |-> 0, ismp |-> FALSE]
  /\ lapic_regp = FALSE /\ ioapic_id = 0
  /\ cpuset = [n \in Slots |-> [flag_bsp |-> FALSE, proc_id |-> 0, runq |-> FALSE]]
  /\ box = [stack |-> None, percpu |-> None] /\ npages = 0
  /\ apc = [a \in Ids |-> "halted"]
  /\ stack = [a \in Ids |-> None] /\ percpu = [a \in Ids |-> None]
  /\ idt = {} /\ overtaken = {}
-----------------------------------------------------------------------------
\* search_mpfp: the EBDA if there is one or else the end of base memory, and
\* then the ROM, for a structure with the signature and a zero checksum
search_mpfp(f) == f.mpfp \in {IF f.ebda THEN "ebda" ELSE "base", "rom"}

\* mpconfig: its table, if the signature, the version and the checksum are right
mpconfig(f) == search_mpfp(f) /\ f.valid

\* The start of init_mp.
init_mp_search ==
  /\ pc = "init_mp"
  /\ IF mpconfig(fw)
     THEN pc' = "entries" /\ lapic_regp' = TRUE
     ELSE pc' = "up" /\ UNCHANGED lapic_regp
  /\ UNCHANGED <<fw, i, ncpu, ismp, mpinfo, ioapic_id, cpuset, box, npages,
                 apvars, idt>>

\* One turn of its loop.  The pointer does not move past an unknown entry.
init_mp_entry ==
  /\ pc = "entries" /\ i <= Len(fw.entries)
  /\ LET e == fw.entries[i] IN
     \/ /\ e.type = "proc"
        /\ ismp' = (ismp /\ ncpu = e.id)
        /\ cpuset' = [cpuset EXCEPT ![ncpu] =
             [flag_bsp |-> e.boot, proc_id |-> e.id, runq |-> FALSE]]
        /\ ncpu' = ncpu + 1 /\ i' = i + 1
        /\ UNCHANGED ioapic_id
     \/ /\ e.type = "ioapic"
        /\ ioapic_id' = e.id /\ i' = i + 1
        /\ UNCHANGED <<ismp, cpuset, ncpu>>
     \/ /\ e.type = "bus"                  \* and both kinds of interrupts
        /\ i' = i + 1
        /\ UNCHANGED <<ismp, cpuset, ncpu, ioapic_id>>
     \/ /\ e.type = "unknown"
        /\ ismp' = FALSE
        /\ UNCHANGED <<i, cpuset, ncpu, ioapic_id>>
  /\ UNCHANGED <<fw, pc, mpinfo, lapic_regp, box, npages, apvars, idt>>

\* The rest of init_mp.
init_mp_done ==
  /\ pc = "entries" /\ i > Len(fw.entries)
  /\ IF ismp
     THEN /\ mpinfo' = [ncpu |-> ncpu, ismp |-> ncpu > 1]
          /\ pc' = IF ncpu > 1 THEN "lapic"
                   ELSE IF ncpu = 1 THEN "up" ELSE "panic"
          /\ UNCHANGED <<lapic_regp, ioapic_id>>
     ELSE /\ mpinfo' = [ncpu |-> 1, ismp |-> FALSE]
          /\ lapic_regp' = FALSE /\ ioapic_id' = 0
          /\ pc' = "up"
  /\ UNCHANGED <<fw, i, ncpu, ismp, cpuset, box, npages, apvars, idt>>

\* The rest of init_bootstrap_processor: one processor ...
init_bootstrap_up ==
  /\ pc = "up" /\ pc' = "descriptors"
  /\ cpuset' = [cpuset EXCEPT ![0] =
       [flag_bsp |-> TRUE, proc_id |-> 0, runq |-> FALSE]]
  /\ UNCHANGED <<fw, mpvars, box, npages, apvars, idt>>

\* ... or several, init_local_apic.
init_bootstrap_mp ==
  /\ pc = "lapic" /\ pc' = "descriptors"
  /\ UNCHANGED <<fw, mpvars, cpuset, box, npages, apvars, idt>>

get_boot_processor == \E n \in 0 .. mpinfo.ncpu - 1 : cpuset[n].flag_bsp

\* lapic_get_id and get_processor on the processor with this id
get_processor(id) ==
  {n \in 0 .. mpinfo.ncpu - 1 : lapic_regp /\ cpuset[n].proc_id = id}

AllGates == Gates \ (IF mpinfo.ismp THEN {} ELSE {"smp"})

\* The middle of main: descriptors, I/O APIC, memory, heap, devices.
init_descriptors ==
  /\ pc = "descriptors"
  /\ IF get_boot_processor /\ (mpinfo.ismp => ioapic_id = IoApicId)
     THEN pc' = IF mpinfo.ismp THEN "start_smp" ELSE "timer"
     ELSE pc' = "panic"
  /\ idt' = IF get_boot_processor THEN AllGates ELSE idt
  /\ i' = 0
  /\ UNCHANGED <<fw, ncpu, ismp, mpinfo, lapic_regp, ioapic_id, cpuset, box,
                 npages, apvars>>
-----------------------------------------------------------------------------
\* start_smp
skip_bsp ==
  /\ pc = "start_smp" /\ i < mpinfo.ncpu /\ cpuset[i].flag_bsp
  /\ i' = i + 1
  /\ UNCHANGED <<fw, pc, ncpu, ismp, mpinfo, lapic_regp, ioapic_id, cpuset, box,
                 npages, apvars, idt>>

\* Processors that were started and have not read both words.
Reading == {a \in Ids : apc[a] \in {"read_stack", "read_percpu"}}

\* Mutant: all processors are given one page.
put_stack_shared ==
  /\ pc = "start_smp" /\ i < mpinfo.ncpu /\ ~ cpuset[i].flag_bsp
  /\ box' = [box EXCEPT !.stack = 0] /\ npages' = npages + 1
  /\ pc' = "put_percpu"
  /\ overtaken' = overtaken \cup Reading
  /\ UNCHANGED <<fw, mpvars, cpuset, apc, stack, percpu, idt>>

put_stack ==
  /\ pc = "start_smp" /\ i < mpinfo.ncpu /\ ~ cpuset[i].flag_bsp
  /\ box' = [box EXCEPT !.stack = npages] /\ npages' = npages + 1
  /\ pc' = "put_percpu"
  /\ overtaken' = overtaken \cup Reading
  /\ UNCHANGED <<fw, mpvars, cpuset, apc, stack, percpu, idt>>

put_percpu ==
  /\ pc = "put_percpu"
  /\ box' = [box EXCEPT !.percpu = i]
  /\ pc' = "startap"
  /\ UNCHANGED <<fw, mpvars, cpuset, npages, apvars, idt>>

\* lapic_startap: INIT and two STARTUPs, of which a running processor ignores
\* the second.
lapic_startap ==
  /\ pc = "startap" /\ pc' = "start_smp"
  /\ LET a == cpuset[i].proc_id IN
       apc' = [apc EXCEPT ![a] = IF @ = "halted" THEN "read_stack" ELSE @]
  /\ i' = i + 1
  /\ UNCHANGED <<fw, ncpu, ismp, mpinfo, lapic_regp, ioapic_id, cpuset, box,
                 npages, stack, percpu, overtaken, idt>>


start_smp_done ==
  /\ pc = "start_smp" /\ i >= mpinfo.ncpu /\ pc' = "timer"
  /\ UNCHANGED <<fw, mpvars, cpuset, box, npages, apvars, idt>>
-----------------------------------------------------------------------------
\* init_pit_timer
init_pit_timer ==
  /\ pc = "timer" /\ ~ mpinfo.ismp /\ pc' = "task"
  /\ UNCHANGED <<fw, mpvars, cpuset, box, npages, apvars, idt>>

\* init_apic_timer; Rtc has the loops of lapic_init_timer
init_apic_timer ==
  /\ pc = "timer" /\ mpinfo.ismp /\ pc' = "task"
  /\ UNCHANGED <<fw, mpvars, cpuset, box, npages, apvars, idt>>

\* setup_init_task: pick_processor finds every queue empty and takes the first
\* entry; with one processor it is the running one, NULL if there is no APIC.
setup_init_task ==
  /\ pc = "task"
  /\ LET here == IF mpinfo.ismp THEN {0} ELSE get_processor(Self) IN
       /\ pc' = IF here = {} THEN "null" ELSE "init_sched"
       /\ cpuset' = [n \in Slots |-> IF n \in here THEN [cpuset[n] EXCEPT !.runq = TRUE]
                                     ELSE cpuset[n]]
  /\ UNCHANGED <<fw, mpvars, box, npages, apvars, idt>>

\* init_sched: "for BSP the init task should be already added to rq"
SchedAssert(n) == cpuset[n].flag_bsp => cpuset[n].runq

init_sched ==
  /\ pc = "init_sched"
  /\ \/ /\ \E n \in get_processor(Self) : SchedAssert(n)
        /\ pc' = "schedule"
     \/ /\ \E n \in get_processor(Self) : ~ SchedAssert(n)
        /\ pc' = "panic"
  /\ UNCHANGED <<fw, mpvars, cpuset, box, npages, apvars, idt>>
-----------------------------------------------------------------------------
\* The other processors.  bspvars is what they leave alone.
bspvars == <<fw, pc, mpvars, cpuset, box, npages, overtaken>>

Go(a, from, to) == apc[a] = from /\ apc' = [apc EXCEPT ![a] = to]

\* ap_real.s: the stack, then the cpu_state_t, then a jump to __main
ap_read_stack(a) ==
  /\ Go(a, "read_stack", "read_percpu")
  /\ stack' = [stack EXCEPT ![a] = box.stack]
  /\ UNCHANGED <<bspvars, percpu, idt>>

ap_read_percpu(a) ==
  /\ Go(a, "read_percpu", "main")
  /\ percpu' = [percpu EXCEPT ![a] = box.percpu]
  /\ UNCHANGED <<bspvars, stack, idt>>

\* __main: init_local_apic, init_gdt, and init_idt clears the table ...
clear_idt(a) ==
  /\ Go(a, "main", "filling")
  /\ idt' = {}
  /\ UNCHANGED <<bspvars, stack, percpu>>

\* Mutant: the table is cleared last.
fill_idt_swapped(a) ==
  /\ Go(a, "filling", "init_sched")
  /\ idt' = {}
  /\ UNCHANGED <<bspvars, stack, percpu>>

\* ... and fills it; then interrupts and paging are on
fill_idt(a) ==
  /\ Go(a, "filling", "init_sched")
  /\ idt' = AllGates
  /\ UNCHANGED <<bspvars, stack, percpu>>

ap_init_sched(a) ==
  /\ \E n \in get_processor(a) : SchedAssert(n)
  /\ Go(a, "init_sched", "schedule")
  /\ UNCHANGED <<bspvars, stack, percpu, idt>>


\* panic calls smp_halt_others; a processor that takes interrupts stops in
\* lapic_irq_stop_cpu_handler, the others once they do
stop_cpu(a) ==
  /\ pc = "panic" /\ mpinfo.ismp
  /\ apc[a] \in {"init_sched", "schedule"}
  /\ apc' = [apc EXCEPT ![a] = "stopped"]
  /\ UNCHANGED <<bspvars, stack, percpu, idt>>

\* An interrupt that finds no gate resets the machine.
Interrupts ==
  \/ pc \in {"task", "init_sched", "schedule"}     \* the timer runs
  \/ pc = "panic" /\ npages > 0                    \* others are told to stop

gate_missing ==
  /\ Interrupts /\ idt # AllGates
  /\ pc' = "fault"
  /\ UNCHANGED <<fw, mpvars, cpuset, box, npages, apvars, idt>>

Ap(a) ==
  /\ pc # "fault"
  /\ \/ ap_read_stack(a) \/ ap_read_percpu(a)
     \/ clear_idt(a) \/ fill_idt(a) \/ ap_init_sched(a)

Bsp ==
  \/ init_mp_search \/ init_mp_entry \/ init_mp_done
  \/ init_bootstrap_up \/ init_bootstrap_mp \/ init_descriptors
  \/ skip_bsp \/ put_stack \/ put_percpu \/ lapic_startap \/ start_smp_done
  \/ init_pit_timer \/ init_apic_timer
  \/ setup_init_task \/ init_sched

Next == Bsp \/ gate_missing \/ \E a \in Ids : Ap(a) \/ stop_cpu(a)

\* Every processor runs and interrupts are delivered.
Fairness ==
  /\ WF_vars(Bsp)
  /\ \A a \in Ids : WF_vars(Ap(a)) /\ WF_vars(stop_cpu(a))

Spec == Init /\ [][Next]_vars /\ Fairness
-----------------------------------------------------------------------------
Entry(k) == fw.entries[k]

\* A table that this code can boot from: found, without unknown entries, its
\* processors numbered from 0 in their order, the boot processor first among
\* them, and the I/O APIC's id as reported.
Bootable ==
  /\ mpconfig(fw)
  /\ \A k \in DOMAIN fw.entries : Entry(k).type # "unknown"
  /\ \A k \in Procs(fw.entries) :
       LET before == {l \in Procs(fw.entries) : l < k} IN
       /\ Entry(k).id = Cardinality(before)
       /\ Entry(k).boot <=> before = {}
  /\ Procs(fw.entries) # {}
  /\ \E k \in DOMAIN fw.entries : Entry(k).type = "ioapic"
  /\ \A k \in DOMAIN fw.entries : Entry(k).type = "ioapic" => Entry(k).id = IoApicId

\* No two processors run on one stack and each has its own cpu_state_t, as long
\* as a started processor reads its two words before start_smp writes them again.
OwnStack ==
  \A a \in Ids \ overtaken :
    apc[a] \notin {"halted", "read_stack", "read_percpu"} =>
      /\ cpuset[percpu[a]].proc_id = a
      /\ \A b \in Ids \ (overtaken \cup {a}) : stack[b] # stack[a]

\* While interrupts may arrive (the timer runs, or a panic stops the others), the
\* gates are missing only between some processor's clearing and filling of the
\* table: processors that do this at the same time leave it complete.
GatesInPlace ==
  /\ Interrupts
  /\ \A a \in Ids : apc[a] # "filling"
  => idt = AllGates


=============================================================================
