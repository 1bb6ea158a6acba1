------------------------------- MODULE MCBoot -------------------------------
(***************************************************************************)
(* Instance of Boot for TLC: tables of up to four processors, with the     *)
(* boot processor in any place, ids out of order, an unknown entry, an     *)
(* I/O APIC with the wrong id, and machines without a table.  The clocks   *)
(* that boot sets up, Rtc and Alarm, share no state with it here, and a    *)
(* behaviour is about one of the three.  The minute has eleven seconds, so *)
(* that BCD matters; ticks has four bits.                                  *)
(***************************************************************************)
EXTENDS Boot, Alarm

CONSTANTS SECONDS, MINUTES, CALLS, WAIT

VARIABLES
  part,                                      \* "boot", "clock" or "alarm"
  bcd, now, reg, uip, quiet, since, rpc, t1, t2, date,
  client, step, rtc1, rtc2, repeat, at       \* the state of Rtc

R == INSTANCE Rtc

rvars == <<bcd, now, reg, uip, quiet, since, rpc, t1, t2, date,
           client, step, rtc1, rtc2, repeat, at>>

P(id, boot) == [type |-> "proc", id |-> id, boot |-> boot]
E(type, id) == [type |-> type, id |-> id, boot |-> FALSE]

Machine(self, entries) ==
  [mpfp |-> "rom", ebda |-> FALSE, valid |-> TRUE, self |-> self,
   entries |-> entries]

Good == {
  Machine(0, <<P(0, TRUE), E("bus", 0), E("ioapic", 1)>>),
  Machine(0, <<P(0, TRUE), P(1, FALSE), E("ioapic", 1)>>),
  Machine(0, <<P(0, TRUE), P(1, FALSE), P(2, FALSE), P(3, FALSE),
               E("bus", 0), E("ioapic", 1)>>)}

Poor == {
  Machine(0, <<E("bus", 0), E("ioapic", 1)>>),
  Machine(0, <<P(0, TRUE), P(1, FALSE), E("unknown", 0), E("ioapic", 1)>>),
  Machine(0, <<P(0, TRUE), P(2, FALSE), E("ioapic", 1)>>),
  Machine(0, <<P(0, TRUE), P(1, FALSE), E("ioapic", 2)>>),
  Machine(0, <<P(0, FALSE), P(1, FALSE), E("ioapic", 1)>>),
  Machine(1, <<P(0, FALSE), P(1, TRUE), P(2, FALSE), E("ioapic", 1)>>)}

Elsewhere == {
  [m EXCEPT !.mpfp = p, !.ebda = e] :
    m \in {Machine(0, <<P(0, TRUE), P(1, FALSE), E("ioapic", 1)>>)},
    p \in Places, e \in BOOLEAN}

NoTable == [Machine(0, <<>>) EXCEPT !.valid = FALSE]

MCFirmware ==
  {NoTable} \cup Good \cup Poor \cup Elsewhere

\* The parts that a behaviour is not about stand still in one state.
MCInit ==
  /\ part \in {"boot", "clock", "alarm"}
  /\ Init /\ R!Init /\ AlarmInit
  /\ part # "boot" => fw = NoTable
  /\ part # "clock" => now = 0 /\ ~ bcd /\ quiet = 0 /\ client = "delay"
  /\ part # "alarm" => home = "bsp"

OnBoot(X)  == part = "boot" /\ X /\ UNCHANGED <<rvars, avars, part>>
OnClock(X) == part = "clock" /\ X /\ UNCHANGED <<vars, avars, part>>
OnAlarm(X) == part = "alarm" /\ X /\ UNCHANGED <<vars, rvars, part>>

all == <<vars, rvars, avars, part>>

MCNext == OnBoot(Next) \/ OnClock(R!Next) \/ OnAlarm(AlarmNext)

\* Fairness of Boot and of Rtc.
MCFairness ==
  /\ WF_all(OnBoot(Bsp))
  /\ \A a \in Ids : WF_all(OnBoot(Ap(a))) /\ WF_all(OnBoot(stop_cpu(a)))
  /\ WF_all(OnClock(R!Next /\ R!Reader)) /\ WF_all(OnClock(R!Next /\ R!Chip))

MCSpec == MCInit /\ [][MCNext]_all /\ MCFairness
-----------------------------------------------------------------------------
\* What rtc_time returns is a time that the clock showed.
DateIsATime == R!DateIsATime

\* lapic_init_timer measures one second, and rtc_delay waits for as many as asked.
MeasuresSeconds == R!MeasuresSeconds

\* The loops of lapic_init_timer and rtc_delay end.
ClockLoopsEnd == part = "clock" ~> step = "done"
=============================================================================
