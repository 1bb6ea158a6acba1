------------------------------- MODULE Alarm -------------------------------
(***************************************************************************)
(* The alarm behind pause: src/timer.c and include/timer.h on a tick       *)
(* counter of finite width, and check_thread_alarms of src/sched.c.  Only  *)
(* the boot processor counts; the others get the tick as an interrupt that *)
(* they may take late, and several ticks may melt into one.  Threads do    *)
(* not disturb each other's alarms, so there is one thread, at home on     *)
(* either kind of processor.                                               *)
(***************************************************************************)
EXTENDS Integers

CONSTANTS
  HalfRange,      \* 2^31 in the code: half of the range of ticks
  TICK_SEC,       \* ticks in a second (1000)
  Secs,           \* arguments of pause
  MaxLate         \* bound: how long after the alarm the thread may still sleep

\* pause asks for less than half of the range, and no check comes later than
\* half of the range.
ASSUME AlarmAssumption ==
  /\ HalfRange \in Nat \ {0} /\ TICK_SEC \in Nat \ {0} /\ Secs \subseteq Nat
  /\ \A s \in Secs : TICK_SEC * s < HalfRange
  /\ MaxLate \in 1 .. HalfRange

TickRange == 2 * HalfRange

VARIABLES
  home,           \* "bsp" or "ap": the processor whose queue has the thread
  ticks,
  alarm,          \* thread_t.alarm
  thread,         \* "run", "set" between alarm_set and make_sleep, "sleep"
  pending,        \* the other processors have a tick to take
  asked,          \* history: ticks the thread asked for, not reduced
  slept           \* history: ticks since alarm_set, not reduced

avars == <<home, ticks, alarm, thread, pending, asked, slept>>

AlarmInit ==
  /\ home \in {"bsp", "ap"}
  /\ ticks = 0
  /\ alarm = [enabled |-> FALSE, start |-> 0, duration |-> 0]
  /\ thread = "run" /\ pending = FALSE
  /\ asked = 0 /\ slept = 0

\* (long)(b) - (long)(a) < 0 in two's complement
time_after(a, b) == (b - a) % TickRange >= HalfRange

\* Mutant: the alarm is due at its last tick.
alarm_check_at(now) ==
  alarm.enabled /\ ~ time_after((alarm.start + alarm.duration) % TickRange, now)

\* Mutant: one tick is added to the duration.
alarm_check_late(now) ==
  alarm.enabled /\ time_after(now, (alarm.start + alarm.duration + 1) % TickRange)

alarm_check(now) ==
  alarm.enabled /\ time_after(now, (alarm.start + alarm.duration) % TickRange)

\* pause: alarm_reset and alarm_set ...
alarm_set ==
  /\ thread = "run"
  /\ \E sec \in Secs :
       /\ alarm' = [enabled |-> TRUE, start |-> ticks,
                    duration |-> (TICK_SEC * sec) % TickRange]
       /\ asked' = TICK_SEC * sec
  /\ slept' = 0
  /\ thread' = "set"
  /\ UNCHANGED <<home, ticks, pending>>

\* ... and make_sleep; ticks may come in between, and find the thread not
\* BLOCKED.
make_sleep ==
  /\ thread = "set"
  /\ thread' = "sleep"
  /\ UNCHANGED <<home, ticks, alarm, pending, asked, slept>>

\* check_thread_alarms on the processor of the thread
check_thread_alarms(now) ==
  \/ /\ thread = "sleep" /\ alarm_check(now)
     /\ alarm' = [alarm EXCEPT !.enabled = FALSE]
     /\ thread' = "run"
  \/ /\ ~ (thread = "sleep" /\ alarm_check(now))
     /\ UNCHANGED <<alarm, thread>>

\* bound: a thread is given the processor, and a tick taken, in time
WithinBound ==
  /\ thread = "set" => slept < asked + MaxLate - 1
  /\ thread = "sleep" => slept < asked + MaxLate

\* timer_callback on the boot processor, with smp_tick_others
timer_callback_bsp ==
  /\ WithinBound
  /\ ticks' = (ticks + 1) % TickRange
  /\ pending' = TRUE
  /\ slept' = IF thread = "run" THEN slept ELSE slept + 1
  /\ \/ home = "bsp" /\ check_thread_alarms(ticks')
     \/ home = "ap" /\ UNCHANGED <<alarm, thread>>
  /\ UNCHANGED <<home, asked>>

\* timer_callback on another processor, with the value of ticks it finds
timer_callback_ap ==
  /\ pending
  /\ pending' = FALSE
  /\ \/ home = "ap" /\ check_thread_alarms(ticks)
     \/ home = "bsp" /\ UNCHANGED <<alarm, thread>>
  /\ UNCHANGED <<home, ticks, asked, slept>>

AlarmNext == alarm_set \/ make_sleep \/ timer_callback_bsp \/ timer_callback_ap

AlarmSpec == AlarmInit /\ [][AlarmNext]_avars
-----------------------------------------------------------------------------
\* The thread never wakes before the time it asked for is over, also when
\* ticks wraps around while it sleeps or between start and the end.
NeverEarly ==
  [][thread = "sleep" /\ thread' = "run" => slept' > asked]_avars

Handled == IF home = "bsp" THEN ticks' # ticks ELSE pending /\ ~ pending'

\* The first tick that its processor handles after that time wakes it, also
\* when the time was over before make_sleep.
NeverMissed ==
  [][thread = "sleep" /\ Handled /\ slept' > asked => thread' = "run"]_avars
=============================================================================
