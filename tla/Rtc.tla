-------------------------------- MODULE Rtc --------------------------------
(***************************************************************************)
(* rtc_time of src/rtc.c beside the clock chip, and the two loops that use *)
(* it: lapic_init_timer of src/lapic.c, which measures the APIC timer over *)
(* one second, and rtc_delay, with which panic waits.                      *)
(*                                                                         *)
(* The chip (external) raises UIP, changes its registers one by one and    *)
(* lowers UIP again, once a second; the kernel reads one register at a     *)
(* time.  Two registers stand for the six.  Time is abstracted to this: a  *)
(* second is longer than CALLS calls of rtc_time.                          *)
(***************************************************************************)
EXTENDS Integers

CONSTANTS
  SECONDS,    \* seconds in a minute
  MINUTES,    \* minutes before the clock starts again
  CALLS,      \* complete calls between two updates of the chip, at least
  WAIT        \* wait_hlt of panic, in seconds

VARIABLES
  bcd,        \* the chip's number format, bit 2 of status B clear
  now,        \* the time, in seconds
  reg,        \* the registers
  uip,        \* "no", "begun" or "seconds" (the minutes are still to change)
  quiet,      \* calls completed since the last update began, up to CALLS
  since,      \* updates since the timer, or the delay, was started, up to WAIT + 1
  rpc,        \* where rtc_time is
  t1, t2,     \* its locals
  date,       \* what it returned
  client,     \* "calibrate" (lapic_init_timer) or "delay" (rtc_delay)
  step,       \* where the client is
  rtc1, rtc2, \* its locals: the seconds
  repeat,     \* of rtc_delay
  at          \* quiet when the timer was started

chip    == <<bcd, now, reg, uip>>
reader  == <<rpc, t1, t2, date>>
clients == <<client, step, rtc1, rtc2, repeat, at>>
vars    == <<chip, quiet, since, reader, clients>>

Day         == SECONDS * MINUTES
Digits(x)   == IF bcd THEN (x \div 10) * 16 + (x % 10) ELSE x
SecondAt(t) == t % SECONDS
MinuteAt(t) == t \div SECONDS
Unread      == [second |-> 0, minute |-> 0]

Init ==
  /\ bcd \in BOOLEAN
  /\ now \in 0 .. Day - 1
  /\ reg = [second |-> Digits(SecondAt(now)), minute |-> Digits(MinuteAt(now))]
  /\ uip = "no" /\ quiet \in 0 .. CALLS /\ since = 0
  /\ rpc = "t1.second" /\ t1 = Unread /\ t2 = Unread /\ date = Unread
  /\ client \in {"calibrate", "delay"}
  /\ step = "first" /\ rtc1 = 0 /\ rtc2 = 0 /\ repeat = 0 /\ at = 0
-----------------------------------------------------------------------------
\* The chip.
chip_begin ==
  /\ uip = "no" /\ quiet = CALLS
  /\ uip' = "begun" /\ quiet' = 0
  /\ since' = IF since > WAIT THEN since ELSE since + 1
  /\ now' = (now + 1) % Day
  /\ UNCHANGED <<bcd, reg, reader, clients>>

chip_seconds ==
  /\ uip = "begun"
  /\ uip' = "seconds"
  /\ reg' = [reg EXCEPT !.second = Digits(SecondAt(now))]
  /\ UNCHANGED <<bcd, now, quiet, since, reader, clients>>

chip_minutes ==
  /\ uip = "seconds"
  /\ uip' = "no"
  /\ reg' = [reg EXCEPT !.minute = Digits(MinuteAt(now))]
  /\ UNCHANGED <<bcd, now, quiet, since, reader, clients>>

Chip == chip_begin \/ chip_seconds \/ chip_minutes
-----------------------------------------------------------------------------
\* A pass of rtc_time's loop reads everything anew.
Pass == rpc' = "t1.second" /\ t1' = Unread /\ t2' = Unread

\* fill_rtcdate(&t1): cmos_read, a register at a time
fill_t1 ==
  /\ \/ /\ rpc = "t1.second" /\ rpc' = "t1.minute"
        /\ t1' = [t1 EXCEPT !.second = reg.second]
     \/ /\ rpc = "t1.minute" /\ rpc' = "uip"
        /\ t1' = [t1 EXCEPT !.minute = reg.minute]
  /\ UNCHANGED <<chip, quiet, since, t2, date, clients>>

\* Mutant: the pass goes on while the chip updates its registers.
check_uip_ignored ==
  /\ rpc = "uip" /\ rpc' = "t2.second"
  /\ UNCHANGED <<chip, quiet, since, t1, t2, date, clients>>

\* Mutant: a bit that is always set is taken for UIP.
check_uip_wrong_bit ==
  /\ rpc = "uip" /\ Pass
  /\ UNCHANGED <<chip, quiet, since, date, clients>>

\* cmos_read(CMOS_STATA) & CMOS_UIP: begin again
check_uip ==
  /\ rpc = "uip"
  /\ IF uip = "no" THEN rpc' = "t2.second" /\ UNCHANGED <<t1, t2>> ELSE Pass
  /\ UNCHANGED <<chip, quiet, since, date, clients>>

\* fill_rtcdate(&t2)
fill_t2 ==
  /\ \/ /\ rpc = "t2.second" /\ rpc' = "t2.minute"
        /\ t2' = [t2 EXCEPT !.second = reg.second]
     \/ /\ rpc = "t2.minute" /\ rpc' = "compare"
        /\ t2' = [t2 EXCEPT !.minute = reg.minute]
  /\ UNCHANGED <<chip, quiet, since, t1, date, clients>>

\* CONV
CONV(x) == IF bcd THEN (x \div 16) * 10 + (x % 16) ELSE x

\* memcmp(&t1, &t2): return what was read, converted, or begin again
compare ==
  /\ rpc = "compare"
  /\ IF t1 = t2
     THEN /\ rpc' = "returned"
          /\ date' = [second |-> CONV(t1.second), minute |-> CONV(t1.minute)]
          /\ quiet' = IF quiet = CALLS THEN quiet ELSE quiet + 1
          /\ UNCHANGED <<t1, t2>>
     ELSE Pass /\ UNCHANGED <<date, quiet>>
  /\ UNCHANGED <<chip, since, clients>>

rtc_time == fill_t1 \/ check_uip \/ fill_t2 \/ compare

\* The client calls rtc_time again, or is done.
Again  == Pass /\ date' = Unread
Finish == step' = "done" /\ UNCHANGED reader
-----------------------------------------------------------------------------
\* Mutant: the timer is started without waiting for a second to begin.
wait_first_skipped ==
  /\ client = "calibrate" /\ step = "second" /\ rpc = "returned"
  /\ rtc2' = date.second
  /\ step' = "third" /\ since' = 0 /\ at' = quiet
  /\ Again
  /\ UNCHANGED <<chip, quiet, client, rtc1, repeat>>

\* lapic_init_timer: rtc1, then rtc2 until a second has begun; the timer is
\* started from ~0 ...
read_rtc1 ==
  /\ client = "calibrate" /\ step = "first" /\ rpc = "returned"
  /\ rtc1' = date.second /\ step' = "second"
  /\ Again
  /\ UNCHANGED <<chip, quiet, since, client, rtc2, repeat, at>>

wait_first ==
  /\ client = "calibrate" /\ step = "second" /\ rpc = "returned"
  /\ rtc2' = date.second
  /\ IF date.second = rtc1
     THEN UNCHANGED <<step, since, at>>
     ELSE step' = "third" /\ since' = 0 /\ at' = quiet
  /\ Again
  /\ UNCHANGED <<chip, quiet, client, rtc1, repeat>>

\* ... and its count is read when the next second has.
wait_second ==
  /\ client = "calibrate" /\ step = "third" /\ rpc = "returned"
  /\ rtc1' = date.second
  /\ IF date.second = rtc2 THEN Again /\ UNCHANGED step ELSE Finish
  /\ UNCHANGED <<chip, quiet, since, client, rtc2, repeat, at>>

\* rtc_delay: rtc2, then rtc1 until a second has begun, and this WAIT times.
read_rtc2 ==
  /\ client = "delay" /\ step = "first" /\ rpc = "returned"
  /\ rtc2' = date.second /\ step' = "second"
  /\ Again
  /\ UNCHANGED <<chip, quiet, since, client, rtc1, repeat, at>>

wait_change ==
  /\ client = "delay" /\ step = "second" /\ rpc = "returned"
  /\ rtc1' = date.second
  /\ IF date.second = rtc2
     THEN Again /\ UNCHANGED <<step, repeat>>
     ELSE /\ repeat' = repeat + 1
          /\ IF repeat' < WAIT THEN step' = "first" /\ Again ELSE Finish
  /\ UNCHANGED <<chip, quiet, since, client, rtc2, at>>

Reader ==
  \/ rtc_time
  \/ read_rtc1 \/ wait_first \/ wait_second
  \/ read_rtc2 \/ wait_change

\* The processor runs, the chip goes on; nothing is left to do once "done".
Next == step # "done" /\ (Reader \/ Chip)

Fairness ==
  WF_vars(step # "done" /\ Reader) /\ WF_vars(step # "done" /\ Chip)

Spec == Init /\ [][Next]_vars /\ Fairness
-----------------------------------------------------------------------------
\* rtc_time returns a time that the clock showed while the call was running,
\* never one put together from two: it needs both the look at UIP and the
\* second reading.
DateIsATime ==
  rpc = "returned" =>
    \E t \in {now, (now + Day - 1) % Day} :
      date = [second |-> SecondAt(t), minute |-> MinuteAt(t)]

\* "ICR delta in 1 sec": the timer is started at most two calls after a second began,
\* and its count read at most two after the next one; a panic waits until as many seconds
\* have begun as it says.
MeasuresSeconds ==
  step = "done" =>
    IF client = "calibrate"
    THEN since = 1 /\ at <= 2 /\ quiet <= 2
    ELSE since >= WAIT

\* Both loops end: rtc_time's retries do not keep it from returning.
ClockLoopsEnd == <>(step = "done")
=============================================================================
