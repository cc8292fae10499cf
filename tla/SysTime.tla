------------------------------ MODULE SysTime ------------------------------
(***************************************************************************)
(* iec61850/virtualize.c: the system clock, the RTC, and how startiec      *)
(* brings one to the other.  sync_time (callback thread) sets the RTC to   *)
(* the server's time; a small or a very large difference of the system     *)
(* clock is removed at once, another second by second from the alarm.      *)
(*                                                                         *)
(* Seconds are whole.  The RTC answers; its precision adjustment is left   *)
(* out, and so is an alarm that comes between two statements of sync_time. *)
(***************************************************************************)
EXTENDS Integers

CONSTANTS TIME_DEV_L_LIMIT, TIME_DEV_H_LIMIT,
          MaxTime,     \* bound of both clocks
          MaxSyncs     \* bound on the times the server sends

ASSUME LimitsAssumption == /\ TIME_DEV_L_LIMIT \in Nat /\ TIME_DEV_H_LIMIT \in Nat
                           /\ TIME_DEV_L_LIMIT <= TIME_DEV_H_LIMIT
                           /\ MaxTime \in Nat \ {0} /\ MaxSyncs \in Nat

VARIABLES sys, rtc,    \* the clocks
          time_dev,    \* what the alarm still has to correct
          syncs        \* times the server has sent

timevars == <<sys, rtc, time_dev, syncs>>

\* 0 is a time before the first start.
TimeInit == sys = 1 /\ rtc = 1 /\ time_dev = 0 /\ syncs = 0

Tick == /\ sys < MaxTime /\ rtc < MaxTime
        /\ sys' = sys + 1 /\ rtc' = rtc + 1
        /\ UNCHANGED <<time_dev, syncs>>

\* get_rtc_time, set_rtc_time
RtcTime == rtc
SetRtcTime(t_val) == rtc' = t_val

\* sync_time
SyncTime(srv_time) ==
  LET diff == sys - srv_time
      size == IF diff < 0 THEN -diff ELSE diff
      far == size < TIME_DEV_L_LIMIT \/ size > TIME_DEV_H_LIMIT
  IN  /\ syncs < MaxSyncs
      /\ syncs' = syncs + 1
      /\ SetRtcTime(srv_time)
      /\ IF diff = 0 \/ time_dev # 0 THEN UNCHANGED <<sys, time_dev>>
         ELSE IF far THEN sys' = srv_time /\ UNCHANGED time_dev
         ELSE time_dev' = diff /\ UNCHANGED sys

\* Mutant: the difference is not read from the RTC again.
SlewBlind ==
  /\ sys' = IF time_dev > 0 THEN sys - 1 ELSE IF time_dev < 0 THEN sys + 1 ELSE sys
  /\ time_dev' = IF time_dev > 0 THEN time_dev - 1 ELSE IF time_dev < 0 THEN time_dev + 1 ELSE 0
  /\ UNCHANGED <<rtc, syncs>>

\* The first part of catch_alarm: one second towards the RTC.
Slew ==
  LET dev == IF time_dev # 0 THEN sys - RtcTime ELSE 0
      step == IF dev > 0 THEN 1 ELSE IF dev < 0 THEN -1 ELSE 0
  IN  /\ sys' = sys - step
      /\ time_dev' = dev - step
      /\ UNCHANGED <<rtc, syncs>>

\* A restart after a power failure: the system takes the time of the RTC.
TimeBoot == sys' = rtc /\ time_dev' = 0 /\ UNCHANGED <<rtc, syncs>>

\* A correction that has begun goes on until the clocks agree, also when the server
\* sends another time meanwhile.
Disciplined == time_dev = 0 => sys = rtc
=============================================================================
