----------------------------- MODULE WakeupCalc -----------------------------
(***************************************************************************)
(* How sleep.c chooses the next wake-up: pure functions of the settings,   *)
(* the times of the last capture and of the last schedule run, and the     *)
(* clock.                                                                  *)
(*                                                                         *)
(* A time is a number of seconds since some Sunday, 00:00 local time.  The *)
(* lengths of a minute, an hour and a day are parameters, so that a small  *)
(* instance may have short days; the time zone is left out.                *)
(***************************************************************************)
EXTENDS Integers, Sequences, FiniteSetsExt

CONSTANTS
  Minute, Hour, Day,  \* their lengths in seconds
  Word,               \* the number of values of a uint32_t
  CompDivisor         \* a long sleep is lengthened by a CompDivisor-th: 1000

ASSUME ClockAssumption ==
  /\ Minute \in Nat \ {0}
  /\ Hour \in Nat \ {0}
  /\ Day \in Nat
  /\ 3 * Hour < Day
  /\ Word \in Nat
  /\ Word > 14 * Day
  /\ CompDivisor \in Nat
  /\ CompDivisor > 1

Week == 7 * Day

-----------------------------------------------------------------------------
(* Settings, as config.h declares them. *)

(* timedNode_t: day 0 to 6 is a day of the week, 7 is every day.  A node   *)
(* whose text is no time is not valid.                                     *)
TimedNode == [day : 0 .. 7, time : 0 .. Day - 1, valid : BOOLEAN]

(* intervalAnchorTime, the moment of the day an interval starts from. *)
NoAnchor == -1

Anchor == -1 .. Day - 1

(* capAttr_t; trigger is bAlarmInCap with a trigger mode. *)
CapAttr ==
  [bScheCap : BOOLEAN, scheCapMode : {0, 1}, timedNodes : Seq(TimedNode),
   intervalValue : Nat, intervalUnit : Nat, anchor : Anchor, trigger : BOOLEAN]

UploadAttr == [uploadMode : {0, 1}, timedNodes : Seq(TimedNode)]

-----------------------------------------------------------------------------
(* Timed mode. *)

SinceSunday(now) == now % Week

(* How long until a node is due: 0 when it is due this very second. *)
DueIn(node, now) ==
  LET day    == IF node.day < 7 THEN node.day ELSE SinceSunday(now) \div Day
      period == IF node.day < 7 THEN Week ELSE Day
      left   == day * Day + node.time - SinceSunday(now)
  IN  IF left < 0 THEN left + period ELSE left

(* The loop reads an interval of 0 as "no node yet": after a node that is  *)
(* due this very second it forgets the nodes it has seen and starts over   *)
(* with the next one.  Counted are therefore the nodes of the list's end   *)
(* in which no node is due now.                                            *)
Counted(nodes, now) ==
  {i \in DOMAIN nodes :
     /\ nodes[i].valid
     /\ \A j \in DOMAIN nodes :
          j >= i /\ nodes[j].valid => DueIn(nodes[j], now) > 0}

FindMostRecentTimeInterval(nodes, now) ==
  IF nodes = <<>> THEN 0
  ELSE IF Counted(nodes, now) = {} THEN 1
  ELSE Min({DueIn(nodes[i], now) : i \in Counted(nodes, now)})

-----------------------------------------------------------------------------
(* Interval mode. *)

ConvertIntervalToSeconds(value, unit) ==
  CASE unit = 0 -> (value * Minute) % Word
    [] unit = 1 -> (value * Hour) % Word
    [] unit = 2 -> (value * Day) % Word
    [] OTHER    -> 0

(* make_local_anchor_today *)
AnchorToday(now, anchor) == (now - (now % Day)) + anchor

(* Mutant of LegacyWakeup: a time that was missed is in the past. *)
LegacyWakeupInThePast(interval, lastCapTime, now) ==
  IF lastCapTime = 0 THEN interval ELSE lastCapTime + interval - now

(* Without an anchor, the interval starts at the last capture. *)
LegacyWakeup(interval, lastCapTime, now) ==
  IF lastCapTime = 0 THEN interval
  ELSE IF now >= lastCapTime + interval THEN 1
  ELSE lastCapTime + interval - now

(* Every so many days at the anchor.  "next" is the first anchor of the    *)
(* series after now, "last" the latest that is not.                        *)
DaysWakeup(days, anchor, lastCapTime, now) ==
  LET today == AnchorToday(now, anchor)
      capDay == AnchorToday(lastCapTime, anchor)
      base == IF lastCapTime < capDay THEN capDay - Day ELSE capDay
      step == days * Day
      next == base + step * (1 + Max({0, now - base}) \div step)
      last == next - step * ((next - now + step - 1) \div step)
  IN  IF lastCapTime = 0
      THEN IF now < today THEN today - now ELSE today + Day - now
      ELSE IF last > 0 /\ lastCapTime < last THEN 1
      ELSE next - now

(* Mutant of GridWakeup: the grid runs on past the anchor. *)
GridWakeupPastAnchor(interval, anchor, lastCapTime, now) ==
  LET today == AnchorToday(now, anchor)
      start == IF now >= today THEN today ELSE today - Day
      done == ((now - start) \div interval) * interval
  IN  IF lastCapTime > 0 /\ start + done > 0 /\ lastCapTime < start + done THEN 1
      ELSE start + done + interval - now

(* Minutes and hours: a grid that starts afresh at every anchor. *)
GridWakeup(interval, anchor, lastCapTime, now) ==
  LET today == AnchorToday(now, anchor)
      start == IF now >= today THEN today ELSE today - Day
      done == ((now - start) \div interval) * interval
  IN  IF lastCapTime > 0 /\ start + done > 0 /\ lastCapTime < start + done THEN 1
      ELSE Min({start + done + interval, start + Day}) - now

IntervalWakeup(capture, lastCapTime, snapshotFailed, now) ==
  LET interval == ConvertIntervalToSeconds(capture.intervalValue, capture.intervalUnit)
  IN  IF interval = 0 THEN 0
      ELSE IF snapshotFailed THEN 1
      ELSE IF capture.anchor = NoAnchor THEN LegacyWakeup(interval, lastCapTime, now)
      ELSE IF capture.intervalUnit = 2
      THEN DaysWakeup(capture.intervalValue, capture.anchor, lastCapTime, now)
      ELSE GridWakeup(interval, capture.anchor, lastCapTime, now)

-----------------------------------------------------------------------------
(* Seconds until the next capture, upload and schedule run; 0 is never. *)

CalculateCaptureWakeup(capture, lastCapTime, snapshotFailed, now) ==
  IF ~capture.bScheCap THEN 0
  ELSE IF capture.scheCapMode = 1
  THEN IntervalWakeup(capture, lastCapTime, snapshotFailed, now)
  ELSE FindMostRecentTimeInterval(capture.timedNodes, now)

CalculateUploadWakeup(upload, now) ==
  IF upload.uploadMode # 1 \/ Len(upload.timedNodes) > 10 THEN 0
  ELSE FindMostRecentTimeInterval(upload.timedNodes, now)

(* Mutant of CalculateScheduleWakeup: no distance from the last run. *)
CalculateScheduleWakeupAnyTime(node, lastScheduleTime, now) ==
  FindMostRecentTimeInterval(<<node>>, now)

CalculateScheduleWakeup(node, lastScheduleTime, now) ==
  LET wait == FindMostRecentTimeInterval(<<node>>, now)
  IN  IF now + wait < lastScheduleTime + 3 * Hour THEN wait + Day ELSE wait

(* Mutant of EarliestOf: an upload counts only when there is no capture. *)
EarliestOfForgetsUpload(capture, upload, schedule) ==
  LET set == {IF capture = 0 THEN upload ELSE capture, schedule} \ {0}
  IN  IF set = {} THEN 0 ELSE Min(set)

(* The earliest of the wake-ups there are. *)
EarliestOf(capture, upload, schedule) ==
  LET set == {capture, upload, schedule} \ {0}
  IN  IF set = {} THEN 0 ELSE Min(set)

(* What is taken off a sleep: a long one is made longer, by a thousandth   *)
(* that is rounded to the nearest second.  No drift is ever recorded, so   *)
(* the rest of the compensation is 0.                                      *)
CalculateCompensation(interval) ==
  IF interval > 5 * Hour THEN -((2 * interval + CompDivisor) \div (2 * CompDivisor)) ELSE 0
=============================================================================
