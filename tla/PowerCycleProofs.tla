--------------------------- MODULE PowerCycleProofs ---------------------------
(***************************************************************************)
(* The power cycle for every setting the web page may store, any lengths   *)
(* of minute, hour and day, any clock changes, and whatever happens to the *)
(* device: the chip never sleeps without a timer, nor past two days, nor   *)
(* over a moment that the settings ask for.  If the clock only goes        *)
(* forward, schedule runs keep their distance and no capture is made       *)
(* twice.                                                                  *)
(***************************************************************************)
EXTENDS PowerCycle, WellFoundedInduction, TLAPS

USE ClockAssumption

-----------------------------------------------------------------------------
(* Least elements, and division. *)

LEMMA LeastNatural ==
  ASSUME NEW S \in SUBSET Nat, S # {}
  PROVE  Min(S) \in S /\ \A k \in S : Min(S) <= k
<1> DEFINE R == {p \in Nat \X Nat : p[1] < p[2]}
<1>1. IsWellFoundedOn(R, Nat)
  BY NatLessThanWellFounded DEF OpToRel
<1>2. PICK m \in S : \A k \in S : <<k, m>> \notin R
  BY <1>1, WFMin
<1>3. ASSUME NEW k \in S PROVE m <= k
  <2>1. <<k, m>> \notin R /\ k \in Nat /\ m \in Nat
    BY <1>2
  <2>2. ~(k < m)
    BY <2>1
  <2> QED
    BY <2>1, <2>2
<1> QED
  BY <1>3 DEF Min

LEMMA GreaterOfTwo ==
  ASSUME NEW a \in Int, NEW b \in Int
  PROVE  Max({a, b}) \in Int /\ Max({a, b}) >= a /\ Max({a, b}) >= b
<1>1. \E x \in {a, b} : \A y \in {a, b} : x >= y
  <2>1. CASE a >= b
    BY <2>1
  <2>2. CASE ~(a >= b)
    BY <2>2
  <2> QED
    BY <2>1, <2>2
<1>2. Max({a, b}) \in {a, b} /\ \A y \in {a, b} : Max({a, b}) >= y
  BY <1>1 DEF Max
<1> QED
  BY <1>2

LEMMA Divided ==
  ASSUME NEW a \in Int, NEW b \in Nat \ {0}
  PROVE  /\ a % b \in 0 .. b - 1
         /\ a \div b \in Int
         /\ (a \div b) * b <= a /\ a < (a \div b) * b + b
         /\ a = (a \div b) * b + (a % b)
  OBVIOUS

LEMMA DividedInOrder ==
  ASSUME NEW a \in Int, NEW b \in Int, NEW c \in Nat \ {0}, a <= b
  PROVE  a \div c <= b \div c
  OBVIOUS

-----------------------------------------------------------------------------
(* Timed mode: find_most_recent_time_interval. *)

LEMMA DueInRange ==
  ASSUME NEW node \in TimedNode, NEW t \in Nat
  PROVE  DueIn(node, t) \in Nat /\ (node.day = 7 => DueIn(node, t) < Day)
<1> DEFINE s == SinceSunday(t)
<1>1. /\ node.day \in 0 .. 7 /\ node.time \in 0 .. Day - 1 /\ Day \in Nat \ {0}
      /\ Week \in Nat \ {0} /\ Week = 7 * Day
  BY DEF TimedNode, Week
<1>2. s \in 0 .. Week - 1
  <2>1. t \in Int /\ Week \in Nat \ {0}
    BY <1>1
  <2>2. t % Week \in 0 .. Week - 1
    BY <2>1, Divided
  <2> QED
    BY <2>2 DEF SinceSunday
<1> HIDE DEF s
<1>3. CASE node.day < 7
  <2>1. node.day * Day \in Nat
    BY <1>1
  <2>2. DueIn(node, t) = LET left == node.day * Day + node.time - s
                         IN  IF left < 0 THEN left + Week ELSE left
    BY <1>3 DEF DueIn, s
  <2> QED
    BY <1>1, <1>2, <1>3, <2>1, <2>2
<1>4. CASE ~(node.day < 7)
  <2> DEFINE d == s \div Day
  <2>1. d \in Int /\ d * Day <= s /\ s < d * Day + Day /\ d * Day \in Int
    <3>1. s \in Int /\ Day \in Nat \ {0}
      BY <1>1, <1>2
    <3>2. d \in Int /\ d * Day <= s /\ s < d * Day + Day
      BY <3>1, Divided
    <3> HIDE DEF d
    <3> QED
      BY <3>1, <3>2
  <2>2. DueIn(node, t) = LET left == d * Day + node.time - s
                         IN  IF left < 0 THEN left + Day ELSE left
    BY <1>4 DEF DueIn, s
  <2> HIDE DEF d
  <2> QED
    BY <1>1, <1>2, <2>1, <2>2
<1> QED
  BY <1>3, <1>4

LEMMA TimedRange ==
  ASSUME NEW nodes \in Seq(TimedNode), NEW t \in Nat
  PROVE  FindMostRecentTimeInterval(nodes, t) \in Nat
<1> DEFINE S == {DueIn(nodes[i], t) : i \in Counted(nodes, t)}
<1>1. \A i \in Counted(nodes, t) : DueIn(nodes[i], t) \in Nat
  BY DueInRange DEF Counted
<1>2. S \in SUBSET Nat
  BY <1>1
<1>3. CASE Counted(nodes, t) = {}
  BY <1>3 DEF FindMostRecentTimeInterval
<1>4. CASE Counted(nodes, t) # {}
  <2>1. S # {}
    BY <1>4
  <2>2. Min(S) \in Nat
    BY <1>2, <2>1, LeastNatural
  <2> QED
    BY <1>4, <2>2 DEF FindMostRecentTimeInterval
<1> QED
  BY <1>3, <1>4

LEMMA DailyRange ==
  ASSUME NEW node \in TimedNode, node.day = 7, NEW t \in Nat
  PROVE  FindMostRecentTimeInterval(<<node>>, t) \in 1 .. Day
<1> DEFINE nodes == <<node>>
<1>1. DOMAIN nodes = {1} /\ nodes[1] = node /\ nodes # <<>>
  OBVIOUS
<1>2. DueIn(node, t) \in 0 .. Day - 1
  BY DueInRange
<1>3. CASE Counted(nodes, t) = {}
  BY <1>1, <1>3 DEF FindMostRecentTimeInterval
<1>4. CASE Counted(nodes, t) # {}
  <2>1. Counted(nodes, t) = {1} /\ DueIn(node, t) > 0
    BY <1>1, <1>4 DEF Counted
  <2> DEFINE S == {DueIn(nodes[i], t) : i \in Counted(nodes, t)}
  <2>2. S = {DueIn(node, t)}
    BY <1>1, <2>1
  <2>3. Min(S) = DueIn(node, t)
    BY <1>2, <2>2, LeastNatural
  <2> QED
    BY <1>1, <1>2, <1>4, <2>1, <2>3 DEF FindMostRecentTimeInterval
<1> QED
  BY <1>3, <1>4
-----------------------------------------------------------------------------
(* Interval mode. *)

LEMMA IntervalRange ==
  ASSUME NEW value \in Nat, NEW unit \in Nat
  PROVE  /\ ConvertIntervalToSeconds(value, unit) \in Nat
         /\ unit = 2 /\ value = 0 => ConvertIntervalToSeconds(value, unit) = 0
<1>1. Minute \in Nat /\ Hour \in Nat /\ Day \in Nat /\ Word \in Nat \ {0}
  OBVIOUS
<1>2. ASSUME NEW x \in Nat PROVE (value * x) % Word \in Nat
  <2>1. value * x \in Int
    BY <1>2
  <2> DEFINE y == value * x
  <2>2. y \in Int /\ Word \in Nat \ {0}
    BY <1>1, <2>1
  <2> HIDE DEF y
  <2>3. y % Word \in 0 .. Word - 1
    BY <2>2, Divided
  <2>4. y % Word \in Nat
    BY <1>1, <2>3
  <2> QED
    BY <2>4 DEF y
<1>3. (value * Minute) % Word \in Nat
  BY <1>1, <1>2
<1>4. (value * Hour) % Word \in Nat
  BY <1>1, <1>2
<1>5. (value * Day) % Word \in Nat
  BY <1>1, <1>2
<1>6. value = 0 => (value * Day) % Word = 0
  <2>1. 0 % Word = 0
    BY <1>1
  <2>2. value = 0 => value * Day = 0
    BY <1>1
  <2> QED
    BY <2>1, <2>2
<1>7. CASE unit = 0
  BY <1>3, <1>7 DEF ConvertIntervalToSeconds
<1>8. CASE unit = 1
  BY <1>4, <1>8 DEF ConvertIntervalToSeconds
<1>9. CASE unit = 2
  BY <1>5, <1>6, <1>9 DEF ConvertIntervalToSeconds
<1>10. CASE unit \notin {0, 1, 2}
  BY <1>10 DEF ConvertIntervalToSeconds
<1> QED
  BY <1>7, <1>8, <1>9, <1>10

(* The anchor of a day is less than a day from any moment of that day. *)
LEMMA AnchorIsNear ==
  ASSUME NEW t \in Nat, NEW anchor \in 0 .. Day - 1
  PROVE  /\ AnchorToday(t, anchor) \in Int
         /\ AnchorToday(t, anchor) - Day < t
         /\ t < AnchorToday(t, anchor) + Day
<1>1. t \in Int /\ Day \in Nat \ {0}
  OBVIOUS
<1>2. t % Day \in 0 .. Day - 1
  BY <1>1, Divided
<1> QED
  BY <1>1, <1>2 DEF AnchorToday

LEMMA LegacyRange ==
  ASSUME NEW interval \in Nat \ {0}, NEW last \in Nat, NEW t \in Nat
  PROVE  LegacyWakeup(interval, last, t) \in Nat \ {0}
  BY DEF LegacyWakeup

(* The next of a series of anchors lies ahead. *)
LEMMA NextInSeries ==
  ASSUME NEW base \in Int, NEW step \in Nat \ {0}, NEW t \in Nat
  PROVE  LET next == base + step * (1 + Max({0, t - base}) \div step)
         IN  next \in Int /\ next > t
<1> DEFINE m == Max({0, t - base})
           q == m \div step
<1>1. m \in Int /\ m >= t - base
  <2>1. 0 \in Int /\ t - base \in Int
    OBVIOUS
  <2> QED
    BY <2>1, GreaterOfTwo
<1> HIDE DEF m
<1>2. q \in Int /\ m < q * step + step
  BY <1>1, Divided
<1> HIDE DEF q
<1>3. q * step \in Int /\ step * (1 + q) = q * step + step
  BY <1>2
<1>4. base + step * (1 + q) \in Int /\ base + step * (1 + q) > t
  BY <1>1, <1>2, <1>3
<1> QED
  BY <1>4 DEF q, m

LEMMA DaysRange ==
  ASSUME NEW days \in Nat \ {0}, NEW anchor \in 0 .. Day - 1,
         NEW last \in Nat, NEW t \in Nat
  PROVE  DaysWakeup(days, anchor, last, t) \in Nat \ {0}
<1> DEFINE today  == AnchorToday(t, anchor)
           capDay == AnchorToday(last, anchor)
           base   == IF last < capDay THEN capDay - Day ELSE capDay
           step   == days * Day
           next   == base + step * (1 + Max({0, t - base}) \div step)
           prev   == next - step * ((next - t + step - 1) \div step)
<1>1. today \in Int /\ today - Day < t /\ t < today + Day
  BY AnchorIsNear
<1>2. capDay \in Int
  BY AnchorIsNear
<1> HIDE DEF today, capDay
<1>3. base \in Int
  BY <1>2
<1>4. step \in Nat \ {0}
  <2>1. Day \in Nat \ {0}
    OBVIOUS
  <2> QED
    BY <2>1
<1> HIDE DEF base, step
<1>5. next \in Int /\ next > t
  BY <1>3, <1>4, NextInSeries
<1>6. DaysWakeup(days, anchor, last, t) =
        IF last = 0 THEN IF t < today THEN today - t ELSE today + Day - t
        ELSE IF prev > 0 /\ last < prev THEN 1 ELSE next - t
  BY DEF DaysWakeup, today, capDay, base, step
<1> HIDE DEF next, prev
<1> QED
  BY <1>1, <1>5, <1>6

LEMMA GridRange ==
  ASSUME NEW interval \in Nat \ {0}, NEW anchor \in 0 .. Day - 1,
         NEW last \in Nat, NEW t \in Nat
  PROVE  GridWakeup(interval, anchor, last, t) \in Nat \ {0}
<1> DEFINE today == AnchorToday(t, anchor)
           start == IF t >= today THEN today ELSE today - Day
           gone  == t - start
           q     == gone \div interval
           done  == q * interval
           S     == {start + done + interval, start + Day}
<1>1. today \in Int /\ today - Day < t /\ t < today + Day
  BY AnchorIsNear
<1> HIDE DEF today
<1>2. start \in Int /\ start <= t /\ t < start + Day
  BY <1>1
<1> HIDE DEF start
<1>3. gone \in Int /\ t = start + gone
  BY <1>2
<1> HIDE DEF gone
<1>4. q \in Int /\ gone < q * interval + interval
  BY <1>3, Divided
<1> HIDE DEF q
<1>5. done \in Int /\ gone < done + interval
  BY <1>4
<1> HIDE DEF done
<1>6. /\ start + done + interval \in Nat /\ start + done + interval > t
      /\ start + Day \in Nat /\ start + Day > t
  BY <1>2, <1>3, <1>5
<1>7. Min(S) \in S
  <2>1. S \in SUBSET Nat /\ S # {}
    BY <1>6
  <2> HIDE DEF S
  <2> QED
    BY <2>1, LeastNatural
<1>8. Min(S) \in Nat /\ Min(S) > t
  BY <1>6, <1>7
<1>9. GridWakeup(interval, anchor, last, t) =
        IF last > 0 /\ start + done > 0 /\ last < start + done THEN 1
        ELSE Min(S) - t
  BY DEF GridWakeup, today, start, gone, q, done
<1> HIDE DEF S
<1> QED
  BY <1>8, <1>9

LEMMA IntervalWakeupRange ==
  ASSUME NEW c \in CapAttr, NEW last \in Nat, NEW failed \in BOOLEAN, NEW t \in Nat
  PROVE  IntervalWakeup(c, last, failed, t) \in Nat
<1> DEFINE interval == ConvertIntervalToSeconds(c.intervalValue, c.intervalUnit)
<1>1. /\ c.intervalValue \in Nat /\ c.intervalUnit \in Nat
      /\ c.anchor = NoAnchor \/ c.anchor \in 0 .. Day - 1
  BY DEF CapAttr, Anchor, NoAnchor
<1>2. interval \in Nat /\ (c.intervalUnit = 2 /\ c.intervalValue = 0 => interval = 0)
  BY <1>1, IntervalRange
<1> HIDE DEF interval
<1>3. CASE interval = 0 \/ failed
  BY <1>3 DEF IntervalWakeup, interval
<1>4. CASE interval # 0 /\ ~failed /\ c.anchor = NoAnchor
  <2>1. interval \in Nat \ {0}
    BY <1>2, <1>4
  <2>2. LegacyWakeup(interval, last, t) \in Nat
    BY <2>1, LegacyRange
  <2> QED
    BY <1>4, <2>2 DEF IntervalWakeup, interval
<1>5. CASE interval # 0 /\ ~failed /\ c.anchor # NoAnchor /\ c.intervalUnit = 2
  <2>1. c.intervalValue \in Nat \ {0} /\ c.anchor \in 0 .. Day - 1
    BY <1>1, <1>2, <1>5
  <2>2. DaysWakeup(c.intervalValue, c.anchor, last, t) \in Nat
    BY <2>1, DaysRange
  <2> QED
    BY <1>5, <2>2 DEF IntervalWakeup, interval
<1>6. CASE interval # 0 /\ ~failed /\ c.anchor # NoAnchor /\ c.intervalUnit # 2
  <2>1. interval \in Nat \ {0} /\ c.anchor \in 0 .. Day - 1
    BY <1>1, <1>2, <1>6
  <2>2. GridWakeup(interval, c.anchor, last, t) \in Nat
    BY <2>1, GridRange
  <2> QED
    BY <1>6, <2>2 DEF IntervalWakeup, interval
<1> QED
  BY <1>3, <1>4, <1>5, <1>6

-----------------------------------------------------------------------------
(* calc_wakeup_time_seconds and the compensation. *)

LEMMA CaptureRange ==
  ASSUME NEW c \in CapAttr, NEW last \in Nat, NEW failed \in BOOLEAN, NEW t \in Nat
  PROVE  CalculateCaptureWakeup(c, last, failed, t) \in Nat
<1>1. c.timedNodes \in Seq(TimedNode)
  BY DEF CapAttr
<1>2. FindMostRecentTimeInterval(c.timedNodes, t) \in Nat
  BY <1>1, TimedRange
<1> QED
  BY <1>2, IntervalWakeupRange DEF CalculateCaptureWakeup

LEMMA UploadRange ==
  ASSUME NEW u \in UploadAttr, NEW t \in Nat
  PROVE  CalculateUploadWakeup(u, t) \in Nat
<1>1. u.timedNodes \in Seq(TimedNode)
  BY DEF UploadAttr
<1>2. FindMostRecentTimeInterval(u.timedNodes, t) \in Nat
  BY <1>1, TimedRange
<1> QED
  BY <1>2 DEF CalculateUploadWakeup

LEMMA ScheduleRange ==
  ASSUME NEW node \in TimedNode, node.day = 7, NEW last \in Nat, NEW t \in Nat
  PROVE  CalculateScheduleWakeup(node, last, t) \in 1 .. 2 * Day
<1> DEFINE wait == FindMostRecentTimeInterval(<<node>>, t)
<1>1. wait \in 1 .. Day
  BY DailyRange
<1> HIDE DEF wait
<1>2. CalculateScheduleWakeup(node, last, t) \in {wait, wait + Day}
  BY DEF CalculateScheduleWakeup, wait
<1> QED
  BY <1>1, <1>2

(* The schedule run alone sees to it that there is always a next wake-up. *)
LEMMA EarliestRange ==
  ASSUME NEW c \in Nat, NEW u \in Nat, NEW s \in 1 .. 2 * Day
  PROVE  EarliestOf(c, u, s) \in 1 .. 2 * Day
<1> DEFINE S == {c, u, s} \ {0}
<1>1. S \in SUBSET Nat /\ s \in S /\ 0 \notin S
  OBVIOUS
<1>2. EarliestOf(c, u, s) = Min(S)
  BY <1>1 DEF EarliestOf
<1> HIDE DEF S
<1>3. Min(S) \in S /\ Min(S) <= s
  BY <1>1, LeastNatural
<1>4. Min(S) \in Nat /\ Min(S) # 0
  BY <1>1, <1>3
<1> QED
  BY <1>2, <1>3, <1>4

(* A sleep is never shorter than the time asked for. *)
LEMMA SleepIsLongEnough ==
  ASSUME NEW n \in 1 .. 2 * Day
  PROVE  /\ n - CalculateCompensation(n) \in Int
         /\ n - CalculateCompensation(n) >= n
<1> DEFINE more == (2 * n + CompDivisor) \div (2 * CompDivisor)
<1>1. /\ 2 * CompDivisor \in Nat \ {0} /\ CompDivisor \in Nat /\ n \in Nat
      /\ 2 * n + CompDivisor \in Int /\ 0 \in Int /\ 0 <= 2 * n + CompDivisor
  OBVIOUS
<1>2. more \in Int
  BY <1>1, Divided
<1>3. 0 \div (2 * CompDivisor) <= more /\ 0 \div (2 * CompDivisor) = 0
  BY <1>1, DividedInOrder
<1>4. CalculateCompensation(n) = IF n > 5 * Hour THEN -more ELSE 0
  BY DEF CalculateCompensation
<1> HIDE DEF more
<1> QED
  BY <1>1, <1>2, <1>3, <1>4

(* A sleep is at least a second, and at most that of the longest wait. *)
LEMMA SleepRange ==
  ASSUME NEW n \in 1 .. 2 * Day
  PROVE  n - CalculateCompensation(n) \in 1 .. LongestSleep
<1> DEFINE more(k) == (2 * k + CompDivisor) \div (2 * CompDivisor)
<1>1. /\ 2 * CompDivisor \in Nat \ {0} /\ CompDivisor \in Nat
      /\ Day \in Nat /\ Hour \in Nat /\ 5 * Hour < 2 * Day
  OBVIOUS
<1>2. ASSUME NEW k \in Nat PROVE more(k) \in Nat
  <2>1. 2 * k + CompDivisor \in Int /\ 0 \in Int /\ 0 <= 2 * k + CompDivisor
    BY <1>1
  <2>2. more(k) \in Int
    BY <1>1, <2>1, Divided
  <2>3. 0 \div (2 * CompDivisor) <= more(k)
    BY <1>1, <2>1, DividedInOrder
  <2>4. 0 \div (2 * CompDivisor) = 0
    BY <1>1
  <2> HIDE DEF more
  <2> QED
    BY <2>2, <2>3, <2>4
<1>3. more(n) <= more(2 * Day)
  <2>1. /\ 2 * n + CompDivisor \in Int /\ 2 * (2 * Day) + CompDivisor \in Int
        /\ 2 * n + CompDivisor <= 2 * (2 * Day) + CompDivisor
    BY <1>1
  <2> QED
    BY <1>1, <2>1, DividedInOrder
<1>4. n \in Nat /\ 2 * Day \in Nat
  BY <1>1
<1>5. more(n) \in Nat /\ more(2 * Day) \in Nat
  BY <1>2, <1>4
<1>6. CalculateCompensation(n) = IF n > 5 * Hour THEN -more(n) ELSE 0
  BY DEF CalculateCompensation
<1>7. LongestSleep = 2 * Day - (-more(2 * Day))
  BY <1>1 DEF LongestSleep, CalculateCompensation
<1> HIDE DEF more
<1>8. n - CalculateCompensation(n) \in {n, n + more(n)}
  BY <1>4, <1>5, <1>6
<1>9. LongestSleep = 2 * Day + more(2 * Day)
  BY <1>4, <1>5, <1>7
<1> QED
  BY <1>3, <1>4, <1>5, <1>8, <1>9
-----------------------------------------------------------------------------
(* The settings, the queue of actions. *)

LEMMA SettingsAreTyped ==
  /\ CaptureSettings \subseteq CapAttr /\ UploadSettings \subseteq UploadAttr
  /\ ScheduleTime \in TimedNode /\ ScheduleTime.day = 7
  BY PowerCycleAssumption DEF TimedNode

LEMMA SecondsRange ==
  ASSUME TypeOK, NEW t \in Nat
  PROVE  CalcWakeupTimeSeconds(t) \in 1 .. 2 * Day
<1>1. /\ capture \in CapAttr /\ upload \in UploadAttr
      /\ lastCapTime \in Nat /\ lastScheduleTime \in Nat /\ snapshotFailed \in BOOLEAN
  BY SettingsAreTyped DEF TypeOK
<1>2. CaptureWakeup(t) \in Nat
  BY <1>1, CaptureRange DEF CaptureWakeup
<1>3. UploadWakeup(t) \in Nat
  BY <1>1, UploadRange DEF UploadWakeup
<1>4. ScheduleWakeup(t) \in 1 .. 2 * Day
  BY <1>1, SettingsAreTyped, ScheduleRange DEF ScheduleWakeup
<1> QED
  BY <1>2, <1>3, <1>4, EarliestRange DEF CalcWakeupTimeSeconds

LEMMA FirstIsAction ==
  ASSUME NEW todo \in [Priorities -> Todos], HasTodo(todo)
  PROVE  /\ todo[FirstPriority(todo)] \in ModeNames
         /\ PopTodo(todo) \in [Priorities -> Todos]
<1> DEFINE S == {p \in Priorities : todo[p] # "nothing"}
<1>1. S # {}
  <2>1. CASE S = {}
    <3>1. \A p \in Priorities : todo[p] = "nothing"
      BY <2>1
    <3>2. todo = NoTodo
      BY <3>1 DEF NoTodo
    <3> QED
      BY <3>2 DEF HasTodo
  <2> QED
    BY <2>1
<1>2. S \in SUBSET Nat
  BY DEF Priorities
<1>3. FirstPriority(todo) \in S
  <2>1. Min(S) \in S
    <3> HIDE DEF S
    <3> QED
      BY <1>1, <1>2, LeastNatural
  <2> QED
    BY <2>1 DEF FirstPriority
<1>4. FirstPriority(todo) \in Priorities /\ todo[FirstPriority(todo)] # "nothing"
  BY <1>3
<1>5. todo[FirstPriority(todo)] \in ModeNames
  BY <1>4 DEF Todos, ModeNames
<1>6. PopTodo(todo) \in [Priorities -> Todos]
  BY <1>4 DEF PopTodo, Todos
<1> QED
  BY <1>5, <1>6

LEMMA QueueIsTyped ==
  ASSUME NEW todo \in [Priorities -> Todos],
         NEW first, NEW cap, NEW upl, NEW sched
  PROVE  QueueDue(todo, first, cap, upl, sched) \in [Priorities -> Todos]
<1>1. "snapshot" \in Todos /\ "upload" \in Todos /\ "schedule" \in Todos
  BY DEF Todos
<1> QED
  BY <1>1 DEF QueueDue, Priorities

LEMMA NoTodoIsTyped ==
  NoTodo \in [Priorities -> Todos]
  BY DEF NoTodo, Todos

-----------------------------------------------------------------------------
(* Falling asleep. *)

LEMMA SleepStartWakes ==
  ASSUME TypeOK, NEW t \in Nat, SleepStart(t)
  PROVE  TypeOK' /\ AlwaysWakes'
<1> DEFINE pending == HasTodo(wakeupTodo)
           seconds == IF pending THEN 1 ELSE CalcWakeupTimeSeconds(t)
           sleep   == seconds - CalculateCompensation(seconds)
<1>1. seconds \in 1 .. 2 * Day
  <2>1. CalcWakeupTimeSeconds(t) \in 1 .. 2 * Day
    BY SecondsRange
  <2>2. 1 \in 1 .. 2 * Day
    OBVIOUS
  <2> QED
    BY <2>1, <2>2
<1>2. sleep \in 1 .. LongestSleep
  BY <1>1, SleepRange
<1>3. LongestSleep \in Int
  <2>1. 2 * Day \in 1 .. 2 * Day
    OBVIOUS
  <2>2. 2 * Day - CalculateCompensation(2 * Day) \in 1 .. LongestSleep
    BY <2>1, SleepRange
  <2>3. LongestSleep \in 1 .. LongestSleep
    BY <2>2 DEF LongestSleep
  <2> QED
    BY <2>3
<1>4. /\ power' = "asleep"
      /\ now' = t
      /\ timer' = t + sleep /\ willWakeupTime' = t + seconds
      /\ wakeSources' = {"timer", "button"} \cup (IF capture.trigger THEN {"trigger"} ELSE {})
      /\ UNCHANGED <<reset, mode, snapType, snapshotFailed, tmpMode, lastCapTime,
                     lastScheduleTime, checkFlag, nvsVars>>
  <2> HIDE DEF seconds
  <2>1. sleep > 0
    BY <1>2, <1>3
  <2> QED
    BY <2>1 DEF SleepStart, seconds
<1>5. /\ wakeupTodo' \in [Priorities -> Todos]
      /\ due' \in Nat
  <2>1. \/ UNCHANGED <<wakeupTodo, due>>
        \/ /\ wakeupTodo' = QueueDue(wakeupTodo, seconds, CaptureWakeup(t),
                                       UploadWakeup(t), ScheduleWakeup(t))
           /\ due' = t + seconds
    BY DEF SleepStart
  <2>2. CASE UNCHANGED <<wakeupTodo, due>>
    BY <2>2 DEF TypeOK
  <2>3. CASE /\ wakeupTodo' = QueueDue(wakeupTodo, seconds, CaptureWakeup(t),
                                       UploadWakeup(t), ScheduleWakeup(t))
             /\ due' = t + seconds
    <3>1. wakeupTodo \in [Priorities -> Todos]
      BY DEF TypeOK
    <3>2. wakeupTodo' \in [Priorities -> Todos]
      BY <2>3, <3>1, QueueIsTyped
    <3> HIDE DEF seconds
    <3>3. due' \in Nat
      BY <1>1, <2>3
    <3> QED
      BY <3>2, <3>3
  <2> QED
    BY <2>1, <2>2, <2>3
<1> HIDE DEF seconds, sleep
<1>6. AlwaysWakes'
  <2>1. "timer" \in wakeSources'
    BY <1>4
  <2>2. now' <= timer' /\ timer' <= now' + LongestSleep
    BY <1>2, <1>3, <1>4
  <2> QED
    BY <2>1, <2>2 DEF AlwaysWakes
<1>7. TypeOK'
  <2>1. timer' \in Nat /\ willWakeupTime' \in Nat
    BY <1>1, <1>2, <1>3, <1>4
  <2>2. wakeSources' \subseteq {"timer", "button", "trigger"}
    BY <1>4
  <2> QED
    BY <1>4, <1>5, <2>1, <2>2 DEF TypeOK, nvsVars
<1> QED
  BY <1>6, <1>7

LEMMA ShortSleepWakes ==
  ASSUME now \in Nat, ShortSleep
  PROVE  AlwaysWakes'
<1>1. LongestSleep \in Nat
  <2>1. 2 * Day \in 1 .. 2 * Day
    OBVIOUS
  <2>2. 2 * Day - CalculateCompensation(2 * Day) \in 1 .. LongestSleep
    BY <2>1, SleepRange
  <2>3. LongestSleep \in 1 .. LongestSleep
    BY <2>2 DEF LongestSleep
  <2> QED
    BY <2>3
<1> QED
  BY <1>1 DEF ShortSleep, AlwaysWakes
-----------------------------------------------------------------------------
(* The steps. *)

WakeInv == TypeOK /\ AlwaysWakes

LEMMA WakeInit ==
  Init => WakeInv
<1> SUFFICES ASSUME Init PROVE WakeInv
  OBVIOUS
<1>1. TypeOK
  <2>1. wakeupTodo \in [Priorities -> Todos]
    BY NoTodoIsTyped DEF Init
  <2> QED
    BY <2>1 DEF Init, TypeOK
<1>2. AlwaysWakes
  BY DEF Init, AlwaysWakes
<1> QED
  BY <1>1, <1>2 DEF WakeInv

LEMMA RestartKeeps ==
  ASSUME TypeOK, NEW t \in Nat,
         NEW cause \in {"power_on", "software", "timer", "button", "trigger"},
         Restart(cause, t),
         ResetRtcMemory \/ UNCHANGED rtcVars,
         tmpMode' \in ModeNames \cup {"undefined"}
  PROVE  WakeInv'
<1>1. /\ wakeupTodo' \in [Priorities -> Todos]
      /\ lastCapTime' \in Nat /\ lastScheduleTime' \in Nat /\ willWakeupTime' \in Nat
      /\ checkFlag' \in BOOLEAN
  <2>1. CASE ResetRtcMemory
    BY <2>1, NoTodoIsTyped DEF ResetRtcMemory
  <2>2. CASE UNCHANGED rtcVars
    BY <2>2 DEF TypeOK, rtcVars
  <2> QED
    BY <2>1, <2>2
<1>2. /\ power' = "boot" /\ reset' = cause /\ now' = t
      /\ mode' = "undefined" /\ snapType' = "undefined" /\ snapshotFailed' = FALSE
      /\ wakeSources' = {} /\ timer' = 0 /\ due' = due
      /\ capture' = capture /\ upload' = upload
  BY DEF Restart, nvsVars
<1>3. TypeOK'
  BY <1>1, <1>2 DEF TypeOK
<1>4. AlwaysWakes'
  BY <1>2 DEF AlwaysWakes
<1> QED
  BY <1>3, <1>4 DEF WakeInv

LEMMA WakeSteps ==
  ASSUME WakeInv, WakeTimer \/ WakeButton \/ WakeTrigger \/ PowerOn \/ Crash \/ SoftwareRestart
  PROVE  WakeInv'
<1>1. TypeOK /\ now \in Nat /\ timer \in Nat /\ tmpMode \in ModeNames \cup {"undefined"}
  BY DEF WakeInv, TypeOK
<1>2. CASE WakeTimer
  <2>1. PICK t \in now .. timer : Restart("timer", t)
    BY <1>2 DEF WakeTimer
  <2>2. t \in Nat
    BY <1>1
  <2> QED
    BY <1>1, <1>2, <2>1, <2>2, RestartKeeps DEF WakeTimer
<1>3. CASE WakeButton
  <2>1. PICK t \in now .. timer : Restart("button", t)
    BY <1>3 DEF WakeButton
  <2>2. t \in Nat
    BY <1>1
  <2> QED
    BY <1>1, <1>3, <2>1, <2>2, RestartKeeps DEF WakeButton
<1>4. CASE WakeTrigger
  <2>1. PICK t \in now .. timer : Restart("trigger", t)
    BY <1>4 DEF WakeTrigger
  <2>2. t \in Nat
    BY <1>1
  <2> QED
    BY <1>1, <1>4, <2>1, <2>2, RestartKeeps DEF WakeTrigger
<1>5. CASE PowerOn
  <2>1. 0 \in Nat
    OBVIOUS
  <2> QED
    BY <1>1, <1>5, <2>1, RestartKeeps DEF PowerOn
<1>6. CASE Crash
  BY <1>1, <1>6, RestartKeeps DEF Crash
<1>7. CASE SoftwareRestart
  BY <1>1, <1>7, RestartKeeps DEF SoftwareRestart
<1> QED
  BY <1>2, <1>3, <1>4, <1>5, <1>6, <1>7

LEMMA EnterModeKeeps ==
  ASSUME TypeOK, NEW selected \in ModeNames,
         NEW type \in {"undefined", "timer", "alarmin", "button"},
         EnterMode(selected, type),
         wakeupTodo' \in [Priorities -> Todos], checkFlag' \in BOOLEAN,
         UNCHANGED <<lastCapTime, lastScheduleTime, willWakeupTime>>
  PROVE  WakeInv'
<1>1. mode' \in ModeNames
  BY DEF EnterMode, TypeOK
<1>2. /\ power' = "awake" /\ tmpMode' = "undefined" /\ snapType' = type
      /\ UNCHANGED <<reset, now, snapshotFailed, capture, upload, wakeSources, timer, due>>
  BY DEF EnterMode, nvsVars, sleepVars
<1>3. TypeOK'
  BY <1>1, <1>2 DEF TypeOK
<1>4. AlwaysWakes'
  BY <1>2 DEF AlwaysWakes
<1> QED
  BY <1>3, <1>4 DEF WakeInv

LEMMA BootSteps ==
  ASSUME WakeInv, Boot
  PROVE  WakeInv'
<1>1. TypeOK /\ now \in Nat /\ checkFlag \in BOOLEAN /\ wakeupTodo \in [Priorities -> Todos]
  BY DEF WakeInv, TypeOK
<1>2. CASE BootPowerOn
  <2>1. AlwaysWakes'
    BY <1>1, <1>2, ShortSleepWakes DEF BootPowerOn
  <2>2. TypeOK'
    BY <1>1, <1>2 DEF BootPowerOn, ShortSleep, TypeOK, nvsVars
  <2> QED
    BY <2>1, <2>2 DEF WakeInv
<1>3. CASE BootChecked
  <2>1. EnterMode("schedule", "undefined") /\ "schedule" \in ModeNames
    BY <1>3 DEF BootChecked, ModeNames
  <2>2. /\ wakeupTodo' \in [Priorities -> Todos] /\ checkFlag' \in BOOLEAN
        /\ UNCHANGED <<lastCapTime, lastScheduleTime, willWakeupTime>>
    BY <1>1, <1>3 DEF BootChecked
  <2> QED
    BY <1>1, <2>1, <2>2, EnterModeKeeps
<1>4. CASE BootSoftware
  <2>1. EnterMode("config", "undefined") /\ "config" \in ModeNames
    BY <1>4 DEF BootSoftware, ModeNames
  <2>2. /\ wakeupTodo' \in [Priorities -> Todos] /\ checkFlag' \in BOOLEAN
        /\ UNCHANGED <<lastCapTime, lastScheduleTime, willWakeupTime>>
    BY <1>1, <1>4 DEF BootSoftware, rtcVars
  <2> QED
    BY <1>1, <2>1, <2>2, EnterModeKeeps
<1>5. CASE BootSleepAgain
  BY <1>1, <1>5, SleepStartWakes DEF BootSleepAgain, WakeInv
<1>6. CASE BootTimer
  <2> DEFINE todo == wakeupTodo[FirstPriority(wakeupTodo)]
             type == IF todo = "snapshot" THEN "timer" ELSE "undefined"
  <2>1. HasTodo(wakeupTodo) /\ wakeupTodo' = PopTodo(wakeupTodo) /\ EnterMode(todo, type)
    BY <1>6 DEF BootTimer
  <2>2. todo \in ModeNames /\ PopTodo(wakeupTodo) \in [Priorities -> Todos]
    BY <1>1, <2>1, FirstIsAction
  <2>3. type \in {"undefined", "timer", "alarmin", "button"}
    OBVIOUS
  <2>4. /\ wakeupTodo' \in [Priorities -> Todos] /\ checkFlag' \in BOOLEAN
        /\ UNCHANGED <<lastCapTime, lastScheduleTime, willWakeupTime>>
    BY <1>1, <1>6, <2>1, <2>2 DEF BootTimer
  <2> HIDE DEF todo, type
  <2> QED
    BY <1>1, <2>1, <2>2, <2>3, <2>4, EnterModeKeeps
<1>7. CASE BootTrigger
  <2>1. EnterMode("snapshot", "alarmin") /\ "snapshot" \in ModeNames
    BY <1>7 DEF BootTrigger, ModeNames
  <2>2. /\ wakeupTodo' \in [Priorities -> Todos] /\ checkFlag' \in BOOLEAN
        /\ UNCHANGED <<lastCapTime, lastScheduleTime, willWakeupTime>>
    BY <1>1, <1>7, NoTodoIsTyped DEF BootTrigger
  <2> QED
    BY <1>1, <2>1, <2>2, EnterModeKeeps
<1>8. CASE BootButton
  <2>1. EnterMode("config", "button") /\ "config" \in ModeNames
    BY <1>8 DEF BootButton, ModeNames
  <2>2. /\ wakeupTodo' \in [Priorities -> Todos] /\ checkFlag' \in BOOLEAN
        /\ UNCHANGED <<lastCapTime, lastScheduleTime, willWakeupTime>>
    BY <1>1, <1>8 DEF BootButton, rtcVars
  <2> QED
    BY <1>1, <2>1, <2>2, EnterModeKeeps
<1> QED
  BY <1>2, <1>3, <1>4, <1>5, <1>6, <1>7, <1>8 DEF Boot

LEMMA MayFailIsTyped ==
  ASSUME MayFail
  PROVE  snapshotFailed' \in BOOLEAN
<1>1. snapshotFailed' = FALSE \/ snapshotFailed' = ("snapshot_fails" \in Events)
  BY Zenon DEF MayFail
<1>2. CASE "snapshot_fails" \in Events
  <2>1. ("snapshot_fails" \in Events) = TRUE
    BY <1>2
  <2> QED
    BY <1>1, <2>1
<1>3. CASE "snapshot_fails" \notin Events
  <2>1. ("snapshot_fails" \in Events) = FALSE
    BY <1>3
  <2> QED
    BY <1>1, <2>1
<1> QED
  BY <1>2, <1>3

LEMMA WorkSteps ==
  ASSUME WakeInv, Work
  PROVE  WakeInv'
<1>1. TypeOK /\ now \in Nat
  BY DEF WakeInv, TypeOK
<1>2. power' = "done" /\ mode' = mode /\ mode \in ModeNames
  BY <1>1 DEF Work, WorkSnapshot, WorkConfig, WorkSchedule, WorkUpload, Works, ModeNames
<1>3. AlwaysWakes'
  BY <1>2 DEF AlwaysWakes
<1>4. CASE WorkSnapshot
  <2>1. snapshotFailed' \in BOOLEAN
    BY <1>4, MayFailIsTyped DEF WorkSnapshot
  <2>2. lastCapTime' \in Nat
    BY <1>1, <1>4 DEF WorkSnapshot, TypeOK
  <2> QED
    BY <1>1, <1>2, <1>3, <1>4, <2>1, <2>2
    DEF WorkSnapshot, TypeOK, WakeInv, nvsVars, sleepVars
<1>5. CASE WorkConfig
  <2>1. snapshotFailed' \in BOOLEAN
    BY <1>1, <1>5, MayFailIsTyped DEF WorkConfig, TypeOK
  <2>2. wakeupTodo' \in [Priorities -> Todos]
    BY <1>5, NoTodoIsTyped DEF WorkConfig
  <2> QED
    BY <1>1, <1>2, <1>3, <1>5, <2>1, <2>2
    DEF WorkConfig, TypeOK, WakeInv, nvsVars, sleepVars
<1>6. CASE WorkSchedule
  <2>1. now' \in Nat /\ lastScheduleTime' \in Nat
    BY <1>1, <1>6, PowerCycleAssumption DEF WorkSchedule, ClockMoves
  <2> QED
    BY <1>1, <1>2, <1>3, <1>6, <2>1
    DEF WorkSchedule, TypeOK, WakeInv, nvsVars, sleepVars
<1>7. CASE WorkUpload
  BY <1>1, <1>2, <1>3, <1>7
  DEF WorkUpload, TypeOK, WakeInv, rtcVars, nvsVars, sleepVars
<1> QED
  BY <1>4, <1>5, <1>6, <1>7 DEF Work

LEMMA SettingSteps ==
  ASSUME WakeInv, SetClock \/ SetCapture \/ SetUpload \/ Click
  PROVE  WakeInv'
<1>1. TypeOK /\ now \in Nat /\ wakeupTodo \in [Priorities -> Todos]
  BY DEF WakeInv, TypeOK
<1>2. CASE SetClock
  <2>1. power' = "done" /\ now' \in Nat
    BY <1>2, PowerCycleAssumption DEF SetClock, ClockMoves
  <2> QED
    BY <1>1, <1>2, <2>1
    DEF SetClock, TypeOK, AlwaysWakes, WakeInv, rtcVars, nvsVars, sleepVars
<1>3. CASE SetCapture
  BY <1>1, <1>3 DEF SetCapture, TypeOK, AlwaysWakes, WakeInv, sleepVars
<1>4. CASE SetUpload
  BY <1>1, <1>4 DEF SetUpload, TypeOK, AlwaysWakes, WakeInv, rtcVars, sleepVars
<1>5. CASE Click
  <2>1. AlwaysWakes'
    BY <1>1, <1>5, ShortSleepWakes DEF Click
  <2>2. wakeupTodo' \in [Priorities -> Todos]
    BY <1>1, <1>5 DEF Click, Todos
  <2>3. TypeOK'
    BY <1>1, <1>5, <2>2 DEF Click, ShortSleep, TypeOK, nvsVars
  <2> QED
    BY <2>1, <2>3 DEF WakeInv
<1> QED
  BY <1>2, <1>3, <1>4, <1>5

LEMMA WakeNext ==
  WakeInv /\ [Next]_vars => WakeInv'
<1> SUFFICES ASSUME WakeInv, [Next]_vars PROVE WakeInv'
  OBVIOUS
<1>1. CASE WakeTimer \/ WakeButton \/ WakeTrigger \/ PowerOn \/ Crash \/ SoftwareRestart
  BY <1>1, WakeSteps
<1>2. CASE Boot
  BY <1>2, BootSteps
<1>3. CASE Work
  BY <1>3, WorkSteps
<1>4. CASE Sleep
  <2>1. TypeOK /\ now \in Nat
    BY DEF WakeInv, TypeOK
  <2>2. PICK d \in AwakeTimes : SleepStart(now + d)
    BY <1>4 DEF Sleep
  <2>3. now + d \in Nat
    BY <2>1, PowerCycleAssumption
  <2> QED
    BY <2>1, <2>2, <2>3, SleepStartWakes DEF WakeInv
<1>5. CASE SetClock \/ SetCapture \/ SetUpload \/ Click
  BY <1>5, SettingSteps
<1>6. CASE UNCHANGED vars
  BY <1>6 DEF WakeInv, TypeOK, AlwaysWakes, vars, rtcVars, nvsVars, sleepVars
<1> QED
  BY <1>1, <1>2, <1>3, <1>4, <1>5, <1>6 DEF Next, Environment

-----------------------------------------------------------------------------
(* Every variable has its type, for all settings and lengths of time: no   *)
(* step of mode_selector takes an action from an empty queue, and no time  *)
(* sleep_start calculates lies before the clock's start.                   *)
THEOREM PowerCycleTypeCorrect ==
  Spec => []TypeOK
<1>1. WakeInv => TypeOK
  BY DEF WakeInv
<1> QED
  BY WakeInit, WakeNext, <1>1, PTL DEF Spec

(* The chip never sleeps without a timer, nor past two days: whatever the  *)
(* settings are, sleep_start finds a next wake-up and a sleep of at least  *)
(* a second for it, because the schedule run is always due within a day    *)
(* and no calculation of the others returns less than a second.            *)
THEOREM AlwaysWakesAgain ==
  Spec => []AlwaysWakes
<1>1. WakeInv => AlwaysWakes
  BY DEF WakeInv
<1> QED
  BY WakeInit, WakeNext, <1>1, PTL DEF Spec

-----------------------------------------------------------------------------
(* Positions in a period. *)

LEMMA Multiples ==
  ASSUME NEW a \in Int, NEW b \in Int, NEW c \in Nat, a <= b
  PROVE  a * c \in Int /\ b * c \in Int /\ a * c <= b * c
<1>1. (b - a) * c \in Nat
  OBVIOUS
<1>2. (b - a) * c = b * c - a * c
  OBVIOUS
<1> QED
  BY <1>1, <1>2

LEMMA OneQuotient ==
  ASSUME NEW q \in Int, NEW b \in Nat \ {0}, NEW r \in 0 .. b - 1
  PROVE  (q * b + r) \div b = q /\ (q * b + r) % b = r
<1> DEFINE a == q * b + r
           p == a \div b
<1>1. a \in Int /\ q * b \in Int
  OBVIOUS
<1>2. p \in Int /\ p * b <= a /\ a < p * b + b /\ a = p * b + (a % b) /\ a % b \in 0 .. b - 1
  BY <1>1, Divided
<1>3. a = q * b + r
  OBVIOUS
<1> HIDE DEF a, p
<1>4. p <= q
  <2> SUFFICES ASSUME q + 1 <= p PROVE FALSE
    BY <1>2
  <2>1. (q + 1) * b <= p * b
    BY <1>2, Multiples
  <2>2. (q + 1) * b = q * b + b
    OBVIOUS
  <2> QED
    BY <1>1, <1>2, <1>3, <2>1, <2>2
<1>5. q <= p
  <2> SUFFICES ASSUME p + 1 <= q PROVE FALSE
    BY <1>2
  <2>1. (p + 1) * b <= q * b /\ p * b \in Int
    BY <1>2, Multiples
  <2>2. (p + 1) * b = p * b + b
    BY <1>2
  <2> QED
    BY <1>1, <1>2, <1>3, <2>1, <2>2
<1>6. p = q
  BY <1>2, <1>4, <1>5
<1>7. a % b = r
  BY <1>1, <1>2, <1>3, <1>6
<1> QED
  BY <1>6, <1>7 DEF a, p

(* Of a series with a period, the first element that is not before t. *)
LEMMA FirstOfSeries ==
  ASSUME NEW x \in Int, NEW t \in Int, NEW period \in Nat \ {0},
         x < t + period, NEW m \in Int, t <= x + m * period
  PROVE  (IF x < t THEN x + period ELSE x) <= x + m * period
<1>1. m * period \in Int
  OBVIOUS
<1>2. CASE m <= -1
  <2>1. m * period <= (-1) * period
    BY <1>2, Multiples
  <2>2. (-1) * period = -period
    OBVIOUS
  <2> QED
    BY <1>1, <2>1, <2>2
<1>3. CASE m = 0
  BY <1>3
<1>4. CASE 1 <= m
  <2>1. 1 * period <= m * period
    BY <1>4, Multiples
  <2> QED
    BY <1>1, <2>1
<1> QED
  BY <1>2, <1>3, <1>4

(* A moment as week, day of the week and second of the day. *)
LEMMA DayAndWeek ==
  ASSUME NEW t \in Nat
  PROVE  LET w == (t \div Day) \div 7
             d == (t \div Day) % 7
             r == t % Day
         IN  /\ w \in Int /\ d \in 0 .. 6 /\ r \in 0 .. Day - 1
             /\ t \div Day = 7 * w + d
             /\ t = (7 * w + d) * Day + r
             /\ t = w * Week + d * Day + r
             /\ SinceSunday(t) = d * Day + r
             /\ SinceSunday(t) \div Day = d
<1> DEFINE k == t \div Day
           w == k \div 7
           d == k % 7
           r == t % Day
<1>1. Day \in Nat \ {0} /\ Week \in Nat \ {0} /\ Week = 7 * Day
  BY DEF Week
<1>2. k \in Int /\ r \in 0 .. Day - 1 /\ t = k * Day + r
  BY <1>1, Divided
<1> HIDE DEF k, r
<1>3. w \in Int /\ d \in 0 .. 6 /\ k = w * 7 + d
  <2>1. 7 \in Nat \ {0}
    OBVIOUS
  <2> QED
    BY <1>2, <2>1, Divided
<1> HIDE DEF w, d
<1>4. d * Day \in Int /\ w * Week \in Int /\ (7 * w + d) * Day = w * Week + d * Day
  BY <1>1, <1>3
<1>5. t = w * Week + (d * Day + r)
  BY <1>2, <1>3, <1>4
<1>6. d * Day + r \in 0 .. Week - 1
  <2>1. 0 * Day <= d * Day /\ d * Day <= 6 * Day
    BY <1>1, <1>3, Multiples
  <2> QED
    BY <1>1, <1>2, <1>4, <2>1
<1>7. t % Week = d * Day + r
  BY <1>1, <1>3, <1>5, <1>6, OneQuotient
<1>8. (d * Day + r) \div Day = d
  BY <1>1, <1>2, <1>3, OneQuotient
<1> QED
  BY <1>2, <1>3, <1>4, <1>5, <1>7, <1>8 DEF SinceSunday, k, w, d, r

-----------------------------------------------------------------------------
(* The moments a timed node asks for: those of a series. *)

NodeSeries(node, t, x, period) ==
  /\ t - period < x /\ x < t + period
  /\ DueIn(node, t) = (IF x < t THEN x + period ELSE x) - t
  /\ \A u \in Nat : AtNode(node, u) <=> \E m \in Int : u = x + m * period

LEMMA WeeklySeries ==
  ASSUME NEW node \in TimedNode, node.valid, node.day < 7, NEW t \in Nat
  PROVE  \E x \in Int : NodeSeries(node, t, x, Week)
<1> DEFINE w == (t \div Day) \div 7
           d == (t \div Day) % 7
           r == t % Day
           x == w * Week + node.day * Day + node.time
<1>1. /\ Day \in Nat \ {0} /\ Week = 7 * Day /\ Week \in Nat \ {0}
      /\ node.day \in 0 .. 6 /\ node.time \in 0 .. Day - 1
  BY DEF Week, TimedNode
<1>2. /\ w \in Int /\ d \in 0 .. 6 /\ r \in 0 .. Day - 1
      /\ t = w * Week + d * Day + r /\ SinceSunday(t) = d * Day + r
  BY DayAndWeek
<1> HIDE DEF w, d, r
<1>3. /\ d * Day \in Int /\ 0 <= d * Day /\ d * Day <= 6 * Day
      /\ node.day * Day \in Int /\ 0 <= node.day * Day /\ node.day * Day <= 6 * Day
      /\ w * Week \in Int
  <2>1. 0 * Day <= d * Day /\ d * Day <= 6 * Day
    BY <1>1, <1>2, Multiples
  <2>2. 0 * Day <= node.day * Day /\ node.day * Day <= 6 * Day
    BY <1>1, Multiples
  <2> QED
    BY <1>1, <1>2, <2>1, <2>2
<1>4. x \in Int /\ t - Week < x /\ x < t + Week
  BY <1>1, <1>2, <1>3
<1>5. DueIn(node, t) = (IF x < t THEN x + Week ELSE x) - t
  <2> DEFINE left == node.day * Day + node.time - SinceSunday(t)
  <2>1. DueIn(node, t) = IF left < 0 THEN left + Week ELSE left
    BY <1>1 DEF DueIn
  <2>2. left \in Int /\ x = t + left
    BY <1>1, <1>2, <1>3
  <2> HIDE DEF left, x
  <2> QED
    BY <1>1, <1>4, <2>1, <2>2
<1>6. ASSUME NEW u \in Nat, NEW m \in Int, u = x + m * Week
      PROVE  AtNode(node, u)
  <2> DEFINE v == w + m
             k == 7 * v + node.day
  <2>1. v \in Int /\ v * Week = w * Week + m * Week
    BY <1>1, <1>2
  <2> HIDE DEF v
  <2>2. k \in Int /\ k * Day = v * Week + node.day * Day
    BY <1>1, <2>1
  <2>3. k % 7 = node.day
    <3>1. 7 \in Nat \ {0} /\ node.day \in 0 .. 7 - 1 /\ v \in Int
      BY <1>1, <2>1
    <3>2. (v * 7 + node.day) % 7 = node.day
      BY <3>1, OneQuotient
    <3>3. k = v * 7 + node.day
      BY <3>1
    <3> QED
      BY <3>2, <3>3
  <2> HIDE DEF k
  <2>4. u = k * Day + node.time
    BY <1>1, <1>3, <1>6, <2>1, <2>2
  <2>5. u \div Day = k /\ u % Day = node.time
    BY <1>1, <2>2, <2>4, OneQuotient
  <2> QED
    BY <2>3, <2>5 DEF AtNode
<1>7. ASSUME NEW u \in Nat, AtNode(node, u)
      PROVE  \E m \in Int : u = x + m * Week
  <2> DEFINE v == (u \div Day) \div 7
  <2>1. u % Day = node.time /\ (u \div Day) % 7 = node.day
    BY <1>1, <1>7 DEF AtNode
  <2>2. v \in Int /\ u = v * Week + node.day * Day + node.time
    BY <2>1, DayAndWeek
  <2> HIDE DEF v
  <2>3. v - w \in Int /\ (v - w) * Week = v * Week - w * Week /\ v * Week \in Int
    BY <1>1, <1>2, <2>2
  <2>4. u = x + (v - w) * Week
    BY <1>1, <1>3, <2>2, <2>3
  <2> QED
    BY <2>3, <2>4
<1> HIDE DEF x
<1> QED
  BY <1>4, <1>5, <1>6, <1>7 DEF NodeSeries

LEMMA DailySeries ==
  ASSUME NEW node \in TimedNode, node.valid, ~(node.day < 7), NEW t \in Nat
  PROVE  \E x \in Int : NodeSeries(node, t, x, Day)
<1> DEFINE k == t \div Day
           d == k % 7
           r == t % Day
           x == k * Day + node.time
<1>1. Day \in Nat \ {0} /\ node.time \in 0 .. Day - 1 /\ node.day = 7
  BY DEF TimedNode
<1>2. /\ k \in Int /\ k * Day \in Int /\ r \in 0 .. Day - 1 /\ t = k * Day + r
  <2>1. t \in Int /\ Day \in Nat \ {0}
    BY <1>1
  <2>2. k \in Int /\ r \in 0 .. Day - 1 /\ t = k * Day + r
    BY <2>1, Divided
  <2> HIDE DEF k, r
  <2> QED
    BY <1>1, <2>2
<1>3. /\ d \in Int /\ d * Day \in Int
      /\ SinceSunday(t) = d * Day + r /\ SinceSunday(t) \div Day = d
  <2>1. d \in 0 .. 6 /\ SinceSunday(t) = d * Day + r /\ SinceSunday(t) \div Day = d
    BY DayAndWeek
  <2> HIDE DEF d
  <2> QED
    BY <1>1, <2>1
<1> HIDE DEF k, d, r
<1>4. x \in Int /\ t - Day < x /\ x < t + Day
  BY <1>1, <1>2
<1>5. DueIn(node, t) = (IF x < t THEN x + Day ELSE x) - t
  <2> DEFINE left == d * Day + node.time - SinceSunday(t)
  <2>1. DueIn(node, t) = IF left < 0 THEN left + Day ELSE left
    BY <1>3 DEF DueIn
  <2>2. left \in Int /\ x = t + left
    BY <1>1, <1>2, <1>3
  <2> HIDE DEF left, x
  <2> QED
    BY <1>1, <1>4, <2>1, <2>2
<1>6. ASSUME NEW u \in Nat, NEW m \in Int, u = x + m * Day
      PROVE  AtNode(node, u)
  <2>1. k + m \in Int /\ (k + m) * Day = k * Day + m * Day /\ m * Day \in Int
    BY <1>1, <1>2
  <2>2. u = (k + m) * Day + node.time
    BY <1>1, <1>2, <1>6, <2>1
  <2>3. u % Day = node.time
    BY <1>1, <2>1, <2>2, OneQuotient
  <2> QED
    BY <1>1, <2>3 DEF AtNode
<1>7. ASSUME NEW u \in Nat, AtNode(node, u)
      PROVE  \E m \in Int : u = x + m * Day
  <2> DEFINE v == u \div Day
  <2>1. u % Day = node.time
    BY <1>7 DEF AtNode
  <2>2. v \in Int /\ u = v * Day + node.time
    BY <1>1, <2>1, Divided
  <2> HIDE DEF v
  <2>3. v - k \in Int /\ (v - k) * Day = v * Day - k * Day /\ v * Day \in Int
    BY <1>1, <1>2, <2>2
  <2>4. u = x + (v - k) * Day
    BY <1>1, <1>2, <2>2, <2>3
  <2> QED
    BY <2>3, <2>4
<1> HIDE DEF x
<1> QED
  BY <1>4, <1>5, <1>6, <1>7 DEF NodeSeries

(* DueIn is the distance to the first moment the node asks for. *)
LEMMA DueInIsNext ==
  ASSUME NEW node \in TimedNode, node.valid, NEW t \in Nat
  PROVE  /\ DueIn(node, t) \in Nat
         /\ AtNode(node, t + DueIn(node, t))
         /\ \A u \in Nat : t <= u /\ AtNode(node, u) => t + DueIn(node, t) <= u
<1> DEFINE n == DueIn(node, t)
<1>1. PICK period \in Nat \ {0}, x \in Int : NodeSeries(node, t, x, period)
  <2>1. Day \in Nat \ {0} /\ Week \in Nat \ {0}
    BY DEF Week
  <2>2. CASE node.day < 7
    BY <2>1, <2>2, WeeklySeries
  <2>3. CASE ~(node.day < 7)
    BY <2>1, <2>3, DailySeries
  <2> QED
    BY <2>2, <2>3
<1>2. n \in Nat
  BY DueInRange
<1> HIDE DEF n
<1>0. /\ t - period < x /\ x < t + period
      /\ n = (IF x < t THEN x + period ELSE x) - t
      /\ \A u \in Nat : AtNode(node, u) <=> \E m \in Int : u = x + m * period
  BY <1>1 DEF NodeSeries, n
<1>3. t + n = x + 0 * period \/ t + n = x + 1 * period
  BY <1>0
<1>4. t + n \in Nat /\ 0 \in Int /\ 1 \in Int
  BY <1>2
<1>5. AtNode(node, t + n)
  BY <1>0, <1>3, <1>4
<1>6. ASSUME NEW u \in Nat, t <= u, AtNode(node, u)
      PROVE  t + n <= u
  <2>1. PICK m \in Int : u = x + m * period
    BY <1>0, <1>6
  <2>2. (IF x < t THEN x + period ELSE x) <= x + m * period
    BY <1>0, <1>6, <2>1, FirstOfSeries
  <2> QED
    BY <1>0, <2>1, <2>2
<1> QED
  BY <1>2, <1>5, <1>6 DEF n

SomeTimeValid(nodes) == \E i \in DOMAIN nodes : nodes[i].valid

(* find_most_recent_time_interval passes over no moment of the list, and   *)
(* stops at one, unless the list asks for this very second.                *)
LEMMA TimedIsNext ==
  ASSUME NEW nodes \in Seq(TimedNode), NEW t \in Nat
  PROVE  LET wait == FindMostRecentTimeInterval(nodes, t)
         IN  /\ \A u \in Nat : ~AtAnyNode(nodes, t) /\ t < u /\ AtAnyNode(nodes, u)
                  => wait \in Nat \ {0} /\ t + wait <= u
             /\ SomeTimeValid(nodes) => AtAnyNode(nodes, t) \/ AtAnyNode(nodes, t + wait)
<1> DEFINE wait == FindMostRecentTimeInterval(nodes, t)
           S == {DueIn(nodes[i], t) : i \in Counted(nodes, t)}
<1>1. ASSUME NEW i \in DOMAIN nodes, nodes[i].valid
      PROVE  /\ DueIn(nodes[i], t) \in Nat
             /\ AtNode(nodes[i], t + DueIn(nodes[i], t))
             /\ \A u \in Nat : t <= u /\ AtNode(nodes[i], u) => t + DueIn(nodes[i], t) <= u
             /\ DueIn(nodes[i], t) = 0 => AtAnyNode(nodes, t)
  <2>1. nodes[i] \in TimedNode
    OBVIOUS
  <2>2. /\ DueIn(nodes[i], t) \in Nat
        /\ AtNode(nodes[i], t + DueIn(nodes[i], t))
        /\ \A u \in Nat : t <= u /\ AtNode(nodes[i], u) => t + DueIn(nodes[i], t) <= u
    BY <1>1, <2>1, DueInIsNext
  <2>3. DueIn(nodes[i], t) = 0 => AtAnyNode(nodes, t)
    BY <2>2 DEF AtAnyNode
  <2> QED
    BY <2>2, <2>3
<1>2. \A i \in Counted(nodes, t) : i \in DOMAIN nodes /\ nodes[i].valid /\ DueIn(nodes[i], t) > 0
  BY DEF Counted
<1>3. S \in SUBSET Nat /\ 0 \notin S
  BY <1>1, <1>2
<1>4. Counted(nodes, t) # {} => /\ wait = Min(S) /\ Min(S) \in S
                                /\ \A k \in S : Min(S) <= k
  <2> SUFFICES ASSUME Counted(nodes, t) # {}
               PROVE  /\ wait = Min(S) /\ Min(S) \in S
                      /\ \A k \in S : Min(S) <= k
    OBVIOUS
  <2>1. nodes # <<>>
    BY <1>2
  <2>2. wait = Min(S)
    BY <2>1 DEF FindMostRecentTimeInterval
  <2>3. S # {}
    OBVIOUS
  <2> HIDE DEF S
  <2> QED
    BY <1>3, <2>2, <2>3, LeastNatural
<1> HIDE DEF wait
<1>5. ASSUME NEW u \in Nat, ~AtAnyNode(nodes, t), t < u, AtAnyNode(nodes, u)
      PROVE  wait \in Nat \ {0} /\ t + wait <= u
  <2>1. PICK i \in DOMAIN nodes : AtNode(nodes[i], u)
    BY <1>5 DEF AtAnyNode
  <2>2. nodes[i].valid
    BY <2>1 DEF AtNode
  <2>3. i \in Counted(nodes, t)
    <3>1. ASSUME NEW j \in DOMAIN nodes, nodes[j].valid PROVE DueIn(nodes[j], t) > 0
      <4>1. DueIn(nodes[j], t) \in Nat /\ DueIn(nodes[j], t) # 0
        BY <1>1, <1>5, <3>1
      <4> QED
        BY <4>1
    <3> QED
      BY <2>2, <3>1 DEF Counted
  <2>4. DueIn(nodes[i], t) \in S
    BY <2>3
  <2>5. t + DueIn(nodes[i], t) <= u /\ DueIn(nodes[i], t) \in Nat
    BY <1>1, <1>5, <2>1, <2>2
  <2>6. wait \in S /\ wait <= DueIn(nodes[i], t)
    BY <1>4, <2>3, <2>4
  <2> HIDE DEF S
  <2> QED
    BY <1>3, <2>5, <2>6
<1>6. ASSUME SomeTimeValid(nodes)
      PROVE  AtAnyNode(nodes, t) \/ AtAnyNode(nodes, t + wait)
  <2>1. PICK i \in DOMAIN nodes : nodes[i].valid
    BY <1>6 DEF SomeTimeValid
  <2>2. CASE i \in Counted(nodes, t)
    <3>1. wait \in S
      BY <1>4, <2>2
    <3>2. PICK j \in Counted(nodes, t) : wait = DueIn(nodes[j], t)
      BY <3>1
    <3>3. AtNode(nodes[j], t + wait) /\ j \in DOMAIN nodes
      BY <1>1, <1>2, <3>2
    <3> QED
      BY <3>3 DEF AtAnyNode
  <2>3. CASE i \notin Counted(nodes, t)
    <3>1. PICK j \in DOMAIN nodes : nodes[j].valid /\ ~(DueIn(nodes[j], t) > 0)
      BY <2>1, <2>3 DEF Counted
    <3>2. DueIn(nodes[j], t) = 0
      <4>1. DueIn(nodes[j], t) \in Nat
        BY <1>1, <3>1
      <4> QED
        BY <3>1, <4>1
    <3> QED
      BY <1>1, <3>1, <3>2
  <2> QED
    BY <2>2, <2>3
<1> QED
  BY <1>5, <1>6 DEF wait

-----------------------------------------------------------------------------
(* The moments an interval asks for. *)

(* The days series: the anchors that lie a multiple of so many days after  *)
(* the latest anchor not after the last capture.                           *)
LEMMA DaysSlots ==
  ASSUME NEW b \in Int, lastCapTime \in Nat \ {0}, capture.intervalUnit = 2,
         capture.anchor \in 0 .. Day - 1, capture.intervalValue \in Nat \ {0},
         Interval > 0,
         b * Day + capture.anchor <= lastCapTime,
         lastCapTime < b * Day + capture.anchor + Day,
         NEW u \in Int
  PROVE  AtInterval(u) <=>
           \E m \in Nat \ {0} :
             u = b * Day + capture.anchor + m * (capture.intervalValue * Day)
<1> DEFINE anchor == capture.anchor
           days == capture.intervalValue
           base == b * Day + anchor
<1>0. /\ Day \in Nat \ {0} /\ anchor \in 0 .. Day - 1 /\ days \in Nat \ {0}
      /\ b * Day \in Int /\ base \in Int
      /\ base <= lastCapTime /\ lastCapTime < base + Day /\ lastCapTime \in Nat \ {0}
  OBVIOUS
<1>1. AtInterval(u) <=> /\ u % Day = anchor /\ u > lastCapTime
                        /\ DaysSince(lastCapTime, u) % days = 0
  BY DEF AtInterval, NoAnchor
<1>2. base = b * Day + anchor
  OBVIOUS
<1> HIDE DEF anchor, days, base
(* An anchor after the last capture, and the number of days it is after. *)
<1>3. ASSUME NEW k \in Int, u = base + k * Day
      PROVE  /\ u % Day = anchor
             /\ u > lastCapTime <=> k >= 1
             /\ DaysSince(lastCapTime, u) = k
  <2>1. k * Day \in Int /\ (b + k) * Day = b * Day + k * Day /\ b + k \in Int
    BY <1>0
  <2>2. u = (b + k) * Day + anchor
    BY <1>0, <1>2, <1>3, <2>1
  <2>3. u % Day = anchor
    BY <1>0, <2>1, <2>2, OneQuotient
  <2>4. k >= 1 => k * Day >= Day
    <3> SUFFICES ASSUME 1 <= k PROVE k * Day >= Day
      BY <1>0
    <3>1. 1 * Day <= k * Day
      BY <1>0, Multiples
    <3> QED
      BY <1>0, <3>1
  <2>5. k <= 0 => k * Day <= 0
    <3> SUFFICES ASSUME k <= 0 PROVE k * Day <= 0
      OBVIOUS
    <3>1. k * Day <= 0 * Day
      BY <1>0, Multiples
    <3> QED
      BY <1>0, <3>1
  <2>6. u > lastCapTime <=> k >= 1
    BY <1>0, <1>3, <2>1, <2>4, <2>5
  <2> DEFINE rest == base - lastCapTime + Day - 1
  <2>7. rest \in 0 .. Day - 1 /\ u - lastCapTime + Day - 1 = k * Day + rest
    BY <1>0, <1>3, <2>1
  <2> HIDE DEF rest
  <2>8. DaysSince(lastCapTime, u) = k
    BY <1>0, <2>7, OneQuotient DEF DaysSince
  <2> QED
    BY <2>3, <2>6, <2>8
<1>4. ASSUME NEW m \in Nat \ {0}, u = base + m * (days * Day)
      PROVE  AtInterval(u)
  <2> DEFINE k == m * days
  <2>1. k \in Nat \ {0} /\ k * Day = m * (days * Day)
    BY <1>0
  <2>2. k % days = 0
    <3>1. 0 \in 0 .. days - 1 /\ m \in Int
      BY <1>0
    <3>2. (m * days + 0) % days = 0
      BY <1>0, <3>1, OneQuotient
    <3>3. m * days + 0 = k
      BY <1>0
    <3> QED
      BY <3>2, <3>3
  <2> HIDE DEF k
  <2>3. k \in Int /\ k >= 1 /\ u = base + k * Day
    BY <1>4, <2>1
  <2> QED
    BY <1>1, <1>3, <2>2, <2>3
<1>5. ASSUME AtInterval(u)
      PROVE  \E m \in Nat \ {0} : u = base + m * (days * Day)
  <2> DEFINE v == u \div Day
             k == v - b
             m == k \div days
  <2>1. v \in Int /\ u = v * Day + anchor
    BY <1>0, <1>1, <1>5, Divided
  <2> HIDE DEF v
  <2>2. k \in Int /\ k * Day = v * Day - b * Day /\ v * Day \in Int
    BY <1>0, <2>1
  <2>3. u = base + k * Day
    BY <1>0, <1>2, <2>1, <2>2
  <2> HIDE DEF k
  <2>4. k >= 1 /\ k % days = 0
    BY <1>1, <1>3, <1>5, <2>2, <2>3
  <2>5. m \in Int /\ k = m * days
    <3>1. m \in Int /\ k = m * days + (k % days)
      BY <1>0, <2>2, Divided
    <3> HIDE DEF m
    <3> QED
      BY <1>0, <2>4, <3>1
  <2> HIDE DEF m
  <2>6. m >= 1
    <3> SUFFICES ASSUME m <= 0 PROVE FALSE
      BY <2>5
    <3>1. m * days <= 0 * days
      BY <1>0, <2>5, Multiples
    <3> QED
      BY <1>0, <2>4, <2>5, <3>1
  <2>7. k * Day = m * (days * Day)
    BY <1>0, <2>5
  <2> QED
    BY <2>3, <2>5, <2>6, <2>7
<1> QED
  BY <1>4, <1>5 DEF base, anchor, days

(* The next of a series of moments comes before any other after t, and the *)
(* one before it is not after t.                                           *)
SeriesAround(base, step, t, next, prev) ==
  /\ next > t /\ prev <= t
  /\ \E n \in Nat \ {0} : next = base + n * step
  /\ \E n \in Int : prev = base + n * step
  /\ \A m \in Nat \ {0} : base + m * step > t => next <= base + m * step

LEMMA AroundNow ==
  ASSUME NEW base \in Int, NEW step \in Nat \ {0}, NEW t \in Nat,
         NEW next, next = base + step * (1 + Max({0, t - base}) \div step)
  PROVE  SeriesAround(base, step, t, next, next - step * ((next - t + step - 1) \div step))
<1> DEFINE g == Max({0, t - base})
           q == g \div step
           n == 1 + q
           c == (next - t + step - 1) \div step
<1>0. next = base + step * n
  OBVIOUS
<1>1. g \in Nat /\ g >= t - base /\ (g = 0 \/ g = t - base)
  <2>1. 0 \in Int /\ t - base \in Int
    OBVIOUS
  <2>2. g \in Int /\ g >= 0 /\ g >= t - base
    BY <2>1, GreaterOfTwo
  <2>3. g = 0 \/ g = t - base
    <3>1. \E x \in {0, t - base} : \A y \in {0, t - base} : x >= y
      <4>1. CASE t - base >= 0
        BY <2>1, <4>1
      <4>2. CASE ~(t - base >= 0)
        BY <2>1, <4>2
      <4> QED
        BY <4>1, <4>2
    <3>2. g \in {0, t - base}
      BY <3>1 DEF Max
    <3> QED
      BY <3>2
  <2> HIDE DEF g
  <2> QED
    BY <2>2, <2>3
<1> HIDE DEF g
<1>2. q \in Int /\ q * step <= g /\ g < q * step + step
  BY <1>1, Divided
<1>3. q >= 0
  <2>1. 0 \div step <= q
    BY <1>1, DividedInOrder
  <2>2. 0 \div step = 0
    OBVIOUS
  <2> QED
    BY <1>2, <2>1, <2>2
<1> HIDE DEF q
<1>4. n \in Nat \ {0} /\ q * step \in Int /\ step * n = q * step + step /\ n * step = step * n
  BY <1>2, <1>3
<1>5. next \in Int /\ next > t /\ next = base + n * step
  BY <1>0, <1>1, <1>2, <1>4
<1>6. ASSUME NEW m \in Nat \ {0}, base + m * step > t
      PROVE  next <= base + m * step
  <2>1. m * step \in Int
    OBVIOUS
  <2>2. n <= m
    <3> SUFFICES ASSUME m <= q PROVE FALSE
      BY <1>2
    <3>1. m * step <= q * step
      BY <1>2, Multiples
    <3>2. m * step <= g
      BY <1>1, <1>2, <1>4, <2>1, <3>1
    <3>3. CASE g = 0
      <4>1. 1 * step <= m * step
        BY Multiples
      <4> QED
        BY <2>1, <3>2, <3>3, <4>1
    <3>4. CASE g = t - base
      BY <1>6, <2>1, <3>2, <3>4
    <3> QED
      BY <1>1, <3>3, <3>4
  <2>3. n * step <= m * step
    BY <1>4, <2>2, Multiples
  <2> QED
    BY <1>4, <1>5, <2>1, <2>3
<1> HIDE DEF n
<1>7. c \in Int /\ next - t + step - 1 < c * step + step
  <2>1. next - t + step - 1 \in Int
    BY <1>5
  <2> QED
    BY <2>1, Divided
<1> HIDE DEF c
<1>8. /\ n - c \in Int /\ step * c = c * step /\ c * step \in Int
      /\ (n - c) * step = n * step - c * step /\ n * step \in Int
  BY <1>4, <1>7
<1>9. next - step * c = base + (n - c) * step /\ next - step * c <= t
  BY <1>5, <1>7, <1>8
<1>10. SeriesAround(base, step, t, next, next - step * c)
  BY <1>4, <1>5, <1>6, <1>8, <1>9 DEF SeriesAround
<1> QED
  BY <1>10 DEF c

(* The anchor of the day of t, and the latest anchor not after t. *)
LEMMA AnchorOfDay ==
  ASSUME NEW t \in Nat, NEW anchor \in 0 .. Day - 1
  PROVE  /\ t \div Day \in Int
         /\ AnchorToday(t, anchor) = (t \div Day) * Day + anchor
         /\ AnchorToday(t, anchor) - Day = (t \div Day - 1) * Day + anchor
<1> DEFINE k == t \div Day
           r == t % Day
<1>1. t \in Int /\ Day \in Nat \ {0}
  OBVIOUS
<1>2. k \in Int /\ r \in 0 .. Day - 1 /\ t = k * Day + r
  BY <1>1, Divided
<1>3. AnchorToday(t, anchor) = (t - r) + anchor
  BY DEF AnchorToday
<1> HIDE DEF k, r
<1>4. k * Day \in Int /\ (k - 1) * Day = k * Day - Day
  BY <1>1, <1>2
<1>5. /\ AnchorToday(t, anchor) = k * Day + anchor
      /\ AnchorToday(t, anchor) - Day = (k - 1) * Day + anchor
  BY <1>1, <1>2, <1>3, <1>4
<1> QED
  BY <1>2, <1>5 DEF k

(* From one interval to the next: with w seconds to wait at time t, no      *)
(* moment after t is passed over, and if the last capture is not after t    *)
(* there is a moment after it to be captured at t + w.                      *)
NextInterval(t, w) ==
  /\ w \in Nat \ {0}
  /\ \A u \in Nat : t < u /\ AtInterval(u) => t + w <= u
  /\ lastCapTime <= t =>
       \/ \E u \in Nat : lastCapTime < u /\ u <= t + w /\ AtInterval(u)
       \/ capture.anchor = NoAnchor /\ lastCapTime = 0

LEMMA FirstDayIsNext ==
  ASSUME lastCapTime = 0, capture.intervalUnit = 2,
         capture.anchor \in 0 .. Day - 1, capture.intervalValue \in Nat \ {0},
         Interval > 0, NEW t \in Nat
  PROVE  NextInterval(t, DaysWakeup(capture.intervalValue, capture.anchor, lastCapTime, t))
<1> DEFINE anchor == capture.anchor
           today == AnchorToday(t, anchor)
           k == t \div Day
           wait == IF t < today THEN today - t ELSE today + Day - t
<1>1. DaysWakeup(capture.intervalValue, anchor, lastCapTime, t) = wait
  BY DEF DaysWakeup
<1>2. \A u : AtInterval(u) <=> u % Day = anchor
  BY DEF AtInterval, NoAnchor
<1>3. /\ Day \in Nat \ {0} /\ anchor \in 0 .. Day - 1
      /\ today \in Int /\ today - Day < t /\ t < today + Day
      /\ k \in Int /\ today = k * Day + anchor
  <2>1. anchor \in 0 .. Day - 1
    OBVIOUS
  <2> HIDE DEF anchor
  <2>2. /\ today \in Int /\ today - Day < t /\ t < today + Day
    BY <2>1, AnchorIsNear
  <2>3. k \in Int /\ today = k * Day + anchor
    BY <2>1, AnchorOfDay
  <2> QED
    BY <2>1, <2>2, <2>3
<1> HIDE DEF anchor, today, k
<1>4. wait \in Nat \ {0}
  BY <1>3
<1>5. k * Day \in Int /\ (k + 1) * Day = k * Day + Day
  BY <1>3
<1>6. (t + wait) % Day = anchor
  <2>1. t + wait = k * Day + anchor \/ t + wait = (k + 1) * Day + anchor
    BY <1>3, <1>5
  <2>2. (k * Day + anchor) % Day = anchor
    BY <1>3, OneQuotient
  <2>3. k + 1 \in Int
    BY <1>3
  <2>4. ((k + 1) * Day + anchor) % Day = anchor
    BY <1>3, <2>3, OneQuotient
  <2> QED
    BY <2>1, <2>2, <2>4
<1>7. ASSUME NEW u \in Nat, t < u, u % Day = anchor
      PROVE  t + wait <= u
  <2> DEFINE v == u \div Day
  <2>1. v \in Int /\ u = v * Day + anchor
    BY <1>3, <1>7, Divided
  <2> HIDE DEF v
  <2>2. v - k \in Int /\ (v - k) * Day = v * Day - k * Day /\ v * Day \in Int
    BY <1>3, <2>1
  <2>3. u = today + (v - k) * Day
    BY <1>3, <1>5, <2>1, <2>2
  <2>4. t + 1 \in Int /\ today < t + 1 + Day /\ t + 1 <= today + (v - k) * Day
    BY <1>3, <1>7, <2>3
  <2>5. (IF today < t + 1 THEN today + Day ELSE today) <= today + (v - k) * Day
    BY <1>3, <2>2, <2>4, FirstOfSeries
  <2> QED
    BY <1>3, <2>3, <2>5
<1>8. lastCapTime < t + wait /\ t + wait \in Nat
  BY <1>4
<1> HIDE DEF wait
<1>9. AtInterval(t + wait)
  BY <1>2, <1>6
<1>10. \A u \in Nat : t < u /\ AtInterval(u) => t + wait <= u
  BY <1>2, <1>7
<1>11. \E u \in Nat : lastCapTime < u /\ u <= t + wait /\ AtInterval(u)
  BY <1>8, <1>9
<1>12. NextInterval(t, wait)
  BY <1>4, <1>10, <1>11 DEF NextInterval
<1> QED
  BY <1>1, <1>12 DEF anchor

LEMMA LaterDayIsNext ==
  ASSUME lastCapTime \in Nat \ {0}, capture.intervalUnit = 2,
         capture.anchor \in 0 .. Day - 1, capture.intervalValue \in Nat \ {0},
         Interval > 0, NEW t \in Nat
  PROVE  NextInterval(t, DaysWakeup(capture.intervalValue, capture.anchor, lastCapTime, t))
<1> DEFINE anchor == capture.anchor
           days   == capture.intervalValue
           capDay == AnchorToday(lastCapTime, anchor)
           base   == IF lastCapTime < capDay THEN capDay - Day ELSE capDay
           step   == days * Day
           next   == base + step * (1 + Max({0, t - base}) \div step)
           prev   == next - step * ((next - t + step - 1) \div step)
           wait   == IF prev > 0 /\ lastCapTime < prev THEN 1 ELSE next - t
<1>1. DaysWakeup(days, anchor, lastCapTime, t) = wait
  BY DEF DaysWakeup
<1>2. Day \in Nat \ {0} /\ anchor \in 0 .. Day - 1 /\ days \in Nat \ {0}
  OBVIOUS
<1>3. \E b \in Int : /\ base = b * Day + anchor
                     /\ base \in Int /\ base <= lastCapTime /\ lastCapTime < base + Day
  <2> DEFINE k == lastCapTime \div Day
  <2>1. /\ capDay \in Int /\ capDay - Day < lastCapTime /\ lastCapTime < capDay + Day
        /\ k \in Int /\ capDay = k * Day + anchor /\ capDay - Day = (k - 1) * Day + anchor
    BY AnchorIsNear, AnchorOfDay
  <2> HIDE DEF k, capDay, anchor
  <2>2. CASE lastCapTime < capDay
    <3>1. base = capDay - Day
      BY <2>2
    <3> HIDE DEF base
    <3>2. k - 1 \in Int /\ base = (k - 1) * Day + anchor
      BY <2>1, <3>1
    <3>3. base \in Int /\ base <= lastCapTime /\ lastCapTime < base + Day
      BY <1>2, <2>1, <2>2, <3>1
    <3> QED
      BY <3>2, <3>3
  <2>3. CASE ~(lastCapTime < capDay)
    <3>1. base = capDay
      BY <2>3
    <3> HIDE DEF base
    <3>2. base \in Int /\ base <= lastCapTime /\ lastCapTime < base + Day
      BY <1>2, <2>1, <2>3, <3>1
    <3> QED
      BY <2>1, <3>1, <3>2
  <2> QED
    BY <2>2, <2>3
<1>4. step \in Nat \ {0}
  BY <1>2
<1> HIDE DEF base
<1>5. ASSUME NEW u \in Int
      PROVE  AtInterval(u) <=> \E m \in Nat \ {0} : u = base + m * step
  <2>1. PICK b \in Int : /\ base = b * Day + anchor
                         /\ base <= lastCapTime /\ lastCapTime < base + Day
    BY <1>3
  <2> QED
    BY <2>1, DaysSlots
<1> HIDE DEF anchor, days, step
<1>6. SeriesAround(base, step, t, next, prev)
  <2>1. base \in Int
    BY <1>3
  <2> QED
    BY <1>4, <2>1, AroundNow
<1> HIDE DEF next, prev
<1>7. PICK n \in Nat \ {0}, p \in Int :
        /\ next = base + n * step /\ next > t /\ n * step \in Int /\ next \in Int
        /\ prev = base + p * step /\ prev <= t /\ p * step \in Int /\ prev \in Int
        /\ \A m \in Nat \ {0} : base + m * step > t => next <= base + m * step
  <2>1. PICK n \in Nat \ {0}, p \in Int : next = base + n * step /\ prev = base + p * step
    BY <1>6 DEF SeriesAround
  <2>2. n * step \in Int /\ p * step \in Int /\ base \in Int
    BY <1>3, <1>4
  <2>3. next \in Int /\ prev \in Int
    BY <2>1, <2>2
  <2> QED
    BY <1>6, <2>1, <2>2, <2>3 DEF SeriesAround
<1>8. wait \in Nat \ {0}
  BY <1>7
<1>9. ASSUME NEW u \in Nat, t < u, AtInterval(u)
      PROVE  t + wait <= u
  <2>1. PICK m \in Nat \ {0} : u = base + m * step
    BY <1>5, <1>9
  <2>2. next <= u
    BY <1>7, <1>9, <2>1
  <2> QED
    BY <1>7, <1>9, <2>2
<1>10. \E u \in Nat : lastCapTime < u /\ u <= t + wait /\ AtInterval(u)
  <2>1. CASE prev > 0 /\ lastCapTime < prev
    <3>1. p >= 1
      <4> SUFFICES ASSUME p <= 0 PROVE FALSE
        OBVIOUS
      <4>1. p * step <= 0 * step
        BY <1>4, Multiples
      <4> QED
        BY <1>3, <1>4, <1>7, <2>1, <4>1
    <3>2. p \in Nat \ {0}
      BY <3>1
    <3>3. AtInterval(prev)
      BY <1>5, <1>7, <3>2
    <3>4. prev \in Nat /\ lastCapTime < prev /\ prev <= t + wait
      BY <1>7, <2>1
    <3> QED
      BY <3>3, <3>4
  <2>2. CASE ~(prev > 0 /\ lastCapTime < prev)
    <3>1. AtInterval(next)
      BY <1>5, <1>7
    <3>2. 1 * step <= n * step /\ n * step \in Int
      BY <1>4, <1>7, Multiples
    <3>3. step >= Day
      <4>1. 1 * Day <= days * Day
        BY <1>2, Multiples
      <4> QED
        BY <1>2, <4>1 DEF step
    <3>4. lastCapTime < next
      BY <1>2, <1>3, <1>4, <1>7, <3>2, <3>3
    <3>5. next \in Nat /\ next <= t + wait
      BY <1>7, <2>2
    <3> QED
      BY <3>1, <3>4, <3>5
  <2> QED
    BY <2>1, <2>2
<1> HIDE DEF wait
<1> QED
  BY <1>1, <1>8, <1>9, <1>10 DEF NextInterval, anchor, days

(* Without an anchor: the only moment is an interval after the last capture. *)
LEMMA LegacyIsNext ==
  ASSUME lastCapTime \in Nat, capture.anchor = NoAnchor, Interval \in Nat \ {0}, NEW t \in Nat
  PROVE  NextInterval(t, LegacyWakeup(Interval, lastCapTime, t))
<1> DEFINE wait == LegacyWakeup(Interval, lastCapTime, t)
<1>1. \A u : AtInterval(u) <=> lastCapTime > 0 /\ u = lastCapTime + Interval
  BY DEF AtInterval
<1>2. wait = IF lastCapTime = 0 THEN Interval
             ELSE IF t >= lastCapTime + Interval THEN 1
             ELSE lastCapTime + Interval - t
  BY DEF LegacyWakeup
<1> HIDE DEF wait
<1>3. wait \in Nat \ {0}
  BY <1>2
<1>4. ASSUME NEW u \in Nat, t < u, AtInterval(u) PROVE t + wait <= u
  BY <1>1, <1>2, <1>4
<1>5. \/ \E u \in Nat : lastCapTime < u /\ u <= t + wait /\ AtInterval(u)
      \/ capture.anchor = NoAnchor /\ lastCapTime = 0
  <2> SUFFICES ASSUME lastCapTime > 0
               PROVE  \E u \in Nat : lastCapTime < u /\ u <= t + wait /\ AtInterval(u)
    OBVIOUS
  <2> DEFINE u == lastCapTime + Interval
  <2>1. u \in Nat /\ lastCapTime < u /\ u <= t + wait
    BY <1>2
  <2>2. AtInterval(u)
    BY <1>1
  <2> QED
    BY <2>1, <2>2
<1> QED
  BY <1>3, <1>4, <1>5 DEF NextInterval, wait

(* The grid of minutes or hours starts afresh at the anchor of every day. *)
LEMMA GridSlots ==
  ASSUME NEW k \in Int, Interval \in Nat \ {0}, capture.intervalUnit # 2,
         capture.anchor \in 0 .. Day - 1,
         NEW r \in 0 .. Day
  PROVE  AtInterval(k * Day + capture.anchor + r) <=> r = Day \/ r % Interval = 0
<1> DEFINE anchor == capture.anchor
           u == k * Day + anchor + r
<1>1. Day \in Nat \ {0} /\ anchor \in 0 .. Day - 1 /\ k * Day \in Int /\ r \in Int
  OBVIOUS
<1>2. AtInterval(u) <=> ((u - anchor) % Day) % Interval = 0
  BY DEF AtInterval, NoAnchor
<1> HIDE DEF anchor
<1>3. u - anchor = k * Day + r
  BY <1>1
<1>4. CASE r = Day
  <2>1. k + 1 \in Int /\ 0 \in 0 .. Day - 1 /\ k * Day + r = (k + 1) * Day + 0
    BY <1>1, <1>4
  <2>2. ((k + 1) * Day + 0) % Day = 0
    BY <1>1, <2>1, OneQuotient
  <2>3. (u - anchor) % Day = 0
    BY <1>3, <2>1, <2>2
  <2>4. 0 % Interval = 0
    OBVIOUS
  <2> QED
    BY <1>2, <1>4, <2>3, <2>4 DEF anchor
<1>5. CASE r # Day
  <2>1. r \in 0 .. Day - 1
    BY <1>1, <1>5
  <2>2. (k * Day + r) % Day = r
    BY <1>1, <2>1, OneQuotient
  <2>3. (u - anchor) % Day = r
    BY <1>3, <2>2
  <2> QED
    BY <1>2, <1>5, <2>3 DEF anchor
<1> QED
  BY <1>4, <1>5

LEMMA GridIsNext ==
  ASSUME lastCapTime \in Nat, Interval \in Nat \ {0}, capture.intervalUnit # 2,
         capture.anchor \in 0 .. Day - 1, NEW t \in Nat
  PROVE  NextInterval(t, GridWakeup(Interval, capture.anchor, lastCapTime, t))
<1> DEFINE anchor == capture.anchor
           I     == Interval
           today == AnchorToday(t, anchor)
           start == IF t >= today THEN today ELSE today - Day
           gone  == t - start
           q     == gone \div I
           done  == q * I
           S     == {start + done + I, start + Day}
           wait  == IF lastCapTime > 0 /\ start + done > 0 /\ lastCapTime < start + done
                    THEN 1 ELSE Min(S) - t
<1>1. GridWakeup(I, anchor, lastCapTime, t) = wait
  BY DEF GridWakeup
<1>2. Day \in Nat \ {0} /\ I \in Nat \ {0} /\ anchor \in 0 .. Day - 1
  OBVIOUS
<1>3. \E k \in Int : start = k * Day + anchor /\ start \in Int /\ start <= t /\ t < start + Day
  <2> DEFINE k == t \div Day
  <2>1. /\ today \in Int /\ today - Day < t /\ t < today + Day
        /\ k \in Int /\ today = k * Day + anchor /\ today - Day = (k - 1) * Day + anchor
    BY AnchorIsNear, AnchorOfDay
  <2> HIDE DEF k, today, anchor
  <2>2. CASE t >= today
    <3>1. start = today
      BY <2>2
    <3> HIDE DEF start
    <3> QED
      BY <2>1, <2>2, <3>1
  <2>3. CASE ~(t >= today)
    <3>1. start = today - Day
      BY <2>3
    <3> HIDE DEF start
    <3>2. k - 1 \in Int /\ start = (k - 1) * Day + anchor
      BY <2>1, <3>1
    <3>3. start \in Int /\ start <= t /\ t < start + Day
      BY <1>2, <2>1, <2>3, <3>1
    <3> QED
      BY <3>2, <3>3
  <2> QED
    BY <2>2, <2>3
<1> HIDE DEF start
<1>4. ASSUME NEW r \in 0 .. Day
      PROVE  AtInterval(start + r) <=> r = Day \/ r % I = 0
  <2>1. PICK k \in Int : start = k * Day + anchor
    BY <1>3
  <2> QED
    BY <2>1, GridSlots
<1> HIDE DEF anchor, I
<1>5. gone \in 0 .. Day - 1 /\ t = start + gone
  BY <1>2, <1>3
<1> HIDE DEF gone
<1>6. /\ q \in Int /\ q * I \in Int /\ q * I <= gone /\ gone < q * I + I
      /\ (q + 1) * I = q * I + I /\ q >= 0
  <2>1. gone \in Int /\ 0 \in Int /\ 0 <= gone
    BY <1>5
  <2>2. q \in Int /\ q * I <= gone /\ gone < q * I + I
    BY <1>2, <2>1, Divided
  <2>3. 0 \div I <= q /\ 0 \div I = 0
    BY <1>2, <2>1, DividedInOrder
  <2> HIDE DEF q
  <2> QED
    BY <1>2, <2>2, <2>3
<1> HIDE DEF q
<1>7. ASSUME NEW m \in Int PROVE (m * I) % I = 0 /\ m * I \in Int
  <2>1. 0 \in 0 .. I - 1 /\ (m * I + 0) % I = 0
    BY <1>2, OneQuotient
  <2>2. m * I \in Int /\ m * I + 0 = m * I
    BY <1>2
  <2> QED
    BY <2>1, <2>2
<1>8. done \in 0 .. Day - 1 /\ done % I = 0 /\ done <= gone /\ gone < done + I /\ (done + I) % I = 0
  <2>1. 0 * I <= q * I /\ 0 * I = 0
    BY <1>2, <1>6, Multiples
  <2>2. q + 1 \in Int /\ (q * I) % I = 0 /\ ((q + 1) * I) % I = 0
    BY <1>6, <1>7
  <2> QED
    BY <1>5, <1>6, <2>1, <2>2
<1> HIDE DEF done
<1>9. /\ Min(S) \in {start + done + I, start + Day}
      /\ Min(S) <= start + done + I /\ Min(S) <= start + Day
  <2>1. start + done + I \in Nat /\ start + Day \in Nat
    BY <1>2, <1>3, <1>5, <1>8
  <2>2. S \in SUBSET Nat /\ S # {}
    BY <2>1
  <2>3. Min(S) \in S /\ \A k \in S : Min(S) <= k
    <3> HIDE DEF S
    <3> QED
      BY <2>2, LeastNatural
  <2> QED
    BY <2>3
<1> DEFINE next == Min(S)
<1> HIDE DEF S, next
<1>10. next \in Nat /\ next > t
  BY <1>2, <1>3, <1>5, <1>8, <1>9 DEF next
<1>11. wait \in Nat \ {0}
  BY <1>10 DEF next
<1>12. ASSUME NEW u \in Nat, t < u, AtInterval(u) PROVE t + wait <= u
  <2>1. next <= u
    <3>1. CASE u >= start + Day
      BY <1>2, <1>3, <1>9, <1>10, <3>1 DEF next
    <3>2. CASE u < start + Day
      <4> DEFINE r == u - start
                 m == r \div I
      <4>1. r \in 0 .. Day - 1 /\ u = start + r /\ r > gone
        BY <1>2, <1>3, <1>5, <1>12, <3>2
      <4> HIDE DEF r
      <4>2. r \in 0 .. Day /\ r # Day
        BY <1>2, <4>1
      <4>3. r % I = 0
        BY <1>4, <1>12, <4>1, <4>2
      <4>4. m \in Int /\ r = m * I
        <5>1. r \in Int
          BY <4>1
        <5>2. m \in Int /\ r = m * I + (r % I)
          BY <1>2, <5>1, Divided
        <5>3. m * I \in Int
          BY <1>7, <5>2
        <5> HIDE DEF m
        <5> QED
          BY <4>3, <5>2, <5>3
      <4> HIDE DEF m
      <4>5. q + 1 <= m
        <5> SUFFICES ASSUME m <= q PROVE FALSE
          BY <1>6, <4>4
        <5>1. m * I <= q * I
          BY <1>2, <1>6, <4>4, Multiples
        <5> QED
          BY <1>5, <1>6, <4>1, <4>4, <5>1
      <4>6. (q + 1) * I <= m * I
        <5>1. q + 1 \in Int
          BY <1>6
        <5> QED
          BY <1>2, <4>4, <4>5, <5>1, Multiples
      <4>7. done + I <= r
        BY <1>6, <4>4, <4>6 DEF done
      <4> QED
        BY <1>2, <1>3, <1>8, <1>9, <1>10, <4>1, <4>7 DEF next
    <3> QED
      BY <1>2, <1>3, <3>1, <3>2
  <2> QED
    BY <1>10, <1>12, <2>1 DEF next
<1>13. ASSUME lastCapTime <= t
       PROVE  \E u \in Nat : lastCapTime < u /\ u <= t + wait /\ AtInterval(u)
  <2>1. CASE lastCapTime > 0 /\ start + done > 0 /\ lastCapTime < start + done
    <3>1. done \in 0 .. Day
      BY <1>2, <1>8
    <3>2. AtInterval(start + done)
      BY <1>4, <1>8, <3>1
    <3>3. start + done \in Nat /\ start + done <= t + wait
      BY <1>3, <1>5, <1>8, <2>1
    <3> QED
      BY <2>1, <3>2, <3>3
  <2>2. CASE ~(lastCapTime > 0 /\ start + done > 0 /\ lastCapTime < start + done)
    <3>1. lastCapTime < next /\ next <= t + wait
      BY <1>10, <1>13, <2>2 DEF next
    <3>2. AtInterval(next)
      <4>1. CASE next = start + Day
        <5>1. Day \in 0 .. Day
          BY <1>2
        <5> QED
          BY <1>4, <4>1, <5>1
      <4>2. CASE next # start + Day
        <5>1. next = start + (done + I) /\ done + I \in 0 .. Day
          BY <1>2, <1>3, <1>8, <1>9, <4>2 DEF next
        <5> QED
          BY <1>4, <1>8, <5>1
      <4> QED
        BY <4>1, <4>2
    <3> QED
      BY <1>10, <3>1, <3>2
  <2> QED
    BY <2>1, <2>2
<1> HIDE DEF wait
<1> QED
  BY <1>1, <1>11, <1>12, <1>13 DEF NextInterval, anchor, I

LEMMA IntervalIsNext ==
  ASSUME TypeOK, ~snapshotFailed, Interval > 0, NEW t \in Nat
  PROVE  NextInterval(t, IntervalWakeup(capture, lastCapTime, snapshotFailed, t))
<1>1. /\ capture.intervalValue \in Nat /\ capture.intervalUnit \in Nat
      /\ capture.anchor = NoAnchor \/ capture.anchor \in 0 .. Day - 1
      /\ lastCapTime \in Nat
  BY SettingsAreTyped DEF TypeOK, CapAttr, Anchor, NoAnchor
<1>2. /\ Interval \in Nat \ {0}
      /\ capture.intervalUnit = 2 => capture.intervalValue \in Nat \ {0}
  <2>1. Interval \in Nat /\ (capture.intervalUnit = 2 /\ capture.intervalValue = 0 => Interval = 0)
    BY <1>1, IntervalRange DEF Interval
  <2> QED
    BY <1>1, <2>1
<1>3. IntervalWakeup(capture, lastCapTime, snapshotFailed, t) =
        IF capture.anchor = NoAnchor THEN LegacyWakeup(Interval, lastCapTime, t)
        ELSE IF capture.intervalUnit = 2
        THEN DaysWakeup(capture.intervalValue, capture.anchor, lastCapTime, t)
        ELSE GridWakeup(Interval, capture.anchor, lastCapTime, t)
  BY <1>2 DEF IntervalWakeup, Interval
<1>4. CASE capture.anchor = NoAnchor
  BY <1>1, <1>2, <1>3, <1>4, LegacyIsNext
<1>5. CASE capture.anchor # NoAnchor /\ capture.intervalUnit = 2
  <2>1. capture.anchor \in 0 .. Day - 1 /\ capture.intervalValue \in Nat \ {0}
    BY <1>1, <1>2, <1>5
  <2>2. CASE lastCapTime = 0
    BY <1>2, <1>3, <1>5, <2>1, <2>2, FirstDayIsNext
  <2>3. CASE lastCapTime # 0
    <3>1. lastCapTime \in Nat \ {0}
      BY <1>1, <2>3
    <3> QED
      BY <1>2, <1>3, <1>5, <2>1, <3>1, LaterDayIsNext
  <2> QED
    BY <2>2, <2>3
<1>6. CASE capture.anchor # NoAnchor /\ capture.intervalUnit # 2
  <2>1. capture.anchor \in 0 .. Day - 1
    BY <1>1, <1>6
  <2> QED
    BY <1>1, <1>2, <1>3, <1>6, <2>1, GridIsNext
<1> QED
  BY <1>4, <1>5, <1>6

-----------------------------------------------------------------------------
(* What the three wake-ups promise at the time of falling asleep. *)

TimedCapture == capture.bScheCap /\ capture.scheCapMode = 0

LEMMA CaptureIsNext ==
  ASSUME TypeOK, NEW t \in Nat, NEW u \in Nat, t < u, CaptureSlot(u),
         ~(TimedCapture /\ AtAnyNode(capture.timedNodes, t))
  PROVE  CaptureWakeup(t) \in Nat \ {0} /\ t + CaptureWakeup(t) <= u
<1>1. /\ capture.timedNodes \in Seq(TimedNode) /\ capture.scheCapMode \in {0, 1}
      /\ snapshotFailed \in BOOLEAN
  BY SettingsAreTyped DEF TypeOK, CapAttr
<1>2. CASE capture.scheCapMode = 0
  <2>1. AtAnyNode(capture.timedNodes, u) /\ ~AtAnyNode(capture.timedNodes, t)
    BY <1>2 DEF CaptureSlot, TimedCapture
  <2>2. CaptureWakeup(t) = FindMostRecentTimeInterval(capture.timedNodes, t)
    BY <1>2 DEF CaptureSlot, CaptureWakeup, CalculateCaptureWakeup
  <2> QED
    BY <1>1, <2>1, <2>2, TimedIsNext
<1>3. CASE capture.scheCapMode = 1
  <2>1. AtInterval(u) /\ Interval > 0
    BY <1>3 DEF CaptureSlot, AtInterval
  <2>2. CaptureWakeup(t) = IntervalWakeup(capture, lastCapTime, snapshotFailed, t)
    BY <1>3 DEF CaptureSlot, CaptureWakeup, CalculateCaptureWakeup
  <2>3. CASE snapshotFailed
    <3>1. CaptureWakeup(t) = 1
      BY <2>1, <2>2, <2>3 DEF IntervalWakeup, Interval
    <3> QED
      BY <3>1
  <2>4. CASE ~snapshotFailed
    BY <2>1, <2>2, <2>4, IntervalIsNext DEF NextInterval
  <2> QED
    BY <2>3, <2>4
<1> QED
  BY <1>1, <1>2, <1>3

LEMMA UploadIsNext ==
  ASSUME TypeOK, Len(upload.timedNodes) <= 10, NEW t \in Nat, NEW u \in Nat, t < u,
         UploadSlot(u), ~AtAnyNode(upload.timedNodes, t)
  PROVE  UploadWakeup(t) \in Nat \ {0} /\ t + UploadWakeup(t) <= u
<1>1. upload.timedNodes \in Seq(TimedNode)
  BY SettingsAreTyped DEF TypeOK, UploadAttr
<1>2. Len(upload.timedNodes) \in Nat
  BY <1>1
<1>3. UploadWakeup(t) = FindMostRecentTimeInterval(upload.timedNodes, t)
  BY <1>2 DEF UploadSlot, UploadWakeup, CalculateUploadWakeup
<1> QED
  BY <1>1, <1>3, TimedIsNext DEF UploadSlot

LEMMA SameTimeOfDay ==
  ASSUME NEW a \in Nat, NEW b \in Nat, a < b, a % Day = b % Day
  PROVE  a + Day <= b
<1> DEFINE p == a \div Day
           q == b \div Day
           r == a % Day
<1>1. a \in Int /\ b \in Int /\ Day \in Nat \ {0}
  OBVIOUS
<1>2. p \in Int /\ r \in Int /\ a = p * Day + r
  BY <1>1, Divided
<1>3. q \in Int /\ b = q * Day + r
  BY <1>1, Divided
<1> HIDE DEF p, q, r
<1>4. p * Day \in Int /\ q * Day \in Int /\ (p + 1) * Day = p * Day + Day /\ p + 1 \in Int
  BY <1>1, <1>2, <1>3
<1>5. p + 1 <= q
  <2> SUFFICES ASSUME q <= p PROVE FALSE
    BY <1>2, <1>3
  <2>1. q * Day <= p * Day
    BY <1>1, <1>2, <1>3, Multiples
  <2> QED
    BY <1>2, <1>3, <1>4, <2>1
<1>6. (p + 1) * Day <= q * Day
  BY <1>1, <1>3, <1>4, <1>5, Multiples
<1> QED
  BY <1>2, <1>3, <1>4, <1>6

LEMMA ScheduleIsNext ==
  ASSUME TypeOK, NEW t \in Nat, NEW u \in Nat, t < u,
         ScheduleSlot(u), ~AtNode(ScheduleTime, t)
  PROVE  t + ScheduleWakeup(t) <= u
<1> DEFINE nodes == <<ScheduleTime>>
           wait == FindMostRecentTimeInterval(nodes, t)
<1>1. nodes \in Seq(TimedNode) /\ DOMAIN nodes = {1} /\ nodes[1] = ScheduleTime
  BY SettingsAreTyped
<1>2. \A v : AtAnyNode(nodes, v) <=> AtNode(ScheduleTime, v)
  BY <1>1 DEF AtAnyNode
<1>3. SomeTimeValid(nodes) /\ AtNode(ScheduleTime, u) /\ u >= lastScheduleTime + 3 * Hour
  BY <1>1 DEF ScheduleSlot, AtNode, SomeTimeValid
<1>4. ScheduleWakeup(t) = IF t + wait < lastScheduleTime + 3 * Hour THEN wait + Day ELSE wait
  BY DEF ScheduleWakeup, CalculateScheduleWakeup
<1> HIDE DEF nodes
<1>5. /\ AtAnyNode(nodes, t) \/ AtAnyNode(nodes, t + wait)
      /\ ~AtAnyNode(nodes, t) /\ AtAnyNode(nodes, u) => wait \in Nat \ {0} /\ t + wait <= u
  BY <1>1, <1>3, TimedIsNext
<1>6. wait \in Nat \ {0} /\ t + wait <= u /\ AtNode(ScheduleTime, t + wait)
  BY <1>2, <1>3, <1>5
<1> HIDE DEF wait
<1>7. lastScheduleTime \in Nat
  BY DEF TypeOK
<1>8. CASE t + wait < lastScheduleTime + 3 * Hour
  <2>1. t + wait \in Nat /\ t + wait < u
    BY <1>3, <1>6, <1>7, <1>8
  <2>2. (t + wait) % Day = u % Day
    BY <1>3, <1>6 DEF AtNode
  <2>3. (t + wait) + Day <= u
    BY <2>1, <2>2, SameTimeOfDay
  <2> QED
    BY <1>4, <1>6, <1>8, <2>3
<1>9. CASE ~(t + wait < lastScheduleTime + 3 * Hour)
  BY <1>4, <1>6, <1>9
<1> QED
  BY <1>8, <1>9

(* The distance that calculate_schedule_wakeup keeps. *)
LEMMA ScheduleIsSpaced ==
  ASSUME TypeOK, NEW t \in Nat, lastScheduleTime <= t
  PROVE  t + ScheduleWakeup(t) >= lastScheduleTime + 3 * Hour
<1> DEFINE wait == FindMostRecentTimeInterval(<<ScheduleTime>>, t)
<1>1. wait \in 1 .. Day
  BY SettingsAreTyped, DailyRange
<1>2. ScheduleWakeup(t) = IF t + wait < lastScheduleTime + 3 * Hour THEN wait + Day ELSE wait
  BY DEF ScheduleWakeup, CalculateScheduleWakeup
<1> HIDE DEF wait
<1>3. lastScheduleTime \in Nat
  BY DEF TypeOK
<1> QED
  BY <1>1, <1>2, <1>3

LEMMA EarliestIsLeast ==
  ASSUME NEW c \in Nat, NEW u \in Nat, NEW s \in Nat \ {0}
  PROVE  /\ c # 0 => EarliestOf(c, u, s) <= c
         /\ u # 0 => EarliestOf(c, u, s) <= u
         /\ EarliestOf(c, u, s) <= s
<1> DEFINE S == {c, u, s} \ {0}
<1>1. S \in SUBSET Nat /\ s \in S
  OBVIOUS
<1>2. EarliestOf(c, u, s) = Min(S)
  BY <1>1 DEF EarliestOf
<1>3. \A k \in S : Min(S) <= k
  <2> HIDE DEF S
  <2> QED
    BY <1>1, LeastNatural
<1> QED
  BY <1>1, <1>2, <1>3

(* The clock, the timer and the queue after sleep_start. *)
LEMMA SleepStartArms ==
  ASSUME TypeOK, NEW t \in Nat, SleepStart(t)
  PROVE  /\ power' = "asleep" /\ now' = t /\ timer' >= willWakeupTime'
         /\ HasTodo(wakeupTodo) => wakeupTodo' = wakeupTodo /\ willWakeupTime' = t + 1
         /\ ~HasTodo(wakeupTodo) =>
              /\ willWakeupTime' = t + CalcWakeupTimeSeconds(t)
              /\ wakeupTodo' = QueueDue(wakeupTodo, CalcWakeupTimeSeconds(t),
                                        CaptureWakeup(t), UploadWakeup(t), ScheduleWakeup(t))
         /\ UNCHANGED <<reset, mode, snapType, snapshotFailed, tmpMode, lastCapTime,
                        lastScheduleTime, checkFlag, capture, upload>>
<1> DEFINE pending == HasTodo(wakeupTodo)
           seconds == IF pending THEN 1 ELSE CalcWakeupTimeSeconds(t)
           sleep   == seconds - CalculateCompensation(seconds)
<1>1. seconds \in 1 .. 2 * Day
  <2>1. CalcWakeupTimeSeconds(t) \in 1 .. 2 * Day
    BY SecondsRange
  <2>2. 1 \in 1 .. 2 * Day
    OBVIOUS
  <2> QED
    BY <2>1, <2>2
<1>2. sleep \in Int /\ sleep >= seconds
  BY <1>1, SleepIsLongEnough
<1>3. /\ power' = "asleep" /\ now' = t
      /\ UNCHANGED <<reset, mode, snapType, snapshotFailed, tmpMode, lastCapTime,
                     lastScheduleTime, checkFlag, capture, upload>>
  BY DEF SleepStart, nvsVars
<1>4. pending => wakeupTodo' = wakeupTodo
  BY DEF SleepStart
<1>5. ~pending => wakeupTodo' = QueueDue(wakeupTodo, seconds, CaptureWakeup(t),
                                         UploadWakeup(t), ScheduleWakeup(t))
  <2> SUFFICES ASSUME ~pending
               PROVE  wakeupTodo' = QueueDue(wakeupTodo, seconds, CaptureWakeup(t),
                                             UploadWakeup(t), ScheduleWakeup(t))
    OBVIOUS
  <2>1. ~(pending \/ seconds = 0)
    <3> HIDE DEF seconds
    <3> QED
      BY <1>1
  <2> QED
    BY <2>1 DEF SleepStart
<1>6. timer' = t + sleep /\ willWakeupTime' = t + seconds
  <2> HIDE DEF seconds
  <2>1. sleep > 0
    BY <1>1, <1>2
  <2> QED
    BY <2>1 DEF SleepStart, seconds
<1>7. timer' >= willWakeupTime'
  <2> HIDE DEF seconds, sleep
  <2> QED
    BY <1>1, <1>2, <1>6
<1> QED
  BY <1>3, <1>4, <1>5, <1>6, <1>7

-----------------------------------------------------------------------------
(* No moment of the settings is slept over. *)

LEMMA SleepStartPassesNothing ==
  ASSUME TypeOK, Len(upload.timedNodes) <= 10, NEW t \in Nat, SleepStart(t)
  PROVE  NeverSleepsPastASlot'
<1> SUFFICES ASSUME ~DueThisSecond', NEW u \in now' + 1 .. Min({timer', willWakeupTime'}) - 1
             PROVE  ~CaptureSlot(u)' /\ ~UploadSlot(u)' /\ ~ScheduleSlot(u)'
  BY DEF NeverSleepsPastASlot
<1>1. /\ now' = t
      /\ UNCHANGED <<lastCapTime, lastScheduleTime, capture, upload>>
      /\ HasTodo(wakeupTodo) => willWakeupTime' = t + 1
      /\ ~HasTodo(wakeupTodo) => willWakeupTime' = t + CalcWakeupTimeSeconds(t)
  BY SleepStartArms
<1>2. timer' \in Nat /\ willWakeupTime' \in Nat
  BY SleepStartWakes DEF TypeOK
<1>3. Min({timer', willWakeupTime'}) \in Nat /\ Min({timer', willWakeupTime'}) <= willWakeupTime'
  <2> DEFINE S == {timer', willWakeupTime'}
  <2>1. S \in SUBSET Nat /\ S # {} /\ willWakeupTime' \in S
    BY <1>2
  <2> HIDE DEF S
  <2>2. Min(S) \in S /\ Min(S) <= willWakeupTime'
    BY <2>1, LeastNatural
  <2>3. Min(S) \in Nat
    BY <2>1, <2>2
  <2> QED
    BY <2>2, <2>3 DEF S
<1>4. u \in Nat /\ t < u /\ u < willWakeupTime'
  BY <1>1, <1>2, <1>3
<1>5. ~HasTodo(wakeupTodo) /\ u < t + CalcWakeupTimeSeconds(t)
  BY <1>1, <1>4
<1>6. /\ ~AtNode(ScheduleTime, t)
      /\ ~(TimedCapture /\ AtAnyNode(capture.timedNodes, t))
      /\ ~(upload.uploadMode = 1 /\ AtAnyNode(upload.timedNodes, t))
  BY <1>1 DEF DueThisSecond, AtAnyNode, AtNode, TimedCapture
<1>7. /\ CaptureWakeup(t) \in Nat /\ UploadWakeup(t) \in Nat /\ ScheduleWakeup(t) \in Nat \ {0}
      /\ CalcWakeupTimeSeconds(t) \in Nat
  <2>1. /\ capture \in CapAttr /\ upload \in UploadAttr
        /\ lastCapTime \in Nat /\ lastScheduleTime \in Nat /\ snapshotFailed \in BOOLEAN
    BY SettingsAreTyped DEF TypeOK
  <2>2. CaptureWakeup(t) \in Nat
    BY <2>1, CaptureRange DEF CaptureWakeup
  <2>3. UploadWakeup(t) \in Nat
    BY <2>1, UploadRange DEF UploadWakeup
  <2>4. ScheduleWakeup(t) \in 1 .. 2 * Day
    BY <2>1, SettingsAreTyped, ScheduleRange DEF ScheduleWakeup
  <2>5. CalcWakeupTimeSeconds(t) \in 1 .. 2 * Day
    BY SecondsRange
  <2> QED
    BY <2>2, <2>3, <2>4, <2>5
<1>8. /\ CaptureWakeup(t) # 0 => CalcWakeupTimeSeconds(t) <= CaptureWakeup(t)
      /\ UploadWakeup(t) # 0 => CalcWakeupTimeSeconds(t) <= UploadWakeup(t)
      /\ CalcWakeupTimeSeconds(t) <= ScheduleWakeup(t)
  BY <1>7, EarliestIsLeast DEF CalcWakeupTimeSeconds
<1>9. ~CaptureSlot(u)
  <2> SUFFICES ASSUME CaptureSlot(u) PROVE FALSE
    OBVIOUS
  <2>1. CaptureWakeup(t) \in Nat \ {0} /\ t + CaptureWakeup(t) <= u
    BY <1>4, <1>6, CaptureIsNext
  <2> QED
    BY <1>4, <1>5, <1>7, <1>8, <2>1
<1>10. ~UploadSlot(u)
  <2> SUFFICES ASSUME UploadSlot(u) PROVE FALSE
    OBVIOUS
  <2>1. ~AtAnyNode(upload.timedNodes, t)
    BY <1>6 DEF UploadSlot
  <2>2. UploadWakeup(t) \in Nat \ {0} /\ t + UploadWakeup(t) <= u
    BY <1>4, <2>1, UploadIsNext
  <2> QED
    BY <1>4, <1>5, <1>7, <1>8, <2>2
<1>11. ~ScheduleSlot(u)
  <2> SUFFICES ASSUME ScheduleSlot(u) PROVE FALSE
    OBVIOUS
  <2>1. t + ScheduleWakeup(t) <= u
    BY <1>4, <1>6, ScheduleIsNext
  <2> QED
    BY <1>4, <1>5, <1>7, <1>8, <2>1
<1>12. CaptureSlot(u)' <=> CaptureSlot(u)
  BY <1>1 DEF CaptureSlot, AtAnyNode, AtNode, AtInterval, Interval
<1>13. UploadSlot(u)' <=> UploadSlot(u)
  BY <1>1 DEF UploadSlot, AtAnyNode, AtNode
<1>14. ScheduleSlot(u)' <=> ScheduleSlot(u)
  BY <1>1 DEF ScheduleSlot, AtNode
<1> QED
  BY <1>9, <1>10, <1>11, <1>12, <1>13, <1>14

LEMMA ShortSleepPassesNothing ==
  ASSUME TypeOK', ShortSleep
  PROVE  NeverSleepsPastASlot'
<1>1. now' = timer' /\ timer' \in Nat /\ willWakeupTime' \in Nat
  BY DEF ShortSleep, TypeOK
<1>2. Min({timer', willWakeupTime'}) \in Nat /\ Min({timer', willWakeupTime'}) <= timer'
  <2> DEFINE S == {timer', willWakeupTime'}
  <2>1. S \in SUBSET Nat /\ S # {} /\ timer' \in S
    BY <1>1
  <2> HIDE DEF S
  <2>2. Min(S) \in S /\ Min(S) <= timer'
    BY <2>1, LeastNatural
  <2>3. Min(S) \in Nat
    BY <2>1, <2>2
  <2> QED
    BY <2>2, <2>3 DEF S
<1>3. now' + 1 .. Min({timer', willWakeupTime'}) - 1 = {}
  BY <1>1, <1>2
<1> QED
  BY <1>3 DEF NeverSleepsPastASlot

(* The chip never sleeps over a moment for which the settings ask for a    *)
(* capture, an upload or a schedule run.  A list of upload times has at    *)
(* most the 10 entries config.h has room for: calculate_upload_wakeup      *)
(* takes no notice of a longer one.                                        *)
THEOREM NeverPastASlot ==
  ASSUME \A u \in UploadSettings : Len(u.timedNodes) <= 10
  PROVE  Spec => []NeverSleepsPastASlot
<1> DEFINE Inv == WakeInv /\ NeverSleepsPastASlot
<1>1. Init => Inv
  <2>1. Init => NeverSleepsPastASlot
    BY DEF Init, NeverSleepsPastASlot
  <2> QED
    BY <2>1, WakeInit
<1>2. Inv /\ [Next]_vars => Inv'
  <2> SUFFICES ASSUME Inv, [Next]_vars PROVE Inv'
    OBVIOUS
  <2>1. /\ WakeInv' /\ TypeOK /\ TypeOK' /\ now \in Nat
        /\ Len(upload.timedNodes) <= 10
    <3>1. WakeInv'
      BY WakeNext
    <3>2. upload \in UploadSettings
      BY DEF WakeInv, TypeOK
    <3> QED
      BY <3>1, <3>2 DEF WakeInv, TypeOK
  <2>2. CASE BootSleepAgain
    <3>1. NeverSleepsPastASlot'
      BY <2>1, <2>2, SleepStartPassesNothing DEF BootSleepAgain
    <3> QED
      BY <2>1, <3>1
  <2>3. CASE Sleep
    <3>1. PICK d \in AwakeTimes : SleepStart(now + d)
      BY <2>3 DEF Sleep
    <3>2. now + d \in Nat
      BY <2>1, PowerCycleAssumption
    <3>3. NeverSleepsPastASlot'
      BY <2>1, <3>1, <3>2, SleepStartPassesNothing
    <3> QED
      BY <2>1, <3>3
  <2>4. CASE BootPowerOn \/ Click
    <3>1. NeverSleepsPastASlot'
      BY <2>1, <2>4, ShortSleepPassesNothing DEF BootPowerOn, Click
    <3> QED
      BY <2>1, <3>1
  <2>5. CASE UNCHANGED vars
    <3>1. NeverSleepsPastASlot'
      BY <2>5
      DEF NeverSleepsPastASlot, CaptureSlot, UploadSlot, ScheduleSlot, DueThisSecond,
          AtAnyNode, AtNode, AtInterval, Interval, vars, rtcVars, nvsVars, sleepVars
    <3> QED
      BY <2>1, <3>1
  <2>6. CASE power' # "asleep"
    BY <2>1, <2>6 DEF NeverSleepsPastASlot
  <2>7. Next => \/ BootSleepAgain \/ Sleep \/ BootPowerOn \/ Click
                \/ power' # "asleep"
    <3>1. WakeTimer \/ WakeButton \/ WakeTrigger \/ PowerOn \/ Crash \/ SoftwareRestart
            => power' = "boot"
      BY DEF WakeTimer, WakeButton, WakeTrigger, PowerOn, Crash, SoftwareRestart, Restart
    <3>2. BootChecked \/ BootSoftware \/ BootTimer \/ BootTrigger \/ BootButton
            => power' = "awake"
      BY DEF BootChecked, BootSoftware, BootTimer, BootTrigger, BootButton, EnterMode
    <3>3. Work \/ SetClock \/ SetCapture \/ SetUpload => power' = "done"
      BY DEF Work, WorkSnapshot, WorkConfig, WorkSchedule, WorkUpload, Works,
             SetClock, SetCapture, SetUpload
    <3> QED
      BY <3>1, <3>2, <3>3 DEF Next, Boot, Environment
  <2> QED
    BY <2>2, <2>3, <2>4, <2>5, <2>6, <2>7
<1>3. Inv => NeverSleepsPastASlot
  OBVIOUS
<1> QED
  BY <1>1, <1>2, <1>3, PTL DEF Spec

-----------------------------------------------------------------------------
(* The queue of actions from one sleep to the next. *)

SnapshotDue == wakeupTodo[0] = "snapshot"

ScheduleDue == wakeupTodo[2] = "schedule"

AtWork == power \in {"awake", "done"} /\ mode # "config"

Restarted == power = "boot" /\ reset \in {"power_on", "software"}

(* When there may be a temporary mode, a network check, a mode at all. *)
ModeInv ==
  /\ tmpMode # "undefined" => Restarted
  /\ checkFlag => power \in {"asleep", "boot"}
  /\ power = "boot" => mode = "undefined"

(* What may be in the queue, and what not any more or not yet. *)
TodoInv ==
  /\ wakeupTodo[0] \in {"nothing", "snapshot", "config"}
  /\ wakeupTodo[1] \in {"nothing", "upload"}
  /\ wakeupTodo[2] \in {"nothing", "schedule"}
  /\ Restarted => wakeupTodo = NoTodo
  /\ checkFlag => wakeupTodo = NoTodo
  /\ power = "done" /\ mode = "config" => wakeupTodo = NoTodo
  /\ AtWork => ~SnapshotDue
  /\ power = "awake" /\ mode = "schedule" => ~ScheduleDue
  /\ power = "asleep" \/ (power = "boot" /\ reset = "timer") =>
       checkFlag \/ HasTodo(wakeupTodo)

(* A snapshot or schedule run is not begun before its time. *)
TimeInv ==
  /\ lastCapTime <= now /\ lastScheduleTime <= now
  /\ SnapshotDue \/ ScheduleDue =>
       /\ power = "asleep" => willWakeupTime <= timer
       /\ AtWork \/ (power = "boot" /\ reset = "timer") => willWakeupTime <= now

CycleInv == WakeInv /\ ModeInv /\ TodoInv /\ TimeInv

(* The schedule run in the queue keeps its distance from the last one. *)
SpacedInv == ScheduleDue => willWakeupTime >= lastScheduleTime + 3 * Hour

LEMMA NothingQueued ==
  /\ NoTodo[0] = "nothing" /\ NoTodo[1] = "nothing" /\ NoTodo[2] = "nothing"
  BY DEF NoTodo, Priorities

(* sleep_get_wakeup_todo empties the first priority, and the queue has at  *)
(* each priority the action of that priority.                              *)
LEMMA PopFirst ==
  ASSUME NEW todo \in [Priorities -> Todos], HasTodo(todo),
         todo[0] \in {"nothing", "snapshot", "config"},
         todo[1] \in {"nothing", "upload"}, todo[2] \in {"nothing", "schedule"}
  PROVE  /\ PopTodo(todo)[0] = "nothing"
         /\ PopTodo(todo)[1] \in {"nothing", "upload"}
         /\ PopTodo(todo)[2] \in {"nothing", todo[2]}
         /\ todo[FirstPriority(todo)] = "snapshot" => todo[0] = "snapshot"
         /\ todo[FirstPriority(todo)] = "schedule" =>
              todo[2] = "schedule" /\ PopTodo(todo)[2] = "nothing"
<1> DEFINE S == {p \in Priorities : todo[p] # "nothing"}
           first == FirstPriority(todo)
<1>1. S # {}
  <2> SUFFICES ASSUME S = {} PROVE FALSE
    OBVIOUS
  <2>1. \A p \in Priorities : todo[p] = "nothing"
    OBVIOUS
  <2>2. todo = NoTodo
    BY <2>1 DEF NoTodo
  <2> QED
    BY <2>2 DEF HasTodo
<1>2. S \in SUBSET Nat
  BY DEF Priorities
<1>3. first \in S /\ \A p \in S : first <= p
  <2>1. first = Min(S)
    BY DEF FirstPriority
  <2> HIDE DEF S, first
  <2> QED
    BY <1>1, <1>2, <2>1, LeastNatural
<1>4. PopTodo(todo) = [todo EXCEPT ![first] = "nothing"]
  BY DEF PopTodo
<1>5. first \in {0, 1, 2} /\ todo[first] # "nothing"
  BY <1>3 DEF Priorities
<1>6. first # 0 => todo[0] = "nothing"
  <2> SUFFICES ASSUME todo[0] # "nothing" PROVE first = 0
    OBVIOUS
  <2>1. 0 \in S
    BY DEF Priorities
  <2>2. first <= 0
    BY <1>3, <2>1
  <2> QED
    BY <1>5, <2>2
<1>7. first = FirstPriority(todo)
  OBVIOUS
<1> HIDE DEF S, first
<1> QED
  BY <1>4, <1>5, <1>6, <1>7 DEF Priorities

(* update_wakeup_todo_list on an empty queue. *)
LEMMA QueueFromNothing ==
  ASSUME NEW first, NEW cap, NEW upl, NEW sched
  PROVE  LET todo == QueueDue(NoTodo, first, cap, upl, sched)
         IN  /\ todo[0] = IF cap = first THEN "snapshot" ELSE "nothing"
             /\ todo[1] = IF upl = first THEN "upload" ELSE "nothing"
             /\ todo[2] = IF sched = first THEN "schedule" ELSE "nothing"
             /\ first \in {cap, upl, sched} => HasTodo(todo)
<1> DEFINE todo == QueueDue(NoTodo, first, cap, upl, sched)
<1>1. /\ todo[0] = IF cap = first THEN "snapshot" ELSE "nothing"
      /\ todo[1] = IF upl = first THEN "upload" ELSE "nothing"
      /\ todo[2] = IF sched = first THEN "schedule" ELSE "nothing"
  BY DEF QueueDue, NoTodo, Priorities
<1>2. first \in {cap, upl, sched} => todo # NoTodo
  <2> HIDE DEF todo
  <2> QED
    BY <1>1, NothingQueued
<1> QED
  BY <1>1, <1>2 DEF HasTodo

LEMMA EarliestIsOne ==
  ASSUME NEW c \in Nat, NEW u \in Nat, NEW s \in Nat \ {0}
  PROVE  EarliestOf(c, u, s) \in {c, u, s} \ {0}
<1> DEFINE S == {c, u, s} \ {0}
<1>1. S \in SUBSET Nat /\ s \in S
  OBVIOUS
<1>2. EarliestOf(c, u, s) = Min(S)
  BY <1>1 DEF EarliestOf
<1>3. Min(S) \in S
  <2> HIDE DEF S
  <2> QED
    BY <1>1, LeastNatural
<1> QED
  BY <1>2, <1>3

(* What is in the queue after a sleep_start that found it empty. *)
LEMMA SleepStartQueues ==
  ASSUME TypeOK, NEW t \in Nat, SleepStart(t), ~HasTodo(wakeupTodo)
  PROVE  /\ wakeupTodo'[0] \in {"nothing", "snapshot"}
         /\ wakeupTodo'[1] \in {"nothing", "upload"}
         /\ wakeupTodo'[2] \in {"nothing", "schedule"}
         /\ wakeupTodo' # NoTodo
         /\ wakeupTodo'[0] = "snapshot" =>
              CaptureWakeup(t) # 0 /\ willWakeupTime' = t + CaptureWakeup(t)
         /\ wakeupTodo'[2] = "schedule" => willWakeupTime' = t + ScheduleWakeup(t)
<1> DEFINE first == CalcWakeupTimeSeconds(t)
<1>1. /\ CaptureWakeup(t) \in Nat /\ UploadWakeup(t) \in Nat /\ ScheduleWakeup(t) \in Nat \ {0}
  <2>1. /\ capture \in CapAttr /\ upload \in UploadAttr
        /\ lastCapTime \in Nat /\ lastScheduleTime \in Nat /\ snapshotFailed \in BOOLEAN
    BY SettingsAreTyped DEF TypeOK
  <2>2. CaptureWakeup(t) \in Nat
    BY <2>1, CaptureRange DEF CaptureWakeup
  <2>3. UploadWakeup(t) \in Nat
    BY <2>1, UploadRange DEF UploadWakeup
  <2>4. ScheduleWakeup(t) \in 1 .. 2 * Day
    BY <2>1, SettingsAreTyped, ScheduleRange DEF ScheduleWakeup
  <2> QED
    BY <2>2, <2>3, <2>4
<1>2. first \in {CaptureWakeup(t), UploadWakeup(t), ScheduleWakeup(t)} /\ first # 0
  BY <1>1, EarliestIsOne DEF CalcWakeupTimeSeconds
<1>3. /\ willWakeupTime' = t + first
      /\ wakeupTodo' = QueueDue(NoTodo, first, CaptureWakeup(t), UploadWakeup(t), ScheduleWakeup(t))
  BY SleepStartArms DEF HasTodo
<1> HIDE DEF first
<1>4. /\ wakeupTodo'[0] = IF CaptureWakeup(t) = first THEN "snapshot" ELSE "nothing"
      /\ wakeupTodo'[1] = IF UploadWakeup(t) = first THEN "upload" ELSE "nothing"
      /\ wakeupTodo'[2] = IF ScheduleWakeup(t) = first THEN "schedule" ELSE "nothing"
      /\ wakeupTodo' # NoTodo
  BY <1>2, <1>3, QueueFromNothing DEF HasTodo
<1> QED
  BY <1>2, <1>3, <1>4

LEMMA CycleInit ==
  Init => CycleInv /\ SpacedInv
<1> SUFFICES ASSUME Init PROVE CycleInv /\ SpacedInv
  OBVIOUS
<1>1. WakeInv
  BY WakeInit
<1>2. wakeupTodo = NoTodo /\ ~SnapshotDue /\ ~ScheduleDue
  BY NothingQueued DEF Init, SnapshotDue, ScheduleDue
<1>3. power = "boot" /\ reset = "power_on" /\ mode = "undefined" /\ checkFlag = FALSE
      /\ lastCapTime = 0 /\ lastScheduleTime = 0 /\ now = 0
  BY DEF Init
<1>4. ModeInv
  BY <1>3 DEF ModeInv, Restarted
<1>5. TodoInv
  BY <1>2, <1>3, NothingQueued DEF TodoInv, AtWork
<1>6. TimeInv
  BY <1>2, <1>3 DEF TimeInv
<1> QED
  BY <1>1, <1>2, <1>4, <1>5, <1>6 DEF CycleInv, SpacedInv

(* sleep_start: what was pending stays, what is new is due at the wake-up. *)
LEMMA CycleSleeps ==
  ASSUME CycleInv, SpacedInv, NEW t \in Nat, SleepStart(t), now <= t,
         checkFlag = FALSE, tmpMode = "undefined",
         HasTodo(wakeupTodo) => ~SnapshotDue /\ (ScheduleDue => willWakeupTime <= t)
  PROVE  CycleInv' /\ SpacedInv'
<1>1. TypeOK /\ ModeInv /\ TodoInv /\ TimeInv
  BY DEF CycleInv, WakeInv
<1>2. WakeInv'
  BY <1>1, SleepStartWakes DEF WakeInv
<1>3. /\ power' = "asleep" /\ now' = t /\ timer' >= willWakeupTime'
      /\ reset' = reset /\ mode' = mode /\ checkFlag' = FALSE /\ tmpMode' = "undefined"
      /\ lastCapTime' = lastCapTime /\ lastScheduleTime' = lastScheduleTime
  BY <1>1, SleepStartArms
<1>4. now \in Nat /\ lastCapTime \in Nat /\ lastScheduleTime \in Nat /\ willWakeupTime \in Nat
      /\ timer' \in Nat /\ willWakeupTime' \in Nat
  BY <1>1, <1>2 DEF TypeOK, WakeInv
<1>5. lastCapTime <= now /\ lastScheduleTime <= now
  BY <1>1 DEF TimeInv
<1>6. /\ wakeupTodo'[0] \in {"nothing", "snapshot", "config"}
      /\ wakeupTodo'[1] \in {"nothing", "upload"}
      /\ wakeupTodo'[2] \in {"nothing", "schedule"}
      /\ wakeupTodo' # NoTodo
      /\ wakeupTodo'[2] = "schedule" => willWakeupTime' >= lastScheduleTime + 3 * Hour
  <2>1. CASE HasTodo(wakeupTodo)
    <3>1. wakeupTodo' = wakeupTodo /\ willWakeupTime' = t + 1
      BY <1>1, <2>1, SleepStartArms
    <3>2. wakeupTodo[2] = "schedule" => willWakeupTime <= t /\ willWakeupTime >= lastScheduleTime + 3 * Hour
      BY <2>1 DEF SpacedInv, ScheduleDue
    <3> QED
      BY <1>1, <1>4, <2>1, <3>1, <3>2 DEF TodoInv, HasTodo
  <2>2. CASE ~HasTodo(wakeupTodo)
    <3>1. /\ wakeupTodo'[0] \in {"nothing", "snapshot"}
          /\ wakeupTodo'[1] \in {"nothing", "upload"}
          /\ wakeupTodo'[2] \in {"nothing", "schedule"}
          /\ wakeupTodo' # NoTodo
          /\ wakeupTodo'[2] = "schedule" => willWakeupTime' = t + ScheduleWakeup(t)
      BY <1>1, <2>2, SleepStartQueues
    <3>2. t + ScheduleWakeup(t) >= lastScheduleTime + 3 * Hour
      BY <1>1, <1>4, <1>5, ScheduleIsSpaced
    <3> QED
      BY <3>1, <3>2
  <2> QED
    BY <2>1, <2>2
<1>7. ModeInv'
  BY <1>3 DEF ModeInv
<1>8. TodoInv'
  BY <1>3, <1>6 DEF TodoInv, HasTodo, Restarted, AtWork
<1>9. TimeInv'
  BY <1>3, <1>4, <1>5 DEF TimeInv, AtWork
<1>10. SpacedInv'
  BY <1>3, <1>6 DEF SpacedInv, ScheduleDue
<1> QED
  BY <1>2, <1>7, <1>8, <1>9, <1>10 DEF CycleInv

(* The timer wakes the device with its queue, any other start without, or  *)
(* so that the queue does not count.                                       *)
LEMMA CycleWakes ==
  ASSUME "early_timer" \notin Events, CycleInv, SpacedInv,
         WakeTimer \/ WakeButton \/ WakeTrigger
  PROVE  CycleInv' /\ SpacedInv'
<1>1. /\ WakeInv /\ TypeOK /\ ModeInv /\ TodoInv /\ TimeInv
      /\ now \in Nat /\ timer \in Nat /\ willWakeupTime \in Nat
      /\ lastCapTime \in Nat /\ lastScheduleTime \in Nat
  BY DEF CycleInv, WakeInv, TypeOK
<1>2. WakeInv'
  BY <1>1, WakeSteps
<1>3. PICK t \in now .. timer :
        /\ power = "asleep" /\ power' = "boot" /\ now' = t /\ mode' = "undefined"
        /\ reset' \in {"timer", "button", "trigger"}
        /\ reset' = "timer" => t = timer
        /\ tmpMode' = tmpMode /\ rtcVars' = rtcVars
  <2>1. CASE WakeTimer
    BY <2>1 DEF WakeTimer, Restart
  <2>2. CASE WakeButton
    BY <2>2 DEF WakeButton, Restart
  <2>3. CASE WakeTrigger
    BY <2>3 DEF WakeTrigger, Restart
  <2> QED
    BY <2>1, <2>2, <2>3
<1>4. /\ wakeupTodo' = wakeupTodo /\ lastCapTime' = lastCapTime /\ checkFlag' = checkFlag
      /\ lastScheduleTime' = lastScheduleTime /\ willWakeupTime' = willWakeupTime
  BY <1>3 DEF rtcVars
<1>5. tmpMode' = "undefined"
  BY <1>1, <1>3 DEF ModeInv, Restarted
<1>6. ModeInv'
  BY <1>3, <1>5 DEF ModeInv
<1>7. TodoInv'
  BY <1>1, <1>3, <1>4 DEF TodoInv, HasTodo, Restarted, AtWork
<1>8. TimeInv'
  <2>1. t \in Nat /\ now <= t
    BY <1>1, <1>3
  <2>2. lastCapTime' <= now' /\ lastScheduleTime' <= now'
    BY <1>1, <1>3, <1>4, <2>1 DEF TimeInv
  <2>3. (SnapshotDue \/ ScheduleDue)' => willWakeupTime <= timer
    BY <1>1, <1>3, <1>4 DEF TimeInv, SnapshotDue, ScheduleDue
  <2> QED
    BY <1>3, <1>4, <2>2, <2>3 DEF TimeInv, AtWork
<1>9. SpacedInv'
  BY <1>4 DEF SpacedInv, ScheduleDue
<1> QED
  BY <1>2, <1>6, <1>7, <1>8, <1>9 DEF CycleInv

LEMMA CycleRestarts ==
  ASSUME CycleInv, PowerOn \/ Crash \/ SoftwareRestart
  PROVE  CycleInv' /\ SpacedInv'
<1>1. WakeInv /\ now \in Nat
  BY DEF CycleInv, WakeInv, TypeOK
<1>2. WakeInv'
  BY <1>1, WakeSteps
<1>3. /\ power' = "boot" /\ reset' \in {"power_on", "software"} /\ mode' = "undefined"
      /\ now' \in Nat
      /\ wakeupTodo' = NoTodo /\ lastCapTime' = 0 /\ lastScheduleTime' = 0
      /\ checkFlag' = FALSE
  BY <1>1 DEF PowerOn, Crash, SoftwareRestart, Restart, ResetRtcMemory
<1>4. ~SnapshotDue' /\ ~ScheduleDue'
  BY <1>3, NothingQueued DEF SnapshotDue, ScheduleDue
<1>5. ModeInv'
  BY <1>3 DEF ModeInv, Restarted
<1>6. TodoInv'
  BY <1>3, <1>4, NothingQueued DEF TodoInv, AtWork
<1>7. TimeInv'
  BY <1>3, <1>4 DEF TimeInv
<1> QED
  BY <1>2, <1>4, <1>5, <1>6, <1>7 DEF CycleInv, SpacedInv

(* mode_selector, for every reason to start but a mere look at the time. *)
LEMMA CycleBoots ==
  ASSUME CycleInv, SpacedInv, Boot, ~BootSleepAgain
  PROVE  CycleInv' /\ SpacedInv'
<1>1. /\ WakeInv /\ TypeOK /\ ModeInv /\ TodoInv /\ TimeInv
      /\ now \in Nat /\ willWakeupTime \in Nat /\ wakeupTodo \in [Priorities -> Todos]
      /\ lastCapTime \in Nat /\ lastScheduleTime \in Nat
      /\ lastCapTime <= now /\ lastScheduleTime <= now
  BY DEF CycleInv, WakeInv, TypeOK, TimeInv
<1>2. WakeInv'
  BY <1>1, BootSteps
<1>3. /\ power = "boot" /\ now' = now
      /\ lastCapTime' = lastCapTime /\ lastScheduleTime' = lastScheduleTime
      /\ willWakeupTime' = willWakeupTime
      /\ tmpMode' = "undefined"
  <2>1. CASE BootPowerOn
    BY <2>1 DEF BootPowerOn, ShortSleep
  <2>2. CASE BootChecked
    BY <2>2 DEF BootChecked, EnterMode
  <2>3. CASE BootSoftware
    BY <2>3 DEF BootSoftware, EnterMode, rtcVars
  <2>4. CASE BootTimer
    BY <2>4 DEF BootTimer, TimerBoot, EnterMode
  <2>5. CASE BootTrigger
    BY <2>5 DEF BootTrigger, EnterMode
  <2>6. CASE BootButton
    BY <2>6 DEF BootButton, EnterMode, rtcVars
  <2> QED
    BY <2>1, <2>2, <2>3, <2>4, <2>5, <2>6 DEF Boot
<1>4. CASE BootPowerOn
  <2>1. power' = "asleep" /\ wakeupTodo' = NoTodo /\ checkFlag' = TRUE
    BY <1>1, <1>4 DEF BootPowerOn, ShortSleep, TodoInv, Restarted
  <2>2. ~SnapshotDue' /\ ~ScheduleDue'
    BY <2>1, NothingQueued DEF SnapshotDue, ScheduleDue
  <2>3. ModeInv'
    BY <1>3, <2>1 DEF ModeInv
  <2>4. TodoInv'
    BY <2>1, <2>2, NothingQueued DEF TodoInv, AtWork
  <2>5. TimeInv'
    BY <1>1, <1>3, <2>2 DEF TimeInv
  <2> QED
    BY <1>2, <2>2, <2>3, <2>4, <2>5 DEF CycleInv, SpacedInv
<1>5. CASE BootChecked \/ BootSoftware \/ BootTrigger
  <2>1. power' = "awake" /\ wakeupTodo' = NoTodo /\ checkFlag' = FALSE
    <3>1. CASE BootChecked
      BY <1>1, <3>1 DEF BootChecked, EnterMode, TodoInv
    <3>2. CASE BootSoftware
      BY <1>1, <3>2 DEF BootSoftware, EnterMode, TodoInv, Restarted, rtcVars, TypeOK
    <3>3. CASE BootTrigger
      BY <1>1, <3>3 DEF BootTrigger, EnterMode, TypeOK
    <3> QED
      BY <1>5, <3>1, <3>2, <3>3
  <2>2. ~SnapshotDue' /\ ~ScheduleDue'
    BY <2>1, NothingQueued DEF SnapshotDue, ScheduleDue
  <2>3. ModeInv'
    BY <1>3, <2>1 DEF ModeInv
  <2>4. TodoInv'
    BY <2>1, <2>2, NothingQueued DEF TodoInv, Restarted
  <2>5. TimeInv'
    BY <1>1, <1>3, <2>2 DEF TimeInv
  <2> QED
    BY <1>2, <2>2, <2>3, <2>4, <2>5 DEF CycleInv, SpacedInv
<1>6. CASE BootTimer
  <2> DEFINE todo == wakeupTodo[FirstPriority(wakeupTodo)]
  <2>1. /\ power' = "awake" /\ wakeupTodo' = PopTodo(wakeupTodo) /\ checkFlag' = FALSE
        /\ HasTodo(wakeupTodo) /\ willWakeupTime <= now
        /\ mode' = todo
    BY <1>1, <1>6
    DEF BootTimer, TimerBoot, EnterMode, WakeupTimeReached, ModeInv, Restarted, TypeOK
  <2>2. /\ wakeupTodo'[0] = "nothing"
        /\ wakeupTodo'[1] \in {"nothing", "upload"}
        /\ wakeupTodo'[2] \in {"nothing", wakeupTodo[2]}
        /\ todo = "schedule" => wakeupTodo'[2] = "nothing"
    BY <1>1, <2>1, PopFirst DEF TodoInv
  <2> HIDE DEF todo
  <2>3. ModeInv'
    BY <1>3, <2>1 DEF ModeInv
  <2>4. TodoInv'
    BY <1>1, <2>1, <2>2 DEF TodoInv, Restarted, SnapshotDue, ScheduleDue
  <2>5. TimeInv'
    BY <1>1, <1>3, <2>1 DEF TimeInv
  <2>6. SpacedInv'
    BY <1>3, <2>2 DEF SpacedInv, ScheduleDue
  <2> QED
    BY <1>2, <2>3, <2>4, <2>5, <2>6 DEF CycleInv
<1>7. CASE BootButton
  <2>1. power' = "awake" /\ wakeupTodo' = wakeupTodo /\ checkFlag' = FALSE /\ mode' = "config"
    BY <1>1, <1>7 DEF BootButton, EnterMode, ModeInv, Restarted, rtcVars, TypeOK
  <2>2. ModeInv'
    BY <1>3, <2>1 DEF ModeInv
  <2>3. TodoInv'
    BY <1>1, <2>1 DEF TodoInv, Restarted, AtWork
  <2>4. TimeInv'
    BY <1>1, <1>3, <2>1 DEF TimeInv, AtWork
  <2>5. SpacedInv'
    BY <1>3, <2>1 DEF SpacedInv, ScheduleDue
  <2> QED
    BY <1>2, <2>2, <2>3, <2>4, <2>5 DEF CycleInv
<1> QED
  BY <1>4, <1>5, <1>6, <1>7 DEF Boot

(* The work of a mode: the schedule run may set the clock, but only on. *)
LEMMA CycleWorks ==
  ASSUME ClockSteps \subseteq Nat, CycleInv, SpacedInv, Work
  PROVE  CycleInv' /\ SpacedInv'
<1>1. /\ WakeInv /\ TypeOK /\ ModeInv /\ TodoInv /\ TimeInv
      /\ now \in Nat /\ willWakeupTime \in Nat
      /\ lastCapTime \in Nat /\ lastScheduleTime \in Nat
      /\ lastCapTime <= now /\ lastScheduleTime <= now
  BY DEF CycleInv, WakeInv, TypeOK, TimeInv
<1>2. WakeInv'
  BY <1>1, WorkSteps
<1>3. /\ power = "awake" /\ power' = "done" /\ mode' = mode
      /\ tmpMode' = tmpMode /\ checkFlag' = checkFlag /\ willWakeupTime' = willWakeupTime
      /\ now' \in Nat /\ now <= now'
      /\ lastCapTime' <= now' /\ lastScheduleTime' <= now'
  <2>1. CASE WorkSnapshot
    BY <1>1, <2>1 DEF WorkSnapshot, Works
  <2>2. CASE WorkConfig
    BY <1>1, <2>2 DEF WorkConfig, Works
  <2>3. CASE WorkSchedule
    <3>1. now' \in Nat /\ now <= now'
      BY <1>1, <2>3 DEF WorkSchedule, ClockMoves
    <3> QED
      BY <1>1, <2>3, <3>1 DEF WorkSchedule, Works
  <2>4. CASE WorkUpload
    BY <1>1, <2>4 DEF WorkUpload, Works, rtcVars
  <2> QED
    BY <2>1, <2>2, <2>3, <2>4 DEF Work
<1>4. wakeupTodo' = IF mode = "config" THEN NoTodo ELSE wakeupTodo
  BY DEF Work, WorkSnapshot, WorkConfig, WorkSchedule, WorkUpload, Works, rtcVars
<1>5. checkFlag = FALSE /\ checkFlag' = FALSE
  BY <1>1, <1>3 DEF ModeInv, TypeOK
<1>6. mode # "schedule" => lastScheduleTime' = lastScheduleTime
  BY DEF Work, WorkSnapshot, WorkConfig, WorkSchedule, WorkUpload, Works, rtcVars
<1>7. ModeInv'
  BY <1>1, <1>3, <1>5 DEF ModeInv, Restarted
<1>8. CASE mode = "config"
  <2>1. wakeupTodo' = NoTodo /\ ~SnapshotDue' /\ ~ScheduleDue'
    BY <1>4, <1>8, NothingQueued DEF SnapshotDue, ScheduleDue
  <2>2. TodoInv'
    BY <1>3, <2>1, NothingQueued DEF TodoInv
  <2>3. TimeInv'
    BY <1>3, <2>1 DEF TimeInv
  <2> QED
    BY <1>2, <1>7, <2>1, <2>2, <2>3 DEF CycleInv, SpacedInv
<1>9. CASE mode # "config"
  <2>1. wakeupTodo' = wakeupTodo /\ ~SnapshotDue
    BY <1>1, <1>3, <1>4, <1>9 DEF TodoInv, AtWork
  <2>2. TodoInv'
    BY <1>1, <1>3, <1>5, <1>9, <2>1 DEF TodoInv, Restarted, SnapshotDue
  <2>3. ScheduleDue' => willWakeupTime <= now
    BY <1>1, <1>3, <1>9, <2>1 DEF TimeInv, AtWork, ScheduleDue
  <2>4. TimeInv'
    BY <1>1, <1>3, <2>1, <2>3 DEF TimeInv, SnapshotDue
  <2>5. SpacedInv'
    <3>1. mode = "schedule" => ~ScheduleDue'
      BY <1>1, <1>3, <2>1 DEF TodoInv, ScheduleDue
    <3> QED
      BY <1>3, <1>6, <2>1, <3>1 DEF SpacedInv, ScheduleDue
  <2> QED
    BY <1>2, <1>7, <2>2, <2>4, <2>5 DEF CycleInv
<1> QED
  BY <1>8, <1>9

(* The clock goes on, the user stores settings or asks for config mode. *)
LEMMA CycleSettings ==
  ASSUME ClockSteps \subseteq Nat, CycleInv, SpacedInv,
         SetClock \/ SetCapture \/ SetUpload \/ Click
  PROVE  CycleInv' /\ SpacedInv'
<1>1. /\ WakeInv /\ TypeOK /\ ModeInv /\ TodoInv /\ TimeInv
      /\ now \in Nat /\ willWakeupTime \in Nat
      /\ lastCapTime \in Nat /\ lastScheduleTime \in Nat
      /\ lastCapTime <= now /\ lastScheduleTime <= now
      /\ wakeupTodo \in [Priorities -> Todos]
  BY DEF CycleInv, WakeInv, TypeOK, TimeInv
<1>2. WakeInv'
  BY <1>1, SettingSteps
<1>3. /\ power \in {"awake", "done"} /\ mode' = mode /\ tmpMode' = tmpMode
      /\ checkFlag' = checkFlag /\ willWakeupTime' = willWakeupTime
      /\ lastScheduleTime' = lastScheduleTime
      /\ now' \in Nat /\ now <= now'
      /\ lastCapTime' <= now' /\ lastScheduleTime' <= now'
  <2>1. CASE SetClock
    <3>1. now' \in Nat /\ now <= now'
      BY <1>1, <2>1 DEF SetClock, ClockMoves
    <3> QED
      BY <1>1, <2>1, <3>1 DEF SetClock, rtcVars
  <2>2. CASE SetCapture
    BY <1>1, <2>2 DEF SetCapture
  <2>3. CASE SetUpload
    BY <1>1, <2>3 DEF SetUpload, rtcVars
  <2>4. CASE Click
    BY <1>1, <2>4 DEF Click, ShortSleep
  <2> QED
    BY <2>1, <2>2, <2>3, <2>4
<1>4. checkFlag = FALSE /\ checkFlag' = FALSE /\ tmpMode' = "undefined"
  BY <1>1, <1>3 DEF ModeInv, Restarted, TypeOK
<1>5. CASE SetClock \/ SetCapture \/ SetUpload
  <2>1. power = "done" /\ power' = "done" /\ wakeupTodo' = wakeupTodo
    BY <1>5 DEF SetClock, SetCapture, SetUpload, rtcVars
  <2>2. ModeInv'
    BY <1>4, <2>1 DEF ModeInv
  <2>3. TodoInv'
    BY <1>1, <1>3, <1>4, <2>1 DEF TodoInv, Restarted, AtWork, SnapshotDue
  <2>4. mode # "config" \/ ~(SnapshotDue \/ ScheduleDue)
    BY <1>1, <2>1, NothingQueued DEF TodoInv, SnapshotDue, ScheduleDue
  <2>5. (SnapshotDue \/ ScheduleDue)' => willWakeupTime <= now
    BY <1>1, <2>1, <2>4 DEF TimeInv, AtWork, SnapshotDue, ScheduleDue
  <2>6. TimeInv'
    BY <1>1, <1>3, <2>1, <2>5 DEF TimeInv
  <2>7. SpacedInv'
    BY <1>3, <2>1 DEF SpacedInv, ScheduleDue
  <2> QED
    BY <1>2, <2>2, <2>3, <2>6, <2>7 DEF CycleInv
<1>6. CASE Click
  <2>1. /\ power' = "asleep" /\ timer' = now /\ mode # "config"
        /\ wakeupTodo' = [wakeupTodo EXCEPT ![0] = "config"]
    BY <1>6 DEF Click, ShortSleep
  <2>2. /\ wakeupTodo'[0] = "config" /\ wakeupTodo'[1] = wakeupTodo[1]
        /\ wakeupTodo'[2] = wakeupTodo[2] /\ wakeupTodo' # NoTodo
    <3>1. /\ wakeupTodo'[0] = "config" /\ wakeupTodo'[1] = wakeupTodo[1]
          /\ wakeupTodo'[2] = wakeupTodo[2]
      BY <1>1, <2>1 DEF Priorities
    <3> QED
      BY <3>1, NothingQueued
  <2>3. ModeInv'
    BY <1>4, <2>1 DEF ModeInv
  <2>4. TodoInv'
    BY <1>1, <1>4, <2>1, <2>2 DEF TodoInv, Restarted, AtWork, HasTodo
  <2>5. (SnapshotDue \/ ScheduleDue)' => willWakeupTime <= now
    BY <1>1, <1>3, <2>1, <2>2 DEF TimeInv, AtWork, SnapshotDue, ScheduleDue
  <2>6. TimeInv'
    BY <1>3, <2>1, <2>5 DEF TimeInv, AtWork
  <2>7. SpacedInv'
    BY <1>3, <2>2 DEF SpacedInv, ScheduleDue
  <2> QED
    BY <1>2, <2>3, <2>4, <2>6, <2>7 DEF CycleInv
<1> QED
  BY <1>5, <1>6

(* sleep_start is never called with a snapshot in the queue. *)
LEMMA SleepFindsQueue ==
  ASSUME CycleInv, Sleep \/ BootSleepAgain
  PROVE  \E t \in Nat :
           /\ SleepStart(t) /\ now <= t
           /\ checkFlag = FALSE /\ tmpMode = "undefined"
           /\ HasTodo(wakeupTodo) => ~SnapshotDue /\ (ScheduleDue => willWakeupTime <= t)
           /\ HasTodo(wakeupTodo) \/ now < t
<1>1. /\ TypeOK /\ ModeInv /\ TodoInv /\ TimeInv
      /\ now \in Nat /\ willWakeupTime \in Nat
  BY DEF CycleInv, WakeInv, TypeOK
<1>2. CASE Sleep
  <2>1. PICK d \in AwakeTimes : SleepStart(now + d)
    BY <1>2 DEF Sleep
  <2>2. now + d \in Nat /\ now < now + d
    BY <1>1, PowerCycleAssumption
  <2>3. power = "done" /\ checkFlag = FALSE /\ tmpMode = "undefined"
    BY <1>1, <1>2 DEF Sleep, ModeInv, Restarted, TypeOK
  <2>4. HasTodo(wakeupTodo) => ~SnapshotDue /\ (ScheduleDue => willWakeupTime <= now)
    BY <1>1, <2>3 DEF TodoInv, TimeInv, AtWork, HasTodo
  <2>5. HasTodo(wakeupTodo) => ~SnapshotDue /\ (ScheduleDue => willWakeupTime <= now + d)
    BY <1>1, <2>2, <2>4
  <2> DEFINE t == now + d
  <2>6. t \in Nat /\ SleepStart(t) /\ now <= t /\ now < t
    BY <1>1, <2>1, <2>2
  <2>7. HasTodo(wakeupTodo) => ~SnapshotDue /\ (ScheduleDue => willWakeupTime <= t)
    BY <2>5
  <2> HIDE DEF t
  <2> QED
    BY <2>3, <2>6, <2>7
<1>3. CASE BootSleepAgain
  <2>1. /\ SleepStart(now) /\ power = "boot" /\ reset = "timer" /\ checkFlag = FALSE
        /\ ~(willWakeupTime <= now /\ HasTodo(wakeupTodo))
    BY <1>1, <1>3 DEF BootSleepAgain, TimerBoot, WakeupTimeReached, TypeOK
  <2>2. tmpMode = "undefined"
    BY <1>1, <2>1 DEF ModeInv, Restarted
  <2>3. HasTodo(wakeupTodo)
    BY <1>1, <2>1 DEF TodoInv
  <2>4. ~SnapshotDue /\ ~ScheduleDue
    BY <1>1, <2>1, <2>3 DEF TimeInv
  <2> QED
    BY <1>1, <2>1, <2>2, <2>3, <2>4
<1> QED
  BY <1>2, <1>3

LEMMA CycleNext ==
  ASSUME ClockSteps \subseteq Nat, "early_timer" \notin Events
  PROVE  CycleInv /\ SpacedInv /\ [Next]_vars => CycleInv' /\ SpacedInv'
<1> SUFFICES ASSUME CycleInv, SpacedInv, [Next]_vars PROVE CycleInv' /\ SpacedInv'
  OBVIOUS
<1>1. CASE WakeTimer \/ WakeButton \/ WakeTrigger
  BY <1>1, CycleWakes
<1>2. CASE PowerOn \/ Crash \/ SoftwareRestart
  BY <1>2, CycleRestarts
<1>3. CASE Boot /\ ~BootSleepAgain
  BY <1>3, CycleBoots
<1>4. CASE Sleep \/ BootSleepAgain
  BY <1>4, SleepFindsQueue, CycleSleeps
<1>5. CASE Work
  BY <1>5, CycleWorks
<1>6. CASE SetClock \/ SetCapture \/ SetUpload \/ Click
  BY <1>6, CycleSettings
<1>7. CASE UNCHANGED vars
  BY <1>7
  DEF CycleInv, WakeInv, ModeInv, TodoInv, TimeInv, SpacedInv, TypeOK, AlwaysWakes, AtWork,
      SnapshotDue, ScheduleDue, Restarted, HasTodo, vars, rtcVars, nvsVars, sleepVars
<1> QED
  BY <1>1, <1>2, <1>3, <1>4, <1>5, <1>6, <1>7 DEF Next, Environment

(* Two schedule runs by the timer are three hours apart, if the clock is   *)
(* only set forward (back over a run, the distance is to a time that has   *)
(* not come yet) and the timer is not early (the device then sleeps again  *)
(* for a second and runs what was queued for later).                       *)
THEOREM SchedulesSpaced ==
  ASSUME ClockSteps \subseteq Nat, "early_timer" \notin Events
  PROVE  Spec => ScheduleSpacing
<1> DEFINE Inv == CycleInv /\ SpacedInv
<1>1. Init => Inv
  BY CycleInit
<1>2. Inv /\ [Next]_vars => Inv'
  BY CycleNext
<1>3. Inv /\ [Next]_vars =>
        [reset = "timer" /\ power = "boot" /\ mode' = "schedule" /\ ~checkFlag =>
           now >= lastScheduleTime + 3 * Hour]_vars
  <2> SUFFICES ASSUME Inv, Next, reset = "timer", power = "boot", mode' = "schedule", ~checkFlag
               PROVE  now >= lastScheduleTime + 3 * Hour
    OBVIOUS
  <2>1. /\ TypeOK /\ ModeInv /\ TodoInv /\ now \in Nat /\ willWakeupTime \in Nat
        /\ lastScheduleTime \in Nat /\ wakeupTodo \in [Priorities -> Todos]
    BY DEF CycleInv, WakeInv, TypeOK
  <2>2. BootTimer
    <3>1. mode = "undefined" /\ tmpMode = "undefined"
      BY <2>1 DEF ModeInv, Restarted
    <3>2. ~(WakeTimer \/ WakeButton \/ WakeTrigger \/ PowerOn \/ Crash \/ SoftwareRestart)
      BY DEF WakeTimer, WakeButton, WakeTrigger, PowerOn, Crash, SoftwareRestart, Restart
    <3>3. ~(Work \/ Sleep \/ SetClock \/ SetCapture \/ SetUpload \/ Click)
      BY DEF Work, WorkSnapshot, WorkConfig, WorkSchedule, WorkUpload, Works, Sleep,
             SetClock, SetCapture, SetUpload, Click
    <3>4. ~(BootPowerOn \/ BootChecked \/ BootSoftware \/ BootTrigger \/ BootButton)
      BY DEF BootPowerOn, BootChecked, BootSoftware, BootTrigger, BootButton
    <3>5. ~BootSleepAgain
      BY <3>1 DEF BootSleepAgain, SleepStart
    <3> QED
      BY <3>2, <3>3, <3>4, <3>5 DEF Next, Boot, Environment
  <2>3. /\ HasTodo(wakeupTodo) /\ willWakeupTime <= now
        /\ wakeupTodo[FirstPriority(wakeupTodo)] = "schedule"
    BY <2>1, <2>2 DEF BootTimer, WakeupTimeReached, EnterMode, ModeInv, Restarted
  <2>4. ScheduleDue
    BY <2>1, <2>3, PopFirst DEF TodoInv, ScheduleDue
  <2> QED
    BY <2>1, <2>3, <2>4 DEF SpacedInv
<1> QED
  BY <1>1, <1>2, <1>3, PTL DEF Spec, ScheduleSpacing

-----------------------------------------------------------------------------
(* A capture by the timer answers a moment the settings ask for. *)

Asked(t) ==
  \/ \E u \in lastCapTime + 1 .. t : CaptureSlot(u)
  \/ capture.anchor = NoAnchor /\ lastCapTime = 0

CaptureInv ==
  /\ snapshotFailed = FALSE
  /\ SnapshotDue => Asked(willWakeupTime)
  /\ snapType = "timer" /\ power = "awake" => Asked(now)

(* The settings' lists of times, if not empty, have one that is a time. *)
TimesAreTimes ==
  \A c \in CaptureSettings :
    c.bScheCap /\ c.scheCapMode = 0 /\ c.timedNodes # <<>> => SomeTimeValid(c.timedNodes)

LEMMA CaptureIsAsked ==
  ASSUME TimesAreTimes, TypeOK, snapshotFailed = FALSE, NEW t \in Nat, lastCapTime < t,
         CaptureWakeup(t) # 0
  PROVE  Asked(t + CaptureWakeup(t))
<1> DEFINE w == CaptureWakeup(t)
<1>1. /\ capture.timedNodes \in Seq(TimedNode) /\ capture.scheCapMode \in {0, 1}
      /\ capture.intervalValue \in Nat /\ capture.intervalUnit \in Nat
      /\ capture \in CaptureSettings /\ capture \in CapAttr
      /\ lastCapTime \in Nat
  BY SettingsAreTyped DEF TypeOK, CapAttr
<1>2. capture.bScheCap
  BY DEF CaptureWakeup, CalculateCaptureWakeup
<1>3. w \in Nat
  BY <1>1, CaptureRange DEF CaptureWakeup
<1>4. CASE capture.scheCapMode = 0
  <2>1. w = FindMostRecentTimeInterval(capture.timedNodes, t)
    BY <1>2, <1>4 DEF CaptureWakeup, CalculateCaptureWakeup
  <2>2. capture.timedNodes # <<>>
    BY <2>1 DEF FindMostRecentTimeInterval
  <2>3. SomeTimeValid(capture.timedNodes)
    BY <1>1, <1>2, <1>4, <2>2 DEF TimesAreTimes
  <2>4. AtAnyNode(capture.timedNodes, t) \/ AtAnyNode(capture.timedNodes, t + w)
    BY <1>1, <2>1, <2>3, TimedIsNext
  <2>5. CaptureSlot(t) \/ CaptureSlot(t + w)
    BY <1>2, <1>4, <2>4 DEF CaptureSlot
  <2> HIDE DEF w
  <2>6. t \in lastCapTime + 1 .. t + w /\ t + w \in lastCapTime + 1 .. t + w
    BY <1>1, <1>3
  <2>7. Asked(t + w)
    BY <2>5, <2>6 DEF Asked
  <2> QED
    BY <2>7 DEF w
<1>5. CASE capture.scheCapMode = 1
  <2>1. w = IntervalWakeup(capture, lastCapTime, snapshotFailed, t)
    BY <1>2, <1>5 DEF CaptureWakeup, CalculateCaptureWakeup
  <2>2. Interval > 0
    <3>1. Interval # 0
      BY <2>1 DEF IntervalWakeup, Interval
    <3>2. Interval \in Nat
      BY <1>1, IntervalRange DEF Interval
    <3> QED
      BY <3>1, <3>2
  <2>3. NextInterval(t, w)
    BY <2>1, <2>2, IntervalIsNext
  <2> HIDE DEF w
  <2>4. \/ \E u \in Nat : lastCapTime < u /\ u <= t + w /\ AtInterval(u)
        \/ capture.anchor = NoAnchor /\ lastCapTime = 0
    BY <1>1, <2>3 DEF NextInterval
  <2>5. ASSUME NEW u \in Nat, lastCapTime < u, u <= t + w, AtInterval(u)
        PROVE  Asked(t + w)
    <3>1. CaptureSlot(u)
      BY <1>2, <1>5, <2>5 DEF CaptureSlot
    <3>2. u \in lastCapTime + 1 .. t + w
      BY <1>1, <1>3, <2>5
    <3> QED
      BY <3>1, <3>2 DEF Asked
  <2>6. Asked(t + w)
    BY <2>4, <2>5 DEF Asked
  <2> QED
    BY <2>6 DEF w
<1> QED
  BY <1>1, <1>4, <1>5

LEMMA AskedLater ==
  ASSUME NEW s \in Nat, NEW t \in Nat, s <= t, lastCapTime \in Nat, Asked(s)
  PROVE  Asked(t)
<1>1. lastCapTime + 1 .. s \subseteq lastCapTime + 1 .. t
  OBVIOUS
<1> QED
  BY <1>1 DEF Asked

LEMMA SlotsStay ==
  ASSUME UNCHANGED <<capture, lastCapTime>>
  PROVE  \A u : CaptureSlot(u)' <=> CaptureSlot(u)
  BY DEF CaptureSlot, AtAnyNode, AtNode, AtInterval, Interval

LEMMA NoSnapshotFails ==
  ASSUME "snapshot_fails" \notin Events, MayFail
  PROVE  snapshotFailed' = FALSE
<1>1. snapshotFailed' = FALSE \/ snapshotFailed' = ("snapshot_fails" \in Events)
  BY Zenon DEF MayFail
<1>2. ("snapshot_fails" \in Events) = FALSE
  OBVIOUS
<1> QED
  BY <1>1, <1>2

LEMMA CaptureBoots ==
  ASSUME CycleInv, CaptureInv, Boot, ~BootSleepAgain
  PROVE  CaptureInv'
<1>1. /\ TypeOK /\ ModeInv /\ TodoInv
      /\ now \in Nat /\ willWakeupTime \in Nat /\ lastCapTime \in Nat
      /\ wakeupTodo \in [Priorities -> Todos]
  BY DEF CycleInv, WakeInv, TypeOK
<1>2. /\ UNCHANGED <<capture, lastCapTime, now, willWakeupTime, snapshotFailed>>
      /\ wakeupTodo'[0] = "snapshot" => wakeupTodo[0] = "snapshot"
      /\ snapType' = "timer" /\ power' = "awake" => Asked(now)
  <2>1. CASE BootPowerOn
    BY <2>1 DEF BootPowerOn, ShortSleep, nvsVars
  <2>2. CASE BootChecked
    BY <2>2 DEF BootChecked, EnterMode, nvsVars
  <2>3. CASE BootSoftware
    BY <2>3 DEF BootSoftware, EnterMode, rtcVars, nvsVars
  <2>4. CASE BootTimer
    <3>1. /\ UNCHANGED <<capture, lastCapTime, now, willWakeupTime, snapshotFailed>>
          /\ HasTodo(wakeupTodo) /\ willWakeupTime <= now /\ wakeupTodo' = PopTodo(wakeupTodo)
          /\ snapType' = "timer" => wakeupTodo[FirstPriority(wakeupTodo)] = "snapshot"
      BY <2>4 DEF BootTimer, EnterMode, WakeupTimeReached, nvsVars
    <3>2. /\ wakeupTodo'[0] = "nothing"
          /\ snapType' = "timer" => wakeupTodo[0] = "snapshot"
      BY <1>1, <3>1, PopFirst DEF TodoInv
    <3>3. snapType' = "timer" => Asked(now)
      BY <1>1, <3>1, <3>2, AskedLater DEF CaptureInv, SnapshotDue
    <3> QED
      BY <3>1, <3>2, <3>3
  <2>5. CASE BootTrigger
    BY <2>5, NothingQueued DEF BootTrigger, EnterMode, nvsVars
  <2>6. CASE BootButton
    BY <2>6 DEF BootButton, EnterMode, rtcVars, nvsVars
  <2> QED
    BY <2>1, <2>2, <2>3, <2>4, <2>5, <2>6 DEF Boot
<1>3. \A u : CaptureSlot(u)' <=> CaptureSlot(u)
  BY <1>2, SlotsStay
<1>4. (SnapshotDue => Asked(willWakeupTime))'
  BY <1>2, <1>3 DEF CaptureInv, SnapshotDue, Asked
<1>5. (snapType = "timer" /\ power = "awake" => Asked(now))'
  BY <1>2, <1>3 DEF Asked
<1> QED
  BY <1>2, <1>4, <1>5 DEF CaptureInv

LEMMA CaptureSleeps ==
  ASSUME TimesAreTimes, CycleInv, CaptureInv, Sleep \/ BootSleepAgain
  PROVE  CaptureInv'
<1>1. PICK t \in Nat :
        /\ SleepStart(t) /\ now <= t
        /\ HasTodo(wakeupTodo) => ~SnapshotDue
        /\ HasTodo(wakeupTodo) \/ now < t
  BY SleepFindsQueue
<1>2. /\ TypeOK /\ now \in Nat /\ lastCapTime \in Nat /\ lastCapTime <= now
      /\ snapshotFailed = FALSE
  BY DEF CycleInv, WakeInv, TypeOK, TimeInv, CaptureInv
<1>3. power' = "asleep" /\ snapshotFailed' = FALSE /\ UNCHANGED <<capture, lastCapTime>>
  BY <1>1, <1>2, SleepStartArms
<1>4. CASE HasTodo(wakeupTodo)
  <2>1. wakeupTodo' = wakeupTodo /\ ~SnapshotDue
    BY <1>1, <1>2, <1>4, SleepStartArms
  <2> QED
    BY <1>3, <2>1 DEF CaptureInv, SnapshotDue
<1>5. CASE ~HasTodo(wakeupTodo)
  <2>1. lastCapTime < t
    BY <1>1, <1>2, <1>5
  <2>2. wakeupTodo'[0] = "snapshot" =>
          CaptureWakeup(t) # 0 /\ willWakeupTime' = t + CaptureWakeup(t)
    BY <1>1, <1>2, <1>5, SleepStartQueues
  <2>3. wakeupTodo'[0] = "snapshot" => Asked(t + CaptureWakeup(t))
    BY <1>2, <2>1, <2>2, CaptureIsAsked
  <2>4. \A u : CaptureSlot(u)' <=> CaptureSlot(u)
    BY <1>3, SlotsStay
  <2>5. (SnapshotDue => Asked(willWakeupTime))'
    BY <1>3, <2>2, <2>3, <2>4 DEF SnapshotDue, Asked
  <2> QED
    BY <1>3, <2>5 DEF CaptureInv
<1> QED
  BY <1>4, <1>5

LEMMA CaptureNext ==
  ASSUME TimesAreTimes, "snapshot_fails" \notin Events, CycleInv, CaptureInv, [Next]_vars
  PROVE  CaptureInv'
<1>1. /\ TodoInv /\ wakeupTodo \in [Priorities -> Todos] /\ snapshotFailed = FALSE
  BY DEF CycleInv, WakeInv, TypeOK, CaptureInv
<1>2. CASE WakeTimer \/ WakeButton \/ WakeTrigger
  <2>1. /\ power' = "boot" /\ snapshotFailed' = FALSE /\ wakeupTodo' = wakeupTodo
        /\ willWakeupTime' = willWakeupTime
        /\ UNCHANGED <<capture, lastCapTime>>
    BY <1>2 DEF WakeTimer, WakeButton, WakeTrigger, Restart, rtcVars, nvsVars
  <2>2. \A u : CaptureSlot(u)' <=> CaptureSlot(u)
    BY <2>1, SlotsStay
  <2>3. (SnapshotDue => Asked(willWakeupTime))'
    BY <2>1, <2>2 DEF CaptureInv, SnapshotDue, Asked
  <2> QED
    BY <2>1, <2>3 DEF CaptureInv
<1>3. CASE PowerOn \/ Crash \/ SoftwareRestart
  BY <1>3, NothingQueued
  DEF PowerOn, Crash, SoftwareRestart, Restart, ResetRtcMemory, CaptureInv, SnapshotDue
<1>4. CASE Boot /\ ~BootSleepAgain
  BY <1>4, CaptureBoots
<1>5. CASE Sleep \/ BootSleepAgain
  BY <1>5, CaptureSleeps
<1>6. CASE Work
  <2>1. power = "awake" /\ power' = "done"
    BY <1>6 DEF Work, WorkSnapshot, WorkConfig, WorkSchedule, WorkUpload, Works
  <2>2. snapshotFailed' = FALSE
    BY <1>1, <1>6, NoSnapshotFails
    DEF Work, WorkSnapshot, WorkConfig, WorkSchedule, WorkUpload, Works
  <2>3. wakeupTodo' = IF mode = "config" THEN NoTodo ELSE wakeupTodo
    BY <1>6 DEF Work, WorkSnapshot, WorkConfig, WorkSchedule, WorkUpload, Works, rtcVars
  <2>4. ~SnapshotDue'
    BY <1>1, <2>1, <2>3, NothingQueued DEF TodoInv, AtWork, SnapshotDue
  <2> QED
    BY <2>1, <2>2, <2>4 DEF CaptureInv
<1>7. CASE SetClock \/ SetCapture \/ SetUpload
  <2>1. power = "done" /\ power' = "done" /\ wakeupTodo' = wakeupTodo /\ snapshotFailed' = FALSE
    BY <1>1, <1>7 DEF SetClock, SetCapture, SetUpload, rtcVars
  <2>2. ~SnapshotDue'
    BY <1>1, <2>1, NothingQueued DEF TodoInv, AtWork, SnapshotDue
  <2> QED
    BY <2>1, <2>2 DEF CaptureInv
<1>8. CASE Click
  <2>1. power' = "asleep" /\ snapshotFailed' = FALSE /\ wakeupTodo' = [wakeupTodo EXCEPT ![0] = "config"]
    BY <1>1, <1>8 DEF Click, ShortSleep
  <2>2. ~SnapshotDue'
    BY <1>1, <2>1 DEF SnapshotDue, Priorities
  <2> QED
    BY <2>1, <2>2 DEF CaptureInv
<1>9. CASE UNCHANGED vars
  <2>1. /\ UNCHANGED <<capture, lastCapTime, wakeupTodo, willWakeupTime, snapshotFailed,
                       snapType, power, now>>
    BY <1>9 DEF vars, rtcVars, nvsVars
  <2>2. \A u : CaptureSlot(u)' <=> CaptureSlot(u)
    BY <2>1, SlotsStay
  <2> QED
    BY <2>1, <2>2 DEF CaptureInv, SnapshotDue, Asked
<1> QED
  BY <1>2, <1>3, <1>4, <1>5, <1>6, <1>7, <1>8, <1>9 DEF Next, Environment

(* Each capture by the timer answers a moment the settings ask for that no *)
(* earlier one has answered: what the queue holds was chosen for such a    *)
(* moment, and the capture before it is remembered.  It is so if the clock *)
(* is only set forward, no timer is early, the camera does not fail (it    *)
(* then tries again, a second later), and a list of times has one that     *)
(* is a time (of a list with none, the second after every capture is next).*)
THEOREM OneCaptureEach ==
  ASSUME ClockSteps \subseteq Nat, "early_timer" \notin Events,
         "snapshot_fails" \notin Events, TimesAreTimes
  PROVE  Spec => OneCapturePerSlot
<1> DEFINE Inv == CycleInv /\ SpacedInv /\ CaptureInv
<1>1. Init => Inv
  <2>1. Init => CaptureInv
    BY NothingQueued DEF Init, CaptureInv, SnapshotDue
  <2> QED
    BY <2>1, CycleInit
<1>2. Inv /\ [Next]_vars => Inv'
  BY CycleNext, CaptureNext
<1>3. Inv /\ [Next]_vars =>
        [snapType = "timer" /\ power = "awake" /\ power' = "done" =>
           \/ \E t \in lastCapTime + 1 .. now : CaptureSlot(t)
           \/ capture.anchor = NoAnchor /\ lastCapTime = 0]_vars
  BY DEF CaptureInv, Asked
<1> QED
  BY <1>1, <1>2, <1>3, PTL DEF Spec, OneCapturePerSlot
=============================================================================
