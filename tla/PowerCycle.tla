----------------------------- MODULE PowerCycle -----------------------------
(***************************************************************************)
(* The life of the device from one deep sleep to the next: what wakes it,  *)
(* which mode mode_selector of main.c chooses, what the mode leaves in RTC *)
(* memory, and what sleep_start arms.  What happens inside a mode is the   *)
(* image pipeline's business and takes some time here.                     *)
(***************************************************************************)
EXTENDS WakeupCalc

CONSTANTS
  CaptureSettings,  \* the capture settings the web page may store
  UploadSettings,   \* the upload settings it may store
  ScheduleTime,     \* the daily time of the schedule run, "03:03:30"
  AwakeTimes,       \* how long a mode may take
  ClockSteps,       \* by how much NTP or the web page may move the clock
  Horizon,          \* bound: past it, no new wake-up time is calculated
  Events            \* what may happen to the device, by name

EventNames ==
  {"button", "click", "trigger", "restart", "crash", "settings", "snapshot_fails",
   "early_timer"}

ASSUME PowerCycleAssumption ==
  /\ CaptureSettings \subseteq CapAttr /\ CaptureSettings # {}
  /\ UploadSettings \subseteq UploadAttr /\ UploadSettings # {}
  /\ ScheduleTime \in [day : {7}, time : 0 .. Day - 1, valid : BOOLEAN]
  /\ AwakeTimes \subseteq Nat \ {0} /\ AwakeTimes # {}
  /\ ClockSteps \subseteq Int
  /\ Horizon \in Nat
  /\ Events \subseteq EventNames

VARIABLES
  power,             \* "asleep", "boot", "awake" (mode chosen), "done" (its work too)
  reset,             \* why the chip started: reset reason and wake-up cause
  now,               \* time(NULL)
  mode,              \* main_mode
  snapType,          \* what asked for the snapshot
  snapshotFailed,    \* camera_is_snapshot_fail()
  tmpMode,           \* g_tmpMode, which outlives every reset
  \* in RTC memory
  wakeupTodo,        \* g_wakeupTodo: an action, or "nothing", per priority
  lastCapTime, lastScheduleTime, willWakeupTime,
  checkFlag,         \* g_NetModule.check_flag
  \* in NVS
  capture, upload,
  \* the chip
  wakeSources,       \* what may end the deep sleep
  timer,             \* when its timer fires
  due                \* history: the time the actions in wakeupTodo were chosen for

rtcVars == <<wakeupTodo, lastCapTime, lastScheduleTime, willWakeupTime, checkFlag>>

nvsVars == <<capture, upload>>

sleepVars == <<wakeSources, timer, due>>

vars == <<power, reset, now, mode, snapType, snapshotFailed, tmpMode, rtcVars, nvsVars,
          sleepVars>>

-----------------------------------------------------------------------------
(* wakeupTodo_e and the priorities in use, 0 first. *)

Todos == {"nothing", "snapshot", "config", "schedule", "upload"}

ModeNames == {"snapshot", "config", "schedule", "upload"}

Priorities == 0 .. 2

NoTodo == [p \in Priorities |-> "nothing"]

(* sleep_has_wakeup_todo *)
HasTodo(todo) == todo # NoTodo

FirstPriority(todo) == Min({p \in Priorities : todo[p] # "nothing"})

(* update_wakeup_todo_list: every action that is due first, by priority. *)
QueueDue(todo, first, cap, upl, sched) ==
  [todo EXCEPT ![0] = IF cap = first THEN "snapshot" ELSE @,
               ![1] = IF upl = first THEN "upload" ELSE @,
               ![2] = IF sched = first THEN "schedule" ELSE @]

(* RTC_DATA_ATTR variables: every reset but a deep sleep initialises them. *)
ResetRtcMemory ==
  /\ wakeupTodo' = NoTodo
  /\ lastCapTime' = 0
  /\ lastScheduleTime' = 0
  /\ willWakeupTime' = 0
  /\ checkFlag' = FALSE

-----------------------------------------------------------------------------
(* Going to sleep. *)

(* calc_wakeup_time_seconds: for each of the three actions. *)
CaptureWakeup(t) == CalculateCaptureWakeup(capture, lastCapTime, snapshotFailed, t)

UploadWakeup(t) == CalculateUploadWakeup(upload, t)

ScheduleWakeup(t) == CalculateScheduleWakeup(ScheduleTime, lastScheduleTime, t)

CalcWakeupTimeSeconds(t) == EarliestOf(CaptureWakeup(t), UploadWakeup(t), ScheduleWakeup(t))

(* sleep_start at time t.  A pending action is run after a second;         *)
(* otherwise the next wake-up is calculated and its actions are queued.    *)
SleepStart(t) ==
  LET pending == HasTodo(wakeupTodo)
      seconds == IF pending THEN 1 ELSE CalcWakeupTimeSeconds(t)
      sleep   == seconds - CalculateCompensation(seconds)
  IN  /\ pending \/ t <= Horizon
      /\ power' = "asleep"
      /\ now' = t
      /\ IF pending \/ seconds = 0
         THEN UNCHANGED <<wakeupTodo, due>>
         ELSE /\ wakeupTodo' = QueueDue(wakeupTodo, seconds, CaptureWakeup(t),
                                        UploadWakeup(t), ScheduleWakeup(t))
              /\ due' = t + seconds
      /\ IF sleep > 0
         THEN timer' = t + sleep /\ willWakeupTime' = t + seconds
         ELSE timer' = t /\ UNCHANGED willWakeupTime
      /\ wakeSources' = (IF sleep > 0 THEN {"timer"} ELSE {}) \cup {"button"}
                          \cup (IF capture.trigger THEN {"trigger"} ELSE {})
      /\ UNCHANGED <<reset, mode, snapType, snapshotFailed, tmpMode, lastCapTime,
                     lastScheduleTime, checkFlag, nvsVars>>

(* A sleep of 100 ms that only the timer ends, within the same second. *)
ShortSleep ==
  /\ power' = "asleep"
  /\ wakeSources' = {"timer"}
  /\ timer' = now
  /\ UNCHANGED <<now, due>>

-----------------------------------------------------------------------------
(* Starting the chip.  Everything outside RTC memory is lost. *)

Restart(cause, t) ==
  /\ power' = "boot"
  /\ reset' = cause
  /\ now' = t
  /\ mode' = "undefined"
  /\ snapType' = "undefined"
  /\ snapshotFailed' = FALSE
  /\ wakeSources' = {}
  /\ timer' = 0
  /\ UNCHANGED <<due, nvsVars>>

WakeTimer ==
  /\ power = "asleep" /\ "timer" \in wakeSources
  /\ \E t \in now .. timer :
       /\ t = timer \/ "early_timer" \in Events
       /\ Restart("timer", t)
  /\ UNCHANGED <<tmpMode, rtcVars>>

WakeButton ==
  /\ "button" \in Events
  /\ power = "asleep" /\ "button" \in wakeSources
  /\ \E t \in now .. timer : Restart("button", t)
  /\ UNCHANGED <<tmpMode, rtcVars>>

(* Alarm input and PIR both arrive as EXT1, which is reported as ALARMIN. *)
WakeTrigger ==
  /\ "trigger" \in Events
  /\ power = "asleep" /\ "trigger" \in wakeSources
  /\ \E t \in now .. timer : Restart("trigger", t)
  /\ UNCHANGED <<tmpMode, rtcVars>>

(* The battery is changed: the clock starts over, g_tmpMode is anything. *)
PowerOn ==
  /\ Restart("power_on", 0)
  /\ ResetRtcMemory
  /\ tmpMode' \in ModeNames \cup {"undefined"}

(* A panic or watchdog counts as a power-on, but the clock goes on. *)
Crash ==
  /\ "crash" \in Events
  /\ power # "asleep"
  /\ Restart("power_on", now)
  /\ ResetRtcMemory
  /\ UNCHANGED tmpMode

(* esp_restart: from the web page, or by the console command "mode". *)
SoftwareRestart ==
  /\ "restart" \in Events
  /\ power \in {"awake", "done"}
  /\ Restart("software", now)
  /\ ResetRtcMemory
  /\ tmpMode' \in ModeNames \cup {"undefined"}

-----------------------------------------------------------------------------
(* mode_selector and the branch of app_main it leads to. *)

(* Mutant of EnterMode: no look at whether a temporary mode is set. *)
EnterModeTemporary(selected, type) ==
  /\ power' = "awake"
  /\ mode' = tmpMode
  /\ tmpMode' = "undefined"
  /\ snapType' = type
  /\ UNCHANGED <<reset, now, snapshotFailed, nvsVars, sleepVars>>

EnterMode(selected, type) ==
  /\ power' = "awake"
  /\ mode' = IF tmpMode # "undefined" THEN tmpMode ELSE selected
  /\ tmpMode' = "undefined"
  /\ snapType' = type
  /\ UNCHANGED <<reset, now, snapshotFailed, nvsVars, sleepVars>>

(* handle_power_on_reset: looks for the network module, sleeps, checks in. *)
BootPowerOn ==
  /\ power = "boot" /\ reset = "power_on"
  /\ tmpMode' = "undefined"
  /\ checkFlag' = TRUE
  /\ ShortSleep
  /\ UNCHANGED <<reset, mode, snapType, snapshotFailed, wakeupTodo, lastCapTime,
                 lastScheduleTime, willWakeupTime, nvsVars>>

(* handle_network_check *)
BootChecked ==
  /\ power = "boot" /\ reset # "power_on" /\ checkFlag
  /\ checkFlag' = FALSE
  /\ EnterMode("schedule", "undefined")
  /\ UNCHANGED <<wakeupTodo, lastCapTime, lastScheduleTime, willWakeupTime>>

BootSoftware ==
  /\ power = "boot" /\ reset = "software" /\ ~checkFlag
  /\ EnterMode("config", "undefined")
  /\ UNCHANGED rtcVars

TimerBoot == power = "boot" /\ reset = "timer" /\ ~checkFlag

(* sleep_is_will_wakeup_time_reached *)
WakeupTimeReached == willWakeupTime <= now

(* Mutant of PopTodo: the whole queue is cleared, not the one entry. *)
PopTodoClearsAll(todo) == NoTodo

(* sleep_get_wakeup_todo: what is left of the queue. *)
PopTodo(todo) == [todo EXCEPT ![FirstPriority(todo)] = "nothing"]

(* Mutant of BootSleepAgain: the action is taken before the time is looked at. *)
BootSleepAgainPops ==
  /\ TimerBoot
  /\ \/ /\ ~HasTodo(wakeupTodo) /\ SleepStart(now)
     \/ /\ HasTodo(wakeupTodo) /\ ~WakeupTimeReached
        /\ wakeupTodo' = PopTodo(wakeupTodo)
        /\ ShortSleep
        /\ UNCHANGED <<reset, mode, snapType, snapshotFailed, tmpMode, lastCapTime,
                       lastScheduleTime, willWakeupTime, checkFlag, nvsVars>>

(* The time is not reached, or there is nothing to do: sleep again. *)
BootSleepAgain ==
  TimerBoot /\ ~(WakeupTimeReached /\ HasTodo(wakeupTodo)) /\ SleepStart(now)

(* handle_timer_wakeup *)
BootTimer ==
  /\ TimerBoot /\ WakeupTimeReached /\ HasTodo(wakeupTodo)
  /\ LET todo == wakeupTodo[FirstPriority(wakeupTodo)]
     IN  EnterMode(todo, IF todo = "snapshot" THEN "timer" ELSE "undefined")
  /\ wakeupTodo' = PopTodo(wakeupTodo)
  /\ UNCHANGED <<lastCapTime, lastScheduleTime, willWakeupTime, checkFlag>>

(* Mutant of BootTrigger: the action of the timer stays in the queue. *)
BootTriggerKeepsTodo ==
  /\ power = "boot" /\ reset = "trigger" /\ ~checkFlag
  /\ EnterMode("snapshot", "alarmin")
  /\ UNCHANGED rtcVars

BootTrigger ==
  /\ power = "boot" /\ reset = "trigger" /\ ~checkFlag
  /\ wakeupTodo' = NoTodo
  /\ EnterMode("snapshot", "alarmin")
  /\ UNCHANGED <<lastCapTime, lastScheduleTime, willWakeupTime, checkFlag>>

BootButton ==
  /\ power = "boot" /\ reset = "button" /\ ~checkFlag
  /\ EnterMode("config", "button")
  /\ UNCHANGED rtcVars

-----------------------------------------------------------------------------
(* What a mode does to the state that outlives it. *)

Works(m) == power = "awake" /\ mode = m /\ power' = "done"

MayFail == snapshotFailed' \in {FALSE, "snapshot_fails" \in Events}

(* handle_snapshot_mode; only a snapshot of the timer is remembered. *)
WorkSnapshot ==
  /\ Works("snapshot")
  /\ MayFail
  /\ lastCapTime' = IF snapType = "timer" THEN now ELSE lastCapTime
  /\ UNCHANGED <<reset, now, mode, snapType, tmpMode, wakeupTodo, lastScheduleTime,
                 willWakeupTime, checkFlag, nvsVars, sleepVars>>

(* handle_config_mode *)
WorkConfig ==
  /\ Works("config")
  /\ wakeupTodo' = NoTodo
  /\ IF snapType = "button" THEN MayFail ELSE UNCHANGED snapshotFailed
  /\ UNCHANGED <<reset, now, mode, snapType, tmpMode, lastCapTime, lastScheduleTime,
                 willWakeupTime, checkFlag, nvsVars, sleepVars>>

ClockMoves(step) == now + step \in 0 .. Horizon /\ now' = now + step

(* system_schedule_todo: NTP, if there is a network, then the time of it. *)
WorkSchedule ==
  /\ Works("schedule")
  /\ \/ UNCHANGED now
     \/ \E step \in ClockSteps : ClockMoves(step)
  /\ lastScheduleTime' = now'
  /\ UNCHANGED <<reset, mode, snapType, snapshotFailed, tmpMode, wakeupTodo, lastCapTime,
                 willWakeupTime, checkFlag, nvsVars, sleepVars>>

(* system_upload_todo: its time is kept but never read. *)
WorkUpload ==
  /\ Works("upload")
  /\ UNCHANGED <<reset, now, mode, snapType, snapshotFailed, tmpMode, rtcVars, nvsVars,
                 sleepVars>>

(* NTP when a link comes up (wifi.c, cat1.c), or the web page, sets the clock. *)
SetClock ==
  /\ power = "done"
  /\ \E step \in ClockSteps : ClockMoves(step)
  /\ UNCHANGED <<power, reset, mode, snapType, snapshotFailed, tmpMode, rtcVars, nvsVars,
                 sleepVars>>

(* set_cap_param_handle: new capture settings start from now. *)
SetCapture ==
  /\ "settings" \in Events
  /\ power = "done" /\ mode = "config"
  /\ capture' \in CaptureSettings
  /\ lastCapTime' = now
  /\ UNCHANGED <<power, reset, now, mode, snapType, snapshotFailed, tmpMode, wakeupTodo,
                 lastScheduleTime, willWakeupTime, checkFlag, upload, sleepVars>>

SetUpload ==
  /\ "settings" \in Events
  /\ power = "done" /\ mode = "config"
  /\ upload' \in UploadSettings
  /\ UNCHANGED <<power, reset, now, mode, snapType, snapshotFailed, tmpMode, rtcVars,
                 capture, sleepVars>>

(* button_single_click_cb outside config mode: config mode comes next. *)
Click ==
  /\ "click" \in Events
  /\ power \in {"awake", "done"} /\ mode # "config"
  /\ wakeupTodo' = [wakeupTodo EXCEPT ![0] = "config"]
  /\ ShortSleep
  /\ UNCHANGED <<reset, mode, snapType, snapshotFailed, tmpMode, lastCapTime,
                 lastScheduleTime, willWakeupTime, checkFlag, nvsVars>>

(* sleep_wait_event_bits has returned. *)
Sleep == power = "done" /\ \E d \in AwakeTimes : SleepStart(now + d)

-----------------------------------------------------------------------------
Init ==
  /\ power = "boot"
  /\ reset = "power_on"
  /\ now = 0
  /\ mode = "undefined"
  /\ snapType = "undefined"
  /\ snapshotFailed = FALSE
  /\ tmpMode \in ModeNames \cup {"undefined"}
  /\ wakeupTodo = NoTodo
  /\ lastCapTime = 0
  /\ lastScheduleTime = 0
  /\ willWakeupTime = 0
  /\ checkFlag = FALSE
  /\ capture \in CaptureSettings
  /\ upload \in UploadSettings
  /\ wakeSources = {}
  /\ timer = 0
  /\ due = 0

Boot ==
  \/ BootPowerOn \/ BootChecked \/ BootSoftware
  \/ BootSleepAgain \/ BootTimer
  \/ BootTrigger \/ BootButton

Work == WorkSnapshot \/ WorkConfig \/ WorkSchedule \/ WorkUpload

Environment ==
  \/ WakeButton \/ WakeTrigger \/ PowerOn \/ Crash \/ SoftwareRestart
  \/ SetClock \/ SetCapture \/ SetUpload \/ Click

Next == WakeTimer \/ Boot \/ Work \/ Sleep \/ Environment

Spec == Init /\ [][Next]_vars

(* The timer fires, the processor runs, and a mode ends (its waits have a  *)
(* limit of half an hour).  Nothing is assumed of the environment.         *)
Fairness == WF_vars(WakeTimer) /\ WF_vars(Boot) /\ WF_vars(Work) /\ WF_vars(Sleep)

FairSpec == Spec /\ Fairness

-----------------------------------------------------------------------------
(* Every variable has its type; no time is before the clock's start. *)
TypeOK ==
  /\ power \in {"asleep", "boot", "awake", "done"}
  /\ reset \in {"power_on", "software", "timer", "button", "trigger"}
  /\ now \in Nat
  /\ mode \in ModeNames \cup {"undefined"}
  /\ power \in {"awake", "done"} => mode \in ModeNames
  /\ snapType \in {"undefined", "timer", "alarmin", "button"}
  /\ snapshotFailed \in BOOLEAN
  /\ tmpMode \in ModeNames \cup {"undefined"}
  /\ wakeupTodo \in [Priorities -> Todos]
  /\ lastCapTime \in Nat /\ lastScheduleTime \in Nat /\ willWakeupTime \in Nat
  /\ checkFlag \in BOOLEAN
  /\ capture \in CaptureSettings /\ upload \in UploadSettings
  /\ wakeSources \subseteq {"timer", "button", "trigger"}
  /\ timer \in Nat /\ due \in Nat

(* The longest sleep: from just after one daily run to the one after next. *)
LongestSleep == 2 * Day - CalculateCompensation(2 * Day)

(* Whatever the settings are and however the clock was moved, the chip     *)
(* never sleeps without a timer, nor for more than two days: a device that *)
(* no one touches comes back (sleep_start, calculate_schedule_wakeup).     *)
AlwaysWakes ==
  power = "asleep" =>
    /\ "timer" \in wakeSources
    /\ now <= timer /\ timer <= now + LongestSleep

(* When the settings ask for a capture, an upload or a schedule run. *)
AtNode(node, t) ==
  /\ node.valid
  /\ t % Day = node.time
  /\ node.day = 7 \/ (t \div Day) % 7 = node.day

AtAnyNode(nodes, t) == \E i \in DOMAIN nodes : AtNode(nodes[i], t)

Interval == ConvertIntervalToSeconds(capture.intervalValue, capture.intervalUnit)

DaysSince(time, t) == (t - time + Day - 1) \div Day

AtInterval(t) ==
  /\ Interval > 0
  /\ IF capture.anchor = NoAnchor
     THEN lastCapTime > 0 /\ t = lastCapTime + Interval
     ELSE IF capture.intervalUnit = 2
     THEN /\ t % Day = capture.anchor
          /\ lastCapTime > 0 =>
               t > lastCapTime /\ DaysSince(lastCapTime, t) % capture.intervalValue = 0
     ELSE ((t - capture.anchor) % Day) % Interval = 0

CaptureSlot(t) ==
  /\ capture.bScheCap
  /\ IF capture.scheCapMode = 0 THEN AtAnyNode(capture.timedNodes, t) ELSE AtInterval(t)

UploadSlot(t) == upload.uploadMode = 1 /\ AtAnyNode(upload.timedNodes, t)

ScheduleSlot(t) == AtNode(ScheduleTime, t) /\ t >= lastScheduleTime + 3 * Hour

(* One of the timed settings is for this very second. *)
DueThisSecond ==
  \/ AtNode(ScheduleTime, now)
  \/ capture.bScheCap /\ capture.scheCapMode = 0 /\ AtAnyNode(capture.timedNodes, now)
  \/ upload.uploadMode = 1 /\ AtAnyNode(upload.timedNodes, now)

(* The chip never sleeps over a moment for which the settings ask for      *)
(* something: the wake-up calculation of sleep.c, the queue and the clock  *)
(* agree on what is next.  When it falls asleep in the very second of a    *)
(* timed setting they do not: see DueNowIsNext.                            *)
NeverSleepsPastASlot ==
  power = "asleep" /\ ~DueThisSecond =>
    \A t \in now + 1 .. Min({timer, willWakeupTime}) - 1 :
      ~CaptureSlot(t) /\ ~UploadSlot(t) /\ ~ScheduleSlot(t)

(* Each capture by the timer answers a moment the settings ask for that no *)
(* earlier one has answered (camera_snapshot, calculate_capture_wakeup):   *)
(* no picture is taken twice or out of turn.                               *)
OneCapturePerSlot ==
  [][snapType = "timer" /\ power = "awake" /\ power' = "done" =>
       \/ \E t \in lastCapTime + 1 .. now : CaptureSlot(t)
       \/ capture.anchor = NoAnchor /\ lastCapTime = 0]_vars

(* Two schedule runs by the timer are at least three hours apart, even     *)
(* when the first ran in the very second of the daily time.                *)
ScheduleSpacing ==
  [][reset = "timer" /\ power = "boot" /\ mode' = "schedule" /\ ~checkFlag =>
       now >= lastScheduleTime + 3 * Hour]_vars

(* No action of the timer starts before the time it was chosen for         *)
(* (mode_selector, "the time is not reached, sleep again").                *)
NothingBeforeItsTime ==
  [][TimerBoot /\ power' = "awake" /\ mode' # "config" => now >= due]_vars

(* A timed capture that is due in the second the chip goes to sleep, and   *)
(* has not been taken, is next (find_most_recent_time_interval).           *)
DueNowIsNext ==
  power = "asleep" /\ "button" \in wakeSources
    /\ capture.bScheCap /\ capture.scheCapMode = 0
    /\ AtAnyNode(capture.timedNodes, now) /\ lastCapTime < now
    => willWakeupTime <= now + 1

(* Another start of the chip came first. *)
Interrupted == power = "boot" /\ reset \in {"power_on", "software", "trigger"}

Runs(m) == power = "awake" /\ mode = m

(* After a click outside config mode the device opens config mode, also    *)
(* when it had been woken before its time (button_single_click_cb).        *)
ClickOpensConfig ==
  wakeupTodo[0] = "config" ~> Runs("config") \/ Interrupted

(* Actions that are due together are all run, one boot after the other,    *)
(* unless the user opens config mode (update_wakeup_todo_list).            *)
QueuedActionsRun ==
  \A p \in Priorities :
    LET m == <<"snapshot", "upload", "schedule">>[p + 1]
    IN  wakeupTodo[p] = m ~> Runs(m) \/ Runs("config") \/ Interrupted
=============================================================================
