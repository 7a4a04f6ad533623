------------------------------- MODULE Indicator ------------------------------
(***************************************************************************)
(* The LED of misc.c in config mode: a steady indicator that blinks,       *)
(* breathes while a provisioning task runs, and gives way to the flash;    *)
(* and the button, whose callbacks run in the task of the timers (as       *)
(* pwm_timer_cb does), one at a time.  Every action that touches g_misc.led *)
(* is one critical section of its mutex.  Duties are left out.             *)
(***************************************************************************)
EXTENDS Naturals

CONSTANTS
  MaxBlinks,   \* bound: blinks in a row (5 in the code)
  DppTasks     \* bound: provisioning tasks at a time

ASSUME MaxBlinksAssumption == MaxBlinks \in 1 .. 254

VARIABLES
  led,         \* g_misc.led
  pwm,         \* what misc_pwm_set_duty_pct set last
  timerTask,   \* the task of the timers: "free", or the callback it is in
  dppPc,       \* where each dpp_pb_task is
  snap,        \* the misc_led_snapshot_t of each
  btn,         \* g_misc.btn.event: the button is held or not
  reset_flag,  \* a factory reset is armed
  unsteady     \* history: an LED that was not steadily lit has been saved

ledVars == <<led, pwm>>
indicatorVars == <<led, pwm, timerTask, dppPc, snap, btn, reset_flag, unsteady>>

Forever == 255   \* MISC_LED_BLINK_FOREVER

Leds ==
  [mode : {"light", "flash"}, hold_on : BOOLEAN, light_state : BOOLEAN,
   light_update : BOOLEAN, effect : {"none", "blink", "breath"},
   blink_cnt : 0 .. MaxBlinks \cup {Forever}, timer_state : BOOLEAN]

Snapshots == [mode : {"light", "flash"}, hold_on : BOOLEAN, light_state : BOOLEAN]
NoSnapshot == [mode |-> "light", hold_on |-> FALSE, light_state |-> FALSE]

TimerPlaces ==
  {"free", "pwm_timer_cb", "snapshot", "blink", "http_timer", "wifi_timer"}
DppPlaces == {"idle", "save", "breathe", "clear", "run", "blink", "restore", "end"}

SteadilyLit == led.mode = "light" /\ led.hold_on

-----------------------------------------------------------------------------
\* What misc.c does to the LED.  Its callers say what happens to the rest.

\* misc_led_able(1)
LedAble ==
  /\ led' = [led EXCEPT !.effect = "none", !.hold_on = TRUE, !.light_state = TRUE,
                        !.light_update = TRUE]
  /\ UNCHANGED pwm

\* misc_led_off
LedOff ==
  /\ led' = [mode |-> "light", hold_on |-> FALSE, light_state |-> FALSE,
             light_update |-> FALSE, effect |-> "none", blink_cnt |-> 0,
             timer_state |-> FALSE]
  /\ pwm' = "off"

\* misc_led_blink
LedBlink(count) ==
  /\ led' = [led EXCEPT !.effect = "blink", !.hold_on = FALSE, !.light_state = TRUE,
                        !.blink_cnt = count, !.timer_state = TRUE, !.light_update = TRUE]
  /\ UNCHANGED pwm

\* misc_flash_led_open
FlashOpen == led' = [led EXCEPT !.mode = "flash"] /\ pwm' = "flash"

(* Mutant of FlashClose: the indicator is not lit again. *)
FlashCloseDark ==
  IF led.mode # "flash" THEN UNCHANGED ledVars
  ELSE /\ led' = [led EXCEPT !.mode = "light"]
       /\ pwm' = "off"

\* misc_flash_led_close
FlashClose ==
  IF led.mode # "flash" THEN UNCHANGED ledVars
  ELSE /\ led' = [led EXCEPT !.mode = "light", !.light_update = TRUE,
                             !.light_state = @ \/ led.hold_on]
       /\ pwm' = "off"

\* misc_get_light_value_rate keeps the mutex while the LED is off.
LightSample ==
  IF led.mode = "light" /\ (led.hold_on \/ led.light_state)
  THEN led' = [led EXCEPT !.light_update = TRUE] /\ pwm' = "off"
  ELSE UNCHANGED ledVars

\* camera_flash_led_ctrl.  The light that decides in mode 0 is sampled before;
\* what the sample leaves to do, opening the flash replaces.
FlashControl == LightSample \/ FlashOpen \/ FlashClose

-----------------------------------------------------------------------------
\* The task of the timers: pwm_timer_cb and the button's callbacks

RestUnchanged == UNCHANGED <<dppPc, snap, btn, reset_flag, unsteady>>

\* The LED's timer fires; its callback waits for the mutex, and goes on even if
\* the timer is stopped meanwhile.
PwmTimerFires ==
  /\ timerTask = "free" /\ led.timer_state
  /\ timerTask' = "pwm_timer_cb"
  /\ UNCHANGED ledVars /\ RestUnchanged

(* Mutant of PwmTimerCb: the last blink does not count. *)
PwmTimerCbOffByOne ==
  /\ timerTask = "pwm_timer_cb" /\ timerTask' = "free"
  /\ led' = IF led.blink_cnt > 0 /\ ~led.light_state
            THEN [led EXCEPT !.light_state = TRUE, !.light_update = TRUE]
            ELSE [led EXCEPT !.light_state = FALSE,
                             !.blink_cnt = IF @ \in {0, 1, Forever} THEN @ ELSE @ - 1]
  /\ UNCHANGED pwm /\ RestUnchanged

(* Mutant of PwmTimerCb: endless blinks are counted. *)
PwmTimerCbCounts ==
  /\ timerTask = "pwm_timer_cb" /\ timerTask' = "free"
  /\ led' = IF led.blink_cnt > 0 /\ ~led.light_state
            THEN [led EXCEPT !.light_state = TRUE, !.light_update = TRUE]
            ELSE [led EXCEPT !.light_state = FALSE,
                             !.blink_cnt = IF led.light_state /\ @ > 0 THEN @ - 1 ELSE @]
  /\ UNCHANGED pwm /\ RestUnchanged

PwmTimerCb ==
  /\ timerTask = "pwm_timer_cb" /\ timerTask' = "free"
  /\ led' = IF led.blink_cnt > 0 /\ ~led.light_state
            THEN [led EXCEPT !.light_state = TRUE, !.light_update = TRUE]
            ELSE [led EXCEPT !.light_state = FALSE,
                             !.blink_cnt = IF @ \in {0, Forever} THEN @ ELSE @ - 1]
  /\ UNCHANGED pwm /\ RestUnchanged

\* button_single_click_cb in config mode: camera_snapshot with its flash ...
Click ==
  /\ timerTask = "free" /\ btn # "down"
  /\ timerTask' = "snapshot"
  /\ FlashControl
  /\ btn' = "up"
  /\ UNCHANGED <<dppPc, snap, reset_flag, unsteady>>

ClickTaken ==
  /\ timerTask = "snapshot" /\ timerTask' = "blink"
  /\ FlashClose /\ RestUnchanged

\* ... and a blink.  The timeouts it clears are WebSession's.
ClickBlinks ==
  /\ timerTask = "blink" /\ timerTask' = "free"
  /\ LedBlink(1) /\ RestUnchanged

\* button_press_down_cb, and button_press_up_cb of a press that is no click
PressDown ==
  /\ timerTask = "free" /\ btn # "down"
  /\ btn' = "down"
  /\ UNCHANGED <<led, pwm, timerTask, dppPc, snap, reset_flag, unsteady>>

PressUp ==
  /\ timerTask = "free" /\ btn = "down"
  /\ btn' = "up"
  /\ UNCHANGED <<led, pwm, timerTask, dppPc, snap, reset_flag, unsteady>>

\* button_long_press_hold_cb after ten seconds
HoldArms ==
  /\ timerTask = "free" /\ btn = "down" /\ ~reset_flag
  /\ reset_flag' = TRUE
  /\ LedBlink(MaxBlinks)
  /\ UNCHANGED <<timerTask, dppPc, snap, btn, unsteady>>

\* button_double_click_cb with HaLow; the task may not be created.
DoubleClick(d) ==
  /\ timerTask = "free" /\ btn # "down" /\ dppPc[d] = "idle"
  /\ btn' = "up"
  /\ \/ dppPc' = [dppPc EXCEPT ![d] = "save"] /\ UNCHANGED ledVars
     \/ LedBlink(MaxBlinks) /\ UNCHANGED dppPc
  /\ UNCHANGED <<timerTask, snap, reset_flag, unsteady>>

-----------------------------------------------------------------------------
\* dpp_pb_task; its bit is WebSession's.

DppGoes(d, from, to) == dppPc[d] = from /\ dppPc' = [dppPc EXCEPT ![d] = to]

\* misc_led_snapshot_save
DppSaves(d) ==
  /\ DppGoes(d, "save", "breathe")
  /\ snap' = [snap EXCEPT ![d] = [mode |-> led.mode, hold_on |-> led.hold_on,
                                  light_state |-> led.light_state]]
  /\ unsteady' = (unsteady \/ ~SteadilyLit)
  /\ UNCHANGED <<led, pwm, timerTask, btn, reset_flag>>

\* misc_led_breath_start
DppBreathes(d) ==
  /\ DppGoes(d, "breathe", "clear")
  /\ led' = [led EXCEPT !.hold_on = FALSE, !.light_state = TRUE, !.effect = "breath",
                        !.blink_cnt = 0, !.timer_state = FALSE, !.light_update = TRUE]
  /\ UNCHANGED <<pwm, timerTask, snap, btn, reset_flag, unsteady>>

\* morse_dpp_pb_run has returned.
DppSucceeds(d) ==
  /\ DppGoes(d, "run", "blink")
  /\ LedBlink(Forever)
  /\ UNCHANGED <<timerTask, snap, btn, reset_flag, unsteady>>

DppFails(d) ==
  /\ DppGoes(d, "run", "restore")
  /\ UNCHANGED <<led, pwm, timerTask, snap, btn, reset_flag, unsteady>>

DppBlinked(d) ==
  /\ DppGoes(d, "blink", "restore")
  /\ UNCHANGED <<led, pwm, timerTask, snap, btn, reset_flag, unsteady>>

\* misc_led_snapshot_restore
DppRestores(d) ==
  /\ DppGoes(d, "restore", "end")
  /\ led' = [led EXCEPT !.effect = "none", !.blink_cnt = 0, !.timer_state = FALSE,
                        !.mode = snap[d].mode, !.hold_on = snap[d].hold_on,
                        !.light_state = snap[d].light_state, !.light_update = TRUE]
  /\ snap' = [snap EXCEPT ![d] = NoSnapshot]
  /\ UNCHANGED <<pwm, timerTask, btn, reset_flag, unsteady>>

-----------------------------------------------------------------------------
\* One pass of misc_task: a step of the breath, the end of a finite blink, and
\* the output.

\* The breath has a step in each pass (DPP_BREATH_STEP_MS is the task's 20 ms).
Breathed(l) == [l EXCEPT !.light_update = @ \/ l.effect = "breath"]

\* In config mode a blink ends in the steady indicator.
Blinked(l) ==
  IF l.timer_state /\ l.blink_cnt = 0
  THEN [l EXCEPT !.timer_state = FALSE, !.effect = "none", !.hold_on = TRUE,
                 !.light_state = TRUE, !.light_update = TRUE]
  ELSE l

MiscTask ==
  LET l == Blinked(Breathed(led))
      lit == l.light_state \/ l.hold_on
  IN  /\ led' = IF l.mode = "light" /\ lit THEN [l EXCEPT !.light_update = FALSE] ELSE l
      /\ pwm' = IF l.mode # "light" THEN pwm
                ELSE IF ~lit THEN "off"
                ELSE IF l.light_update THEN "light" ELSE pwm
      /\ UNCHANGED timerTask /\ RestUnchanged

\* misc_task resets the device once the button is up and the LED has blinked.
ResetDue == reset_flag /\ btn = "up" /\ ~led.timer_state

-----------------------------------------------------------------------------
IndicatorInit ==
  /\ led = [mode |-> "light", hold_on |-> FALSE, light_state |-> FALSE,
            light_update |-> FALSE, effect |-> "none", blink_cnt |-> 0,
            timer_state |-> FALSE]
  /\ pwm = "off" /\ timerTask = "free"
  /\ dppPc = [d \in DppTasks |-> "idle"]
  /\ snap = [d \in DppTasks |-> NoSnapshot]
  /\ btn = "up" /\ reset_flag = FALSE /\ unsteady = FALSE

IndicatorTypeOK ==
  /\ led \in Leds
  /\ pwm \in {"off", "light", "flash"}
  /\ timerTask \in TimerPlaces
  /\ dppPc \in [DppTasks -> DppPlaces]
  /\ snap \in [DppTasks -> Snapshots]
  /\ btn \in {"down", "up"}
  /\ reset_flag \in BOOLEAN /\ unsteady \in BOOLEAN
=============================================================================
