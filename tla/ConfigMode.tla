------------------------------ MODULE ConfigMode ------------------------------
(***************************************************************************)
(* One boot in config mode: the main task opens it and waits for the bits  *)
(* that let the device sleep, next to misc_task, the task of the timers,   *)
(* the web server, the access point, the console and the provisioning      *)
(* tasks.  It ends in deep sleep or by a restart.  The bits of the camera  *)
(* and the upload are ImagePipeline's; the half-hour limit is left out.    *)
(***************************************************************************)
EXTENDS Indicator, WebSession

CONSTANTS UseSets   \* bound: what the users of one boot do, sets of UseNames

UseNames ==
  {"request", "live_view", "light", "sleep", "reset", "upgrade", "access_point",
   "debug", "tcp_test", "button_boot", "click", "hold", "provision"}

ASSUME UsesAssumption == UseSets \subseteq SUBSET UseNames

VARIABLES
  mainPc,  \* the main task, and the end of the boot
  uses     \* what the users do in this one

vars == <<indicatorVars, webVars, mainPc, uses>>

MainPlaces ==
  {"config", "http", "network", "camera", "snapshot", "bits", "wait", "sleep", "dark",
   "asleep", "restarted"}

Over == mainPc \in {"asleep", "restarted"}

-----------------------------------------------------------------------------
\* handle_config_mode

MainGoes(from, to) == mainPc = from /\ mainPc' = to /\ UNCHANGED uses

OnlyLed(A) ==
  A /\ UNCHANGED <<timerTask, dppPc, snap, btn, reset_flag, unsteady, webVars>>

MainLed == MainGoes("config", "http") /\ OnlyLed(LedAble)
MainHttp == MainGoes("http", "network") /\ HttpOpen /\ UNCHANGED indicatorVars
MainNetwork ==
  MainGoes("network", "camera") /\ ApOpen("access_point" \in uses) /\ UNCHANGED indicatorVars

MainCamera ==
  /\ "button_boot" \notin uses
  /\ MainGoes("camera", "bits") /\ UNCHANGED <<indicatorVars, webVars>>

\* A boot by the button takes a snapshot.
MainSnapshot ==
  "button_boot" \in uses /\ MainGoes("camera", "snapshot") /\ OnlyLed(FlashControl)
MainTaken == MainGoes("snapshot", "bits") /\ OnlyLed(FlashClose)

MainBits == MainGoes("bits", "wait") /\ DppBit(TRUE) /\ UNCHANGED indicatorVars

\* sleep_wait_event_bits, and the beginning of sleep_start; what follows before
\* deep sleep takes a while.
MainWakes == MainGoes("wait", "sleep") /\ WaitReturns /\ UNCHANGED indicatorVars
MainDark == MainGoes("sleep", "dark") /\ OnlyLed(LedOff)
MainSleeps == MainGoes("dark", "asleep") /\ OnlyLed(FlashClose)

Main ==
  \/ MainLed \/ MainHttp \/ MainNetwork
  \/ MainCamera \/ MainSnapshot \/ MainTaken \/ MainBits
  \/ MainWakes \/ MainDark \/ MainSleeps

-----------------------------------------------------------------------------
\* The task of the timers, with the button's callbacks

TimerGoes(from, to) ==
  /\ timerTask = from /\ timerTask' = to
  /\ UNCHANGED <<led, pwm, dppPc, snap, btn, reset_flag, unsteady>>

\* Every second, from http_open on.
Second == TimerGoes("free", "http_timer") /\ HttpTickReads
HttpTimer == TimerGoes("http_timer", IF apTimer THEN "wifi_timer" ELSE "free") /\ HttpTickWrites
WifiTimer == TimerGoes("wifi_timer", "free") /\ ApTick

Ticking == timerTask = "http_timer"

OnlyIndicator(A) == A /\ UNCHANGED webVars

Callback ==
  /\ ~Over /\ UNCHANGED <<mainPc, uses>>
  /\ \/ HttpTimer \/ WifiTimer
     \/ OnlyIndicator(PwmTimerCb \/ ClickTaken)
     \/ ClickBlinks /\ SnapshotCounts

\* Each timer fires when its time comes.
SecondPasses == ~Over /\ mainPc \notin {"config", "http"} /\ Second /\ UNCHANGED <<mainPc, uses>>
LedFires == ~Over /\ OnlyIndicator(PwmTimerFires) /\ UNCHANGED <<mainPc, uses>>

-----------------------------------------------------------------------------
\* misc_task

Misc ==
  /\ ~Over
  /\ IF ResetDue
     THEN mainPc' = "restarted" /\ UNCHANGED <<indicatorVars, webVars, uses>>
     ELSE OnlyIndicator(MiscTask) /\ UNCHANGED <<mainPc, uses>>

-----------------------------------------------------------------------------
\* dpp_pb_task

DppGoesOn(d, from, to) ==
  DppGoes(d, from, to) /\ UNCHANGED <<led, pwm, timerTask, snap, btn, reset_flag, unsteady>>

DppLed(d) ==
  \/ DppSaves(d) \/ DppBreathes(d)
  \/ DppSucceeds(d) \/ DppFails(d) \/ DppBlinked(d) \/ DppRestores(d)

DppBits(d) ==
  \/ DppGoesOn(d, "clear", "run") /\ DppBit(FALSE)
  \/ DppGoesOn(d, "end", "idle") /\ DppBit(TRUE)

Provisioner(d) ==
  ~Over /\ UNCHANGED <<mainPc, uses>> /\ (OnlyIndicator(DppLed(d)) \/ DppBits(d))

-----------------------------------------------------------------------------
\* The web server's tasks

OnlyWeb(A) == A /\ UNCHANGED <<indicatorVars, mainPc, uses>>

\* get_light_param_handle and set_light_param_handle
Light ==
  /\ Request(Ticking) /\ FlashControl
  /\ UNCHANGED <<timerTask, dppPc, snap, btn, reset_flag, unsteady, mainPc, uses>>

\* system_restart at the end of a reset or an upgrade
WebRestarts ==
  /\ webPc = "reset" \/ webPc = "upgrade"
  /\ mainPc' = "restarted"
  /\ UNCHANGED <<indicatorVars, webVars, uses>>

WebEnds == ~Over /\ (OnlyWeb(SleepAsked) \/ (webPc = "reset" /\ WebRestarts))

-----------------------------------------------------------------------------
\* What the users do, if they do

Web ==
  \/ "request" \in uses /\ OnlyWeb(Request(Ticking))
  \/ "live_view" \in uses /\ OnlyWeb(LiveView(Ticking))
  \/ "light" \in uses /\ Light
  \/ "sleep" \in uses /\ OnlyWeb(RequestEnd("sleep", Ticking))
  \/ "reset" \in uses /\ OnlyWeb(RequestEnd("reset", Ticking))
  \/ "upgrade" \in uses /\ OnlyWeb(UpgradeBegins)
  \/ OnlyWeb(UpgradeFails)
  \/ webPc = "upgrade" /\ WebRestarts

Console ==
  \/ "debug" \in uses /\ \E off \in BOOLEAN : OnlyWeb(Debug(off))
  \/ "tcp_test" \in uses /\ OnlyWeb(TcpTest)

Button ==
  /\ \/ "click" \in uses /\ Click
     \/ "hold" \in uses /\ (PressDown \/ PressUp \/ HoldArms)
     \/ "provision" \in uses /\ \E d \in DppTasks : DoubleClick(d)
  /\ UNCHANGED <<webVars, mainPc, uses>>

Use ==
  /\ mainPc \in {"camera", "snapshot", "bits", "wait", "sleep", "dark"}
  /\ \/ Web \/ Console \/ Button
     \/ "access_point" \in uses /\ OnlyWeb(ApUser)

-----------------------------------------------------------------------------
Init == IndicatorInit /\ WebInit /\ mainPc = "config" /\ uses \in UseSets

Next ==
  \/ Main \/ Callback \/ SecondPasses \/ LedFires \/ Misc \/ WebEnds \/ Use
  \/ \E d \in DppTasks : Provisioner(d)

Spec == Init /\ [][Next]_vars

\* The tasks are scheduled, provisioning and requests end (an upgrade need not),
\* and a periodic timer fires again and again, whatever other timers do.
Fairness ==
  /\ WF_vars(Main) /\ WF_vars(Misc) /\ WF_vars(Callback) /\ WF_vars(WebEnds)
  /\ SF_vars(SecondPasses) /\ SF_vars(LedFires)
  /\ \A d \in DppTasks : WF_vars(Provisioner(d))

FairSpec == Spec /\ Fairness

-----------------------------------------------------------------------------
TypeOK == IndicatorTypeOK /\ WebTypeOK /\ mainPc \in MainPlaces /\ uses \in UseSets

(* "CONFIG mode uses hold_on for a steady indicator" (misc_task): whatever  *)
(* blinks, breathes and flashes have come over each other, between them the *)
(* indicator is lit or about to be, and the LED is in flash mode only while *)
(* the flash is lit.  A provisioning task that saved another indicator than *)
(* the steady one brings that back instead.                                 *)
IndicatorStays ==
  mainPc \notin {"config", "dark"} /\ ~Over /\ ~unsteady =>
    /\ led.mode = "flash" => pwm = "flash"
    /\ led.mode = "light" /\ led.effect = "none" /\ ~led.timer_state =>
         /\ led.hold_on \/ led.light_state
         /\ pwm = "light" \/ led.light_update

(* "Seconds since last client activity" (http.c): the device does not sleep *)
(* until it has been unused for the time of the timer that applies, unless  *)
(* it was asked to, or the timer did not take notice of the last use.       *)
SleepsWhenUnused ==
  [][mainPc = "wait" /\ mainPc' = "sleep" =>
       asked \/ uncounted \/ quiet >= (IF hasClient THEN WebTimeout ELSE ApTimeout)]_vars

Debugging == "no_debug" \notin bits

ResetArmed == reset_flag /\ btn = "up"

(* A provisioning task that breathes is seen to do so: a tick of the blink  *)
(* it stopped, which waited for the mutex, puts the LED out for all of it.  *)
BreathIsSeen == led.effect = "breath" => led.light_state

(* The device does not fall asleep while it writes a new firmware.          *)
UpgradeIsNotCut == mainPc = "asleep" => webPc # "upgrade"

(* Once the users leave it alone, config mode ends: with the factory reset  *)
(* if one is armed (misc_task, "Waiting for the light task to complete"),   *)
(* or else in deep sleep, however the provisioning, the requests and the    *)
(* access point were left, unless debugging is on.                          *)
EndsWhenLeft ==
  <>[][~Use]_vars => <>Over \/ <>[](Debugging /\ ~ResetArmed)
=============================================================================
